-------------------------------- MODULE MCHost --------------------------------
(***************************************************************************)
(* The tools of the host for TLC: the collector, the fleet that starts it, *)
(* the publisher, the firmware the relay keeps, and the reader of card     *)
(* files.  They share files, not variables, so a behaviour is one tool's   *)
(* and leaves the others in an initial state.                              *)
(***************************************************************************)
EXTENDS Collector, Fleet, Publish, FirmwareStore, Reader, TLC

CONSTANTS a1, b1, a2, b2, u1, u2, u3, u4

(* Two cards with files of the same two names: one sound and one that does *)
(* not parse, two torn ones of different length.                           *)
MCName == a1 :> 1 @@ b1 :> 1 @@ a2 :> 2 @@ b2 :> 2
MCCard == a1 :> "A" @@ a2 :> "A" @@ b1 :> "B" @@ b2 :> "B"
MCSize == a1 :> 2 @@ b1 :> 2 @@ a2 :> 2 @@ b2 :> 1
MCKind == a1 :> "whole" @@ b1 :> "bad" @@ a2 :> "torn" @@ b2 :> "torn"

(* The first image is uploaded a second time.                              *)
MCImage == u1 :> 1 @@ u2 :> 2 @@ u3 :> 3 @@ u4 :> 1

VARIABLE tool

hostVars == <<collectorVars, fleetVars, publishVars, firmwareVars, readerVars, tool>>

HostInit ==
    /\ CollectorInit /\ FleetInit /\ PublishInit /\ FirmwareInit /\ ReaderInit
    /\ tool \in {"collector", "fleet", "publish", "firmware", "reader"}
    /\ tool = "collector" \/ inserted = "A"
    /\ tool = "fleet" \/ \A d \in Devices : token[d] = "none"

Collecting(A) == tool = "collector" /\ A /\ UNCHANGED <<fleetVars, publishVars, firmwareVars, readerVars, tool>>
Keeping(A) == tool = "fleet" /\ A /\ UNCHANGED <<collectorVars, publishVars, firmwareVars, readerVars, tool>>
Telling(A) == tool = "publish" /\ A /\ UNCHANGED <<collectorVars, fleetVars, firmwareVars, readerVars, tool>>
Storing(A) == tool = "firmware" /\ A /\ UNCHANGED <<collectorVars, fleetVars, publishVars, readerVars, tool>>
Checking(A) == tool = "reader" /\ A /\ UNCHANGED <<collectorVars, fleetVars, publishVars, firmwareVars, tool>>

HostNext == Collecting(CollectorNext) \/ Keeping(FleetNext) \/ Telling(PublishNext)
            \/ Storing(FirmwareNext) \/ Checking(ReaderNext)

HostSpec == HostInit /\ [][HostNext]_hostVars
=============================================================================
