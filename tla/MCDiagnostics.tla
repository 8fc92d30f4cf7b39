---------------------------- MODULE MCDiagnostics ----------------------------
(***************************************************************************)
(* The diagnostic clients for TLC: the ISO-TP transport, the CCP master    *)
(* and the UDS client, whose module abstracts the transport below it.  A   *)
(* behaviour exercises one of them (client) and leaves the others in their *)
(* initial states.                                                         *)
(***************************************************************************)
EXTENDS IsoTp, Ccp, MCUds

(* Frames per message: two segmented ones, one of them longer than the     *)
(* numbering, one single frame, one too large for the receiver.            *)
MCSize == [m \in Messages |->
  CASE m = "a" -> 5 [] m = "b" -> 3 [] m = "s" -> 1 [] m = "big" -> 6]

VARIABLE client

diagVars == <<isoVars, ccpVars, udsVars, client>>

(* Only the client taken starts with a configuration of its own.           *)
Init ==
  /\ IsoInit /\ CcpInit /\ UdsInit
  /\ client \in {"isotp", "ccp", "uds"}
  /\ client # "uds" => polled = {}

Transport(A) == client = "isotp" /\ A /\ UNCHANGED <<ccpVars, udsVars, client>>
Master(A) == client = "ccp" /\ A /\ UNCHANGED <<isoVars, udsVars, client>>
Uds(A) == client = "uds" /\ A /\ UNCHANGED <<isoVars, ccpVars, client>>

Next == Transport(IsoNext) \/ Master(CcpNext) \/ Uds(UdsNext)

(* The fairness of the client taken: IsoFairness, CcpFairness, UdsFairness.*)
Spec ==
  /\ Init /\ [][Next]_diagVars
  /\ WF_diagVars(Transport(SenderPoll)) /\ WF_diagVars(Transport(BusMoves))
  /\ WF_diagVars(Transport(RxTimeout \/ IsoTick))
  /\ WF_diagVars(Master(CcpLoop \/ CcpTick))
  /\ []<>(client = "uds" => looped) /\ []<>(client = "uds" => ~looped)
  /\ []<>(tx = NoGroup) /\ []<>(rx = NoRx)

-----------------------------------------------------------------------------
(* Every client gets on, whatever is refused, lost or answered: a transfer *)
(* ends, a memory or DAQ read ends, every polled group is asked again and  *)
(* every changed entity is published.                                      *)
ClientsGetOn == TransferEnds /\ ReadsEnd /\ PolledForever /\ DirtyIsPublished

=============================================================================
