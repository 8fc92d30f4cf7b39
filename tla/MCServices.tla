------------------------------ MODULE MCServices ------------------------------
(***************************************************************************)
(* The services that run for ever, for TLC: the publisher, the relay in    *)
(* Home Assistant and the decoder that loads the database.  They share     *)
(* files, not variables: a behaviour is one service's, with the fairness   *)
(* of that service, and leaves the others in their initial state.          *)
(***************************************************************************)
EXTENDS Publish, Relay, Loader

(* Two files with the same bytes, one that breaks off and one refused.     *)
MCKey == <<1, 2, 1, 4>>
MCKind == <<"good", "breaks", "good", "defect">>

VARIABLE on

servicesVars == <<publishVars, relayVars, loaderVars, on>>

ServicesInit == PublishInit /\ RelayInit /\ LoaderInit /\ on \in {"publish", "relay", "loader"}

Publishing(A) == on = "publish" /\ A /\ UNCHANGED <<relayVars, loaderVars, on>>
Relaying(A) == on = "relay" /\ A /\ UNCHANGED <<publishVars, loaderVars, on>>
Loading(A) == on = "loader" /\ A /\ UNCHANGED <<publishVars, relayVars, on>>

ServicesNext == Publishing(PublishNext) \/ Relaying(RelayNext) \/ Loading(LoaderNext)

(* PublishFairness, the relay's and LoaderFairness, of the service taken.  *)
ServicesSpec ==
    /\ ServicesInit /\ [][ServicesNext]_servicesVars
    /\ WF_servicesVars(Publishing(Ping)) /\ SF_servicesVars(Publishing(Space))
    /\ WF_servicesVars(Publishing(ReadBeat)) /\ WF_servicesVars(Publishing(ReadTables))
    /\ WF_servicesVars(Publishing(PublishState))
    /\ WF_servicesVars(Publishing(ServiceStarts)) /\ WF_servicesVars(Publishing(ServiceEnds))
    /\ \A r \in Reqs : WF_servicesVars(Relaying(Step(r)))
    /\ WF_servicesVars(Loading(Hash)) /\ WF_servicesVars(Loading(RunStep))

-----------------------------------------------------------------------------
(* Every service gets on: an error the fleet recorded reaches Home         *)
(* Assistant and a press is served (sdlog_publish.py), a request ends and  *)
(* leaves no lock behind (relay_core.py), and every archived file is       *)
(* loaded under the rules that stay (sdlog_decode.py), whatever failed in  *)
(* between.                                                                *)
ServicesGetOn == ErrorReachesHome /\ PressIsServed /\ RequestsEnd /\ EveryFileIsLoaded
=============================================================================
