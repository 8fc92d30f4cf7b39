---------------------------- MODULE GatewayRoute ----------------------------
(***************************************************************************)
(* One route of the gateway: handle_rx_isr on the source port in full, in  *)
(* front of the transmit side of the destination port (CanTxPort).  The    *)
(* gates decide whether a frame is forwarded; the source port's taps see   *)
(* every frame it takes off the wire.  The datalogger's is a bounded ring, *)
(* log_tap_ring_, that a task of sd_logger empties: a push it refuses is   *)
(* only counted.                                                           *)
(***************************************************************************)
EXTENDS CanTxPort

CONSTANTS
  Rewrite,     \* what the rules make of a frame: its patched form
  Filtered,    \* the frames a drop rule or the default action drops
  Consumers,   \* the kinds of taps the source port may have, one set per
               \* configuration considered: "log", the ring log_tap: true
               \* allocates, and "other", a hook, statistics, snapshot, observation
  LogTapDepth, \* CAN_GATEWAY_LOG_TAP_DEPTH
  MaxFrames    \* bound: [Consumers -> Nat], frames that arrive in a behaviour

ASSUME RouteAssumption ==
  /\ Rewrite \in [Frames -> Frames]
  /\ Filtered \subseteq Frames
  /\ Consumers \subseteq SUBSET {"log", "other"} /\ LogTapDepth \in Nat
  /\ MaxFrames \in [Consumers -> Nat]

VARIABLES
  enabled,  \* gateway_enabled_, the switch
  sheds,    \* the route's drop counters
  arrived,  \* (history) the frames the source port's interrupt was raised for
  taps,     \* (history) the frames run_rx_taps_ was called with, and their SHED flag
  unread,   \* (history) receive calls that found no frame
  consumers, \* the taps this port has, fixed by start_()
  log,      \* (history) what log_tap_ring_ accepted
  popped,   \* how many of these were popped: the ring holds the rest
  dropped   \* log_tap_dropped_, what the receive interrupt adds to it

tapVars == <<taps, log, dropped>>
routeVars == <<enabled, sheds, arrived, unread, consumers, popped, tapVars>>
allVars == <<vars, routeVars>>

RouteInit ==
  /\ Init
  /\ enabled = TRUE
  /\ sheds = [disabled |-> 0, busOff |-> 0, txFull |-> 0, filtered |-> 0, noFrame |-> 0]
  /\ arrived = <<>>
  /\ taps = <<>>
  /\ unread = 0
  /\ consumers \in Consumers
  /\ log = <<>> /\ popped = 0 /\ dropped = 0

-----------------------------------------------------------------------------
FreeSlots == {s \in FwdSlots : ~used[s]}

(* rx_taps_active_(), and log_tap_ring_ is not null.                       *)
TapsActive == consumers # {}
LogTap == "log" \in consumers

(* Mutant: a record the full ring refuses is counted nowhere.              *)
LogTapPushSilent(record) ==
  IF LogTap /\ Len(log) - popped < LogTapDepth
    THEN log' = Append(log, record) /\ UNCHANGED dropped
    ELSE UNCHANGED <<log, dropped>>

(* The last tap: a full ring refuses the newest record.                    *)
LogTapPush(record) ==
  \/ ~LogTap /\ UNCHANGED <<log, dropped>>
  \/ LogTap /\ IF Len(log) - popped < LogTapDepth
                 THEN log' = Append(log, record) /\ UNCHANGED dropped
                 ELSE dropped' = dropped + 1 /\ UNCHANGED log

(* run_rx_taps_: every consumer of a frame taken off the wire.             *)
RunRxTaps(f, shed) ==
  LET record == [frame |-> f, shed |-> shed]
  IN  /\ taps' = IF TapsActive THEN Append(taps, record) ELSE taps
      /\ LogTapPush(record)

(* Mutant: the bus-off gate is missing.                                    *)
ShedReasonNoBusOff ==
  IF ~enabled THEN "disabled" ELSE IF FreeSlots = {} THEN "txFull" ELSE "none"

(* The gates in the order the interrupt tests them; a frame one of them    *)
(* sheds is counted, then, if a tap wants it, retrieved into the staging   *)
(* frame and tapped (tap_shed_frame_, receive_into_staging_).              *)
ShedReason ==
  IF ~enabled THEN "disabled"
  ELSE IF state = "busoff" THEN "busOff"
  ELSE IF FreeSlots = {} THEN "txFull"
  ELSE "none"

RxShed(f) ==
  /\ ShedReason # "none"
  /\ sheds' = [sheds EXCEPT ![ShedReason] = @ + 1]
  /\ \/ RunRxTaps(f, TRUE) /\ UNCHANGED unread
     \/ TapsActive /\ unread' = unread + 1 /\ UNCHANGED tapVars
  /\ UNCHANGED vars

(* The driver had no frame to give: the slot goes back, nothing is counted *)
(* by the code (noFrame is this model's count of it).                      *)
RxNoFrame(f) ==
  /\ ShedReason = "none"
  /\ sheds' = [sheds EXCEPT !.noFrame = @ + 1]
  /\ unread' = unread + 1
  /\ UNCHANGED <<vars, tapVars>>

(* The frame is received into a slot of the route and tapped, before the   *)
(* rules rewrite it; then dropped by a rule, refused at the occupancy      *)
(* gate, or handed over in its patched form.                               *)
RxReceive(f) ==
  /\ ShedReason = "none"
  /\ Room
  /\ RunRxTaps(f, FALSE)
  /\ LET s == CHOOSE t \in FreeSlots : TRUE
     IN  \/ /\ f \in Filtered
            /\ content' = [content EXCEPT ![s] = f]
            /\ sheds' = [sheds EXCEPT !.filtered = @ + 1]
            /\ UNCHANGED <<used, outstanding, counters, fifo, handed, refused>>
         \/ /\ f \notin Filtered
            /\ content' = [content EXCEPT ![s] = Rewrite[f]]
            /\ \/ /\ HandOver(s, Rewrite[f])
                  /\ sheds' = IF DriverAccepts THEN sheds ELSE [sheds EXCEPT !.txFull = @ + 1]
               \/ /\ ~OccupancyGate
                  /\ sheds' = [sheds EXCEPT !.txFull = @ + 1]
                  /\ UNCHANGED <<used, outstanding, counters, fifo, handed, refused>>
  /\ UNCHANGED <<state, recovering, healthy, pc, mine, loopVars, unread>>

HandleRxIsr(f) ==
  /\ Len(arrived) < MaxFrames[consumers]
  /\ arrived' = Append(arrived, f)
  /\ RxShed(f) \/ RxNoFrame(f) \/ RxReceive(f)
  /\ UNCHANGED <<enabled, consumers, popped>>

(* CanGatewaySwitch::write_state stores the flag the interrupt reads.      *)
Toggle ==
  /\ enabled' = ~enabled
  /\ UNCHANGED <<vars, sheds, arrived, unread, consumers, popped, tapVars>>

(* The drain task of sd_logger pops the oldest record.                     *)
DrainLogTap ==
  /\ popped < Len(log)
  /\ popped' = popped + 1
  /\ UNCHANGED <<vars, enabled, sheds, arrived, unread, consumers, tapVars>>

(* The destination port's other steps.                                     *)
PortStep ==
  /\ \/ \E ok \in BOOLEAN : TxDone(ok)
     \/ StateChange
     \/ Loop
     \/ Inject
     \/ BusChange
  /\ UNCHANGED routeVars

RouteNext ==
  \/ \E f \in Frames : HandleRxIsr(f)
  \/ Toggle
  \/ DrainLogTap
  \/ PortStep

RouteSpec == RouteInit /\ [][RouteNext]_allVars

-----------------------------------------------------------------------------
(* s is what remains of t when some of its elements are left out.          *)
Within(s, t) ==
  \E sel \in [1..Len(s) -> 1..Len(t)] :
    /\ \A i, j \in 1..Len(s) : i < j => sel[i] < sel[j]
    /\ \A i \in 1..Len(s) : s[i] = t[sel[i]]

FramesOf(t) == [i \in 1..Len(t) |-> t[i].frame]

(* Every frame that arrives meets exactly one fate and one counter says    *)
(* which: nothing is shed silently (can_gateway.cpp, handle_rx_isr: "each  *)
(* still counts its shed exactly once").  Shedding forwarding never sheds  *)
(* observation, and the taps see the wire, not the routed result: a port   *)
(* with a consumer runs its taps on every frame retrieved, unpatched and   *)
(* in the order of arrival.  Of these the log tap loses only what its full *)
(* ring refused, and each of those is in log_tap_dropped_ (can_gateway.h:  *)
(* "drop-newest, never block the producer").                               *)
EveryFrameHasOneFate ==
  /\ Len(arrived) = sheds.disabled + sheds.busOff + sheds.txFull + sheds.filtered
                       + sheds.noFrame + counters.forwarded
  /\ TapsActive => Len(taps) + unread = Len(arrived) /\ Within(FramesOf(taps), arrived)
  /\ LogTap => Len(log) + dropped = Len(taps) /\ Within(log, taps)

(* The route is a legal environment of the destination port: every step of *)
(* the interrupt is one the transmit side was specified, and proved, for.  *)
RouteUsesPort == Spec

=============================================================================
