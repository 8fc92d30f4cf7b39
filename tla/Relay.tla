-------------------------------- MODULE Relay --------------------------------
(***************************************************************************)
(* custom_components/sdlog_relay: the pass-through of Home Assistant to    *)
(* one logger.  Requests are tasks of one event loop; between two awaits   *)
(* of a task any other task may run, the entry may be reconfigured or      *)
(* unloaded, the logger may go away and so may the client.                 *)
(***************************************************************************)
EXTENDS HostCommon, Integers, Sequences

CONSTANTS Reqs,     \* requests
          Hosts,    \* addresses the entry may be given
          Body      \* bound: blocks of an upstream body

ASSUME RelayAssumption == None \notin Reqs /\ None # 401 /\ Body \in Nat

VARIABLES target,   \* targets.get(logger_id), None when unloaded
          lock,     \* who holds the logger's lock
          waiters,  \* the FIFO of asyncio.Lock
          req       \* [Reqs -> the request's state]
relayVars == <<target, lock, waiters, req>>

\* promised is the Content-Length passed on, got what was written to the
\* client, left what the logger still has; answer is the status the client sees
New == [pc |-> "new", host |-> None, answer |-> None, promised |-> 0, got |-> 0, left |-> 0, close |-> None]

Set(r, rec) == req' = [req EXCEPT ![r] = rec]
At(r, pc) == req[r].pc = pc
Answer(r, status) == [req[r] EXCEPT !.pc = "done", !.answer = status, !.close = "complete"]

\* lock.release wakes the first waiter
Release == /\ lock' = IF waiters = <<>> THEN None ELSE Head(waiters)
           /\ waiters' = IF waiters = <<>> THEN <<>> ELSE Tail(waiters)
\* acquire's finally: a waiter that gives up leaves the queue
Without(s, r) == LET i == CHOOSE i \in 1..Len(s) : s[i] = r
                 IN  SubSeq(s, 1, i - 1) \o SubSeq(s, i + 1, Len(s))

-----------------------------------------------------------------------------
\* forward: an unknown logger, an endpoint or a method that does not exist, a
\* name that could leave the endpoint; otherwise the target is looked up here,
\* once, and the request waits its turn
Forward(r) ==
    /\ At(r, "new")
    /\ \/ target = None /\ Set(r, Answer(r, 404)) /\ UNCHANGED <<lock, waiters>>
       \/ /\ target # None
          /\ \/ \E s \in {400, 404, 405} : Set(r, Answer(r, s)) /\ UNCHANGED <<lock, waiters>>
             \/ /\ Set(r, [req[r] EXCEPT !.pc = "turn", !.host = target])
                /\ IF lock = None THEN lock' = r /\ UNCHANGED waiters
                   ELSE waiters' = Append(waiters, r) /\ UNCHANGED lock
    /\ UNCHANGED target

\* busy_wait is over
Busy(r) == /\ At(r, "turn") /\ lock # r
           /\ Set(r, Answer(r, 503)) /\ waiters' = Without(waiters, r)
           /\ UNCHANGED <<target, lock>>

\* _forward: the request goes out
Send(r) == /\ At(r, "turn") /\ lock = r
           /\ Set(r, [req[r] EXCEPT !.pc = "upstream"])
           /\ UNCHANGED <<target, lock, waiters>>

\* no answer in time; a 401 becomes a 502; any other status is passed on with
\* its Content-Length
PassedOn == {200, 404}      \* for every status but 401
Unreachable(r) == /\ At(r, "upstream") /\ Set(r, Answer(r, 502)) /\ Release /\ UNCHANGED target
Answered(r) ==
    /\ At(r, "upstream")
    /\ \/ Set(r, Answer(r, 502)) /\ Release                     \* upstream.status == 401
       \/ /\ \E s \in PassedOn, n \in 0..Body :
                Set(r, [req[r] EXCEPT !.pc = "body", !.answer = s, !.promised = n, !.left = n])
          /\ UNCHANGED <<lock, waiters>>
    /\ UNCHANGED target

Block(r) == /\ At(r, "body") /\ req[r].left > 0
            /\ Set(r, [req[r] EXCEPT !.left = @ - 1, !.got = @ + 1])
            /\ UNCHANGED <<target, lock, waiters>>
WriteEof(r) == /\ At(r, "body") /\ req[r].left = 0
               /\ Set(r, [req[r] EXCEPT !.pc = "done", !.close = "complete"])
               /\ Release /\ UNCHANGED target
\* mutant: a body the logger cut is closed like a whole one
HangUpQuietly(r) == /\ At(r, "body") /\ req[r].left > 0
                    /\ Set(r, [req[r] EXCEPT !.pc = "done", !.close = "complete"])
                    /\ Release /\ UNCHANGED target
\* the logger went away mid-body: hang up without completing
HangUp(r) == /\ At(r, "body") /\ req[r].left > 0
             /\ Set(r, [req[r] EXCEPT !.pc = "done", !.close = "cut"])
             /\ Release /\ UNCHANGED target
\* the client went away: the handler is cancelled, its finally releases
ClientGone(r) ==
    /\ req[r].pc \in {"turn", "upstream", "body"}
    /\ Set(r, [req[r] EXCEPT !.pc = "done", !.close = "gone"])
    /\ IF lock = r THEN Release ELSE waiters' = Without(waiters, r) /\ UNCHANGED lock
    /\ UNCHANGED target

\* async_setup_entry, the reconfigure flow's reload, and the unload callback
Configure == /\ target' \in (Hosts \cup {None}) \ {target}
             /\ UNCHANGED <<lock, waiters, req>>

RelayInit == target = None /\ lock = None /\ waiters = <<>> /\ req = [r \in Reqs |-> New]
Step(r) == Send(r) \/ Unreachable(r) \/ Answered(r) \/ Block(r) \/ WriteEof(r) \/ HangUp(r) \/ Busy(r)
RelayNext == Configure \/ \E r \in Reqs : Forward(r) \/ Step(r) \/ ClientGone(r)
\* an event loop runs every ready task; connect, read and busy_wait time out
RelaySpec == RelayInit /\ [][RelayNext]_relayVars /\ \A r \in Reqs : WF_relayVars(Step(r))

-----------------------------------------------------------------------------
(* Properties *)

\* R6: at most one request is at the logger, and it is the one that holds the
\* lock, through timeouts of waiters, clients that leave and addresses that
\* change; a released lock goes to a request that still wants it.
OneUpstream ==
    /\ \A r \in Reqs : req[r].pc \in {"upstream", "body"} => lock = r
    /\ lock # None => req[lock].pc \in {"turn", "upstream", "body"}
    /\ \A i \in DOMAIN waiters : At(waiters[i], "turn")

\* R5, R8: a client is told 401 never, and that a body is complete only when it
\* has every byte the Content-Length promised; and (R6) requests do not mix at
\* the logger.
AnswersAreHonest ==
    /\ OneUpstream
    /\ \A r \in Reqs : req[r].pc = "done" =>
        /\ req[r].answer # 401
        /\ req[r].close = "complete" => req[r].got = req[r].promised
        /\ req[r].close = "cut" => req[r].got < req[r].promised

\* Every request that waits or is upstream ends and leaves no lock behind.
RequestsEnd == \A r \in Reqs : At(r, "turn") ~> At(r, "done") /\ lock # r
=============================================================================
