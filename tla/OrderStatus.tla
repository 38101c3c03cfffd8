------------------------------ MODULE OrderStatus -----------------------------
(***************************************************************************)
(* The monitor of a submitted order: it polls the order's status a bounded *)
(* number of times while the broker works on it, and tells what it sees.   *)
(* A poll may have no answer or fail, and so may the telling of it.        *)
(* A definition marked "Bug:" is a fault the properties must find.         *)
(*                                                                         *)
(* Source: notifications/order_alerts.py,                                  *)
(* application/runtime_notification_adapters.py.                           *)
(***************************************************************************)
EXTENDS Naturals, Sequences

CONSTANT MaxPolls  \* order_poll_max_attempts

VARIABLES order,    \* the order at the broker
          monitor   \* where it stands, what it saw, told and raised

vars == <<order, monitor>>

Final == {"filled", "rejected", "cancelled", "expired"}
Status == {"none", "working", "partial"} \cup Final
Idle == [pc |-> "idle", polls |-> 0, seen |-> "none", published |-> FALSE, told |-> <<>>, issue |-> FALSE]

TypeOK ==
  /\ order \in Status /\ monitor.pc \in {"idle", "polling", "ended"} /\ monitor.polls \in 0..MaxPolls
  /\ monitor.seen \in Status /\ Len(monitor.told) <= MaxPolls + 1
  /\ \A i \in DOMAIN monitor.told : monitor.told[i] \in Status \cup {"timeout"}
Init == order = "none" /\ monitor = Idle

-----------------------------------------------------------------------------
(* The broker.                                                             *)
Accept == order = "none" /\ order' = "working" /\ monitor' = [monitor EXCEPT !.pc = "polling"]
Progress ==
  /\ order \in {"working", "partial"} /\ order' \in {"partial"} \cup Final /\ order' # order
  /\ monitor' = monitor

(* One poll.  Telling a status that fails raises, as a failed poll does,   *)
(* and ends the monitor with an issue.                                     *)
Polling == monitor.pc = "polling" /\ monitor.polls < MaxPolls
NoAnswer ==
  /\ Polling /\ monitor' = [monitor EXCEPT !.polls = @ + 1] /\ order' = order
Raise ==
  /\ monitor.pc = "polling" /\ monitor' = [monitor EXCEPT !.pc = "ended", !.issue = TRUE] /\ order' = order
\* Bug: an order that filled in part needs no more telling.
OncePublished(s) == s = "filled" \/ (s \in Final /\ ~monitor.published)
Ends(s) == s \in Final
\* Bug: any status counts as told.
AnyStatus(s) == TRUE
Published(s) == s = "partial"
Poll ==
  /\ Polling /\ order' = order
  /\ monitor' = [monitor EXCEPT
       !.polls = @ + 1, !.seen = order,
       !.told = IF Ends(order) \/ order = "partial" THEN Append(@, order) ELSE @,
       !.published = @ \/ Published(order),
       !.pc = IF Ends(order) THEN "ended" ELSE @]
PollFails ==
  /\ Polling /\ (Ends(order) \/ order = "partial") /\ order' = order
  /\ monitor' = [monitor EXCEPT !.polls = @ + 1, !.seen = order, !.pc = "ended", !.issue = TRUE]
\* The polls ran out: the timeout is told if nothing else was.
RunOut ==
  /\ monitor.pc = "polling" /\ monitor.polls = MaxPolls /\ order' = order
  /\ monitor' = [monitor EXCEPT !.pc = "ended",
                   !.told = IF monitor.published THEN @ ELSE Append(@, "timeout")]

Next == Accept \/ Progress \/ NoAnswer \/ Raise \/ Poll \/ PollFails \/ RunOut
Spec == Init /\ [][Next]_vars

-----------------------------------------------------------------------------
(* Every order the monitor was given ends in a message about it or in an   *)
(* issue: the polls never run out in silence.                              *)
EndsWithMessage == monitor.pc = "ended" => monitor.told # <<>> \/ monitor.issue

(* A final status that was seen is the last thing told, after a partial    *)
(* fill too, unless an issue was raised.                                   *)
FinalSeenIsTold ==
  monitor.pc = "ended" /\ monitor.seen \in Final /\ ~monitor.issue =>
    monitor.told # <<>> /\ monitor.told[Len(monitor.told)] = monitor.seen

(* What makes them hold: while it polls, the last status it saw is not     *)
(* final, and what it published it has told.                               *)
Monitor ==
  [pc : {"idle", "polling", "ended"}, polls : 0..MaxPolls, seen : Status, published : BOOLEAN,
   told : Seq(Status \cup {"timeout"}), issue : BOOLEAN]
MonitorInv ==
  /\ order \in Status /\ monitor \in Monitor
  /\ order = "none" => monitor = Idle
  /\ monitor.pc = "polling" => monitor.seen \notin Final
  /\ monitor.published => monitor.told # <<>>
  /\ EndsWithMessage /\ FinalSeenIsTold
=============================================================================
