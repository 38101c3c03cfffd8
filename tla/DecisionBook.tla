---------------------------- MODULE DecisionBook ----------------------------
(***************************************************************************)
(* What the durable live path promises about trading: a decision is worked *)
(* at the broker once, from its first order to the end of its last one,    *)
(* and no other decision of the same line is worked meanwhile.             *)
(***************************************************************************)
CONSTANTS
    Decision,  \* everything that may be decided
    Line(_)    \* decisions of one line share positions and cash

VARIABLE book

Init == book = [d \in Decision |-> "unrouted"]

Open(d) ==
    /\ book[d] = "unrouted"
    /\ \A e \in Decision : Line(e) = Line(d) => book[e] # "working"
    /\ book' = [book EXCEPT ![d] = "working"]

Close(d) ==
    /\ book[d] = "working"
    /\ book' = [book EXCEPT ![d] = "closed"]

\* The only order of a decision is refused or ends within one answer.
OpenAndClose(d) ==
    /\ book[d] = "unrouted"
    /\ \A e \in Decision : Line(e) = Line(d) => book[e] # "working"
    /\ book' = [book EXCEPT ![d] = "closed"]

\* A step of the book changes it; everything else is a stutter.
Next == book' # book /\ \E d \in Decision : Open(d) \/ Close(d) \/ OpenAndClose(d)

Spec == Init /\ [][Next]_book
=============================================================================
