---------------------------- MODULE CycleIncidents ----------------------------
(***************************************************************************)
(* The incident of one cycle, as the reference reducer keeps it: the       *)
(* attempts that failed or whose orders are uncertain, the proofs that     *)
(* were accepted, and which proof resolved which attempt.  Reports appear  *)
(* late, every scan lists them again, and old proofs are presented again.  *)
(* A definition marked "Bug:" is a fault the properties must find.         *)
(*                                                                         *)
(* Source: scripts/runtime_cycle_health.py, reduce_incidents and           *)
(* project_resolution.                                                     *)
(***************************************************************************)
EXTENDS Naturals

CONSTANTS Attempts, \* runs of the cycle, each with its own report
          MaxTime   \* bound: the last instant

VARIABLES reports, \* what became of each run and when it completed
          item     \* the retained incident: its attempts, the proof that resolved
                   \* each, and (history) what each accepted proof had before it

vars == <<reports, item>>

Times == 1..MaxTime
Outcome == {"failed", "uncertain", "succeeded"}
NoReport == [outcome |-> "none", at |-> 0]
Proof == [kind : {"retry"}, ref : Attempts, through : Times]
           \cup [kind : {"reconciled"}, ref : {"evidence"}, through : Times]
NoProof == [kind |-> "none", ref |-> "none", through |-> 0]

TypeOK ==
  /\ reports \in [Attempts -> [outcome : Outcome, at : Times] \cup {NoReport}]
  /\ item \in [attempts : SUBSET Attempts, resolution : [Attempts -> Proof \cup {NoProof}],
               accepted : [Proof -> SUBSET Attempts]]

Init ==
  /\ reports = [a \in Attempts |-> NoReport]
  /\ item = [attempts |-> {}, resolution |-> [a \in Attempts |-> NoProof],
             accepted |-> [p \in Proof |-> {}]]

Reported == {a \in Attempts : reports[a] # NoReport}
(* incident_category: all but a success is a fault.  A run that the risk   *)
(* gate blocked sent no order, and is one of the "failed" here: both are    *)
(* operational.                                                            *)
Fault(a) == reports[a].outcome \in {"failed", "uncertain"}

(* A report appears; it may have completed long before. *)
Appear(a, outcome, at) ==
  /\ a \notin Reported
  /\ reports' = [reports EXCEPT ![a] = [outcome |-> outcome, at |-> at]]
  /\ UNCHANGED item

(* project_resolution: a later success of the same cycle, for a run that   *)
(* failed before it sent an order, or a reconciliation not older than the  *)
(* run it is about.                                                        *)
Resolves(p, incident) ==
  /\ Fault(incident)
  /\ \/ /\ p.kind = "retry" /\ reports[incident].outcome = "failed"
        /\ p.ref \in Reported /\ reports[p.ref].outcome = "succeeded"
        /\ p.through = reports[p.ref].at /\ reports[incident].at < p.through
     \/ /\ p.kind = "reconciled" /\ reports[incident].at <= p.through

(* reduce_incidents: what a scan found joins what is retained; a proof     *)
(* must reach past every retained fault, and a retry settles no uncertain  *)
(* one.  Of a proof that was accepted before nothing more is done.         *)
With(found) == item.attempts \cup {a \in found : Fault(a)}
Active(attempts) == {a \in attempts : item.resolution[a] = NoProof}
\* Bug: the watermark is left to project_resolution.
ReachesAny(p, attempts) == TRUE
Reaches(p, attempts) == \A a \in attempts : reports[a].at <= p.through
\* Bug: a retry settles an incident with one operational attempt.
SettlesSome(p, found, attempts) ==
  p.kind = "retry" => p.ref \in found /\ \E a \in Active(attempts) : reports[a].outcome = "failed"
Settles(p, found, attempts) ==
  p.kind = "retry" =>
    /\ p.ref \in found /\ Active(attempts) # {}
    /\ \A a \in Active(attempts) : reports[a].outcome = "failed" /\ reports[a].at < p.through
\* Bug: a proof that is presented again resolves what is active now.
NeverPrior(p) == FALSE
Prior(p) == item.accepted[p] # {}
\* Bug: a new proof takes over what another proof resolved.
ResolvedAll(attempts, p) ==
  [a \in Attempts |-> IF a \in attempts THEN p ELSE item.resolution[a]]
Resolved(attempts, p) ==
  [a \in Attempts |-> IF a \in Active(attempts) THEN p ELSE item.resolution[a]]

Scan(found) ==
  /\ found \subseteq Reported
  /\ item' = [item EXCEPT !.attempts = With(found)]
  /\ UNCHANGED reports
Resolve(found, p) ==
  /\ found \subseteq Reported /\ With(found) # {}
  /\ Prior(p) \/ \E a \in With(found) : Resolves(p, a)
  /\ IF Prior(p) THEN item' = [item EXCEPT !.attempts = With(found)]
     ELSE /\ Reaches(p, With(found)) /\ Settles(p, found, With(found))
          /\ item' = [attempts |-> With(found), resolution |-> Resolved(With(found), p),
                      accepted |-> IF item.accepted[p] # {} THEN item.accepted
                                   ELSE [item.accepted EXCEPT ![p] = With(found)]]
  /\ UNCHANGED reports

Next ==
  \/ \E a \in Attempts, outcome \in Outcome, at \in Times : Appear(a, outcome, at)
  \/ \E found \in SUBSET Attempts : Scan(found)
  \/ \E found \in SUBSET Attempts, p \in Proof : Resolve(found, p)
Spec == Init /\ [][Next]_vars

-----------------------------------------------------------------------------
(* A proof resolves only the attempts that were retained when it was first *)
(* accepted: presenting it again never covers an attempt discovered since  *)
(* (reduce_incidents, "never a subsequently discovered or newer fault").   *)
CoversWhatItSaw ==
  \A a \in Attempts : item.resolution[a] # NoProof =>
    a \in item.accepted[item.resolution[a]]

(* No attempt is resolved by a proof that does not reach past it, also one *)
(* that appeared after the proof was made for an older one.                *)
ProofReachesFault ==
  \A a \in Attempts : item.resolution[a] # NoProof => reports[a].at <= item.resolution[a].through

(* A successful retry never settles an attempt whose orders are uncertain, *)
(* whatever else failed in the same cycle: that takes a reconciliation.    *)
RetrySettlesNoOrders ==
  \A a \in Attempts : item.resolution[a].kind = "retry" => reports[a].outcome = "failed"

(* What was retained stays, and what was resolved stays resolved by the    *)
(* same proof, through scans that list it again.                           *)
NothingForgotten ==
  /\ item.attempts \subseteq item'.attempts
  /\ \A a \in Attempts : item.resolution[a] # NoProof => item'.resolution[a] = item.resolution[a]

(* What makes them hold: what is retained is a reported fault, and only    *)
(* what is retained is resolved.                                           *)
RetainedAreFaults == \A a \in item.attempts : a \in Reported /\ Fault(a)
ResolvedAreRetained == \A a \in Attempts : item.resolution[a] # NoProof => a \in item.attempts
IncidentInv ==
  /\ TypeOK /\ RetainedAreFaults /\ ResolvedAreRetained
  /\ CoversWhatItSaw /\ ProofReachesFault /\ RetrySettlesNoOrders
=============================================================================
