----------------------------- MODULE CycleHealth -----------------------------
(***************************************************************************)
(* The cycle-health source: every hour a publisher reads how far the       *)
(* source has covered the schedule, lists the execution reports of the     *)
(* next stretch, gives each to the slot it answers, names the slots whose  *)
(* report is missing, and posts the stretch; only a complete, continuous   *)
(* stretch moves the cursor.  Runs start late and repeat, reports appear   *)
(* while the publisher reads, and a read or its post may fail.             *)
(* A definition marked "Bug:" is a fault the properties must find.         *)
(*                                                                         *)
(* Source: scripts/publish_runtime_cycle_health.py,                        *)
(* scripts/collect_runtime_cycle_health.py, and of                         *)
(* scripts/runtime_cycle_health.py and scripts/runtime_heartbeat_policy.py *)
(* what they call.  The source itself is a service of another repository.  *)
(***************************************************************************)
EXTENDS Integers, FiniteSets

CONSTANTS Slots,     \* when the scheduler starts the strategy
          Attempts,  \* the runs that may write a report
          Grace,     \* RUNTIME_HEARTBEAT_PUBLICATION_GRACE_MINUTES
          MaxCycles, \* MAX_CYCLES: slots and reports of one observation
          MaxTime    \* bound: the last instant

VARIABLES now,     \* the clock
          reports, \* when each run started and when its report appeared
          pub,     \* the publisher: where it stands and what it read
          post,    \* the observation on its way to the source
          source   \* the cursor and the archived cycles

vars == <<now, reports, pub, post, source>>

Times == 0..MaxTime
Never == MaxTime + 1
Missing == "missing"
Cycle == [slot : Slots, by : Attempts \cup {Missing}]
NoPost == [from |-> Never, through |-> Never, complete |-> FALSE, cycles |-> {}]
Idle == [pc |-> "idle", at |-> Never, from |-> Never, through |-> Never]
RequiredFrom == 0
Started(r) == reports[r].start # Never
Appeared(r) == reports[r].finish # Never

TypeOK ==
  /\ now \in Times
  /\ reports \in [Attempts -> [start : 0..Never, finish : 0..Never]]
  /\ pub \in [pc : {"idle", "reads"}, at : 0..Never, from : 0..Never, through : 0..Never]
  /\ post.from \in 0..Never /\ post.complete \in BOOLEAN /\ post.cycles \subseteq Cycle
  /\ source.covered \in 0..Never /\ source.cycles \subseteq Cycle

Init ==
  /\ now = 0
  /\ reports = [r \in Attempts |-> [start |-> Never, finish |-> Never]]
  /\ pub = Idle /\ post = NoPost
  /\ source = [covered |-> Never, cycles |-> {}]

-----------------------------------------------------------------------------
(* The strategy runs: at its slot, late, or once more; the report appears  *)
(* when the run has finished.                                              *)
Start(r) ==
  /\ ~Started(r) /\ \E s \in Slots : s <= now
  /\ reports' = [reports EXCEPT ![r].start = now]
  /\ UNCHANGED <<now, pub, post, source>>
Finish(r) ==
  /\ Started(r) /\ ~Appeared(r)
  /\ reports' = [reports EXCEPT ![r].finish = now]
  /\ UNCHANGED <<now, pub, post, source>>
Tick ==
  /\ now < MaxTime /\ now' = now + 1
  /\ UNCHANGED <<reports, pub, post, source>>

-----------------------------------------------------------------------------
(* publish(): the stretch starts a grace before the cursor and ends before *)
(* the slot that would be one too many.                                    *)
\* Bug: the stretch starts at the cursor.
FromCursor == IF source.covered = Never THEN RequiredFrom ELSE source.covered
From ==
  IF source.covered = Never \/ source.covered - Grace < RequiredFrom THEN RequiredFrom
  ELSE source.covered - Grace
Within(from, through) == {s \in Slots : from <= s /\ s <= through}
Overflow(from, through) == {s \in Within(from, through) : Cardinality(Within(from, s)) = MaxCycles + 1}
Through(from) ==
  IF Overflow(from, now) = {} THEN now ELSE (CHOOSE s \in Overflow(from, now) : TRUE) - 1

Begin ==
  /\ pub.pc = "idle" /\ post = NoPost
  /\ pub' = [pc |-> "reads", at |-> now, from |-> From, through |-> Through(From)]
  /\ UNCHANGED <<now, reports, post, source>>

(* The reports of the stretch, by the instant in their names.  Each must   *)
(* be finished by its end and answer a slot of it: the last one begun,     *)
(* before the next one is due.  One that finished later, up to the reading *)
(* itself, is observed in a stretch that is then incomplete.               *)
Listed == {r \in Attempts : Appeared(r) /\ pub.from <= reports[r].start /\ reports[r].start <= pub.through}
Answers(r, s) ==
  /\ s <= reports[r].start
  /\ \A t \in Slots : s < t => reports[r].finish < t
Valid(r) == reports[r].finish <= pub.through /\ \E s \in Within(pub.from, pub.through) : Answers(r, s)
Observations(found) ==
  {c \in [slot : Within(pub.from, pub.through), by : found] :
     reports[c.by].finish <= pub.at /\ Answers(c.by, c.slot)}
Unanswered(found) == {s \in Within(pub.from, pub.through) : ~\E c \in Observations(found) : c.slot = s}
\* Bug: an aborted listing counts as complete.
WhateverRead(found, readAll) == Cardinality(found) <= MaxCycles /\ \A r \in found : Valid(r)
Complete(found, readAll) == readAll /\ Cardinality(found) <= MaxCycles /\ \A r \in found : Valid(r)

\* Bug: a slot has no report, whatever could be read.
EvenIncomplete(s, complete) == s + Grace <= pub.at
Due(s, complete) == complete /\ s + Grace <= pub.through
Cycles(found, complete) ==
  Observations(found) \cup {[slot |-> s, by |-> Missing] : s \in {u \in Unanswered(found) : Due(u, complete)}}
(* Slots past their grace now count against the limit, covered or not.     *)
Fits(found, complete) ==
  complete => Cardinality(Observations(found))
                + Cardinality({s \in Unanswered(found) : s + Grace <= pub.at}) <= MaxCycles

(* collect_runtime_cycle_health(): what is listed now, read or not; a      *)
(* stretch of too many cycles and a changed source are not posted.         *)
Collect(found, readAll) ==
  /\ pub.pc = "reads"
  /\ Fits(found, Complete(found, readAll))
  /\ Cardinality(Cycles(found, Complete(found, readAll))) <= MaxCycles
  /\ post' = [from |-> pub.from, through |-> pub.through,
              complete |-> Complete(found, readAll), cycles |-> Cycles(found, Complete(found, readAll))]
  /\ pub' = Idle
  /\ UNCHANGED <<now, reports, source>>
CollectAll == Collect(Listed, TRUE)
CollectPart == \E found \in SUBSET Listed : Collect(found, FALSE)
GiveUp ==
  /\ pub.pc = "reads"
  /\ pub' = Idle
  /\ UNCHANGED <<now, reports, post, source>>

(* The source archives what was observed; a complete stretch that meets    *)
(* the cursor and goes past it moves it.                                   *)
Continuous(p) ==
  /\ p.complete
  /\ p.from <= (IF source.covered = Never THEN RequiredFrom ELSE source.covered)
  /\ source.covered = Never \/ p.through >= source.covered
Store ==
  /\ post # NoPost
  /\ source' = [covered |-> IF Continuous(post) THEN post.through ELSE source.covered,
                cycles |-> source.cycles \cup post.cycles]
  /\ post' = NoPost
  /\ UNCHANGED <<now, reports, pub>>
Lose ==
  /\ post # NoPost /\ post' = NoPost
  /\ UNCHANGED <<now, reports, pub, source>>

Next ==
  \/ \E r \in Attempts : Start(r) \/ Finish(r)
  \/ Tick \/ Begin \/ CollectAll \/ CollectPart \/ GiveUp \/ Store \/ Lose
Spec == Init /\ [][Next]_vars

(* The workflow starts every hour, and nothing fails: every listing is     *)
(* read to its end and every post is stored.                               *)
Steady ==
  \/ \E r \in Attempts : Start(r) \/ Finish(r)
  \/ Tick \/ Begin \/ CollectAll \/ Store
SteadySpec ==
  Init /\ [][Steady]_vars /\ WF_vars(Tick) /\ WF_vars(Begin) /\ WF_vars(CollectAll) /\ WF_vars(Store)

-----------------------------------------------------------------------------
(* The run that answers a slot began at or after it and before the next.   *)
RunsOf(s) == {r \in Attempts : Appeared(r) /\ Answers(r, s)}
Archived(s, by) == [slot |-> s, by |-> by] \in source.cycles
CoveredPast(s) == source.covered # Never /\ source.covered >= s + Grace

(* Once the cursor is a grace past a slot, the slot is in the archive: no  *)
(* slot falls between two stretches, whatever was lost or left incomplete  *)
(* in between (publish_runtime_cycle_health.publish, with the overlap).    *)
NoSlotSkipped == \A s \in Slots : CoveredPast(s) => \E c \in source.cycles : c.slot = s

(* A report that appeared within the grace of its slot is in the archive   *)
(* once the cursor is past that grace: it is never lost to the stretch     *)
(* that was read around it.                                                *)
TimelyReportKept ==
  \A s \in Slots : \A r \in RunsOf(s) :
    CoveredPast(s) /\ reports[r].finish < s + Grace => Archived(s, r)

(* A slot is only called missing when no report had appeared by the end of *)
(* its grace: an incomplete read proves nothing (build_cycle_health).      *)
MissingIsTrue ==
  \A s \in Slots : Archived(s, Missing) => \A r \in RunsOf(s) : reports[r].finish >= s + Grace

(* docs/runtime-cycle-health.md says of a long interval that it continues  *)
(* through later invocations, each from the last cursor with the grace     *)
(* overlap.  It does not, even when nothing fails and every report answers *)
(* a slot, once a run begins within the grace before the cursor and its    *)
(* slot lies before that grace: the next stretch lists the report and not  *)
(* the slot, and stays incomplete for good.                                *)
Attributable == \A r \in Attempts : Appeared(r) => \E s \in Slots : Answers(r, s)
CursorReachesNow == []Attributable => <>(source.covered = MaxTime)

(* What makes them hold: a stretch is of the cursor it was begun at, a     *)
(* complete one has every slot and every timely report of it that can no   *)
(* longer change, and what is called missing has its grace behind it.      *)
HealthTyped ==
  /\ now \in Times
  /\ reports \in [Attempts -> [start : 0..Never, finish : 0..Never]]
  /\ pub \in [pc : {"idle", "reads"}, at : Int, from : Int, through : Int]
  /\ post \in [from : Int, through : Int, complete : BOOLEAN, cycles : SUBSET Cycle]
  /\ source \in [covered : Int, cycles : SUBSET Cycle]
InOrder ==
  \A r \in Attempts :
    /\ Started(r) => reports[r].start <= now
    /\ Appeared(r) => Started(r) /\ reports[r].start <= reports[r].finish /\ reports[r].finish <= now
HoldsAll(cycles, from, through) ==
  \A s \in Slots : from <= s /\ s + Grace <= through =>
    /\ \E c \in cycles : c.slot = s
    /\ \A r \in RunsOf(s) : reports[r].finish < s + Grace => [slot |-> s, by |-> r] \in cycles
CallsMissing(cycles) ==
  \A s \in Slots : [slot |-> s, by |-> Missing] \in cycles =>
    s + Grace <= now /\ \A r \in RunsOf(s) : reports[r].finish >= s + Grace
StretchInv == pub.pc = "reads" => post = NoPost /\ pub.from = From /\ pub.through <= pub.at /\ pub.at <= now
PostInv ==
  post # NoPost =>
    /\ post.from = From /\ post.through <= now
    /\ post.complete => HoldsAll(post.cycles, post.from, post.through)
    /\ CallsMissing(post.cycles)
HealthInv ==
  /\ HealthTyped /\ InOrder /\ StretchInv /\ PostInv
  /\ source.covered # Never => source.covered <= now
  /\ CallsMissing(source.cycles) /\ NoSlotSkipped /\ TimelyReportKept
=============================================================================
