---------------------------- MODULE PaperCandidate ----------------------------
(***************************************************************************)
(* The application of an approved paper candidate: a workflow claims the   *)
(* application, deploys the service disabled and bound to it, reads the    *)
(* process's own startup receipt, and publishes the result.  It shares one *)
(* concurrency group with the legacy sync, so one run of either is active. *)
(* A definition marked "Bug:" is a fault the properties must find.         *)
(*                                                                         *)
(* Source: .github/workflows/apply-paper-candidate.yml,                    *)
(* application/v7_paper_application.py, scripts/v7_paper_application_http. *)
(***************************************************************************)
EXTENDS Naturals, Sequences, FiniteSets

CONSTANTS Apps,         \* approved applications
          MaxRevisions  \* bound: revisions of the service

VARIABLES record,    \* the control plane: status and wire form of each application
          revisions, \* templates of the service, in order of creation
          serving,   \* the revision that gets the traffic
          jobs,      \* the scheduler jobs that are ENABLED
          receipts,  \* startup receipts in the log
          run,       \* the active workflow run
          unsettled, \* history: claims whose run was cancelled or could not post
          unheld     \* history: claims that were accepted but reached no run

vars == <<record, revisions, serving, jobs, receipts, run, unsettled, unheld>>

NoApp == "none"
Jobs == {"run", "probe"}
Template == [bound : Apps \cup {NoApp}, enabled : BOOLEAN]
Receipt == [app : Apps, revision : 1..MaxRevisions]
Idle == [pc |-> "idle", app |-> NoApp, revision |-> 0]
Template0 == [bound |-> NoApp, enabled |-> TRUE]

TypeOK ==
  /\ record \in [Apps -> [status : {"approved", "claimed", "applied_paused", "uncertain"}, flat : BOOLEAN, matches : BOOLEAN]]
  /\ Len(revisions) <= MaxRevisions /\ \A r \in DOMAIN revisions : revisions[r] \in Template
  /\ serving \in DOMAIN revisions /\ jobs \subseteq Jobs /\ receipts \subseteq Receipt
  /\ run.app \in Apps \cup {NoApp} /\ run.revision \in 0..MaxRevisions
  /\ unsettled \subseteq Apps /\ unheld \subseteq Apps

Init ==
  /\ record \in [Apps -> [status : {"approved"}, flat : BOOLEAN, matches : BOOLEAN]]
  /\ revisions = <<Template0>> /\ serving = 1 /\ jobs = Jobs /\ receipts = {} /\ run = Idle
  /\ unsettled = {} /\ unheld = {}

-----------------------------------------------------------------------------
(* The application run.  The control plane accepts one claim, and the run   *)
(* holds it once it has read the answer and the record is nested.  Else,   *)
(* when the answer is lost, is late or is not the expected object, and for *)
(* a record whose claim fields are flat, the claim step fails and the      *)
(* workflow publishes nothing (steps.claim.outcome).                       *)
Claim(a) ==
  /\ run = Idle /\ record[a].status = "approved"
  /\ record' = [record EXCEPT ![a].status = "claimed"]
  /\ \/ ~record[a].flat /\ run' = [Idle EXCEPT !.pc = "build", !.app = a] /\ unheld' = unheld
     \/ run' = Idle /\ unheld' = unheld \cup {a}
  /\ UNCHANGED <<revisions, serving, jobs, receipts, unsettled>>

(* build_v7_runtime_binding, the source and the image: the record must     *)
(* name the strategy of the protected target.                              *)
Build ==
  /\ run.pc = "build" /\ record[run.app].matches /\ run' = [run EXCEPT !.pc = "pause"]
  /\ UNCHANGED <<record, revisions, serving, jobs, receipts, unsettled, unheld>>
PauseJob(j) ==
  /\ run.pc = "pause" /\ j \in jobs /\ jobs' = jobs \ {j}
  /\ UNCHANGED <<record, revisions, serving, receipts, run, unsettled, unheld>>
Create(template) == Len(revisions) < MaxRevisions /\ revisions' = Append(revisions, template)
\* Update --no-traffic, then read the latest revision's name.
Update ==
  /\ run.pc = "pause" /\ jobs = {}
  /\ Create([bound |-> run.app, enabled |-> FALSE])
  /\ run' = [run EXCEPT !.pc = "shift", !.revision = Len(revisions')]
  /\ UNCHANGED <<record, serving, jobs, receipts, unsettled, unheld>>
Shift ==
  /\ run.pc = "shift" /\ serving' = run.revision /\ run' = [run EXCEPT !.pc = "verify"]
  /\ UNCHANGED <<record, revisions, jobs, receipts, unsettled, unheld>>

(* An instance of a bound revision writes its receipt as it starts, when   *)
(* what it loaded is what it is bound to (build_v7_loaded_version_readback).*)
Loads(r) == revisions[r].bound # NoApp /\ ~revisions[r].enabled
Start(r) ==
  /\ r \in DOMAIN revisions /\ Loads(r) /\ receipts' = receipts \cup {[app |-> revisions[r].bound, revision |-> r]}
  /\ UNCHANGED <<record, revisions, serving, jobs, run, unsettled, unheld>>
\* Bug: the receipt of any application will do.
AnyReceipt == receipts
Found == {e \in receipts : e.app = run.app /\ e.revision = run.revision}
Verify ==
  /\ run.pc = "verify" /\ Found # {} /\ run' = [run EXCEPT !.pc = "post"]
  /\ UNCHANGED <<record, revisions, serving, jobs, receipts, unsettled, unheld>>

(* The result.  An answer that is lost is a failed step, whatever the      *)
(* control plane recorded.                                                 *)
Post ==
  /\ run.pc = "post" /\ record' = [record EXCEPT ![run.app].status = "applied_paused"]
  /\ run' \in {Idle, [run EXCEPT !.pc = "failed"]}
  /\ UNCHANGED <<revisions, serving, jobs, receipts, unsettled, unheld>>
\* Bug: only a run that deployed tells of its failure.
TellsDeployed == run.revision # 0
Tells == run.app # NoApp
(* Any step may fail, before or after its effect; the claim was accepted,  *)
(* so the result is published as uncertain.                                *)
Fail ==
  /\ run.pc \in {"build", "pause", "shift", "verify", "post"}
  /\ \/ run.pc # "pause" /\ UNCHANGED <<revisions, serving>>
     \/ run.pc = "pause" /\ serving' = serving
        /\ (Create([bound |-> run.app, enabled |-> FALSE]) \/ revisions' = revisions)
     \/ run.pc = "shift" /\ serving' = run.revision /\ revisions' = revisions
  /\ run' = IF Tells THEN [run EXCEPT !.pc = "failed"] ELSE Idle
  /\ UNCHANGED <<record, jobs, receipts, unsettled, unheld>>
PostUncertain ==
  /\ run.pc = "failed"
  /\ \/ record' = [record EXCEPT ![run.app].status = "uncertain"] /\ unsettled' = unsettled
     \/ record' = record /\ unsettled' = unsettled \cup {run.app}
  /\ run' = Idle /\ UNCHANGED <<revisions, serving, jobs, receipts, unheld>>
\* The thirty minutes of the job: a cancelled run publishes nothing.
Cancel ==
  /\ run.app # NoApp /\ unsettled' = unsettled \cup {run.app} /\ run' = Idle
  /\ UNCHANGED <<record, revisions, serving, jobs, receipts, unheld>>

-----------------------------------------------------------------------------
(* The legacy sync: refused over a bound template, unless it touches only  *)
(* the scheduler jobs.                                                     *)
\* Bug: the revision that serves is looked at.
BoundServing == revisions[serving].bound # NoApp
Bound == revisions[Len(revisions)].bound # NoApp
Sync ==
  /\ run = Idle /\ ~Bound /\ Create(Template0)
  /\ run' = [Idle EXCEPT !.pc = "sync", !.revision = Len(revisions')]
  /\ UNCHANGED <<record, serving, jobs, receipts, unsettled, unheld>>
SyncShift ==
  /\ run.pc = "sync" /\ serving' \in {serving, run.revision} /\ run' = Idle
  /\ UNCHANGED <<record, revisions, jobs, receipts, unsettled, unheld>>
SyncJobs ==
  /\ run = Idle /\ jobs' \in {{}, Jobs}
  /\ UNCHANGED <<record, revisions, serving, receipts, run, unsettled, unheld>>

Next ==
  \/ \E a \in Apps : Claim(a)
  \/ \E j \in Jobs : PauseJob(j)
  \/ \E r \in 1..MaxRevisions : Start(r)
  \/ Build \/ Update \/ Shift \/ Verify \/ Post \/ Fail \/ PostUncertain \/ Cancel
  \/ Sync \/ SyncShift \/ SyncJobs
Spec == Init /\ [][Next]_vars

-----------------------------------------------------------------------------
(* What is published as applied and paused was loaded: a process of a      *)
(* revision bound to this application said so itself (find_readback).      *)
AppliedWasLoaded ==
  \A a \in Apps : record[a].status = "applied_paused" =>
    \E e \in receipts : e.app = a /\ revisions[e.revision] = [bound |-> a, enabled |-> FALSE]

(* A claim is settled by a result once its run is over, unless the run was *)
(* cancelled or could not post, or none ever held the claim.               *)
ClaimIsSettled ==
  \A a \in Apps : record[a].status = "claimed" /\ run.app # a => a \in unsettled \cup unheld

(* A claim that no run holds stays as it is: the application is not taken  *)
(* up again, no revision is ever bound to it and nothing is published of   *)
(* it, so the service is what it was (apply-paper-candidate.yml).          *)
UnheldDeploysNothing ==
  \A a \in unheld :
    /\ record[a].status = "claimed" /\ run.app # a
    /\ \A r \in DOMAIN revisions : revisions[r].bound # a

(* A sync never takes a binding away, even one that was never given the    *)
(* traffic ("Refuse legacy sync over a paused V7 application").            *)
BoundIsNotSyncedAway ==
  revisions[Len(revisions)].bound # NoApp => revisions'[Len(revisions')].bound # NoApp

(* What makes them hold: a run is about one application and posts only     *)
(* after a receipt, and a receipt is of a revision that is bound to it.    *)
Record == [status : {"approved", "claimed", "applied_paused", "uncertain"}, flat : BOOLEAN, matches : BOOLEAN]
CandidateTyped ==
  /\ record \in [Apps -> Record] /\ revisions \in Seq(Template) /\ Len(revisions) >= 1
  /\ run \in [pc : {"idle", "build", "pause", "shift", "verify", "post", "failed", "sync"},
              app : Apps \cup {NoApp}, revision : Nat]
RunHasApp ==
  /\ run.pc \in {"build", "pause", "shift", "verify", "post", "failed"} => run.app \in Apps
  /\ run.pc \in {"idle", "sync"} => run.app = NoApp
ReceiptsAreBound ==
  \A e \in receipts : e.revision \in DOMAIN revisions /\ revisions[e.revision] = [bound |-> e.app, enabled |-> FALSE]
PostsAfterReceipt == run.pc = "post" => Found # {}
CandidateInv ==
  /\ CandidateTyped /\ RunHasApp /\ ReceiptsAreBound /\ PostsAfterReceipt
  /\ AppliedWasLoaded /\ ClaimIsSettled

(* What a run holds, and what is bound, was claimed: a claim that finds    *)
(* the application approved finds nothing bound to it.                     *)
BoundAreClaimed ==
  /\ run.app # NoApp => record[run.app].status # "approved"
  /\ \A r \in DOMAIN revisions : revisions[r].bound # NoApp => record[revisions[r].bound].status # "approved"
UnheldInv == unheld \subseteq Apps /\ BoundAreClaimed /\ UnheldDeploysNothing
=============================================================================
