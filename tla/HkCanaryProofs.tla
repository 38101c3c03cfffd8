--------------------------- MODULE HkCanaryProofs ---------------------------
(* Theorems about HkCanary, for any number of runs of the helper, changes  *)
(* of the service and probes by others.                                    *)
EXTENDS HkCanary, FiniteSetTheorems, TLAPS

OneRun == [pc : Pc, service : Service \cup {NoService}, job : Job \cup {NoJob}, etag : Nat, since : Nat,
           resumed : BOOLEAN, pausing : BOOLEAN, outcome : {"none", "completed", "failed"}, doubt : SUBSET Pc]

\* What a step of one run makes of the runs.
Becomes(r, x) == run' = [run EXCEPT ![r] = x]

\* No service is the service that is not there.
LEMMA NoServiceIsNone == NoService \notin Service /\ NoJob \notin Job /\ NoService.etag = 0 /\ NoService.tags = {}
  BY DEF NoService, Service, NoJob, Job

\* A service is written.
LEMMA ServiceWritten ==
  ASSUME NEW s \in Service, NEW v \in {"old", "new"}, NEW t \in SUBSET (Runs \cup {"hk-canary", "other"}), NEW e \in Nat
  PROVE  [s EXCEPT !.serving = v, !.tags = t, !.etag = e] \in Service
  BY DEF Service

\* The fields of a run are typed, and a step of one leaves the others alone.
LEMMA RunTyped ==
  ASSUME TypeOK, NEW r \in Runs
  PROVE  /\ run \in [Runs -> OneRun] /\ run[r] \in OneRun
         /\ run[r].pc \in Pc /\ run[r].service \in Service \cup {NoService} /\ run[r].etag \in Nat
         /\ run[r].since \in Nat /\ run[r].resumed \in BOOLEAN /\ run[r].pausing \in BOOLEAN
         /\ run[r].outcome \in {"none", "completed", "failed"} /\ run[r].doubt \in SUBSET Pc
         /\ run[r].job \in Job \cup {NoJob}
  BY DEF TypeOK, OneRun

\* A step that makes one run another leaves the other runs as they are.
LEMMA OneMoves ==
  ASSUME TypeOK, NEW r \in Runs, NEW x \in OneRun, Becomes(r, x)
  PROVE  /\ run' \in [Runs -> OneRun] /\ run'[r] = x
         /\ \A s \in Runs : s # r => run'[s] = run[s]
  BY DEF TypeOK, OneRun, Becomes

\* Where a run goes.
LEMMA GoesIs ==
  ASSUME TypeOK, NEW r \in Runs, NEW pc \in Pc, Goes(r, pc)
  PROVE  Becomes(r, [run[r] EXCEPT !.pc = pc]) /\ [run[r] EXCEPT !.pc = pc] \in OneRun
  BY RunTyped DEF Goes, Becomes, OneRun

\* A call of unknown outcome is remembered, and the run goes on.
LEMMA DoubtsIs ==
  ASSUME TypeOK, NEW r \in Runs, NEW pc \in Pc, Doubts(r, pc)
  PROVE  /\ Becomes(r, [run[r] EXCEPT !.pc = pc, !.doubt = @ \cup {run[r].pc}])
         /\ [run[r] EXCEPT !.pc = pc, !.doubt = @ \cup {run[r].pc}] \in OneRun
  BY RunTyped DEF Doubts, Becomes, OneRun

-----------------------------------------------------------------------------
(* The flags of a run.                                                     *)
\* A run that goes on from where it is to a next place with the same flags.
LEMMA GoesOn ==
  ASSUME TypeOK, NEW r \in Runs, FlagsFit(run[r]), NEW pc \in Pc, Goes(r, pc),
         \/ pc \in Early /\ run[r].pc \in Early
         \/ pc \in Restoring /\ run[r].pc \in Restoring
         \/ pc \in {"stopped", "crashed"}
         \/ pc = "wait" /\ run[r].pc = "dispatch"
         \/ pc = "pause" /\ run[r].pc \in {"resumeRead", "dispatch", "wait"}
         \/ pc = "restoreUri" /\ run[r].pc = "pauseRead" /\ run[r].outcome # "none"
         \/ pc = "restoreRead" /\ run[r].pc = "restoreUri"
  PROVE  \E x \in OneRun : Becomes(r, x) /\ FlagsFit(x)
<1> DEFINE y == run[r]
           x == [y EXCEPT !.pc = pc]
<1>1. Becomes(r, x) /\ x \in OneRun
  BY GoesIs
<1>2. /\ x.pc = pc /\ x.resumed = y.resumed /\ x.pausing = y.pausing /\ x.outcome = y.outcome /\ x.doubt = y.doubt
      /\ y.pc \in Pc
  BY RunTyped DEF OneRun
<1>3. FlagsFit(x)
  BY <1>2 DEF FlagsFit, Early, Restoring, Fresh
<1> QED BY <1>1, <1>3

\* A run that gives up, or goes to pause the job it has resumed.
LEMMA StopsWell ==
  ASSUME TypeOK, NEW r \in Runs, FlagsFit(run[r]), Goes(r, Leave(r)), run[r].pc \notin {"stopped", "crashed", "pause"}
  PROVE  \E x \in OneRun : Becomes(r, x) /\ FlagsFit(x)
<1>1. Leave(r) \in {"pause", "stopped"} /\ Leave(r) \in Pc
  BY DEF Leave, Pc
<1>2. Leave(r) = "pause" => run[r].pc \in {"resumeRead", "dispatch", "wait"}
  <2>1. Leave(r) = "pause" => run[r].resumed /\ ~run[r].pausing
    BY DEF Leave, MustPause
  <2>2. run[r].pc \in Pc
    BY RunTyped
  <2> QED BY <2>1, <2>2 DEF FlagsFit, Early, Restoring, Fresh, Pc
<1> QED BY <1>1, <1>2, GoesOn

\* A write whose answer is unknown.
LEMMA DoubtsWell ==
  ASSUME TypeOK, NEW r \in Runs, FlagsFit(run[r]), NEW pc \in Pc, Doubts(r, pc),
         \/ pc = "stopped" /\ run[r].pc \in {"tag", "uri", "restoreUri", "untag"}
         \/ pc = "resumeUnknown" /\ run[r].pc = "resume"
  PROVE  \E x \in OneRun : Becomes(r, x) /\ FlagsFit(x)
<1> DEFINE y == run[r]
           x == [y EXCEPT !.pc = pc, !.doubt = @ \cup {run[r].pc}]
<1>1. Becomes(r, x) /\ x \in OneRun
  BY DoubtsIs
<1>2. /\ x.pc = pc /\ x.resumed = y.resumed /\ x.pausing = y.pausing /\ x.outcome = y.outcome
      /\ x.doubt = y.doubt \cup {y.pc} /\ y.doubt = {}
  BY RunTyped DEF OneRun, FlagsFit, Early, Restoring, Fresh
<1>3. FlagsFit(x)
  BY <1>2 DEF FlagsFit, Early, Restoring, Fresh
<1> QED BY <1>1, <1>3

\* A write, answered or not, keeps the flags of its run those of where it is.
LEMMA WritesWell ==
  ASSUME TypeOK, NEW r \in Runs, FlagsFit(run[r]), NEW at, NEW c, NEW next, Write(r, at, c, next),
         <<at, next>> \in {<<"tag", "tagRead">>, <<"uri", "uriRead">>, <<"restoreUri", "restoreRead">>,
                           <<"untag", "finalService">>}
  PROVE  \E x \in OneRun : Becomes(r, x) /\ FlagsFit(x)
<1>1. run[r].pc = at /\ at \in Pc /\ next \in Pc /\ "stopped" \in Pc
  BY DEF Write, At, Pc
<1>2. Goes(r, next) \/ Doubts(r, "stopped") \/ Goes(r, Leave(r))
  BY DEF Write
<1>3. ASSUME Goes(r, next) PROVE \E x \in OneRun : Becomes(r, x) /\ FlagsFit(x)
  BY <1>1, <1>3, GoesOn DEF Early, Restoring
<1>4. ASSUME Goes(r, Leave(r)) PROVE \E x \in OneRun : Becomes(r, x) /\ FlagsFit(x)
  BY <1>1, <1>4, StopsWell
<1>5. ASSUME Doubts(r, "stopped") PROVE \E x \in OneRun : Becomes(r, x) /\ FlagsFit(x)
  BY <1>1, <1>5, DoubtsWell
<1> QED BY <1>2, <1>3, <1>4, <1>5

\* A read.
LEMMA ReadsWell ==
  ASSUME TypeOK, NEW r \in Runs, FlagsFit(run[r]), NEW at, NEW holds, NEW next, Read(r, at, holds, next),
         \/ at \in Early /\ next \in Early
         \/ at \in Restoring /\ next \in Restoring
         \/ at = "pauseRead" /\ next = "restoreUri" /\ (holds => run[r].outcome # "none")
  PROVE  \E x \in OneRun : Becomes(r, x) /\ FlagsFit(x)
<1>1. run[r].pc = at /\ next \in Pc
  BY DEF Read, At, Pc, Early, Restoring
<1>2. (holds /\ Goes(r, next)) \/ Goes(r, Leave(r))
  BY DEF Read, Stops
<1>3. ASSUME holds, Goes(r, next) PROVE \E x \in OneRun : Becomes(r, x) /\ FlagsFit(x)
  BY <1>1, <1>3, GoesOn
<1>4. ASSUME Goes(r, Leave(r)) PROVE \E x \in OneRun : Becomes(r, x) /\ FlagsFit(x)
  BY <1>1, <1>4, StopsWell DEF Early, Restoring
<1> QED BY <1>2, <1>3, <1>4

\* Every step of a run keeps its flags those of where it is.
LEMMA StepsWell ==
  ASSUME TypeOK, IsFiniteSet(requests), NEW r \in Runs, FlagsFit(run[r]), Step(r)
  PROVE  \E x \in OneRun : Becomes(r, x) /\ FlagsFit(x)
<1> DEFINE y == run[r]
           Well == \E x \in OneRun : Becomes(r, x) /\ FlagsFit(x)
<1>0. /\ y.pc \in Pc /\ y.resumed \in BOOLEAN /\ y.pausing \in BOOLEAN /\ y.doubt \in SUBSET Pc
      /\ y.outcome \in {"none", "completed", "failed"} /\ y \in OneRun
      /\ service \in Service /\ service.etag \in Nat /\ job \in Job /\ Cardinality(requests) \in Nat
  BY RunTyped, FS_CardinalityType DEF TypeOK, Service
<1>00. {"recheck", "resumeRead", "dispatch", "pause", "pauseRead", "untag", "stopped"} \subseteq Pc
  BY DEF Pc
<1>1. CASE Preflight(r)
  <2>1. CASE Stops(r) /\ y.pc = "preflight"
    BY <2>1, StopsWell DEF Stops
  <2>2. CASE y.pc = "preflight" /\ run' = [run EXCEPT ![r].pc = "recheck", ![r].service = service, ![r].job = job]
    <3> DEFINE x == [y EXCEPT !.pc = "recheck", !.service = service, !.job = job]
    <3>1. Becomes(r, x) /\ x \in OneRun
      BY <1>0, <1>00, <2>2, RunTyped DEF OneRun, Becomes
    <3>2. /\ x.pc = "recheck" /\ x.resumed = y.resumed /\ x.pausing = y.pausing /\ x.outcome = y.outcome
          /\ x.doubt = y.doubt
      BY <1>0 DEF OneRun
    <3>3. FlagsFit(x)
      BY <2>2, <3>2 DEF FlagsFit, Early, Restoring, Fresh
    <3> QED BY <3>1, <3>3
  <2> QED BY <1>1, <2>1, <2>2 DEF Preflight, At
<1>2. CASE Backup(r) \/ Allocate(r) \/ Claim(r)
  <2>1. y.pc \in {"backup", "allocate", "claim"} /\ \E pc \in {"allocate", "claim", "tag", "stopped"} : Goes(r, pc)
    BY <1>2 DEF Backup, Allocate, Claim, At
  <2> QED BY <2>1, GoesOn DEF Early, Pc
<1>3. CASE Recheck(r) \/ TagRead(r) \/ UriRead(r) \/ FinalService(r) \/ FinalJobs(r)
  <2>1. CASE Recheck(r)
    BY <2>1, ReadsWell DEF Recheck, Early
  <2>2. CASE TagRead(r)
    BY <2>2, ReadsWell DEF TagRead, Early
  <2>3. CASE UriRead(r)
    BY <2>3, ReadsWell DEF UriRead, Early
  <2>4. CASE FinalService(r)
    BY <2>4, ReadsWell DEF FinalService, Restoring
  <2>5. CASE FinalJobs(r)
    BY <2>5, ReadsWell DEF FinalJobs, Restoring
  <2> QED BY <1>3, <2>1, <2>2, <2>3, <2>4, <2>5
<1>4. CASE Tag(r) \/ Uri(r) \/ RestoreUri(r) \/ Untag(r)
  BY <1>4, WritesWell DEF Tag, Uri, RestoreUri, Untag
<1>5. CASE Resume(r)
  <2>0. y.pc = "resume" /\ Fresh(y)
    BY <1>5 DEF Resume, At, FlagsFit, Early
  <2>1. CASE run' = [run EXCEPT ![r].pc = "resumeRead", ![r].resumed = TRUE]
    <3> DEFINE x == [y EXCEPT !.pc = "resumeRead", !.resumed = TRUE]
    <3>1. Becomes(r, x) /\ x \in OneRun
      BY <1>0, <1>00, <2>1, RunTyped DEF OneRun, Becomes
    <3>2. x.pc = "resumeRead" /\ x.resumed /\ x.pausing = y.pausing /\ x.outcome = y.outcome /\ x.doubt = y.doubt
      BY <1>0 DEF OneRun
    <3>3. FlagsFit(x)
      BY <2>0, <3>2 DEF FlagsFit, Early, Restoring, Fresh
    <3> QED BY <3>1, <3>3
  <2>2. CASE Doubts(r, "resumeUnknown")
    BY <2>0, <2>2, DoubtsWell DEF Pc
  <2>3. CASE Goes(r, "stopped")
    BY <2>3, GoesOn DEF Pc
  <2> QED BY <1>5, <2>1, <2>2, <2>3 DEF Resume
<1>6. CASE ResumeUnknown(r)
  <2>0. y.pc = "resumeUnknown"
    BY <1>6 DEF ResumeUnknown, At
  <2>1. CASE run' = [run EXCEPT ![r].resumed = TRUE, ![r].pc = "pause"]
    <3> DEFINE x == [y EXCEPT !.resumed = TRUE, !.pc = "pause"]
    <3>1. Becomes(r, x) /\ x \in OneRun
      BY <1>0, <1>00, <2>1, RunTyped DEF OneRun, Becomes
    <3>2. x.pc = "pause" /\ x.resumed /\ x.pausing = y.pausing /\ x.outcome = y.outcome /\ x.doubt = y.doubt
      BY <1>0 DEF OneRun
    <3>3. FlagsFit(x)
      BY <2>0, <3>2 DEF FlagsFit, Early, Restoring, Fresh
    <3> QED BY <3>1, <3>3
  <2>2. CASE Goes(r, "stopped")
    BY <2>2, GoesOn DEF Pc
  <2> QED BY <1>6, <2>1, <2>2 DEF ResumeUnknown
<1>7. CASE ResumeRead(r)
  <2>0. y.pc = "resumeRead"
    BY <1>7 DEF ResumeRead, At
  <2>1. CASE run' = [run EXCEPT ![r].pc = "dispatch", ![r].since = Cardinality(requests)]
    <3> DEFINE x == [y EXCEPT !.pc = "dispatch", !.since = Cardinality(requests)]
    <3>1. Becomes(r, x) /\ x \in OneRun
      BY <1>0, <1>00, <2>1, RunTyped DEF OneRun, Becomes
    <3>2. /\ x.pc = "dispatch" /\ x.resumed = y.resumed /\ x.pausing = y.pausing /\ x.outcome = y.outcome
          /\ x.doubt = y.doubt
      BY <1>0 DEF OneRun
    <3>3. FlagsFit(x)
      BY <2>0, <3>2 DEF FlagsFit, Early, Restoring, Fresh
    <3> QED BY <3>1, <3>3
  <2>2. CASE Goes(r, Leave(r))
    BY <2>0, <2>2, StopsWell
  <2> QED BY <1>7, <2>1, <2>2 DEF ResumeRead
<1>8. CASE Dispatch(r)
  <2>1. y.pc = "dispatch" /\ (Goes(r, "wait") \/ Goes(r, Leave(r)))
    BY <1>8 DEF Dispatch, At
  <2>2. Goes(r, "wait") => Well
    BY <2>1, GoesOn DEF Pc
  <2>3. Goes(r, Leave(r)) => Well
    BY <2>1, StopsWell
  <2> QED BY <2>1, <2>2, <2>3
<1>9. CASE Wait(r)
  <2>0. y.pc = "wait"
    BY <1>9 DEF Wait, At
  <2>1. ASSUME NEW q \in requests, run' = [run EXCEPT ![r].outcome = CandidateOutcome(q), ![r].pc = "pause"]
        PROVE  Well
    <3> DEFINE x == [y EXCEPT !.outcome = CandidateOutcome(q), !.pc = "pause"]
    <3>0. CandidateOutcome(q) \in {"none", "completed", "failed"}
      BY DEF CandidateOutcome
    <3>1. Becomes(r, x) /\ x \in OneRun
      BY <1>0, <1>00, <2>1, <3>0, RunTyped DEF OneRun, Becomes
    <3>2. /\ x.pc = "pause" /\ x.resumed = y.resumed /\ x.pausing = y.pausing /\ x.doubt = y.doubt
      BY <1>0 DEF OneRun
    <3>3. FlagsFit(x)
      BY <2>0, <3>2 DEF FlagsFit, Early, Restoring, Fresh
    <3> QED BY <3>1, <3>3
  <2>2. CASE Goes(r, "pause")
    BY <2>0, <2>2, GoesOn DEF Pc
  <2> QED BY <1>9, <2>1, <2>2 DEF Wait
<1>10. CASE Pause(r)
  <2>0. y.pc = "pause"
    BY <1>10 DEF Pause, At
  <2>1. CASE run' = [run EXCEPT ![r].pausing = TRUE, ![r].resumed = FALSE, ![r].pc = "pauseRead"]
    <3> DEFINE x == [y EXCEPT !.pausing = TRUE, !.resumed = FALSE, !.pc = "pauseRead"]
    <3>1. Becomes(r, x) /\ x \in OneRun
      BY <1>0, <1>00, <2>1, RunTyped DEF OneRun, Becomes
    <3>2. x.pc = "pauseRead" /\ ~x.resumed /\ x.pausing /\ x.doubt = y.doubt /\ x.outcome = y.outcome
      BY <1>0 DEF OneRun
    <3>3. FlagsFit(x)
      BY <2>0, <3>2 DEF FlagsFit, Early, Restoring, Fresh
    <3> QED BY <3>1, <3>3
  <2>2. CASE run' = [run EXCEPT ![r].pausing = TRUE, ![r].pc = "stopped", ![r].doubt = @ \cup {"pause"}]
    <3> DEFINE x == [y EXCEPT !.pausing = TRUE, !.pc = "stopped", !.doubt = @ \cup {"pause"}]
    <3>1. Becomes(r, x) /\ x \in OneRun
      BY <1>0, <1>00, <2>2, RunTyped DEF OneRun, Becomes
    <3>2. x.pc = "stopped" /\ x.doubt = y.doubt \cup {"pause"}
      BY <1>0 DEF OneRun
    <3>3. FlagsFit(x)
      BY <2>0, <3>2 DEF FlagsFit, Early, Restoring, Fresh
    <3> QED BY <3>1, <3>3
  <2>3. CASE run' = [run EXCEPT ![r].pausing = TRUE, ![r].pc = "stopped"]
    <3> DEFINE x == [y EXCEPT !.pausing = TRUE, !.pc = "stopped"]
    <3>1. Becomes(r, x) /\ x \in OneRun
      BY <1>0, <1>00, <2>3, RunTyped DEF OneRun, Becomes
    <3>2. x.pc = "stopped" /\ x.doubt = y.doubt
      BY <1>0 DEF OneRun
    <3>3. FlagsFit(x)
      BY <2>0, <3>2 DEF FlagsFit, Early, Restoring, Fresh
    <3> QED BY <3>1, <3>3
  <2> QED BY <1>10, <2>1, <2>2, <2>3 DEF Pause
<1>11. CASE PauseRead(r)
  BY <1>11, ReadsWell DEF PauseRead
<1>12. CASE RestoreRead(r)
  <2>0. y.pc = "restoreRead"
    BY <1>12 DEF RestoreRead, At
  <2>1. CASE run' = [run EXCEPT ![r].pc = "untag", ![r].etag = service.etag]
    <3> DEFINE x == [y EXCEPT !.pc = "untag", !.etag = service.etag]
    <3>1. Becomes(r, x) /\ x \in OneRun
      BY <1>0, <1>00, <2>1, RunTyped DEF OneRun, Becomes
    <3>2. /\ x.pc = "untag" /\ x.resumed = y.resumed /\ x.pausing = y.pausing /\ x.doubt = y.doubt
          /\ x.outcome = y.outcome
      BY <1>0 DEF OneRun
    <3>3. FlagsFit(x)
      BY <2>0, <3>2 DEF FlagsFit, Early, Restoring, Fresh
    <3> QED BY <3>1, <3>3
  <2>2. CASE Stops(r)
    BY <2>0, <2>2, StopsWell DEF Stops
  <2> QED BY <1>12, <2>1, <2>2 DEF RestoreRead
<1> QED
  BY <1>1, <1>2, <1>3, <1>4, <1>5, <1>6, <1>7, <1>8, <1>9, <1>10, <1>11, <1>12 DEF Step

-----------------------------------------------------------------------------
(* The claim.                                                              *)

\* A step makes a claimer of a run only by creating the claim file.
LEMMA ClaimIsMade ==
  ASSUME TypeOK, NEW r \in Runs, FlagsFit(run[r]), NEW x \in OneRun, Becomes(r, x), Step(r)
  PROVE  \/ claim' = claim /\ (Claimer(r)' => Claimer(r))
         \/ claim = NoRun /\ claim' = r
<1> DEFINE y == run[r]
<1>0. run'[r] = x /\ y.pc \in Pc /\ x.pc \in Pc
  BY OneMoves, RunTyped DEF OneRun
<1>1. CASE Preflight(r) \/ Recheck(r) \/ Backup(r) \/ Allocate(r)
  <2>1. claim' = claim /\ x.pc \in {"recheck", "backup", "allocate", "claim", "stopped"}
    <3>1. y.pc \in {"preflight", "recheck", "backup", "allocate"} /\ Fresh(y)
      BY <1>1 DEF Preflight, Recheck, Backup, Allocate, Read, At, FlagsFit, Early
    <3>2. Leave(r) = "stopped"
      BY <3>1 DEF Leave, MustPause, Fresh
    <3> QED BY <1>0, <1>1, <3>2, RunTyped DEF Preflight, Recheck, Backup, Allocate, Read, Stops, Goes, files, OneRun
  <2>2. x.resumed = y.resumed /\ x.pausing = y.pausing /\ x.doubt = y.doubt
    BY <1>0, <1>1, RunTyped DEF Preflight, Recheck, Backup, Allocate, Read, Stops, Goes, OneRun
  <2> QED BY <1>0, <2>1, <2>2 DEF Claimer, Writing, Pc

<1>2. CASE Claim(r)
  <2>1. CASE Unclaimed /\ claim' = r
    BY <2>1 DEF Unclaimed
  <2>2. CASE Goes(r, "stopped") /\ claim' = claim
    <3>1. y.pc = "claim" /\ Fresh(y)
      BY <1>2 DEF Claim, At, FlagsFit, Early
    <3>2. x.pc = "stopped" /\ x.resumed = y.resumed /\ x.pausing = y.pausing /\ x.doubt = y.doubt
      BY <1>0, <2>2, RunTyped DEF Goes, OneRun
    <3> QED BY <1>0, <2>2, <3>1, <3>2 DEF Claimer, Writing, Fresh
  <2> QED BY <1>2, <2>1, <2>2 DEF Claim
<1>3. CASE Tag(r) \/ Uri(r) \/ RestoreUri(r) \/ Untag(r)
  BY <1>3 DEF Tag, Uri, RestoreUri, Untag, Write, At, files, Claimer, Writing, Pc
<1>4. CASE TagRead(r) \/ UriRead(r) \/ PauseRead(r) \/ FinalService(r) \/ FinalJobs(r)
  BY <1>4 DEF TagRead, UriRead, PauseRead, FinalService, FinalJobs, Read, Stops, At, files, Claimer, Writing, Pc
<1>5. CASE Resume(r) \/ ResumeUnknown(r) \/ ResumeRead(r) \/ Dispatch(r)
  BY <1>5 DEF Resume, ResumeUnknown, ResumeRead, Dispatch, At, files, Claimer, Writing, Pc
<1>6. CASE Wait(r) \/ Pause(r) \/ RestoreRead(r)
  BY <1>6 DEF Wait, Pause, RestoreRead, Stops, At, files, Claimer, Writing, Pc
<1> QED BY <1>1, <1>2, <1>3, <1>4, <1>5, <1>6 DEF Step

\* No run is the mark for none, nor the file that replaced the claim.
LEMMA RunsAreNames ==
  "hk-canary" \notin Runs /\ "other" \notin Runs /\ "changed" \notin Runs /\ NoRun \notin Runs /\ NoRun # "changed"
  BY RunsAssumption

\* Once a run claims, only it does: a step of any run leaves one claimer at
\* most.
LEMMA ClaimsStep ==
  ASSUME TypeOK, NEW r \in Runs, FlagsFit(run[r]), NEW x \in OneRun, Becomes(r, x), Step(r), OneClaims
  PROVE  OneClaims'
<1>1. \A s \in Runs : s # r => (Claimer(s)' <=> Claimer(s))
  BY OneMoves DEF Claimer
<1>2. CASE claim' = claim /\ (Claimer(r)' => Claimer(r))
  BY <1>1, <1>2 DEF OneClaims
<1>3. CASE claim = NoRun /\ claim' = r
  <2>1. \A s \in Runs : ~Claimer(s)
    BY <1>3, RunsAreNames DEF OneClaims
  <2> QED BY <1>1, <1>3, <2>1 DEF OneClaims
<1> QED BY <1>2, <1>3, ClaimIsMade

-----------------------------------------------------------------------------
(* Calls: one a run makes and one that takes effect late are alike.        *)
Ops == {"tag", "uri", "resume", "run", "pause", "restoreUri", "untag"}
CallOk(c) ==
  /\ c.run \in Runs /\ Claimer(c.run) /\ c.op \in Ops /\ c.etag \in Nat
  /\ IF c.op = "run" THEN run[c.run].resumed \/ run[c.run].pausing
                     ELSE run[c.run].pc = c.op \/ c.op \in run[c.run].doubt
  /\ c.op = "tag" => c.etag = run[c.run].service.etag /\ c.serving = run[c.run].service.serving
  /\ c.op = "untag" => /\ before # NoService
                       /\ c.etag <= service.etag /\ (c.etag = service.etag => c.serving = service.serving)
  /\ c.op \in {"tag", "untag"} => c.serving \in {"old", "new"} /\ c.tags \subseteq Runs \cup {"hk-canary", "other"}

\* What it does to the cloud when it takes effect.
Stays == service' = service /\ job' = job /\ queue' = queue /\ before' = before
TrafficMoves(c) ==
  /\ c.op \in {"tag", "untag"} /\ job' = job /\ queue' = queue
  /\ service' \in Service /\ service'.etag = service.etag + 1
  /\ service'.serving = service.serving /\ service'.template = service.template
  /\ before' # NoService /\ before' = backup
JobMoves(c) ==
  /\ service' = service /\ queue' = queue /\ before' = before /\ job' \in Job
  /\ \/ c.op = "uri" /\ job'.uri = "tag" /\ job'.state = job.state
     \/ c.op = "restoreUri" /\ job'.state = "PAUSED"
     \/ c.op = "resume" /\ job'.uri = "tag"
     \/ c.op = "pause" /\ job'.state = "PAUSED" /\ job'.uri = job.uri
Queues(c) == c.op = "run" /\ queue' = queue \cup {c.run} /\ service' = service /\ job' = job /\ before' = before
Effect(c) == TrafficMoves(c) \/ JobMoves(c) \/ Queues(c)

\* A call that may still take effect is one its caller could have made.
LEMMA LateIsOk == ASSUME CanaryInv, NEW c \in late PROVE CallOk(c)
<1>1. CallFits(c) /\ c.op \in Ops
  BY DEF CanaryInv, CallsFit, TypeOK, Ops
<1>2. Claimer(c.run)
  BY <1>1 DEF CallFits, Claimer
<1> QED BY <1>1, <1>2 DEF CallFits, CallOk

\* What a call that takes effect does to the service, the job and the requests.
LEMMA EffectOf == ASSUME CanaryInv, NEW c, CallOk(c), Applies(c) PROVE Effect(c)
<1> DEFINE w == c.run
<1>0. /\ service \in Service /\ job \in Job /\ w \in Runs /\ service # NoService /\ service.etag \in Nat
      /\ before \in Service \cup {NoService} /\ backup \in Service \cup {NoService}
  BY NoServiceIsNone DEF CallOk, CanaryInv, TypeOK, Service
<1>1. CASE c.op \in {"tag", "untag"}
  <2>1. /\ service.etag = c.etag
        /\ service' = [service EXCEPT !.serving = c.serving, !.tags = c.tags, !.etag = @ + 1]
        /\ before' = IF before = NoService THEN service ELSE before
        /\ job' = job /\ queue' = queue
    BY <1>1 DEF Applies, WriteTraffic, EtagHolds
  <2>2. c.serving = service.serving /\ c.tags \subseteq Runs \cup {"hk-canary", "other"}
    <3>1. CASE c.op = "tag"
      <4>1. KeepsBackup(run[w])
        BY <3>1 DEF CallOk, KeepsBackup, Writing, Pc
      <4>2. IsPast(run[w].service) /\ run[w].service # NoService
        BY <1>0, <4>1 DEF CanaryInv, BackupsFit
      <4>3. run[w].service = service
        BY <2>1, <3>1, <4>2 DEF CallOk, IsPast
      <4> QED BY <3>1, <4>3 DEF CallOk
    <3>2. CASE c.op = "untag"
      BY <2>1, <3>2 DEF CallOk
    <3> QED BY <1>1, <3>1, <3>2
  <2>3. /\ service' \in Service /\ service'.etag = service.etag + 1
        /\ service'.serving = service.serving /\ service'.template = service.template
    <3>1. c.serving \in {"old", "new"} /\ c.tags \in SUBSET (Runs \cup {"hk-canary", "other"})
      BY <1>0, <2>2 DEF Service
    <3>2. service.etag + 1 \in Nat /\ service' = [service EXCEPT !.serving = c.serving, !.tags = c.tags, !.etag = service.etag + 1]
      BY <1>0, <2>1
    <3>3. service' \in Service
      BY <1>0, <3>1, <3>2, ServiceWritten
    <3>4. service'.etag = service.etag + 1 /\ service'.serving = c.serving /\ service'.template = service.template
      BY <1>0, <3>2 DEF Service
    <3> QED BY <2>2, <3>3, <3>4
  <2>4. before' # NoService /\ before' = backup
    <3>1. CASE before # NoService
      BY <2>1, <3>1 DEF CanaryInv, BackupIsPreWrite
    <3>2. CASE before = NoService
      <4>0. c.op = "tag"
        BY <1>1, <3>2 DEF CallOk
      <4>1. KeepsBackup(run[w])
        BY <4>0 DEF CallOk, KeepsBackup, Writing, Pc
      <4>2. IsPast(run[w].service) /\ run[w].service # NoService /\ run[w].service = backup
        BY <1>0, <4>1 DEF CanaryInv, BackupsFit
      <4>3. run[w].service = service
        BY <2>1, <4>0, <4>2 DEF CallOk, IsPast
      <4> QED BY <1>0, <2>1, <3>2, <4>2, <4>3
    <3> QED BY <3>1, <3>2
  <2> QED BY <1>1, <2>1, <2>3, <2>4 DEF Effect, TrafficMoves
<1>2. CASE c.op = "uri"
  BY <1>0, <1>2 DEF Applies, WriteUri, Effect, JobMoves, Job
<1>3. CASE c.op = "restoreUri"
  <2>1. job.state = "PAUSED"
    BY <1>0, <1>3 DEF CallOk, CanaryInv, JobFits, Restoring
  <2> QED BY <1>0, <1>3, <2>1 DEF Applies, WriteUri, Effect, JobMoves, Job
<1>4. CASE c.op = "resume"
  <2>1. job.uri = "tag"
    BY <1>0, <1>4 DEF CallOk, CanaryInv, JobFits
  <2> QED BY <1>0, <1>4, <2>1 DEF Applies, WriteState, Effect, JobMoves, Job
<1>5. CASE c.op = "pause"
  BY <1>0, <1>5 DEF Applies, WriteState, Effect, JobMoves, Job
<1>6. CASE c.op = "run"
  BY <1>6 DEF Applies, Enqueue, Effect, Queues
<1> QED BY <1>1, <1>2, <1>3, <1>4, <1>5, <1>6 DEF CallOk, Ops

\* The calls of a run where it makes them.
LEMMA OwnIsOk ==
  ASSUME CanaryInv, NEW r \in Runs
  PROVE  /\ run[r].pc = "tag" => CallOk(TagCall(r)) /\ TagCall(r).op = "tag" /\ TagCall(r).run = r
         /\ run[r].pc = "untag" => CallOk(UntagCall(r)) /\ UntagCall(r).op = "untag" /\ UntagCall(r).run = r
         /\ \A op \in {"uri", "resume", "pause", "restoreUri"} :
              run[r].pc = op => CallOk(JobCall(r, op)) /\ JobCall(r, op).op = op /\ JobCall(r, op).run = r
         /\ run[r].pc = "dispatch" =>
              CallOk(JobCall(r, "run")) /\ JobCall(r, "run").op = "run" /\ JobCall(r, "run").run = r
<1> DEFINE s == run[r].service
<1>1. \A op \in Pc : op \in Writing /\ run[r].pc = op => Claimer(r)
  BY DEF Claimer
<1>2. {"tag", "untag", "uri", "resume", "pause", "restoreUri", "dispatch"} \subseteq Writing \cap Pc
  BY DEF Writing, Pc
<1>3. run[r].pc \in {"tag", "untag"} => /\ s.serving \in {"old", "new"} /\ s.tags \in SUBSET (Runs \cup {"hk-canary", "other"})
                                        /\ s.etag \in Nat
  <2>1. run[r].pc \in {"tag", "untag"} => s \in Service
    BY <1>2, RunTyped DEF CanaryInv, BackupsFit, KeepsBackup
  <2> QED BY <2>1 DEF Service
<1>4. TagOf(r) \in Runs \cup {"hk-canary"}
  BY DEF TagOf
<1>5. run[r].pc = "tag" => CallOk(TagCall(r)) /\ TagCall(r).op = "tag" /\ TagCall(r).run = r
  BY <1>1, <1>2, <1>3, <1>4 DEF TagCall, TrafficCall, CallOk, Ops
<1>6. run[r].pc = "untag" => CallOk(UntagCall(r)) /\ UntagCall(r).op = "untag" /\ UntagCall(r).run = r
  <2>1. run[r].pc = "untag" => before # NoService
    BY <1>2 DEF CanaryInv, BackupsFit
  <2>2. run[r].pc = "untag" => /\ run[r].etag \in Nat /\ run[r].etag <= service.etag
                               /\ run[r].etag = service.etag => s.serving = service.serving
    BY RunTyped DEF CanaryInv, BackupsFit
  <2> QED BY <1>1, <1>2, <1>3, <2>1, <2>2 DEF UntagCall, TrafficCall, CallOk, Ops
<1>7. ASSUME NEW op \in {"uri", "resume", "pause", "restoreUri"}, run[r].pc = op
      PROVE  CallOk(JobCall(r, op)) /\ JobCall(r, op).op = op /\ JobCall(r, op).run = r
  BY <1>1, <1>2, <1>7 DEF JobCall, TrafficCall, CallOk, Ops
<1>8. run[r].pc = "dispatch" => CallOk(JobCall(r, "run")) /\ JobCall(r, "run").op = "run" /\ JobCall(r, "run").run = r
  <2>1. run[r].pc = "dispatch" => run[r].resumed
    BY DEF CanaryInv, FlagsFit
  <2> QED BY <1>1, <1>2, <2>1 DEF JobCall, TrafficCall, CallOk, Ops
<1> QED BY <1>5, <1>6, <1>7, <1>8

\* What a step of a run does to the cloud.
StepCalls(r) ==
  \/ Stays /\ late' = late
  \/ \E c : /\ CallOk(c) /\ c.run = r /\ Owns(r)
            /\ IF c.op = "run" THEN run[r].pc = "dispatch" ELSE c.op = run[r].pc
            /\ \/ Effect(c) /\ late' = late
               \/ Stays /\ late' \in {late, late \cup {c}} /\ (c.op # "run" => c.op \in run'[r].doubt)

\* A call takes effect at once, does so later, or never.
LEMMA SucceedsOrFails ==
  ASSUME CanaryInv, NEW c, CallOk(c), Succeeds(c) \/ Fails(c)
  PROVE  /\ requests' = requests
         /\ \/ Effect(c) /\ late' = late
            \/ Stays /\ late' \in {late, late \cup {c}}
  BY EffectOf DEF Succeeds, Fails, Stays, cloud

\* A write makes its own call and no request.
LEMMA WriteCalls ==
  ASSUME CanaryInv, NEW r \in Runs, NEW at, NEW c, NEW next, Write(r, at, c, next), CallOk(c), c.op = at, c.run = r, at # "run"
  PROVE  StepCalls(r) /\ requests' = requests
<1>1. CASE ~Owns(r) /\ UNCHANGED <<cloud, before>>
  BY <1>1 DEF cloud, StepCalls, Stays
<1>2. CASE Owns(r) /\ Succeeds(c)
  <2>1. requests' = requests /\ Effect(c) /\ late' = late
    BY <1>2, EffectOf DEF Succeeds
  <2> QED BY <1>2, <2>1 DEF StepCalls, Write, At
<1>3. CASE Owns(r) /\ Fails(c) /\ Doubts(r, "stopped")
  <2>1. at \in run'[r].doubt
    <3>1. TypeOK /\ run[r].pc = at
      BY DEF CanaryInv, Write, At
    <3> QED BY <1>3, <3>1, RunTyped DEF Doubts, OneRun
  <2> QED BY <1>3, <2>1, SucceedsOrFails DEF StepCalls, Write, At
<1> QED BY <1>1, <1>2, <1>3 DEF Write

\* Every change a step makes to the cloud is that of a call its run could make
\* there.
LEMMA StepsCall ==
  ASSUME CanaryInv, NEW r \in Runs, Step(r)
  PROVE  StepCalls(r) /\ requests' = requests /\ fits' = fits
<1>1. CASE Preflight(r) \/ Recheck(r) \/ Backup(r) \/ Allocate(r) \/ Claim(r) \/ TagRead(r) \/ UriRead(r)
  BY <1>1 DEF Preflight, Recheck, Backup, Allocate, Claim, TagRead, UriRead, Read, Stops, cloud, StepCalls, Stays
<1>2. CASE ResumeUnknown(r) \/ ResumeRead(r) \/ Wait(r) \/ PauseRead(r) \/ RestoreRead(r) \/ FinalService(r) \/ FinalJobs(r)
  BY <1>2 DEF ResumeUnknown, ResumeRead, Wait, PauseRead, RestoreRead, FinalService, FinalJobs, Read, Stops, cloud,
     StepCalls, Stays
<1>3. CASE Tag(r)
  BY <1>3, OwnIsOk, WriteCalls DEF Tag, Write, At
<1>4. CASE Untag(r)
  BY <1>4, OwnIsOk, WriteCalls DEF Untag, Write, At
<1>5. CASE Uri(r)
  BY <1>5, OwnIsOk, WriteCalls DEF Uri, Write, At
<1>6. CASE RestoreUri(r)
  BY <1>6, OwnIsOk, WriteCalls DEF RestoreUri, Write, At
<1>7. CASE Resume(r)
  <2> DEFINE c == JobCall(r, "resume")
  <2>1. CallOk(c) /\ c.op = "resume" /\ c.run = r /\ run[r].pc = "resume"
    BY <1>7, OwnIsOk DEF Resume, At
  <2> HIDE DEF c
  <2>2. CASE UNCHANGED <<cloud, before>>
    BY <1>7, <2>2 DEF Resume, cloud, StepCalls, Stays
  <2>3. CASE Owns(r) /\ Succeeds(c)
    <3>1. requests' = requests /\ Effect(c) /\ late' = late
      BY <2>1, <2>3, EffectOf DEF Succeeds
    <3> QED BY <1>7, <2>1, <2>3, <3>1 DEF StepCalls, Resume
  <2>4. CASE Owns(r) /\ Fails(c) /\ Doubts(r, "resumeUnknown")
    <3>1. "resume" \in run'[r].doubt
      BY <2>1, <2>4, RunTyped DEF CanaryInv, Doubts, OneRun
    <3> QED BY <1>7, <2>1, <2>4, <3>1, SucceedsOrFails DEF StepCalls, Resume
  <2> QED BY <1>7, <2>2, <2>3, <2>4 DEF Resume, c
<1>8. CASE Dispatch(r)
  <2> DEFINE c == JobCall(r, "run")
  <2>1. CallOk(c) /\ c.op = "run" /\ c.run = r /\ run[r].pc = "dispatch"
    BY <1>8, OwnIsOk DEF Dispatch, At
  <2> HIDE DEF c
  <2>2. CASE UNCHANGED <<cloud, before>>
    BY <1>8, <2>2 DEF Dispatch, cloud, StepCalls, Stays
  <2>3. CASE Owns(r) /\ (Succeeds(c) \/ Fails(c))
    BY <1>8, <2>1, <2>3, SucceedsOrFails DEF StepCalls, Dispatch
  <2> QED BY <1>8, <2>2, <2>3 DEF Dispatch, c
<1>9. CASE Pause(r)
  <2> DEFINE c == JobCall(r, "pause")
  <2>1. CallOk(c) /\ c.op = "pause" /\ c.run = r /\ run[r].pc = "pause"
    BY <1>9, OwnIsOk DEF Pause, At
  <2> HIDE DEF c
  <2>2. CASE UNCHANGED <<cloud, before>>
    BY <1>9, <2>2 DEF Pause, cloud, StepCalls, Stays
  <2>3. CASE Owns(r) /\ Succeeds(c)
    <3>1. requests' = requests /\ Effect(c) /\ late' = late
      BY <2>1, <2>3, EffectOf DEF Succeeds
    <3> QED BY <1>9, <2>1, <2>3, <3>1 DEF StepCalls, Pause
  <2>4. CASE Owns(r) /\ Fails(c) /\ run' = [run EXCEPT ![r].pausing = TRUE, ![r].pc = "stopped", ![r].doubt = @ \cup {"pause"}]
    <3>1. "pause" \in run'[r].doubt
      BY <2>1, <2>4, RunTyped DEF CanaryInv, OneRun
    <3> QED BY <1>9, <2>1, <2>4, <3>1, SucceedsOrFails DEF StepCalls, Pause
  <2> QED BY <1>9, <2>2, <2>3, <2>4 DEF Pause, c
<1> QED BY <1>1, <1>2, <1>3, <1>4, <1>5, <1>6, <1>7, <1>8, <1>9 DEF Step

-----------------------------------------------------------------------------
(* What a run reads and keeps.                                             *)

\* A write or a read moves the run, and changes no other field of it but its
\* doubts.
LEMMA MovesOnly ==
  ASSUME TypeOK, NEW r \in Runs, NEW at, NEW c, NEW next, Write(r, at, c, next) \/ Read(r, at, c, next),
         next \in Pc
  PROVE  LET x == run'[r]
             y == run[r]
         IN /\ y.pc = at /\ x.pc \in {next, "stopped", "pause"}
            /\ x.service = y.service /\ x.etag = y.etag /\ x.job = y.job /\ x.since = y.since /\ x.outcome = y.outcome
            /\ x.resumed = y.resumed /\ x.pausing = y.pausing
<1>1. run[r].pc = at /\ Leave(r) \in {"stopped", "pause"}
  BY DEF Write, Read, At, Leave
<1>2. Goes(r, next) \/ Doubts(r, "stopped") \/ Goes(r, Leave(r))
  BY DEF Write, Read, Stops
<1>3. Leave(r) \in Pc /\ "stopped" \in Pc
  BY <1>1 DEF Pc
<1> QED BY <1>1, <1>2, <1>3, RunTyped DEF Goes, Doubts, OneRun

\* The wait ends, with the verdict on a request or without one.
LEMMA WaitIs ==
  ASSUME TypeOK, NEW r \in Runs, Wait(r)
  PROVE  LET x == run'[r]
             y == run[r]
         IN /\ y.pc = "wait" /\ x.pc = "pause"
            /\ x.service = y.service /\ x.etag = y.etag /\ x.since = y.since /\ x.doubt = y.doubt
            /\ x.resumed = y.resumed /\ x.pausing = y.pausing
            /\ \/ x.outcome = y.outcome
               \/ \E q \in requests : Terminal(r, q) /\ x.outcome = CandidateOutcome(q)
            /\ UNCHANGED <<cloud, files, fits, before>>
<1>0. run[r] \in OneRun /\ run \in [Runs -> OneRun]
  BY RunTyped
<1>1. ASSUME NEW q \in requests, Terminal(r, q),
             run' = [run EXCEPT ![r].outcome = CandidateOutcome(q), ![r].pc = "pause"]
      PROVE  LET x == run'[r]
                 y == run[r]
             IN /\ x.pc = "pause" /\ x.service = y.service /\ x.etag = y.etag /\ x.since = y.since
                /\ x.doubt = y.doubt /\ x.resumed = y.resumed /\ x.pausing = y.pausing
                /\ x.outcome = CandidateOutcome(q)
  <2> DEFINE o == CandidateOutcome(q)
  <2>1. run' = [run EXCEPT ![r].outcome = o, ![r].pc = "pause"]
    BY <1>1
  <2> HIDE DEF o
  <2>2. LET x == run'[r]
            y == run[r]
        IN /\ x.pc = "pause" /\ x.service = y.service /\ x.etag = y.etag /\ x.since = y.since
           /\ x.doubt = y.doubt /\ x.resumed = y.resumed /\ x.pausing = y.pausing /\ x.outcome = o
    BY <1>0, <2>1 DEF OneRun
  <2> QED BY <2>2 DEF o
<1>2. CASE Goes(r, "pause")
  BY <1>0, <1>2 DEF Wait, At, Goes, OneRun
<1> QED BY <1>1, <1>2 DEF Wait, At

\* The snapshot of the service is taken once, before anything is written, and
\* the etag of the removal is read when the tag is still exact.
LEMMA SnapshotStep ==
  ASSUME TypeOK, NEW r \in Runs, Step(r)
  PROVE  LET x == run'[r]
             y == run[r]
         IN /\ \/ x.service = y.service
               \/ y.pc = "preflight" /\ x.pc = "recheck" /\ x.service = service
            /\ \/ x.etag = y.etag /\ x.pc # "untag"
               \/ /\ y.pc = "restoreRead" /\ x.pc = "untag" /\ x.etag = service.etag
                  /\ service.serving = y.service.serving /\ service' = service /\ x.service = y.service
<1>0. run[r] \in OneRun /\ run \in [Runs -> OneRun]
  BY RunTyped
<1>1. CASE Preflight(r) \/ Backup(r) \/ Allocate(r) \/ Claim(r)
  BY <1>0, <1>1 DEF Preflight, Backup, Allocate, Claim, Stops, Goes, Leave, At, OneRun
<1>2. CASE Recheck(r) \/ TagRead(r) \/ UriRead(r) \/ PauseRead(r) \/ FinalService(r) \/ FinalJobs(r)
  BY <1>2, MovesOnly DEF Recheck, TagRead, UriRead, PauseRead, FinalService, FinalJobs, Pc
<1>3. CASE Tag(r) \/ Uri(r) \/ RestoreUri(r) \/ Untag(r)
  BY <1>3, MovesOnly DEF Tag, Uri, RestoreUri, Untag, Pc
<1>4. CASE Resume(r)
  BY <1>0, <1>4 DEF Resume, Doubts, Goes, OneRun
<1>5. CASE ResumeUnknown(r) \/ ResumeRead(r) \/ Dispatch(r)
  <2>1. CASE ResumeUnknown(r)
    BY <1>0, <2>1 DEF ResumeUnknown, Goes, OneRun
  <2>2. CASE ResumeRead(r)
    BY <1>0, <2>2 DEF ResumeRead, Goes, Leave, OneRun
  <2>3. CASE Dispatch(r)
    BY <1>0, <2>3 DEF Dispatch, Goes, Leave, OneRun
  <2> QED BY <1>5, <2>1, <2>2, <2>3
<1>6. CASE Wait(r) \/ Pause(r)
  BY <1>0, <1>6, WaitIs DEF Pause, OneRun
<1>7. CASE RestoreRead(r)
  BY <1>0, <1>7 DEF RestoreRead, Stops, Goes, Leave, At, TagIsExact, cloud, OneRun
<1> QED BY <1>1, <1>2, <1>3, <1>4, <1>5, <1>6, <1>7 DEF Step

\* The files of the helper: the backup is created from the snapshot of a run
\* that found none, and kept by every run that goes on.
LEMMA FilesStep ==
  ASSUME TypeOK, NEW r \in Runs, Step(r)
  PROVE  LET x == run'[r]
             y == run[r]
         IN /\ ledger' \in [Runs \cup {"hk-canary"} -> Runs \cup {NoRun}]
            /\ claim' \in Runs \cup {NoRun, "changed"}
            /\ \/ backup' = backup
               \/ y.pc = "backup" /\ backup = NoService /\ backup' = y.service /\ x.pc = "allocate"
<1>1. TagOf(r) \in Runs \cup {"hk-canary"}
  BY DEF TagOf
<1>2. CASE Backup(r)
  BY <1>2, RunTyped DEF Backup, CreatesBackup, ReusesBackup, Goes, At, TypeOK, OneRun
<1>3. CASE Allocate(r) \/ Claim(r)
  BY <1>1, <1>3 DEF Allocate, Claim, TypeOK
<1>4. CASE Preflight(r) \/ Recheck(r) \/ TagRead(r) \/ UriRead(r) \/ PauseRead(r) \/ FinalService(r) \/ FinalJobs(r)
  BY <1>4 DEF Preflight, Recheck, TagRead, UriRead, PauseRead, FinalService, FinalJobs, Read, Stops, files, TypeOK
<1>5. CASE Tag(r) \/ Uri(r) \/ RestoreUri(r) \/ Untag(r) \/ Resume(r) \/ ResumeUnknown(r) \/ ResumeRead(r)
  BY <1>5 DEF Tag, Uri, RestoreUri, Untag, Resume, ResumeUnknown, ResumeRead, Write, files, TypeOK
<1>6. CASE Dispatch(r) \/ Wait(r) \/ Pause(r) \/ RestoreRead(r)
  BY <1>6 DEF Dispatch, Wait, Pause, RestoreRead, Stops, files, TypeOK
<1> QED BY <1>2, <1>3, <1>4, <1>5, <1>6 DEF Step

\* Where a step comes from, when it arrives where something must hold.
LEMMA PlaceStep ==
  ASSUME CanaryInv, NEW r \in Runs, Step(r)
  PROVE  LET x == run'[r]
             y == run[r]
         IN /\ x.pc \in {"recheck", "backup"} => (y.pc = "preflight" /\ x.service = service) \/ y.pc = "recheck"
            /\ KeepsBackup(x) => \/ KeepsBackup(y) /\ backup' = backup
                                 \/ y.pc = "backup" /\ backup' = y.service
            /\ x.pc \in Writing \ {"tag"} => y.pc \in Writing \ {"tag"} \/ before' # NoService
            /\ x.pc = "finalJobs" => y.pc = "finalService" /\ AsFound(r) /\ service' = service
            /\ before # NoService => before' # NoService
<1> DEFINE x == run'[r]
           y == run[r]
<1>0. /\ run[r] \in OneRun /\ run \in [Runs -> OneRun] /\ y.pc \in Pc /\ service \in Service /\ service # NoService
      /\ FlagsFit(y) /\ TypeOK
  <2>1. TypeOK /\ FlagsFit(y)
    BY DEF CanaryInv
  <2> QED BY <2>1, RunTyped, NoServiceIsNone DEF TypeOK
<1>00. before # NoService => before' # NoService
  BY StepsCall DEF StepCalls, Stays, Effect, TrafficMoves, JobMoves, Queues
<1>1. CASE Preflight(r)
  <2>1. y.pc = "preflight" /\ Fresh(y)
    BY <1>0, <1>1 DEF Preflight, At, FlagsFit, Early
  <2>2. x.pc \in {"recheck", "stopped"} /\ x.doubt = y.doubt /\ (x.pc = "recheck" => x.service = service)
    BY <1>0, <1>1, <2>1 DEF Preflight, Stops, Goes, Leave, MustPause, Fresh, OneRun
  <2> QED BY <1>00, <2>1, <2>2 DEF KeepsBackup, Writing, Fresh
<1>2. CASE Recheck(r)
  <2>1. y.pc = "recheck" /\ Fresh(y)
    BY <1>0, <1>2 DEF Recheck, Read, At, FlagsFit, Early
  <2>2. x.pc \in {"backup", "stopped"} /\ x.doubt = y.doubt
    BY <1>0, <1>2, <2>1 DEF Recheck, Read, Stops, Goes, Leave, MustPause, Fresh, OneRun
  <2> QED BY <1>00, <2>1, <2>2 DEF KeepsBackup, Writing, Fresh
<1>3. CASE Backup(r)
  <2>1. y.pc = "backup" /\ Fresh(y)
    BY <1>0, <1>3 DEF Backup, At, FlagsFit, Early
  <2>2. x.doubt = y.doubt /\ ((x.pc = "allocate" /\ backup' = y.service) \/ x.pc = "stopped")
    BY <1>0, <1>3 DEF Backup, CreatesBackup, ReusesBackup, Goes, OneRun
  <2> QED BY <1>00, <2>1, <2>2 DEF KeepsBackup, Writing, Fresh
<1>4. CASE Allocate(r) \/ Claim(r)
  <2>1. y.pc \in {"allocate", "claim"} /\ KeepsBackup(y)
    BY <1>4 DEF Allocate, Claim, At, KeepsBackup
  <2>2. x.pc \in {"claim", "tag", "stopped"} /\ backup' = backup
    BY <1>0, <1>4 DEF Allocate, Claim, Goes, OneRun
  <2> QED BY <1>00, <2>1, <2>2 DEF Writing

<1>5. CASE Tag(r)
  <2>1. y.pc = "tag" /\ Fresh(y) /\ backup' = backup /\ y.pc \in Writing
    BY <1>0, <1>5 DEF Tag, Write, At, FlagsFit, Early, files, Writing
  <2>2. CASE Succeeds(TagCall(r)) /\ Goes(r, "tagRead")
    <3>1. x.pc = "tagRead"
      BY <1>0, <2>2 DEF Goes, OneRun
    <3>2. before' # NoService
      BY <1>0, <2>2 DEF Succeeds, Applies, TagCall, TrafficCall, WriteTraffic
    <3> QED BY <1>00, <2>1, <3>1, <3>2 DEF KeepsBackup
  <2>3. CASE Doubts(r, "stopped") \/ Goes(r, Leave(r))
    <3>1. x.pc = "stopped"
      BY <1>0, <2>1, <2>3 DEF Doubts, Goes, Leave, MustPause, Fresh, OneRun
    <3> QED BY <1>00, <2>1, <3>1 DEF KeepsBackup, Writing
  <2> QED BY <1>5, <2>2, <2>3 DEF Tag, Write
<1> DEFINE Later == /\ y.pc \in Writing \ {"tag"} /\ backup' = backup /\ x.pc \notin {"recheck", "backup"}
                    /\ x.pc = "finalJobs" => y.pc = "finalService" /\ AsFound(r) /\ service' = service
<1> DEFINE Afterwards == {"uri", "tagRead", "uriRead", "restoreUri", "untag", "pauseRead", "finalService", "finalJobs",
                          "restoreRead", "wait", "resume", "done"}
<1>9. Afterwards \subseteq Writing \ {"tag"} /\ Afterwards \subseteq Pc
  BY DEF Writing, Pc
<1>6. Tag(r) \/ Preflight(r) \/ Recheck(r) \/ Backup(r) \/ Allocate(r) \/ Claim(r) \/ Later
  <2>1. CASE Uri(r) \/ RestoreUri(r) \/ Untag(r)
    <3>1. y.pc \in {"uri", "restoreUri", "untag"} /\ x.pc \in {"uriRead", "restoreRead", "finalService", "stopped", "pause"}
      BY <1>0, <1>9, <2>1, MovesOnly DEF Uri, RestoreUri, Untag
    <3>2. backup' = backup
      BY <2>1 DEF Uri, RestoreUri, Untag, Write, files
    <3> QED BY <1>9, <3>1, <3>2
  <2>2. CASE TagRead(r) \/ UriRead(r) \/ PauseRead(r) \/ FinalJobs(r)
    <3>1. /\ y.pc \in {"tagRead", "uriRead", "pauseRead", "finalJobs"}
          /\ x.pc \in {"uri", "resume", "restoreUri", "done", "stopped", "pause"}
      BY <1>0, <1>9, <2>2, MovesOnly DEF TagRead, UriRead, PauseRead, FinalJobs
    <3>2. backup' = backup
      BY <2>2 DEF TagRead, UriRead, PauseRead, FinalJobs, Read, Stops, files
    <3> QED BY <1>9, <3>1, <3>2
  <2>3. CASE FinalService(r)
    <3>1. y.pc = "finalService" /\ backup' = backup /\ service' = service /\ x.pc \in {"finalJobs", "stopped", "pause"}
      BY <2>3, MovesOnly, <1>0 DEF FinalService, Read, Stops, files, cloud, Pc
    <3>2. AsFound(r) \/ x.pc # "finalJobs"
      BY <1>0, <2>3 DEF FinalService, Read, Stops, Goes, Leave, OneRun
    <3> QED BY <3>1, <3>2 DEF Writing, Pc
  <2>4. CASE Resume(r)
    BY <1>0, <2>4 DEF Resume, At, Doubts, Goes, files, OneRun, Writing
  <2>5. CASE ResumeUnknown(r)
    BY <1>0, <2>5 DEF ResumeUnknown, At, Goes, files, OneRun, Writing
  <2>6. CASE ResumeRead(r)
    BY <1>0, <2>6 DEF ResumeRead, At, Goes, Leave, files, OneRun, Writing
  <2>7. CASE Dispatch(r)
    BY <1>0, <2>7 DEF Dispatch, At, Goes, Leave, files, OneRun, Writing
  <2>8. CASE Wait(r)
    BY <1>0, <1>9, <2>8, WaitIs DEF files
  <2>9. CASE Pause(r)
    BY <1>0, <2>9 DEF Pause, At, Goes, files, OneRun, Writing
  <2>10. CASE RestoreRead(r)
    BY <1>0, <2>10 DEF RestoreRead, Stops, At, Goes, Leave, files, OneRun, Writing
  <2> QED BY <2>1, <2>2, <2>3, <2>4, <2>5, <2>6, <2>7, <2>8, <2>9, <2>10 DEF Step
<1>7. Later => \/ KeepsBackup(y) /\ backup' = backup
               \/ FALSE
  BY DEF KeepsBackup
<1>8. CASE Later
  BY <1>00, <1>7, <1>8
<1> QED BY <1>1, <1>2, <1>3, <1>4, <1>5, <1>6, <1>8

-----------------------------------------------------------------------------
(* The backup.                                                             *)
Past(s, v) == s # NoService => s.etag <= v.etag /\ (s.etag = v.etag => s = v)

\* The service moves to a new etag or not at all.
Moves(v, w) == w = v \/ w.etag = v.etag + 1

\* A snapshot that lies in the past of the service still does after a write.
LEMMA PastStays ==
  ASSUME NEW s \in Service \cup {NoService}, NEW v \in Service, NEW w \in Service, Past(s, v), Moves(v, w)
  PROVE  Past(s, w)
<1>1. v.etag \in Nat /\ w.etag \in Nat /\ (s # NoService => s.etag \in Nat)
  BY DEF Service
<1> QED BY <1>1 DEF Past, Moves

\* A call moves the service by one etag or leaves it alone.
LEMMA EffectOnService ==
  ASSUME NEW c, Effect(c) \/ Stays, service \in Service
  PROVE  /\ service' \in Service /\ Moves(service, service')
         /\ service'.serving = service.serving /\ service'.template = service.template
         /\ (before' = before /\ service' = service) \/ (before' # NoService /\ before' = backup)
<1>1. CASE TrafficMoves(c)
  BY <1>1 DEF TrafficMoves, Moves
<1>2. CASE service' = service /\ before' = before
  BY <1>2 DEF Moves
<1>3. Effect(c) \/ Stays => TrafficMoves(c) \/ (service' = service /\ before' = before)
  BY DEF Effect, JobMoves, Queues, Stays
<1> QED BY <1>1, <1>2, <1>3

\* A step of a run moves the service by one etag or leaves it alone.
LEMMA ServiceStep ==
  ASSUME CanaryInv, NEW r \in Runs, Step(r)
  PROVE  /\ service' \in Service /\ Moves(service, service')
         /\ service'.serving = service.serving /\ service'.template = service.template
         /\ (before' = before /\ service' = service) \/ (before' # NoService /\ before' = backup)
<1>1. service \in Service
  BY DEF CanaryInv, TypeOK
<1>2. \E c : Effect(c) \/ Stays
  BY StepsCall DEF StepCalls
<1> QED BY <1>1, <1>2, EffectOnService

\* What was read of the service, kept in the backup and written, when the
\* service moves and no run does.
LEMMA BackupsStay ==
  ASSUME CanaryInv, run' = run, fits' = fits, backup' = backup, service' \in Service, Moves(service, service'),
         \/ before' = before /\ service'.tags \subseteq service.tags \cup {"other"}
         \/ before' # NoService /\ before' = backup,
         service' = service \/ \A r \in Runs : run[r].pc = "finalJobs" => TagOf(r) \notin service'.tags
  PROVE  BackupsFit' /\ BackupIsPreWrite'
<1>0. /\ BackupsFit /\ BackupIsPreWrite /\ service \in Service /\ backup \in Service \cup {NoService} /\ TypeOK
      /\ service.etag \in Nat /\ service'.etag \in Nat
  BY DEF CanaryInv, TypeOK, Service
<1>1. IsPast(backup)' /\ \A r \in Runs : IsPast(run[r].service)'
  <2>1. Past(backup, service) /\ \A r \in Runs : Past(run[r].service, service)
    BY <1>0 DEF BackupsFit, IsPast, Past
  <2>2. Past(backup, service') /\ \A r \in Runs : Past(run[r].service, service')
    BY <1>0, <2>1, PastStays, RunTyped
  <2> QED BY <2>2 DEF IsPast, Past
<1>2. ASSUME NEW r \in Runs
      PROVE  /\ run[r].etag <= service'.etag
             /\ run[r].pc = "untag" /\ run[r].etag = service'.etag => service'.serving = run[r].service.serving
  <2>1. run[r].etag \in Nat
    BY <1>0, RunTyped
  <2> QED BY <1>0, <2>1 DEF BackupsFit, Moves
<1>3. before' = NoService => service'.tags \subseteq {"other"} /\ \A r \in Runs : run[r].service.tags \subseteq {"other"}
  BY <1>0 DEF BackupsFit
<1>4. before # NoService => before' # NoService
  BY <1>0 DEF BackupIsPreWrite
<1>5. \A r \in Runs : TagOf(r)' = TagOf(r)
  BY DEF TagOf
<1>6. \A r \in Runs : run[r].pc = "finalJobs" => TagOf(r) \notin service'.tags
  BY <1>0 DEF BackupsFit
<1>7. BackupIsPreWrite'
  BY <1>0 DEF BackupIsPreWrite
<1> QED BY <1>0, <1>1, <1>2, <1>3, <1>4, <1>5, <1>6, <1>7 DEF BackupsFit, KeepsBackup

\* A step of a run keeps the backups true: each is of a service before the
\* claimer wrote.
LEMMA BackupsStep ==
  ASSUME CanaryInv, NEW r \in Runs, Step(r)
  PROVE  BackupsFit' /\ BackupIsPreWrite'
<1> DEFINE x == run'[r]
           y == run[r]
<1>0. /\ BackupsFit /\ BackupIsPreWrite /\ service \in Service /\ backup \in Service \cup {NoService} /\ TypeOK
      /\ service.etag \in Nat /\ service'.etag \in Nat /\ service # NoService /\ fits' = fits /\ IsFiniteSet(requests)
      /\ service' \in Service /\ service.tags \in SUBSET (Runs \cup {"hk-canary", "other"}) /\ OneClaims
      /\ FlagsFit(y)
  <2>1. service' \in Service /\ service \in Service
    BY ServiceStep DEF CanaryInv, TypeOK
  <2> QED BY <2>1, StepsCall, NoServiceIsNone DEF CanaryInv, TypeOK, Service, RequestsFit
<1>1. PICK z \in OneRun : Becomes(r, z) /\ FlagsFit(z)
  BY <1>0, StepsWell
<1>2. x = z /\ x \in OneRun /\ \A s \in Runs : s # r => run'[s] = run[s]
  BY <1>0, <1>1, OneMoves
<1>3. /\ Moves(service, service') /\ service'.serving = service.serving
      /\ (before' = before /\ service' = service) \/ (before' # NoService /\ before' = backup)
  BY ServiceStep
<1>4. /\ \/ x.service = y.service
         \/ y.pc = "preflight" /\ x.pc = "recheck" /\ x.service = service
      /\ \/ x.etag = y.etag /\ x.pc # "untag"
         \/ /\ y.pc = "restoreRead" /\ x.pc = "untag" /\ x.etag = service.etag
            /\ service.serving = y.service.serving /\ service' = service /\ x.service = y.service
  BY <1>0, SnapshotStep
<1>5. \/ backup' = backup
      \/ y.pc = "backup" /\ backup = NoService /\ backup' = y.service /\ x.pc = "allocate"
  BY <1>0, FilesStep
<1>6. /\ x.pc \in {"recheck", "backup"} => (y.pc = "preflight" /\ x.service = service) \/ y.pc = "recheck"
      /\ KeepsBackup(x) => \/ KeepsBackup(y) /\ backup' = backup
                           \/ y.pc = "backup" /\ backup' = y.service
      /\ x.pc \in Writing \ {"tag"} => y.pc \in Writing \ {"tag"} \/ before' # NoService
      /\ x.pc = "finalJobs" => y.pc = "finalService" /\ AsFound(r) /\ service' = service
      /\ before # NoService => before' # NoService
  BY PlaceStep
<1>7. backup' = backup \/ before = NoService
  BY <1>0, <1>5 DEF BackupIsPreWrite
<1>8. \A s \in Runs : IsPast(run[s].service)' /\ IsPast(backup)'
  <2>1. Past(backup, service) /\ \A s \in Runs : Past(run[s].service, service)
    BY <1>0 DEF BackupsFit, IsPast, Past
  <2>2. Past(backup, service') /\ \A s \in Runs : Past(run[s].service, service')
    BY <1>0, <1>3, <2>1, PastStays, RunTyped
  <2>3. Past(service, service')
    <3>1. Past(service, service)
      BY <1>0 DEF Past
    <3> QED BY <1>0, <1>3, <3>1, PastStays
  <2>4. Past(backup', service') /\ \A s \in Runs : Past(run'[s].service, service')
    BY <1>2, <1>4, <1>5, <2>2, <2>3
  <2> QED BY <2>4 DEF IsPast, Past
<1>9. \A s \in Runs : run'[s].pc \in {"recheck", "backup"} => run'[s].service # NoService
  BY <1>0, <1>2, <1>4, <1>6 DEF BackupsFit
<1>10. ASSUME NEW s \in Runs, KeepsBackup(run'[s]) PROVE backup' # NoService /\ run'[s].service = backup'
  <2>1. CASE s = r
    <3>1. KeepsBackup(y) => y.pc \notin {"preflight", "backup"}
      BY <1>0 DEF KeepsBackup, Writing, FlagsFit, Early, Fresh
    <3>2. x.pc = "recheck" => ~KeepsBackup(x)
      BY <1>1, <1>2 DEF KeepsBackup, Writing, FlagsFit, Early, Fresh
    <3> QED BY <1>0, <1>4, <1>6, <1>10, <2>1, <3>1, <3>2 DEF BackupsFit
  <2>2. CASE s # r
    BY <1>0, <1>2, <1>5, <1>10, <2>2 DEF BackupsFit
  <2> QED BY <2>1, <2>2
<1>11. before' = NoService => service'.tags \subseteq {"other"} /\ \A s \in Runs : run'[s].service.tags \subseteq {"other"}
  <2>1. before' = NoService => before = NoService /\ service' = service
    BY <1>3, <1>6
  <2> QED BY <1>0, <1>2, <1>4, <2>1 DEF BackupsFit
<1>12. backup'.tags \subseteq {"other"}
  BY <1>0, <1>5, <1>7 DEF BackupsFit
<1>13. \A s \in Runs : run'[s].pc \in Writing \ {"tag"} => before' # NoService
  BY <1>0, <1>2, <1>6 DEF BackupsFit
<1>14. ASSUME NEW s \in Runs
       PROVE  /\ run'[s].etag <= service'.etag
              /\ run'[s].pc = "untag" /\ run'[s].etag = service'.etag => service'.serving = run'[s].service.serving
  <2>1. run[s].etag \in Nat
    BY <1>0, RunTyped
  <2>2. CASE s = r
    BY <1>0, <1>3, <1>4, <2>1, <2>2 DEF BackupsFit, Moves
  <2>3. CASE s # r
    BY <1>0, <1>2, <1>3, <2>1, <2>3 DEF BackupsFit, Moves
  <2> QED BY <2>2, <2>3
<1>15. ASSUME NEW s \in Runs, run'[s].pc = "finalJobs" PROVE TagOf(s) \notin service'.tags
  <2>0. TagOf(s) # "other"
    BY RunsAreNames DEF TagOf
  <2>1. CASE s = r
    <3>1. y.service = backup /\ AsFound(r) /\ service' = service
      <4>1. KeepsBackup(y)
        BY <1>6, <1>15, <2>1 DEF KeepsBackup, Writing, Pc
      <4> QED BY <1>0, <1>6, <1>15, <2>1, <4>1 DEF BackupsFit
    <3>2. service.tags = y.service.tags
      BY <1>0, <3>1 DEF AsFound, Service
    <3> QED BY <1>0, <2>0, <2>1, <3>1, <3>2 DEF BackupsFit
  <2>2. CASE s # r
    <3>1. run[s].pc = "finalJobs" /\ Claimer(s)
      BY <1>2, <1>15, <2>2 DEF Claimer, Writing, Pc
    <3>2. ~Claimer(r)
      BY <1>0, <2>2, <3>1 DEF OneClaims
    <3>3. service' = service
      BY <3>2, StepsCall DEF StepCalls, CallOk, Stays
    <3> QED BY <1>0, <3>1, <3>3 DEF BackupsFit
  <2> QED BY <2>1, <2>2
<1>16. \A s \in Runs : TagOf(s)' = TagOf(s)
  BY <1>0 DEF TagOf
<1>17. BackupIsPreWrite'
  BY <1>0, <1>3, <1>7, <1>5 DEF BackupIsPreWrite
<1> QED BY <1>8, <1>9, <1>10, <1>11, <1>12, <1>13, <1>14, <1>15, <1>16, <1>17 DEF BackupsFit

-----------------------------------------------------------------------------
(* The calls that may still take effect.                                   *)

\* Doubts stay, and so does having resumed or paused the job.
LEMMA FlagsGrow ==
  ASSUME TypeOK, NEW r \in Runs, Step(r)
  PROVE  LET x == run'[r]
             y == run[r]
         IN y.doubt \subseteq x.doubt /\ (y.resumed \/ y.pausing => x.resumed \/ x.pausing)
<1> DEFINE x == run'[r]
           y == run[r]
<1>0. run[r] \in OneRun /\ run \in [Runs -> OneRun]
  BY RunTyped
<1>1. ASSUME NEW pc, Goes(r, pc) PROVE x.doubt = y.doubt /\ x.resumed = y.resumed /\ x.pausing = y.pausing
  BY <1>0, <1>1 DEF Goes, OneRun
<1>2. ASSUME NEW pc, Doubts(r, pc) PROVE y.doubt \subseteq x.doubt /\ x.resumed = y.resumed /\ x.pausing = y.pausing
  BY <1>0, <1>2 DEF Doubts, OneRun
<1>3. CASE Preflight(r)
  <2>1. CASE Stops(r)
    BY <1>1, <2>1 DEF Stops
  <2>2. CASE run' = [run EXCEPT ![r].pc = "recheck", ![r].service = service, ![r].job = job]
    BY <1>0, <2>2 DEF OneRun
  <2> QED BY <1>3, <2>1, <2>2 DEF Preflight
<1>4. CASE Recheck(r) \/ TagRead(r) \/ UriRead(r) \/ PauseRead(r) \/ FinalService(r) \/ FinalJobs(r)
  BY <1>1, <1>4 DEF Recheck, TagRead, UriRead, PauseRead, FinalService, FinalJobs, Read, Stops
<1>5. CASE Tag(r) \/ Uri(r) \/ RestoreUri(r) \/ Untag(r)
  BY <1>1, <1>2, <1>5 DEF Tag, Uri, RestoreUri, Untag, Write
<1>6. CASE Backup(r) \/ Allocate(r) \/ Claim(r)
  BY <1>1, <1>6 DEF Backup, Allocate, Claim
<1>7. CASE Resume(r)
  <2>1. CASE run' = [run EXCEPT ![r].pc = "resumeRead", ![r].resumed = TRUE]
    BY <1>0, <2>1 DEF OneRun
  <2> QED BY <1>1, <1>2, <1>7, <2>1 DEF Resume
<1>8. CASE ResumeUnknown(r)
  <2>1. CASE run' = [run EXCEPT ![r].resumed = TRUE, ![r].pc = "pause"]
    BY <1>0, <2>1 DEF OneRun
  <2> QED BY <1>1, <1>8, <2>1 DEF ResumeUnknown
<1>9. CASE ResumeRead(r)
  <2>1. CASE run' = [run EXCEPT ![r].pc = "dispatch", ![r].since = Cardinality(requests)]
    BY <1>0, <2>1 DEF OneRun
  <2> QED BY <1>1, <1>9, <2>1 DEF ResumeRead
<1>10. CASE Dispatch(r)
  BY <1>1, <1>10 DEF Dispatch
<1>11. CASE Wait(r)
  BY <1>11, WaitIs
<1>12. CASE Pause(r)
  BY <1>0, <1>12 DEF Pause, OneRun
<1>13. CASE RestoreRead(r)
  <2>1. CASE run' = [run EXCEPT ![r].pc = "untag", ![r].etag = service.etag]
    BY <1>0, <2>1 DEF OneRun
  <2> QED BY <1>1, <1>13, <2>1 DEF RestoreRead, Stops
<1> QED BY <1>3, <1>4, <1>5, <1>6, <1>7, <1>8, <1>9, <1>10, <1>11, <1>12, <1>13 DEF Step

\* A call that may still take effect is not affected by what else does.
LEMMA CallsStay ==
  ASSUME CanaryInv, NEW c \in late, run[c.run].doubt \subseteq run'[c.run].doubt,
         run[c.run].resumed \/ run[c.run].pausing => run'[c.run].resumed \/ run'[c.run].pausing,
         "tag" \in run[c.run].doubt => run'[c.run].service = run[c.run].service,
         service' \in Service, Moves(service, service'), service'.serving = service.serving \/ service' # service,
         before # NoService => before' # NoService
  PROVE  CallFits(c)'
<1>0. CallFits(c) /\ service \in Service
  BY DEF CanaryInv, CallsFit, TypeOK
<1>1. service.etag \in Nat /\ service'.etag \in Nat /\ c.etag \in Nat
  BY <1>0 DEF CallFits, Service
<1>2. c.op = "untag" => /\ before' # NoService /\ c.etag <= service'.etag
                        /\ c.etag = service'.etag => c.serving = service'.serving
  BY <1>0, <1>1 DEF CallFits, Moves
<1> QED BY <1>0, <1>1, <1>2 DEF CallFits

\* After a step of a run the calls still under way are ones their callers could
\* make.
LEMMA CallsStep ==
  ASSUME CanaryInv, NEW r \in Runs, Step(r)
  PROVE  CallsFit'
<1> DEFINE x == run'[r]
           y == run[r]
<1>0. TypeOK /\ CallsFit /\ FlagsFit(y) /\ service \in Service /\ IsFiniteSet(requests)
      /\ \A c \in late : c.run \in Runs
  BY DEF CanaryInv, TypeOK, RequestsFit, CallsFit, CallFits
<1>1. PICK z \in OneRun : Becomes(r, z) /\ FlagsFit(z)
  BY <1>0, StepsWell
<1>2. x = z /\ \A s \in Runs : s # r => run'[s] = run[s]
  BY <1>0, <1>1, OneMoves
<1>3. y.doubt \subseteq x.doubt /\ (y.resumed \/ y.pausing => x.resumed \/ x.pausing)
  BY <1>0, FlagsGrow
<1>4. y.doubt # {} \/ y.pc = "tag" => x.service = y.service
  <2>1. y.pc = "preflight" => y.doubt = {}
    BY <1>0 DEF FlagsFit, Early, Fresh
  <2> QED BY <1>0, <2>1, SnapshotStep
<1>5. /\ service' \in Service /\ Moves(service, service') /\ service'.serving = service.serving
      /\ before # NoService => before' # NoService
  BY ServiceStep
<1>6. \A c \in late : CallFits(c)'
  <2> SUFFICES ASSUME NEW c \in late PROVE CallFits(c)'
    OBVIOUS
  <2>1. /\ run[c.run].doubt \subseteq run'[c.run].doubt
        /\ run[c.run].resumed \/ run[c.run].pausing => run'[c.run].resumed \/ run'[c.run].pausing
        /\ "tag" \in run[c.run].doubt => run'[c.run].service = run[c.run].service
    BY <1>0, <1>2, <1>3, <1>4
  <2> QED BY <1>5, <2>1, CallsStay
<1>7. \A s \in queue : s \in Runs /\ (run'[s].resumed \/ run'[s].pausing)
  BY <1>0, <1>2, <1>3 DEF CallsFit, TypeOK
<1>8. CASE late' = late /\ queue' = queue
  BY <1>6, <1>7, <1>8 DEF CallsFit
<1>9. ASSUME NEW c, CallOk(c), c.run = r,
             IF c.op = "run" THEN y.pc = "dispatch" ELSE c.op = y.pc,
             \/ Effect(c) /\ late' = late
             \/ Stays /\ late' \in {late, late \cup {c}} /\ (c.op # "run" => c.op \in x.doubt)
      PROVE  CallsFit'
  <2>1. CASE late' = late
    <3>1. queue' = queue \/ (c.op = "run" /\ queue' = queue \cup {c.run})
      BY <1>9 DEF Effect, TrafficMoves, JobMoves, Queues, Stays
    <3>2. c.op = "run" => x.resumed \/ x.pausing
      BY <1>3, <1>9 DEF CallOk
    <3> QED BY <1>6, <1>7, <1>9, <2>1, <3>1, <3>2 DEF CallsFit
  <2>2. CASE Stays /\ late' = late \cup {c} /\ (c.op # "run" => c.op \in x.doubt)
    <3>1. CallFits(c)'
      <4>1. IF c.op = "run" THEN x.resumed \/ x.pausing ELSE c.op \in x.doubt
        BY <1>3, <1>9, <2>2 DEF CallOk
      <4>2. c.op = "tag" => c.etag = x.service.etag /\ c.serving = x.service.serving
        BY <1>4, <1>9 DEF CallOk
      <4>3. service' = service /\ before' = before
        BY <2>2 DEF Stays
      <4> QED BY <1>9, <4>1, <4>2, <4>3 DEF CallOk, CallFits
    <3> QED BY <1>6, <1>7, <2>2, <3>1 DEF CallsFit, Stays
  <2> QED BY <1>9, <2>1, <2>2
<1>10. CASE Stays /\ late' = late
  BY <1>8, <1>10 DEF Stays
<1> QED BY <1>9, <1>10, StepsCall DEF StepCalls

-----------------------------------------------------------------------------
(* The probe job.                                                          *)

\* On the way out of an error a run that has resumed the job goes to pause it.
LEMMA LeaveIs ==
  ASSUME TypeOK, NEW r \in Runs, FlagsFit(run[r]), run[r].pc \notin {"pause", "stopped", "crashed"}
  PROVE  Leave(r) = IF run[r].resumed THEN "pause" ELSE "stopped"
<1>1. run[r].resumed => ~run[r].pausing
  <2>1. run[r].pc \in Pc /\ run[r].resumed \in BOOLEAN /\ run[r].pausing \in BOOLEAN
    BY RunTyped
  <2> QED BY <2>1 DEF FlagsFit, Early, Fresh, Restoring, Pc
<1> QED BY <1>1 DEF Leave, MustPause

OnCandidate == {"resume", "resumeRead", "dispatch", "wait", "pause"}

\* What a step of a run makes of what it knows of the job.
JobPlaces(r) ==
  LET x == run'[r]
      y == run[r]
  IN /\ y.pc = "resume" => x.resumed \/ "resume" \in x.doubt \/ job' = job
     /\ y.resumed => x.resumed \/ job'.state = "PAUSED"
     /\ x.pc \in {"done", "stopped"} /\ x.resumed => (claim # r /\ claim' = claim) \/ "pause" \in x.doubt
     /\ x.pc \in OnCandidate \/ "resume" \in x.doubt =>
          \/ y.pc \in OnCandidate \/ "resume" \in y.doubt
          \/ job' = job /\ job.uri = "tag"
     /\ x.pc \in Restoring \ {"done"} \/ "restoreUri" \in x.doubt =>
          \/ y.pc \in Restoring \ {"done"}
          \/ job' = job /\ job.state = "PAUSED"

\* Where a run may find the job resumed or addressed to the candidate, it still
\* fits.
LEMMA JobPlacesStep ==
  ASSUME CanaryInv, NEW r \in Runs, Step(r)
  PROVE  JobPlaces(r)
<1> DEFINE x == run'[r]
           y == run[r]
<1>0. /\ TypeOK /\ FlagsFit(y) /\ y \in OneRun /\ run \in [Runs -> OneRun] /\ y.pc \in Pc /\ y.resumed \in BOOLEAN
      /\ y.pausing \in BOOLEAN /\ y.doubt \in SUBSET Pc
  <2>1. TypeOK /\ FlagsFit(y)
    BY DEF CanaryInv
  <2> QED BY <2>1, RunTyped
<1>1. ASSUME y.pc \notin {"pause", "stopped", "crashed"}, Goes(r, Leave(r))
      PROVE  x.doubt = y.doubt /\ x.resumed = y.resumed /\ x.pc = IF y.resumed THEN "pause" ELSE "stopped"
  BY <1>0, <1>1, LeaveIs DEF Goes, OneRun
<1>2. ASSUME NEW pc, Goes(r, pc) PROVE x.doubt = y.doubt /\ x.resumed = y.resumed /\ x.pc = pc
  BY <1>0, <1>2 DEF Goes, OneRun
<1>3. ASSUME NEW pc, Doubts(r, pc) PROVE x.doubt = y.doubt \cup {y.pc} /\ x.resumed = y.resumed /\ x.pc = pc
  BY <1>0, <1>3 DEF Doubts, OneRun
<1>4. y.resumed => y.pc \in {"resumeRead", "dispatch", "wait", "pause", "stopped", "crashed"}
  BY <1>0 DEF FlagsFit, Early, Fresh, Restoring, Pc
<1>5. y.pc \in Early => Fresh(y)
  BY <1>0 DEF FlagsFit
<1>6. CASE Preflight(r)
  <2>1. y.pc = "preflight" /\ Fresh(y)
    BY <1>5, <1>6 DEF Preflight, At, Early
  <2>2. CASE Stops(r)
    BY <1>1, <2>1, <2>2 DEF Stops, JobPlaces, OnCandidate, Restoring, Fresh
  <2>3. CASE run' = [run EXCEPT ![r].pc = "recheck", ![r].service = service, ![r].job = job]
    <3>1. x.pc = "recheck" /\ x.doubt = y.doubt /\ x.resumed = y.resumed
      BY <1>0, <2>3 DEF OneRun
    <3> QED BY <2>1, <3>1 DEF JobPlaces, OnCandidate, Restoring, Fresh
  <2> QED BY <1>6, <2>2, <2>3 DEF Preflight
<1>7. CASE Backup(r) \/ Allocate(r) \/ Claim(r)
  <2>1. y.pc \in {"backup", "allocate", "claim"} /\ Fresh(y)
    BY <1>5, <1>7 DEF Backup, Allocate, Claim, At, Early
  <2>2. x.pc \in {"allocate", "claim", "tag", "stopped"} /\ x.doubt = y.doubt /\ x.resumed = y.resumed
    BY <1>2, <1>7 DEF Backup, Allocate, Claim
  <2> QED BY <2>1, <2>2 DEF JobPlaces, OnCandidate, Restoring, Fresh
<1>8. CASE Recheck(r) \/ TagRead(r)
  <2>1. y.pc \in {"recheck", "tagRead"} /\ Fresh(y)
    BY <1>5, <1>8 DEF Recheck, TagRead, Read, At, Early
  <2>2. x.pc \in {"backup", "uri", "stopped"} /\ x.doubt = y.doubt /\ x.resumed = y.resumed
    BY <1>1, <1>2, <1>8, <2>1 DEF Recheck, TagRead, Read, Stops, Fresh
  <2> QED BY <2>1, <2>2 DEF JobPlaces, OnCandidate, Restoring, Fresh
<1>9. CASE UriRead(r)
  <2>1. y.pc = "uriRead" /\ Fresh(y)
    BY <1>5, <1>9 DEF UriRead, Read, At, Early
  <2>2. /\ x.doubt = y.doubt /\ x.resumed = y.resumed
        /\ x.pc = "stopped" \/ (x.pc = "resume" /\ job.uri = "tag" /\ job' = job)
    BY <1>1, <1>2, <1>9, <2>1 DEF UriRead, Read, Stops, Fresh, Temporary, ControlView, cloud
  <2> QED BY <2>1, <2>2 DEF JobPlaces, OnCandidate, Restoring, Fresh
<1>10. CASE Tag(r) \/ Uri(r)
  <2>1. y.pc \in {"tag", "uri"} /\ Fresh(y)
    BY <1>5, <1>10 DEF Tag, Uri, Write, At, Early
  <2>2. /\ x.doubt \subseteq {"tag", "uri"} /\ x.resumed = y.resumed
        /\ x.pc \in {"tagRead", "uriRead", "stopped"}
    BY <1>1, <1>2, <1>3, <1>10, <2>1 DEF Tag, Uri, Write, Fresh
  <2> QED BY <2>1, <2>2 DEF JobPlaces, OnCandidate, Restoring, Fresh
<1>11. CASE Resume(r)
  <2>1. y.pc = "resume" /\ Fresh(y)
    BY <1>5, <1>11 DEF Resume, At, Early
  <2>2. CASE run' = [run EXCEPT ![r].pc = "resumeRead", ![r].resumed = TRUE]
    <3>1. x.pc = "resumeRead" /\ x.doubt = y.doubt /\ x.resumed
      BY <1>0, <2>2 DEF OneRun
    <3> QED BY <2>1, <3>1 DEF JobPlaces, OnCandidate, Restoring, Fresh
  <2>3. CASE Doubts(r, "resumeUnknown")
    BY <1>3, <2>1, <2>3 DEF JobPlaces, OnCandidate, Restoring, Fresh
  <2>4. CASE Goes(r, "stopped") /\ UNCHANGED <<cloud, before>>
    BY <1>2, <2>1, <2>4 DEF JobPlaces, OnCandidate, Restoring, Fresh, cloud
  <2> QED BY <1>11, <2>2, <2>3, <2>4 DEF Resume
<1>12. CASE ResumeUnknown(r)
  <2>1. y.pc = "resumeUnknown" /\ ~y.resumed /\ y.doubt = {"resume"}
    BY <1>0, <1>12 DEF ResumeUnknown, At, FlagsFit
  <2>2. CASE run' = [run EXCEPT ![r].resumed = TRUE, ![r].pc = "pause"]
    <3>1. x.pc = "pause" /\ x.doubt = y.doubt /\ x.resumed
      BY <1>0, <2>2 DEF OneRun
    <3> QED BY <2>1, <3>1 DEF JobPlaces, OnCandidate, Restoring
  <2>3. CASE Goes(r, "stopped")
    BY <1>2, <2>1, <2>3 DEF JobPlaces, OnCandidate, Restoring
  <2> QED BY <1>12, <2>2, <2>3 DEF ResumeUnknown
<1>13. CASE ResumeRead(r) \/ Dispatch(r)
  <2>1. y.pc \in {"resumeRead", "dispatch"} /\ y.resumed /\ y.doubt = {}
    BY <1>0, <1>13 DEF ResumeRead, Dispatch, At, FlagsFit
  <2>2. x.pc \in {"dispatch", "wait", "pause"} /\ x.resumed /\ x.doubt = {}
    <3>1. CASE run' = [run EXCEPT ![r].pc = "dispatch", ![r].since = Cardinality(requests)]
      BY <1>0, <2>1, <3>1 DEF OneRun
    <3> QED BY <1>1, <1>2, <1>13, <2>1, <3>1 DEF ResumeRead, Dispatch
  <2> QED BY <2>1, <2>2 DEF JobPlaces, OnCandidate, Restoring
<1>14. CASE Wait(r)
  <2>1. y.resumed
    BY <1>0, <1>14, WaitIs DEF FlagsFit
  <2> QED BY <1>0, <1>14, <2>1, WaitIs DEF JobPlaces, OnCandidate, Restoring, FlagsFit
<1>15. CASE Pause(r)
  <2>1. y.pc = "pause" /\ y.resumed /\ y.doubt \subseteq {"resume"} /\ "restoreUri" \notin y.doubt
    BY <1>0, <1>15 DEF Pause, At, FlagsFit
  <2>2. CASE /\ Succeeds(JobCall(r, "pause"))
             /\ run' = [run EXCEPT ![r].pausing = TRUE, ![r].resumed = FALSE, ![r].pc = "pauseRead"]
    <3>1. x.pc = "pauseRead" /\ x.doubt = y.doubt /\ ~x.resumed
      BY <1>0, <2>2 DEF OneRun
    <3>2. job'.state = "PAUSED"
      <4>1. job \in Job
        BY <1>0 DEF TypeOK
      <4> QED BY <2>2, <4>1 DEF Succeeds, Applies, JobCall, TrafficCall, WriteState, Job
    <3> QED BY <2>1, <3>1, <3>2 DEF JobPlaces, OnCandidate, Restoring
  <2>3. CASE run' = [run EXCEPT ![r].pausing = TRUE, ![r].pc = "stopped", ![r].doubt = @ \cup {"pause"}]
    <3>1. x.pc = "stopped" /\ x.doubt = y.doubt \cup {"pause"} /\ x.resumed = y.resumed
      BY <1>0, <2>3 DEF OneRun
    <3> QED BY <2>1, <3>1 DEF JobPlaces, OnCandidate, Restoring
  <2>4. CASE ~Owns(r) /\ run' = [run EXCEPT ![r].pausing = TRUE, ![r].pc = "stopped"]
    <3>1. x.pc = "stopped" /\ x.doubt = y.doubt /\ x.resumed = y.resumed
      BY <1>0, <2>4 DEF OneRun
    <3>2. claim # r /\ claim' = claim
      BY <1>15, <2>4 DEF Pause, Owns, files
    <3> QED BY <2>1, <3>1, <3>2 DEF JobPlaces, OnCandidate, Restoring
  <2> QED BY <1>15, <2>2, <2>3, <2>4 DEF Pause
<1>16. CASE PauseRead(r)
  <2>1. y.pc = "pauseRead" /\ ~y.resumed /\ y.doubt \subseteq {"resume"} /\ "restoreUri" \notin y.doubt
    BY <1>0, <1>16 DEF PauseRead, Read, At, FlagsFit
  <2>2. /\ x.doubt = y.doubt /\ x.resumed = y.resumed
        /\ x.pc = "stopped" \/ (x.pc = "restoreUri" /\ job.state = "PAUSED" /\ job' = job)
    BY <1>1, <1>2, <1>16, <2>1 DEF PauseRead, Read, Stops, cloud
  <2> QED BY <2>1, <2>2 DEF JobPlaces, OnCandidate, Restoring
<1>17. CASE RestoreUri(r) \/ RestoreRead(r) \/ Untag(r) \/ FinalService(r) \/ FinalJobs(r)
  <2>1. y.pc \in Restoring \ {"done"} /\ ~y.resumed /\ y.doubt = {}
    BY <1>0, <1>17 DEF RestoreUri, RestoreRead, Untag, FinalService, FinalJobs, Read, Write, At, FlagsFit, Restoring
  <2>2. ~x.resumed /\ "resume" \notin x.doubt /\ x.pc \notin OnCandidate
    <3>1. CASE RestoreRead(r)
      <4>1. CASE run' = [run EXCEPT ![r].pc = "untag", ![r].etag = service.etag]
        BY <1>0, <2>1, <4>1 DEF OneRun, OnCandidate
      <4> QED BY <1>1, <2>1, <3>1, <4>1 DEF RestoreRead, Stops, OnCandidate, Restoring
    <3>2. CASE RestoreUri(r) \/ Untag(r)
      <4>1. y.pc # "resume"
        BY <2>1 DEF Restoring
      <4> QED BY <1>1, <1>2, <1>3, <2>1, <3>2, <4>1 DEF RestoreUri, Untag, Write, OnCandidate, Restoring
    <3>3. CASE FinalService(r) \/ FinalJobs(r)
      BY <1>1, <1>2, <2>1, <3>3 DEF FinalService, FinalJobs, Read, Stops, OnCandidate, Restoring
    <3> QED BY <1>17, <3>1, <3>2, <3>3
  <2>3. y.pc # "resume"
    BY <2>1 DEF Restoring
  <2> QED BY <2>1, <2>2, <2>3 DEF JobPlaces
<1> QED
  BY <1>6, <1>7, <1>8, <1>9, <1>10, <1>11, <1>12, <1>13, <1>14, <1>15, <1>16, <1>17 DEF Step

\* What a call does to the job, by which call it is.
LEMMA EffectOnJob ==
  ASSUME NEW c, Effect(c)
  PROVE  /\ c.op \in {"tag", "untag", "run"} => job' = job
         /\ c.op = "uri" => job'.uri = "tag" /\ job'.state = job.state
         /\ c.op = "restoreUri" => job'.state = "PAUSED"
         /\ c.op = "resume" => job'.uri = "tag"
         /\ c.op = "pause" => job'.state = "PAUSED" /\ job'.uri = job.uri
  BY DEF Effect, TrafficMoves, JobMoves, Queues

\* A step of a run leaves the job as the place of its claimer says.
LEMMA JobStep ==
  ASSUME CanaryInv, NEW r \in Runs, Step(r)
  PROVE  JobFits'
<1> DEFINE x == run'[r]
           y == run[r]
<1>0. /\ TypeOK /\ JobFits /\ FlagsFit(y) /\ OneClaims /\ IsFiniteSet(requests) /\ OneClaims'
      /\ \A s \in Runs : s # NoRun /\ s # "changed"
  <2>1. TypeOK /\ JobFits /\ FlagsFit(y) /\ OneClaims /\ IsFiniteSet(requests)
    BY DEF CanaryInv, RequestsFit
  <2>2. PICK z \in OneRun : Becomes(r, z) /\ FlagsFit(z)
    BY <2>1, StepsWell
  <2> QED BY <2>1, <2>2, ClaimsStep, RunsAreNames
<1>1. PICK z \in OneRun : Becomes(r, z) /\ FlagsFit(z)
  BY <1>0, StepsWell
<1>2. x = z /\ FlagsFit(x) /\ \A s \in Runs : s # r => run'[s] = run[s]
  BY <1>0, <1>1, OneMoves
<1>3. claim' = claim \/ (claim = NoRun /\ claim' = r /\ y.pc = "claim")
  <2>1. claim' = claim \/ (claim = NoRun /\ claim' = r)
    BY <1>0, <1>1, ClaimIsMade
  <2>2. y.pc = "claim" \/ claim' = claim
    BY DEF Step, Preflight, Recheck, Backup, Allocate, Claim, Tag, TagRead, Uri, UriRead, Resume, ResumeUnknown, ResumeRead,
       Dispatch, Wait, Pause, PauseRead, RestoreUri, RestoreRead, Untag, FinalService, FinalJobs, Write, Read, Stops, At, files
  <2> QED BY <2>1, <2>2
<1>4. JobPlaces(r)
  BY JobPlacesStep
<1>5. y.doubt \subseteq x.doubt
  BY <1>0, FlagsGrow
\* The call of a step that makes one, and whose it is.
<1>6. \/ job' = job
      \/ \E c : /\ Effect(c) /\ claim = r /\ Claimer(r) /\ c.op = y.pc
               /\ c.op \in {"uri", "restoreUri", "resume", "pause"}
  <2>1. CASE Stays
    BY <2>1 DEF Stays
  <2>2. ASSUME NEW c, CallOk(c), c.run = r, Owns(r), IF c.op = "run" THEN y.pc = "dispatch" ELSE c.op = y.pc, Effect(c)
        PROVE  job' = job \/ (Effect(c) /\ claim = r /\ Claimer(r) /\ c.op = y.pc
                             /\ c.op \in {"uri", "restoreUri", "resume", "pause"})
    BY <2>2, EffectOnJob DEF CallOk, Ops, Owns
  <2> QED BY <2>1, <2>2, StepsCall DEF StepCalls
<1>7. claim' = NoRun => job'.state = "PAUSED"
  BY <1>0, <1>3, <1>6 DEF JobFits
<1>8. ASSUME NEW s \in Runs, s # r
      PROVE  /\ claim' = s /\ ~run'[s].resumed /\ run'[s].doubt \cap {"resume", "pause"} = {} => job'.state = "PAUSED"
             /\ run'[s].pc \in {"done", "stopped"} /\ run'[s].resumed => claim' # s \/ "pause" \in run'[s].doubt
             /\ run'[s].pc \in OnCandidate \/ "resume" \in run'[s].doubt => job'.uri = "tag"
             /\ run'[s].pc \in Restoring \ {"done"} \/ "restoreUri" \in run'[s].doubt => job'.state = "PAUSED"
  <2>1. run'[s] = run[s] /\ (claim' = s => claim = s)
    BY <1>2, <1>3, <1>8
  <2>2. Claimer(s) \/ claim = s => job' = job
    BY <1>0, <1>6, <1>8 DEF OneClaims
  <2>3. run[s].pc \in OnCandidate \cup (Restoring \ {"done"}) \/ run[s].doubt # {} => Claimer(s)
    BY <1>0, RunTyped DEF Claimer, Writing, OnCandidate, Restoring
  <2> QED BY <1>0, <2>1, <2>2, <2>3 DEF JobFits, OnCandidate
<1>9. claim' = r /\ ~x.resumed /\ x.doubt \cap {"resume", "pause"} = {} => job'.state = "PAUSED"
  <2> SUFFICES ASSUME claim' = r, ~x.resumed, x.doubt \cap {"resume", "pause"} = {} PROVE job'.state = "PAUSED"
    OBVIOUS
  <2>1. CASE claim = NoRun
    BY <1>0, <1>6, <2>1 DEF JobFits
  <2>2. CASE claim = r /\ ~y.resumed
    <3>1. job.state = "PAUSED"
      BY <1>0, <1>5, <2>2 DEF JobFits
    <3>2. y.pc = "resume" => job' = job
      BY <1>4 DEF JobPlaces
    <3> QED BY <1>6, <3>1, <3>2, EffectOnJob
  <2>3. CASE claim = r /\ y.resumed
    BY <1>4, <2>3 DEF JobPlaces
  <2> QED BY <1>0, <1>3, <2>1, <2>2, <2>3
<1>10. x.pc \in {"done", "stopped"} /\ x.resumed => claim' # r \/ "pause" \in x.doubt
  BY <1>4 DEF JobPlaces
<1>11. x.pc \in OnCandidate \/ "resume" \in x.doubt => job'.uri = "tag"
  <2> SUFFICES ASSUME x.pc \in OnCandidate \/ "resume" \in x.doubt PROVE job'.uri = "tag"
    OBVIOUS
  <2>1. CASE job' = job /\ job.uri = "tag"
    BY <2>1
  <2>2. CASE y.pc \in OnCandidate \/ "resume" \in y.doubt
    <3>1. job.uri = "tag"
      BY <1>0, <2>2 DEF JobFits, OnCandidate
    <3>2. y.pc # "restoreUri"
      BY <1>0, <2>2 DEF FlagsFit, OnCandidate, Restoring
    <3> QED BY <1>6, <3>1, <3>2, EffectOnJob
  <2> QED BY <1>4, <2>1, <2>2 DEF JobPlaces
<1>12. x.pc \in Restoring \ {"done"} \/ "restoreUri" \in x.doubt => job'.state = "PAUSED"
  <2> SUFFICES ASSUME x.pc \in Restoring \ {"done"} \/ "restoreUri" \in x.doubt PROVE job'.state = "PAUSED"
    OBVIOUS
  <2>1. CASE job' = job /\ job.state = "PAUSED"
    BY <2>1
  <2>2. CASE y.pc \in Restoring \ {"done"}
    <3>1. job.state = "PAUSED"
      BY <1>0, <2>2 DEF JobFits
    <3>2. y.pc \notin {"uri", "resume", "pause"}
      BY <2>2 DEF Restoring
    <3> QED BY <1>6, <3>1, <3>2, EffectOnJob
  <2> QED BY <1>4, <2>1, <2>2 DEF JobPlaces
<1> QED BY <1>7, <1>8, <1>9, <1>10, <1>11, <1>12 DEF JobFits, OnCandidate

-----------------------------------------------------------------------------
(* The requests.                                                           *)
\* A run counts the requests before it dispatches, and its outcome is that of a
\* request it waited for.
LEMMA RequestPlaces ==
  ASSUME TypeOK, NEW r \in Runs, Step(r)
  PROVE  LET x == run'[r]
             y == run[r]
         IN /\ x.pc \in {"dispatch", "wait"} => \/ x.since = Cardinality(requests)
                                                \/ y.pc = "dispatch" /\ x.since = y.since
            /\ \/ x.outcome = y.outcome
               \/ y.pc = "wait" /\ \E q \in requests : Terminal(r, q) /\ x.outcome = CandidateOutcome(q)
<1> DEFINE x == run'[r]
           y == run[r]
<1>0. y \in OneRun /\ run \in [Runs -> OneRun]
  BY RunTyped
<1>1. ASSUME NEW pc, Goes(r, pc) PROVE x.outcome = y.outcome /\ x.since = y.since /\ x.pc = pc
  BY <1>0, <1>1 DEF Goes, OneRun
<1>2. ASSUME NEW pc, Doubts(r, pc) PROVE x.outcome = y.outcome /\ x.since = y.since /\ x.pc = pc
  BY <1>0, <1>2 DEF Doubts, OneRun
<1>3. Leave(r) \in {"pause", "stopped"}
  BY DEF Leave
<1>4. CASE Preflight(r)
  <2>1. CASE run' = [run EXCEPT ![r].pc = "recheck", ![r].service = service, ![r].job = job]
    BY <1>0, <2>1 DEF OneRun
  <2> QED BY <1>1, <1>3, <1>4, <2>1 DEF Preflight, Stops
<1>5. CASE Recheck(r) \/ TagRead(r) \/ UriRead(r) \/ PauseRead(r) \/ FinalService(r) \/ FinalJobs(r)
  BY <1>1, <1>3, <1>5 DEF Recheck, TagRead, UriRead, PauseRead, FinalService, FinalJobs, Read, Stops
<1>6. CASE Tag(r) \/ Uri(r) \/ RestoreUri(r) \/ Untag(r)
  BY <1>1, <1>2, <1>3, <1>6 DEF Tag, Uri, RestoreUri, Untag, Write
<1>7. CASE Backup(r) \/ Allocate(r) \/ Claim(r)
  BY <1>1, <1>7 DEF Backup, Allocate, Claim
<1>8. CASE Resume(r)
  <2>1. CASE run' = [run EXCEPT ![r].pc = "resumeRead", ![r].resumed = TRUE]
    BY <1>0, <2>1 DEF OneRun
  <2> QED BY <1>1, <1>2, <1>8, <2>1 DEF Resume
<1>9. CASE ResumeUnknown(r)
  <2>1. CASE run' = [run EXCEPT ![r].resumed = TRUE, ![r].pc = "pause"]
    BY <1>0, <2>1 DEF OneRun
  <2>2. CASE Goes(r, "stopped")
    BY <1>1, <2>2
  <2> QED BY <1>9, <2>1, <2>2 DEF ResumeUnknown
<1>10. CASE ResumeRead(r)
  <2>1. CASE run' = [run EXCEPT ![r].pc = "dispatch", ![r].since = Cardinality(requests)]
    BY <1>0, <2>1 DEF OneRun
  <2> QED BY <1>1, <1>3, <1>10, <2>1 DEF ResumeRead
<1>11. CASE Dispatch(r)
  BY <1>1, <1>3, <1>11 DEF Dispatch, At
<1>12. CASE Wait(r)
  BY <1>12, WaitIs
<1>13. CASE Pause(r)
  BY <1>0, <1>13 DEF Pause, OneRun
<1>14. CASE RestoreRead(r)
  <2>1. CASE run' = [run EXCEPT ![r].pc = "untag", ![r].etag = service.etag]
    BY <1>0, <2>1 DEF OneRun
  <2> QED BY <1>1, <1>3, <1>14, <2>1 DEF RestoreRead, Stops
<1> QED
  BY <1>4, <1>5, <1>6, <1>7, <1>8, <1>9, <1>10, <1>11, <1>12, <1>13, <1>14 DEF Step

\* A step of a run leaves the requests numbered and its own among them.
LEMMA RequestsStep ==
  ASSUME CanaryInv, NEW r \in Runs, Step(r)
  PROVE  RequestsFit'
<1> DEFINE x == run'[r]
           y == run[r]
<1>0. TypeOK /\ RequestsFit /\ FlagsFit(y) /\ IsFiniteSet(requests) /\ Cardinality(requests) \in Nat
      /\ \A q \in requests : q.number \in Nat /\ q.number < Cardinality(requests)
  BY FS_CardinalityType DEF CanaryInv, RequestsFit, TypeOK, Request
<1>1. PICK z \in OneRun : Becomes(r, z) /\ FlagsFit(z)
  BY <1>0, StepsWell
<1>2. x = z /\ \A s \in Runs : s # r => run'[s] = run[s]
  BY <1>0, <1>1, OneMoves
<1>3. requests' = requests
  BY StepsCall
<1>4. /\ x.pc \in {"dispatch", "wait"} => \/ x.since = Cardinality(requests)
                                          \/ y.pc = "dispatch" /\ x.since = y.since
      /\ \/ x.outcome = y.outcome
         \/ y.pc = "wait" /\ \E q \in requests : Terminal(r, q) /\ x.outcome = CandidateOutcome(q)
  BY <1>0, RequestPlaces
<1>5. x.pc \in {"dispatch", "wait"} =>
        /\ x.since <= Cardinality(requests)
        /\ \A q \in requests : q.number >= x.since /\ q.uri = "tag" => q.by = r
  <2>1. x.since = Cardinality(requests) => \A q \in requests : ~(q.number >= x.since)
    BY <1>0
  <2> QED BY <1>0, <1>4, <2>1 DEF RequestsFit
<1>6. x.outcome # "none" => \E q \in requests : q.by = r /\ q.uri = "tag" /\ CandidateOutcome(q) = x.outcome
  <2>1. ASSUME NEW q \in requests, y.pc = "wait", Terminal(r, q) PROVE q.by = r /\ q.uri = "tag"
    <3>1. q \in Seen(r) /\ q.uri = "tag"
      BY <2>1 DEF Terminal
    <3> QED BY <1>0, <2>1, <3>1 DEF Seen, RequestsFit
  <2> QED BY <1>0, <1>4, <2>1 DEF RequestsFit
<1> QED BY <1>0, <1>2, <1>3, <1>5, <1>6 DEF RequestsFit, CandidateOutcome

-----------------------------------------------------------------------------
(* A step of a run.                                                        *)
LEMMA StepTyped ==
  ASSUME CanaryInv, NEW r \in Runs, Step(r)
  PROVE  TypeOK' /\ EnabledOnlyOnCandidate' /\ \A s \in Runs : FlagsFit(run[s])'
<1>0. /\ TypeOK /\ FlagsFit(run[r]) /\ IsFiniteSet(requests) /\ EnabledOnlyOnCandidate
      /\ \A s \in Runs : FlagsFit(run[s])
  BY DEF CanaryInv, RequestsFit
<1>1. PICK z \in OneRun : Becomes(r, z) /\ FlagsFit(z)
  BY <1>0, StepsWell
<1>2. run' \in [Runs -> OneRun] /\ run'[r] = z /\ \A s \in Runs : s # r => run'[s] = run[s]
  BY <1>0, <1>1, OneMoves
<1>3. \A s \in Runs : FlagsFit(run'[s])
  BY <1>0, <1>1, <1>2
<1>4. requests' = requests /\ fits' = fits /\ StepCalls(r)
  BY StepsCall
<1>5. /\ ledger' \in [Runs \cup {"hk-canary"} -> Runs \cup {NoRun}]
      /\ claim' \in Runs \cup {NoRun, "changed"}
      /\ backup' = backup \/ backup' = run[r].service
  BY <1>0, FilesStep
<1>6. /\ service' \in Service /\ before' \in Service \cup {NoService} /\ backup' \in Service \cup {NoService}
  BY <1>0, <1>5, ServiceStep, RunTyped DEF TypeOK
<1>7. /\ job' \in Job /\ queue' \in SUBSET Runs /\ (\A c \in late' : c.op \in Ops)
      /\ job'.state = "ENABLED" => job'.uri = "tag"
  <2>1. CASE Stays /\ late' = late
    BY <1>0, <2>1 DEF Stays, TypeOK, EnabledOnlyOnCandidate, Ops
  <2>2. ASSUME NEW c, CallOk(c), Effect(c) \/ Stays, late' \in {late, late \cup {c}}
        PROVE  /\ job' \in Job /\ queue' \in SUBSET Runs /\ (\A d \in late' : d.op \in Ops)
               /\ job'.state = "ENABLED" => job'.uri = "tag"
    <3>1. \A d \in late' : d.op \in Ops
      BY <1>0, <2>2 DEF CallOk, TypeOK, Ops
    <3>2. queue' \in SUBSET Runs /\ job' \in Job
      BY <1>0, <2>2 DEF Effect, TrafficMoves, JobMoves, Queues, Stays, CallOk, TypeOK
    <3>3. job'.state = "ENABLED" => job'.uri = "tag"
      <4>1. CASE Stays
        BY <1>0, <4>1 DEF Stays, EnabledOnlyOnCandidate
      <4>2. CASE Effect(c)
        BY <1>0, <2>2, <4>2, EffectOnJob DEF CallOk, Ops, EnabledOnlyOnCandidate
      <4> QED BY <2>2, <4>1, <4>2
    <3> QED BY <3>1, <3>2, <3>3
  <2> QED BY <1>4, <2>1, <2>2 DEF StepCalls
<1>8. TypeOK'
  BY <1>0, <1>2, <1>4, <1>5, <1>6, <1>7 DEF TypeOK, OneRun, Ops
<1> QED BY <1>3, <1>7, <1>8 DEF EnabledOnlyOnCandidate, FlagsFit

\* A step of a run keeps the inductive invariant.
LEMMA RunKeeps == ASSUME CanaryInv, NEW r \in Runs, Step(r) PROVE CanaryInv'
<1>1. TypeOK /\ FlagsFit(run[r]) /\ IsFiniteSet(requests) /\ OneClaims
  BY DEF CanaryInv, RequestsFit
<1>2. PICK z \in OneRun : Becomes(r, z) /\ FlagsFit(z)
  BY <1>1, StepsWell
<1>3. OneClaims'
  BY <1>1, <1>2, ClaimsStep
<1> QED BY <1>3, StepTyped, BackupsStep, CallsStep, JobStep, RequestsStep DEF CanaryInv

-----------------------------------------------------------------------------
(* What happens around the runs.                                           *)
\* A crash of a run keeps the inductive invariant.
LEMMA CrashKeeps == ASSUME CanaryInv, NEW r \in Runs, Crash(r) PROVE CanaryInv'
<1> DEFINE x == run'[r]
           y == run[r]
<1>0. /\ TypeOK /\ OneClaims /\ BackupsFit /\ CallsFit /\ JobFits /\ RequestsFit /\ BackupIsPreWrite
      /\ EnabledOnlyOnCandidate /\ \A s \in Runs : FlagsFit(run[s])
  BY DEF CanaryInv
<1>1. /\ Goes(r, "crashed") /\ service' = service /\ job' = job /\ queue' = queue /\ requests' = requests /\ late' = late
      /\ backup' = backup /\ ledger' = ledger /\ claim' = claim /\ fits' = fits /\ before' = before
  BY DEF Crash, cloud, files
<1>2. "crashed" \in Pc
  BY DEF Pc
<1>3. PICK z \in OneRun : Becomes(r, z) /\ FlagsFit(z)
  BY <1>0, <1>1, <1>2, GoesOn
<1>4. run' \in [Runs -> OneRun] /\ x = z /\ \A s \in Runs : s # r => run'[s] = run[s]
  BY <1>0, <1>3, OneMoves
<1>5. /\ x.pc = "crashed" /\ x.service = y.service /\ x.etag = y.etag /\ x.since = y.since /\ x.outcome = y.outcome
      /\ x.resumed = y.resumed /\ x.pausing = y.pausing /\ x.doubt = y.doubt
  BY <1>0, <1>1, RunTyped DEF Goes, OneRun
<1>6. TypeOK' /\ EnabledOnlyOnCandidate' /\ BackupIsPreWrite'
  BY <1>0, <1>1, <1>4 DEF TypeOK, OneRun, EnabledOnlyOnCandidate, BackupIsPreWrite
<1>7. \A s \in Runs : FlagsFit(run'[s])
  BY <1>0, <1>3, <1>4
<1>8. \A s \in Runs : Claimer(s)' => Claimer(s)
  <2>1. Claimer(r)' => Claimer(r)
    BY <1>5 DEF Claimer, Writing
  <2> QED BY <1>4, <2>1 DEF Claimer
<1>9. OneClaims'
  BY <1>0, <1>1, <1>8 DEF OneClaims
<1>10. BackupsFit'
  <2>1. \A s \in Runs : KeepsBackup(run'[s]) => KeepsBackup(run[s])
    BY <1>4, <1>5 DEF KeepsBackup, Writing
  <2>2. \A s \in Runs : run'[s].service = run[s].service /\ run'[s].etag = run[s].etag
    BY <1>4, <1>5
  <2>3. \A s \in Runs : run'[s].pc = run[s].pc \/ run'[s].pc = "crashed"
    BY <1>4, <1>5
  <2> QED BY <1>0, <1>1, <2>1, <2>2, <2>3 DEF BackupsFit, IsPast, TagOf, Writing
<1>11. CallsFit'
  <2>1. \A s \in Runs : /\ run'[s].service = run[s].service /\ run'[s].doubt = run[s].doubt
                        /\ run'[s].resumed = run[s].resumed /\ run'[s].pausing = run[s].pausing
    BY <1>4, <1>5
  <2>2. queue \in SUBSET Runs
    BY <1>0 DEF TypeOK
  <2> QED BY <1>0, <1>1, <2>1, <2>2 DEF CallsFit, CallFits
<1>12. JobFits'
  <2>1. \A s \in Runs : /\ run'[s].doubt = run[s].doubt /\ run'[s].resumed = run[s].resumed
                        /\ run'[s].pc = run[s].pc \/ run'[s].pc = "crashed"
    BY <1>4, <1>5
  <2> QED BY <1>0, <1>1, <2>1 DEF JobFits, Restoring
<1>13. RequestsFit'
  <2>1. \A s \in Runs : /\ run'[s].since = run[s].since /\ run'[s].outcome = run[s].outcome
                        /\ run'[s].pc = run[s].pc \/ run'[s].pc = "crashed"
    BY <1>4, <1>5
  <2> QED BY <1>0, <1>1, <2>1 DEF RequestsFit, CandidateOutcome
<1> QED BY <1>6, <1>7, <1>9, <1>10, <1>11, <1>12, <1>13 DEF CanaryInv, FlagsFit

\* A call that takes effect after its run gave up on it keeps the inductive
\* invariant.
LEMMA LateCallKeeps == ASSUME CanaryInv, LateCall PROVE CanaryInv'
<1>1. PICK c \in late : Applies(c) /\ late' = late \ {c} /\ UNCHANGED <<requests, files, fits, run>>
  BY DEF LateCall
<1> DEFINE w == c.run
<1>2. CallOk(c) /\ Effect(c) /\ CallFits(c)
  BY <1>1, LateIsOk, EffectOf DEF CanaryInv, CallsFit
<1>3. /\ requests' = requests /\ backup' = backup /\ ledger' = ledger /\ claim' = claim /\ fits' = fits /\ run' = run
  BY <1>1 DEF files
<1>4. /\ TypeOK /\ OneClaims /\ BackupsFit /\ CallsFit /\ JobFits /\ RequestsFit /\ EnabledOnlyOnCandidate
      /\ (\A s \in Runs : FlagsFit(run[s])) /\ w \in Runs /\ Claimer(w) /\ service \in Service
  BY <1>2 DEF CanaryInv, CallOk, TypeOK
<1>5. /\ service' \in Service /\ Moves(service, service') /\ service'.serving = service.serving
      /\ (before' = before /\ service' = service) \/ (before' # NoService /\ before' = backup)
      /\ before' \in Service \cup {NoService}
  BY <1>2, <1>4, EffectOnService DEF TypeOK
<1>6. job' \in Job /\ queue' \in SUBSET Runs
  BY <1>2, <1>4 DEF Effect, TrafficMoves, JobMoves, Queues, TypeOK, CallOk
<1>7. TypeOK'
  BY <1>1, <1>3, <1>4, <1>5, <1>6 DEF TypeOK
<1>8. OneClaims' /\ RequestsFit' /\ \A s \in Runs : FlagsFit(run[s])'
  BY <1>3, <1>4 DEF OneClaims, Claimer, RequestsFit, FlagsFit
<1>9. c.op \in {"tag", "uri", "resume", "pause", "restoreUri", "untag"} => c.op \in run[w].doubt
  BY <1>2 DEF CallFits
<1>10. BackupsFit' /\ BackupIsPreWrite'
  <2>1. service' = service \/ c.op \in {"tag", "untag"}
    BY <1>2 DEF Effect, TrafficMoves, JobMoves, Queues
  <2>2. ASSUME NEW s \in Runs, run[s].pc = "finalJobs", c.op \in {"tag", "untag"} PROVE FALSE
    <3>1. Claimer(s) /\ run[s].doubt = {}
      BY <1>4, <2>2 DEF Claimer, Writing, Pc, FlagsFit, Restoring
    <3> QED BY <1>4, <1>9, <2>2, <3>1 DEF OneClaims
  <2>3. (before' = before /\ service'.tags \subseteq service.tags \cup {"other"}) \/ (before' # NoService /\ before' = backup)
    BY <1>5
  <2>4. service' = service \/ \A s \in Runs : run[s].pc = "finalJobs" => TagOf(s) \notin service'.tags
    BY <2>1, <2>2
  <2> QED BY <1>3, <1>5, <2>3, <2>4, BackupsStay
<1>11. CallsFit'
  <2>1. before # NoService => before' # NoService
    BY <1>5
  <2>2. \A d \in late : CallFits(d)'
    BY <1>3, <1>5, <2>1, CallsStay
  <2>3. queue' = queue \/ (c.op = "run" /\ queue' = queue \cup {w})
    BY <1>2 DEF Effect, TrafficMoves, JobMoves, Queues
  <2> QED BY <1>1, <1>2, <1>3, <1>4, <2>2, <2>3 DEF CallsFit, CallFits
<1>12. EnabledOnlyOnCandidate'
  BY <1>2, <1>4, EffectOnJob DEF EnabledOnlyOnCandidate, CallOk, Ops
<1>13. JobFits'
  <2>1. claim # NoRun
    BY <1>4, RunsAreNames DEF OneClaims
  <2>2. ASSUME NEW s \in Runs, claim = s, ~run[s].resumed, run[s].doubt \cap {"resume", "pause"} = {}
        PROVE  job'.state = "PAUSED"
    <3>1. w = s
      BY <1>4, <2>2, RunsAreNames DEF OneClaims
    <3>2. c.op # "resume" /\ job.state = "PAUSED"
      BY <1>4, <1>9, <2>2, <3>1 DEF JobFits
    <3> QED BY <1>2, <3>2, EffectOnJob DEF CallOk, Ops
  <2>3. ASSUME NEW s \in Runs, run[s].pc \in OnCandidate \/ "resume" \in run[s].doubt PROVE job'.uri = "tag"
    <3>1. Claimer(s) /\ job.uri = "tag"
      <4>1. run[s].pc = "resume" => run[s].pc \in Writing
        BY DEF Writing, Pc
      <4> QED BY <1>4, <2>3, <4>1 DEF Claimer, Writing, Pc, OnCandidate, JobFits
    <3>2. w = s
      BY <1>4, <3>1 DEF OneClaims
    <3>3. c.op # "restoreUri"
      BY <1>4, <1>9, <2>3, <3>2 DEF FlagsFit, OnCandidate, Early, Fresh
    <3> QED BY <1>2, <3>1, <3>3, EffectOnJob DEF CallOk, Ops
  <2>4. ASSUME NEW s \in Runs, run[s].pc \in Restoring \ {"done"} \/ "restoreUri" \in run[s].doubt
        PROVE  job'.state = "PAUSED"
    <3>1. Claimer(s) /\ job.state = "PAUSED"
      BY <1>4, <2>4 DEF Claimer, Writing, Pc, Restoring, JobFits
    <3>2. w = s
      BY <1>4, <3>1 DEF OneClaims
    <3>3. c.op # "resume"
      BY <1>4, <1>9, <2>4, <3>2 DEF FlagsFit
    <3> QED BY <1>2, <3>1, <3>3, EffectOnJob DEF CallOk, Ops
  <2> QED BY <1>3, <1>4, <2>1, <2>2, <2>3, <2>4 DEF JobFits, OnCandidate
<1> QED BY <1>7, <1>8, <1>10, <1>11, <1>12, <1>13 DEF CanaryInv

\* A request is made, to where the job points or to the serving revision.
LEMMA ArrivesKeeps ==
  ASSUME CanaryInv, NEW uri \in {"base", "tag"}, NEW by \in Runs \cup {"schedule", "other"}, Arrives(uri, by),
         service' = service, late' = late, backup' = backup, ledger' = ledger, claim' = claim, fits' = fits,
         run' = run, before' = before, queue' \in SUBSET queue,
         job' = job \/ job' = [job EXCEPT !.attempts = @ + 1],
         uri = "tag" => \A s \in Runs : run[s].pc \in {"dispatch", "wait"} => s = by
  PROVE  CanaryInv'
<1>0. /\ TypeOK /\ OneClaims /\ BackupsFit /\ CallsFit /\ JobFits /\ RequestsFit /\ BackupIsPreWrite
      /\ EnabledOnlyOnCandidate /\ \A s \in Runs : FlagsFit(run[s])
  BY DEF CanaryInv
<1>1. job' \in Job /\ job'.state = job.state /\ job'.uri = job.uri
  <2>1. job \in Job
    BY <1>0 DEF TypeOK
  <2>2. \A n \in Nat : [job EXCEPT !.attempts = n] \in Job
    BY <2>1 DEF Job
  <2>3. job.attempts + 1 \in Nat
    BY <2>1 DEF Job
  <2>4. CASE job' = [job EXCEPT !.attempts = @ + 1]
    <3>1. job' = [job EXCEPT !.attempts = job.attempts + 1]
      BY <2>4
    <3>2. job'.state = job.state /\ job'.uri = job.uri
      BY <2>1, <3>1 DEF Job
    <3> QED BY <2>2, <2>3, <3>1, <3>2
  <2> QED BY <2>1, <2>4
<1> DEFINE n == Cardinality(requests)
<1>2. IsFiniteSet(requests) /\ n \in Nat
  BY <1>0, FS_CardinalityType DEF RequestsFit
<1>3. PICK status \in {200, 500} : requests' = requests \cup {[uri |-> uri, status |-> status, by |-> by, number |-> n]}
  BY DEF Arrives
<1> DEFINE q == [uri |-> uri, status |-> status, by |-> by, number |-> n]
<1>4. q \in Request /\ q.uri = uri /\ q.by = by /\ q.number = n
  BY <1>2 DEF Request
<1> HIDE DEF q
<1>5. \A p \in requests : p.number \in Nat /\ p.number < n
  BY <1>0 DEF RequestsFit, TypeOK, Request
<1>6. q \notin requests
  BY <1>2, <1>4, <1>5
<1>7. IsFiniteSet(requests') /\ Cardinality(requests') = n + 1 /\ requests' = requests \cup {q}
  BY <1>2, <1>3, <1>6, FS_AddElement DEF q
<1>8. TypeOK'
  BY <1>0, <1>1, <1>4, <1>7 DEF TypeOK
<1>9. OneClaims' /\ BackupsFit' /\ BackupIsPreWrite' /\ (\A s \in Runs : FlagsFit(run[s])') /\ EnabledOnlyOnCandidate'
  BY <1>0, <1>1 DEF OneClaims, Claimer, BackupsFit, IsPast, TagOf, BackupIsPreWrite, FlagsFit, EnabledOnlyOnCandidate
<1>10. CallsFit' /\ JobFits'
  BY <1>0, <1>1 DEF CallsFit, CallFits, JobFits
<1>11. RequestsFit'
  <2>1. \A p \in requests' : p.number < n + 1
    BY <1>2, <1>4, <1>5, <1>7
  <2>2. ASSUME NEW s \in Runs, run[s].pc \in {"dispatch", "wait"}
        PROVE  /\ run[s].since <= n + 1
               /\ \A p \in requests' : p.number >= run[s].since /\ p.uri = "tag" => p.by = s
    <3>1. run[s].since \in Nat /\ run[s].since <= n
      BY <1>0, <2>2, RunTyped DEF RequestsFit
    <3> QED BY <1>0, <1>2, <1>4, <1>7, <2>2, <3>1 DEF RequestsFit
  <2>3. \A s \in Runs : run[s].outcome # "none" =>
           \E p \in requests' : p.by = s /\ p.uri = "tag" /\ CandidateOutcome(p) = run[s].outcome
    BY <1>0, <1>7 DEF RequestsFit
  <2> QED BY <1>7, <2>1, <2>2, <2>3 DEF RequestsFit, CandidateOutcome
<1> QED BY <1>8, <1>9, <1>10, <1>11 DEF CanaryInv

\* A probe request that the resumed job delivers keeps the inductive invariant.
LEMMA DeliversKeeps == ASSUME CanaryInv, NEW r \in Runs, Delivers(r) PROVE CanaryInv'
<1>1. Claimer(r) /\ OneClaims /\ job.uri \in {"base", "tag"}
  BY DEF Delivers, CanaryInv, CallsFit, Claimer, TypeOK, Job
<1>2. \A s \in Runs : run[s].pc \in {"dispatch", "wait"} => s = r
  <2>1. \A s \in Runs : run[s].pc \in {"dispatch", "wait"} => Claimer(s)
    BY DEF Claimer, Writing, Pc
  <2> QED BY <1>1, <2>1 DEF OneClaims
<1> QED BY <1>1, <1>2, ArrivesKeeps DEF Delivers, Attempted, files

\* A request of the scheduler's own keeps the inductive invariant.
LEMMA NaturalRunKeeps == ASSUME CanaryInv, NaturalRun PROVE CanaryInv'
<1>1. job.uri \in {"base", "tag"}
  BY DEF CanaryInv, TypeOK, Job
<1>2. \A s \in Runs : run[s].pc \notin {"dispatch", "wait"}
  BY DEF NaturalRun, Ended
<1> QED BY <1>1, <1>2, ArrivesKeeps DEF NaturalRun, Attempted, files

\* A request by someone else keeps the inductive invariant.
LEMMA OtherRequestKeeps == ASSUME CanaryInv, OtherRequest PROVE CanaryInv'
  BY ArrivesKeeps DEF OtherRequest, files

\* A claim file replaced by hand keeps the inductive invariant.
LEMMA ClaimChangesKeeps == ASSUME CanaryInv, ClaimChanges PROVE CanaryInv'
<1>0. /\ TypeOK /\ OneClaims /\ BackupsFit /\ CallsFit /\ JobFits /\ RequestsFit /\ BackupIsPreWrite
      /\ EnabledOnlyOnCandidate /\ \A s \in Runs : FlagsFit(run[s])
  BY DEF CanaryInv
<1>1. /\ service' = service /\ job' = job /\ queue' = queue /\ requests' = requests /\ late' = late
      /\ backup' = backup /\ ledger' = ledger /\ claim' = "changed" /\ fits' = fits /\ before' = before /\ run' = run
  BY DEF ClaimChanges, cloud
<1>2. TypeOK' /\ BackupsFit' /\ BackupIsPreWrite' /\ EnabledOnlyOnCandidate' /\ \A s \in Runs : FlagsFit(run[s])'
  BY <1>0, <1>1 DEF TypeOK, BackupsFit, IsPast, TagOf, BackupIsPreWrite, FlagsFit, EnabledOnlyOnCandidate
<1>3. OneClaims' /\ CallsFit' /\ RequestsFit'
  BY <1>0, <1>1 DEF OneClaims, Claimer, CallsFit, CallFits, RequestsFit, CandidateOutcome
<1>4. JobFits'
  BY <1>0, <1>1, RunsAreNames DEF JobFits
<1> QED BY <1>2, <1>3, <1>4 DEF CanaryInv

\* A deployment by someone else keeps the inductive invariant.
LEMMA DeployKeeps == ASSUME CanaryInv, Deploy PROVE CanaryInv'
<1>0. /\ TypeOK /\ OneClaims /\ BackupsFit /\ CallsFit /\ JobFits /\ RequestsFit /\ BackupIsPreWrite
      /\ EnabledOnlyOnCandidate /\ (\A s \in Runs : FlagsFit(run[s])) /\ service \in Service
  BY DEF CanaryInv, TypeOK
<1>1. /\ job' = job /\ queue' = queue /\ requests' = requests /\ late' = late
      /\ backup' = backup /\ ledger' = ledger /\ claim' = claim /\ fits' = fits /\ before' = before /\ run' = run
  BY DEF Deploy, files
<1>2. /\ service.etag \in Nat /\ service.template \in 0..MaxDeploys /\ MaxDeploys \in Nat
      /\ service.tags \in SUBSET (Runs \cup {"hk-canary", "other"})
  BY <1>0, RunsAssumption DEF Service
<1>3. /\ service' \in Service /\ service'.etag = service.etag + 1 /\ service'.tags \subseteq service.tags \cup {"other"}
  <2>1. CASE service' = [service EXCEPT !.serving = "new", !.template = @ + 1, !.etag = @ + 1]
    <3>1. service.template + 1 \in 0..MaxDeploys /\ service.etag + 1 \in Nat
      BY <1>2 DEF Deploy
    <3>2. \A t \in 0..MaxDeploys, e \in Nat : [service EXCEPT !.serving = "new", !.template = t, !.etag = e] \in Service
      BY <1>0 DEF Service
    <3>3. service' = [service EXCEPT !.serving = "new", !.template = service.template + 1, !.etag = service.etag + 1]
      BY <2>1
    <3>4. service'.etag = service.etag + 1 /\ service'.tags = service.tags
      BY <1>0, <3>3 DEF Service
    <3> QED BY <3>1, <3>2, <3>3, <3>4
  <2>2. CASE service' = [service EXCEPT !.tags = @ \cup {"other"}, !.etag = @ + 1]
    <3>1. service.etag + 1 \in Nat /\ service.tags \cup {"other"} \in SUBSET (Runs \cup {"hk-canary", "other"})
      BY <1>2
    <3>2. \A t \in SUBSET (Runs \cup {"hk-canary", "other"}), e \in Nat : [service EXCEPT !.tags = t, !.etag = e] \in Service
      BY <1>0 DEF Service
    <3>3. service' = [service EXCEPT !.tags = service.tags \cup {"other"}, !.etag = service.etag + 1]
      BY <2>2
    <3>4. service'.etag = service.etag + 1 /\ service'.tags = service.tags \cup {"other"}
      BY <1>0, <3>3 DEF Service
    <3> QED BY <3>1, <3>2, <3>3, <3>4
  <2> QED BY <2>1, <2>2 DEF Deploy
<1>4. BackupsFit' /\ BackupIsPreWrite'
  <2>1. \A s \in Runs : TagOf(s) # "other"
    BY RunsAreNames DEF TagOf
  <2>2. \A s \in Runs : run[s].pc = "finalJobs" => TagOf(s) \notin service'.tags
    BY <1>0, <1>3, <2>1 DEF BackupsFit
  <2> QED BY <1>1, <1>3, <2>2, BackupsStay DEF Moves
<1>5. CallsFit'
  <2>1. \A c \in late : CallFits(c)'
    BY <1>0, <1>1, <1>2, <1>3, CallsStay DEF Moves
  <2> QED BY <1>0, <1>1, <2>1 DEF CallsFit
<1>6. TypeOK' /\ OneClaims' /\ EnabledOnlyOnCandidate' /\ JobFits'
  BY <1>0, <1>1, <1>3 DEF TypeOK, OneClaims, Claimer, EnabledOnlyOnCandidate, JobFits
<1>7. RequestsFit' /\ \A s \in Runs : FlagsFit(run[s])'
  BY <1>0, <1>1 DEF RequestsFit, CandidateOutcome, FlagsFit
<1> QED BY <1>4, <1>5, <1>6, <1>7 DEF CanaryInv

-----------------------------------------------------------------------------
(* The theorems.                                                           *)
\* The inductive invariant holds at first.
LEMMA CanaryInit == Init => CanaryInv
<1> SUFFICES ASSUME Init PROVE CanaryInv
  OBVIOUS
<1>1. /\ service = [serving |-> "old", template |-> 0, tags |-> {}, etag |-> 0] /\ requests = {Previous} /\ late = {}
      /\ queue = {} /\ backup = NoService /\ before = NoService /\ claim = NoRun /\ fits \in BOOLEAN
      /\ job = [state |-> "PAUSED", uri |-> "base", attempts |-> 0]
  BY DEF Init
<1>2. \A r \in Runs : /\ run[r].pc = "preflight" /\ run[r].service = NoService /\ run[r].etag = 0 /\ Fresh(run[r])
                      /\ run[r].outcome = "none" /\ run[r].doubt = {} /\ ~run[r].resumed /\ ~run[r].pausing
  BY DEF Init, Fresh
<1>3. TypeOK
  <2>1. service \in Service /\ job \in Job
    BY <1>1, RunsAssumption DEF Service, Job
  <2>2. requests \subseteq Request
    BY <1>1 DEF Previous, Request
  <2>3. run \in [Runs -> [pc : Pc, service : Service \cup {NoService}, job : Job \cup {NoJob}, etag : Nat, since : Nat,
                          resumed : BOOLEAN, pausing : BOOLEAN, outcome : {"none", "completed", "failed"},
                          doubt : SUBSET Pc]]
    <3>1. "preflight" \in Pc
      BY DEF Pc
    <3> QED BY <3>1 DEF Init
  <2>4. ledger \in [Runs \cup {"hk-canary"} -> Runs \cup {NoRun}]
    BY DEF Init
  <2> QED BY <1>1, <2>1, <2>2, <2>3, <2>4 DEF TypeOK
<1>4. \A r \in Runs : FlagsFit(run[r])
  BY <1>2 DEF FlagsFit, Restoring, Early
<1>5. \A r \in Runs : ~Claimer(r) /\ ~KeepsBackup(run[r])
  BY <1>2 DEF Claimer, KeepsBackup, Writing
<1>6. OneClaims /\ CallsFit
  BY <1>1, <1>5 DEF OneClaims, CallsFit
<1>7. BackupsFit
  <2>1. \A r \in Runs : run[r].pc \notin Writing
    BY <1>2 DEF Writing
  <2> QED BY <1>1, <1>2, <1>5, <2>1, NoServiceIsNone DEF BackupsFit, IsPast
<1>8. JobFits
  BY <1>1, <1>2 DEF JobFits, Restoring
<1>9. RequestsFit
  <2>1. IsFiniteSet({Previous}) /\ Cardinality({Previous}) = 1
    BY FS_Singleton
  <2>2. Previous.number = 0
    BY DEF Previous
  <2>3. \A q \in requests : q.number = 0
    BY <1>1, <2>2
  <2>4. IsFiniteSet(requests) /\ Cardinality(requests) = 1
    BY <1>1, <2>1
  <2> QED BY <1>2, <2>3, <2>4 DEF RequestsFit
<1>10. BackupIsPreWrite /\ EnabledOnlyOnCandidate
  BY <1>1 DEF BackupIsPreWrite, EnabledOnlyOnCandidate
<1> QED BY <1>3, <1>4, <1>6, <1>7, <1>8, <1>9, <1>10 DEF CanaryInv

\* Every step keeps the inductive invariant.
LEMMA CanaryNext == CanaryInv /\ [Next]_vars => CanaryInv'
<1> SUFFICES ASSUME CanaryInv, [Next]_vars PROVE CanaryInv'
  OBVIOUS
<1>1. ASSUME NEW r \in Runs, Step(r) PROVE CanaryInv'
  BY <1>1, RunKeeps
<1>2. ASSUME NEW r \in Runs, Crash(r) PROVE CanaryInv'
  BY <1>2, CrashKeeps
<1>3. CASE LateCall
  BY <1>3, LateCallKeeps
<1>4. ASSUME NEW r \in Runs, Delivers(r) PROVE CanaryInv'
  BY <1>4, DeliversKeeps
<1>5. CASE NaturalRun \/ OtherRequest
  BY <1>5, NaturalRunKeeps, OtherRequestKeeps
<1>6. CASE ClaimChanges \/ Deploy
  BY <1>6, ClaimChangesKeeps, DeployKeeps
<1>7. CASE UNCHANGED vars
  <2>1. /\ service' = service /\ job' = job /\ queue' = queue /\ requests' = requests /\ late' = late
        /\ backup' = backup /\ ledger' = ledger /\ claim' = claim /\ fits' = fits /\ before' = before /\ run' = run
    BY <1>7 DEF vars
  <2>2. TypeOK' /\ OneClaims' /\ EnabledOnlyOnCandidate' /\ JobFits' /\ CallsFit'
    BY <2>1 DEF CanaryInv, TypeOK, OneClaims, Claimer, EnabledOnlyOnCandidate, JobFits, CallsFit, CallFits
  <2>3. BackupsFit' /\ BackupIsPreWrite' /\ RequestsFit' /\ \A s \in Runs : FlagsFit(run[s])'
    BY <2>1 DEF CanaryInv, BackupsFit, IsPast, TagOf, BackupIsPreWrite, RequestsFit, CandidateOutcome, FlagsFit
  <2> QED BY <2>2, <2>3 DEF CanaryInv
<1> QED BY <1>1, <1>2, <1>3, <1>4, <1>5, <1>6, <1>7 DEF Next

\* The invariant that the properties of the canary rest on holds of every
\* behaviour of the helper, its cloud and its files.
THEOREM CanaryInvHolds == Spec => []CanaryInv
<1>1. Init => CanaryInv
  BY CanaryInit
<1>2. CanaryInv /\ [Next]_vars => CanaryInv'
  BY CanaryNext
<1> QED BY <1>1, <1>2, PTL DEF Spec

\* What serves is moved by a deployment only.
LEMMA ServingStays ==
  ASSUME CanaryInv, Next
  PROVE  (service'.serving = service.serving /\ service'.template = service.template) \/ Deploy
<1>1. ASSUME NEW r \in Runs, Step(r) PROVE service'.serving = service.serving /\ service'.template = service.template
  BY <1>1, ServiceStep
<1>2. CASE LateCall
  <2>1. PICK c \in late : Applies(c)
    BY <1>2 DEF LateCall
  <2>2. Effect(c) /\ service \in Service
    BY <2>1, LateIsOk, EffectOf DEF CanaryInv, TypeOK
  <2> QED BY <2>2, EffectOnService
<1>3. CASE (\E r \in Runs : Crash(r) \/ Delivers(r)) \/ NaturalRun \/ OtherRequest \/ ClaimChanges
  BY <1>3 DEF Crash, Delivers, NaturalRun, OtherRequest, ClaimChanges, cloud
<1> QED BY <1>1, <1>2, <1>3 DEF Next

\* A run with a doubt writes nothing more but a pause.
LEMMA DoubtHolds ==
  ASSUME CanaryInv, Next, NEW r \in Runs, run[r].doubt # {}, run'[r] # run[r]
  PROVE  service' = service /\ (job' # job => run[r].pc = "pause")
<1>0. TypeOK /\ FlagsFit(run[r]) /\ IsFiniteSet(requests) /\ \A s \in Runs : FlagsFit(run[s])
  BY DEF CanaryInv, RequestsFit
<1>1. run[r].pc \notin Early \cup Restoring \cup {"dispatch"}
  BY <1>0 DEF FlagsFit, Fresh
<1>2. CASE Step(r)
  <2>1. ASSUME NEW c, CallOk(c), IF c.op = "run" THEN run[r].pc = "dispatch" ELSE c.op = run[r].pc, Effect(c)
        PROVE  service' = service /\ (job' # job => run[r].pc = "pause")
    <3>1. c.op = "pause" /\ c.op = run[r].pc
      BY <1>1, <2>1 DEF CallOk, Ops, Early, Restoring
    <3> QED BY <2>1, <3>1 DEF Effect, TrafficMoves, JobMoves, Queues
  <2> QED BY <1>2, <2>1, StepsCall DEF StepCalls, Stays
<1>3. ASSUME NEW s \in Runs, s # r, Step(s) PROVE FALSE
  <2>1. PICK z \in OneRun : Becomes(s, z) /\ FlagsFit(z)
    BY <1>0, <1>3, StepsWell
  <2> QED BY <1>0, <1>3, <2>1, OneMoves
<1>4. CASE \E s \in Runs : Crash(s)
  BY <1>4 DEF Crash, cloud
<1>5. run' = run \/ \E s \in Runs : Step(s) \/ Crash(s)
  BY DEF Next, LateCall, Delivers, NaturalRun, OtherRequest, ClaimChanges, Deploy
<1> QED BY <1>2, <1>3, <1>4, <1>5

\* One run writes, never after a doubt of its own, from a backup of what was
\* there before, and what serves and the enabled probe job stay apart from it.
THEOREM WritesAreSafeHolds == Spec => WritesAreSafe
<1>1. CanaryInv => OneRunWrites /\ BackupIsPreWrite /\ EnabledOnlyOnCandidate
  <2> SUFFICES ASSUME CanaryInv PROVE OneRunWrites /\ BackupIsPreWrite /\ EnabledOnlyOnCandidate
    OBVIOUS
  <2>1. \A r \in Runs : Wrote(r) => Claimer(r)
    BY DEF Wrote, Claimer, Writing, Pc
  <2> QED BY <2>1 DEF CanaryInv, OneClaims, OneRunWrites
<1>2. CanaryInv /\ [Next]_vars =>
        [(service'.serving = service.serving /\ service'.template = service.template) \/ Deploy]_vars
  BY ServingStays
<1>3. CanaryInv /\ [Next]_vars =>
        [\A r \in Runs : run[r].doubt # {} /\ run'[r] # run[r] =>
           (service' = service /\ (job' # job => run[r].pc = "pause"))]_vars
  BY DoubtHolds
<1> QED BY <1>1, <1>2, <1>3, CanaryInvHolds, PTL DEF Spec, WritesAreSafe, ServingUntouched, NoWriteAfterDoubt

\* A run returns its outcome only after the final look at the jobs.
LEMMA DoneIsLast ==
  ASSUME CanaryInv, NEW r \in Runs, Step(r), run'[r].pc = "done"
  PROVE  run[r].pc = "finalJobs" /\ ControlView(job) = ControlView(run[r].job)
<1> DEFINE x == run'[r]
           y == run[r]
<1>0. y \in OneRun /\ run \in [Runs -> OneRun] /\ TypeOK
  BY RunTyped DEF CanaryInv
<1>1. ASSUME NEW pc, Goes(r, pc) \/ Doubts(r, pc) PROVE x.pc = pc
  BY <1>0, <1>1 DEF Goes, Doubts, OneRun
<1>2. Leave(r) # "done"
  BY DEF Leave
<1>3. CASE FinalJobs(r)
  BY <1>1, <1>2, <1>3 DEF FinalJobs, Read, Stops, At
<1>4. CASE Recheck(r) \/ TagRead(r) \/ UriRead(r) \/ PauseRead(r) \/ FinalService(r)
  BY <1>1, <1>2, <1>4 DEF Recheck, TagRead, UriRead, PauseRead, FinalService, Read, Stops
<1>5. CASE Tag(r) \/ Uri(r) \/ RestoreUri(r) \/ Untag(r)
  BY <1>1, <1>2, <1>5 DEF Tag, Uri, RestoreUri, Untag, Write
<1>6. CASE Backup(r) \/ Allocate(r) \/ Claim(r) \/ Dispatch(r) \/ Wait(r)
  BY <1>1, <1>2, <1>6, <1>0, WaitIs DEF Backup, Allocate, Claim, Dispatch
<1>7. CASE Preflight(r)
  <2>1. CASE run' = [run EXCEPT ![r].pc = "recheck", ![r].service = service, ![r].job = job]
    BY <1>0, <2>1 DEF OneRun
  <2> QED BY <1>1, <1>2, <1>7, <2>1 DEF Preflight, Stops
<1>8. CASE Resume(r)
  <2>1. CASE run' = [run EXCEPT ![r].pc = "resumeRead", ![r].resumed = TRUE]
    BY <1>0, <2>1 DEF OneRun
  <2> QED BY <1>1, <1>8, <2>1 DEF Resume
<1>9. CASE ResumeUnknown(r)
  <2>1. CASE run' = [run EXCEPT ![r].resumed = TRUE, ![r].pc = "pause"]
    BY <1>0, <2>1 DEF OneRun
  <2>2. CASE Goes(r, "stopped")
    BY <1>1, <2>2
  <2> QED BY <1>9, <2>1, <2>2 DEF ResumeUnknown
<1>10. CASE ResumeRead(r)
  <2>1. CASE run' = [run EXCEPT ![r].pc = "dispatch", ![r].since = Cardinality(requests)]
    BY <1>0, <2>1 DEF OneRun
  <2> QED BY <1>1, <1>2, <1>10, <2>1 DEF ResumeRead
<1>11. CASE Pause(r)
  BY <1>0, <1>11 DEF Pause, OneRun
<1>12. CASE RestoreRead(r)
  <2>1. CASE run' = [run EXCEPT ![r].pc = "untag", ![r].etag = service.etag]
    BY <1>0, <2>1 DEF OneRun
  <2> QED BY <1>1, <1>2, <1>12, <2>1 DEF RestoreRead, Stops
<1> QED BY <1>3, <1>4, <1>5, <1>6, <1>7, <1>8, <1>9, <1>10, <1>11, <1>12 DEF Step

\* When a run returns, its tag is gone and the probe job is as it was found.
LEMMA DoneStep ==
  ASSUME CanaryInv, Next, NEW r \in Runs, run'[r].pc = "done", run[r].pc # "done"
  PROVE  TagOf(r) \notin service.tags /\ ControlView(job) = ControlView(run[r].job)
<1>0. TypeOK /\ BackupsFit /\ IsFiniteSet(requests) /\ \A s \in Runs : FlagsFit(run[s])
  BY DEF CanaryInv, RequestsFit
<1>1. run' = run \/ \E s \in Runs : Step(s) \/ Crash(s)
  BY DEF Next, LateCall, Delivers, NaturalRun, OtherRequest, ClaimChanges, Deploy
<1>2. CASE Step(r)
  BY <1>0, <1>2, DoneIsLast DEF BackupsFit
<1>3. ASSUME NEW s \in Runs, s # r, Step(s) PROVE FALSE
  <2>1. PICK z \in OneRun : Becomes(s, z) /\ FlagsFit(z)
    BY <1>0, <1>3, StepsWell
  <2> QED BY <1>0, <1>3, <2>1, OneMoves
<1>4. ASSUME NEW s \in Runs, Crash(s) PROVE FALSE
  <2>1. run' = [run EXCEPT ![s].pc = "crashed"]
    BY <1>4 DEF Crash, Goes
  <2>2. run \in [Runs -> OneRun]
    BY <1>0, RunTyped
  <2> QED BY <2>1, <2>2 DEF OneRun
<1> QED BY <1>1, <1>2, <1>3, <1>4

\* What a run says when it ends is so: the outcome is of its own request, the
\* tag is gone, the probe job is paused and as it was.
THEOREM EndIsTrueHolds == Spec => EndIsTrue
<1>1. CanaryInv => EndsPaused /\ OutcomeIsOwn
  <2> SUFFICES ASSUME CanaryInv PROVE EndsPaused /\ OutcomeIsOwn
    OBVIOUS
  <2>1. EndsPaused
    BY DEF CanaryInv, JobFits, EndsPaused, Owns
  <2>2. OutcomeIsOwn
    BY DEF CanaryInv, FlagsFit, Restoring, RequestsFit, OutcomeIsOwn
  <2> QED BY <2>1, <2>2
<1>2. CanaryInv /\ [Next]_vars =>
        [\A r \in Runs : run'[r].pc = "done" /\ run[r].pc # "done" =>
           TagOf(r) \notin service.tags /\ ControlView(job) = ControlView(run[r].job)]_vars
  BY DoneStep
<1> QED BY <1>1, <1>2, CanaryInvHolds, PTL DEF Spec, EndIsTrue, DoneIsRestored
=============================================================================
