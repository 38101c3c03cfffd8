------------------------ MODULE SnapshotRecorderProofs ------------------------
(***************************************************************************)
(* Proofs about SnapshotRecorder, for any recorders, schedule and timing   *)
(* that meets TimingAssumption: the types, the bounds in time, and that a  *)
(* job left ENABLED is accounted for.                                      *)
(***************************************************************************)
EXTENDS SnapshotRecorder, TLAPS

-----------------------------------------------------------------------------
(* Types. *)

\* What a step of a recorder that leaves the job, the probes and the archive
\* alone changes: the fields of that recorder, each within its type.
LEMMA LeavesType ==
    ASSUME TypeOK, NEW r \in Recorder, NEW p \in Pc, Leaves(r, p)
    PROVE  /\ pc' \in [Recorder -> Pc] /\ due' \in [Recorder -> Nat]
           /\ original' \in [Recorder -> [controls : Controls, attempts : Nat]
                                             \union {NoJob}]
           /\ deadline' \in [Recorder -> Nat]
           /\ triggered' \in [Recorder -> Time]
           /\ selected' \in [Recorder -> Snapshot \union {NoSnapshot}]
           /\ trouble' \in [Recorder -> BOOLEAN]
<1>1. 0 \in Time
      BY TimingAssumption DEF Time
<1> QED
    BY <1>1 DEF TypeOK, Leaves

\* A call keeps the types of the fields it sets.
LEMMA CallsType ==
    ASSUME TypeOK, NEW r \in Recorder, NEW p \in Pc, Calls(r, p)
    PROVE  pc' \in [Recorder -> Pc] /\ due' \in [Recorder -> Nat]
<1>1. now + Call \in Nat
      BY TimingAssumption DEF TypeOK, Time
<1> QED
    BY <1>1 DEF TypeOK, Calls

\* Ending, continuing and going to restore the job keep the types.
LEMMA ResultType ==
    ASSUME TypeOK, NEW r \in Recorder, NEW p \in Pc, NEW how \in Outcome,
           Ends(r, how) \/ Continues(r, p) \/ Restores(r, how)
    PROVE  /\ pc' \in [Recorder -> Pc] /\ due' \in [Recorder -> Nat]
           /\ outcome' \in [Recorder -> Outcome]
           /\ original' \in [Recorder -> [controls : Controls, attempts : Nat]
                                             \union {NoJob}]
           /\ deadline' \in [Recorder -> Nat]
           /\ triggered' \in [Recorder -> Time]
           /\ selected' \in [Recorder -> Snapshot \union {NoSnapshot}]
           /\ trouble' \in [Recorder -> BOOLEAN]
<1>1. CASE Ends(r, how)
      BY <1>1, LeavesType DEF Ends, Pc, TypeOK
<1>2. CASE Continues(r, p)
      BY <1>2, CallsType DEF Continues, workVars, TypeOK
<1>3. CASE Restores(r, how)
      BY <1>3, CallsType DEF Restores, workVars, Pc, TypeOK
<1> QED
    BY <1>1, <1>2, <1>3

\* The step of a recorder keeps the types: one case for each action.
LEMMA RecorderKeepsTypes ==
    ASSUME TypeOK, NEW r \in Recorder, Inspect(r) \/ Step(r) \/ Dies(r)
    PROVE  TypeOK'
<1> USE DEF jobVars, probeVars
<1>a. /\ now \in Nat /\ now + Wait \in Nat /\ attempts + 1 \in Nat
      /\ now \in Time /\ enabled \in BOOLEAN
      BY TimingAssumption DEF TypeOK, Time
<1>b. /\ {"resume", "reread", "readback", "run", "observe", "pause",
          "verify", "publish", "done", "dead"} \subseteq Pc
      /\ {"recorded", "refused", "failed", "resume_unknown", "pause_failed",
          "restore_unconfirmed"} \subseteq Outcome
      /\ outcome[r] \in Outcome
      BY DEF Pc, Outcome, TypeOK
<1>1. CASE Inspect(r)
  <2>1. CASE Ends(r, "refused")
        BY <1>1, <2>1, <1>a, <1>b, ResultType DEF Inspect, TypeOK
  <2>2. CASE ~Ends(r, "refused")
    <3>1. PICK p \in {"run", "resume"} : Calls(r, p)
          BY <1>1, <2>2 DEF Inspect
    <3>2. pc' \in [Recorder -> Pc] /\ due' \in [Recorder -> Nat]
          BY <3>1, <1>b, CallsType
    <3>3. [controls |-> controls, attempts |-> attempts]
             \in [controls : Controls, attempts : Nat]
          BY DEF TypeOK
    <3>4. original' \in [Recorder -> [controls : Controls, attempts : Nat]
                                         \union {NoJob}]
          BY <1>1, <2>2, <3>3 DEF Inspect, TypeOK
    <3> QED
        BY <1>1, <2>2, <3>2, <3>4, <1>a DEF Inspect, TypeOK
  <2> QED
      BY <2>1, <2>2
<1>2. CASE Resume(r)
  <2>1. /\ Ends(r, "refused") \/ Continues(r, "readback") \/ Continues(r, "reread")
        /\ enabled' \in BOOLEAN /\ late' \subseteq Request
        /\ UNCHANGED <<controls, attempts, fired, probeVars, now, paused, posted>>
        BY <1>2 DEF Resume, Request, TypeOK
  <2> QED
      BY <2>1, <1>b, ResultType DEF TypeOK
<1>3. CASE Reread(r)
      BY <1>3, <1>b, ResultType DEF Reread, TypeOK
<1>4. CASE Readback(r)
  <2>1. CASE Restores(r, "failed") \/ Ends(r, "failed")
        BY <1>4, <2>1, <1>b, ResultType DEF Readback, TypeOK
  <2>2. CASE ~(Restores(r, "failed") \/ Ends(r, "failed"))
    <3>1. Calls(r, "run")
          BY <1>4, <2>2 DEF Readback
    <3>2. pc' \in [Recorder -> Pc] /\ due' \in [Recorder -> Nat]
          BY <3>1, <1>b, CallsType
    <3> QED
        BY <1>4, <2>2, <3>2, <1>a DEF Readback, TypeOK
  <2> QED
      BY <2>1, <2>2
<1>5. CASE Run(r)
  <2>1. /\ attempts' \in Nat /\ probes' \subseteq Time /\ late' \subseteq Request
        /\ UNCHANGED <<enabled, controls, fired, archive, now, paused, posted>>
        BY <1>5, <1>a DEF Run, Attempt, NoAttempt, Request, TypeOK
  <2>2. CASE Fails(r)
    <3>1. Restores(r, "failed") \/ Ends(r, "failed")
          BY <2>2 DEF Fails
    <3> QED
        BY <2>1, <3>1, <1>b, ResultType DEF TypeOK
  <2>3. CASE ~Fails(r)
    <3>1. Calls(r, "observe")
          BY <1>5, <2>3 DEF Run
    <3>2. pc' \in [Recorder -> Pc] /\ due' \in [Recorder -> Nat]
          BY <3>1, <1>b, CallsType
    <3>3. Until(r) \in Nat
          BY <1>a DEF Until, TypeOK
    <3> QED
        BY <1>5, <2>1, <2>3, <3>2, <3>3 DEF Run, TypeOK
  <2> QED
      BY <2>2, <2>3
<1>6. CASE Observe(r)
  <2>1. PICK p \in {"pause", "publish"} : Calls(r, p)
        BY <1>6 DEF Observe
  <2>2. pc' \in [Recorder -> Pc] /\ due' \in [Recorder -> Nat]
        BY <2>1, <1>b, CallsType
  <2>3. selected' \in [Recorder -> Snapshot \union {NoSnapshot}]
        BY <1>6 DEF Observe, TypeOK
  <2> QED
      BY <1>6, <2>2, <2>3 DEF Observe, TypeOK
<1>7. CASE Polls(r)
      BY <1>7, <1>b, ResultType DEF Polls, TypeOK
<1>8. CASE ObserveFails(r) \/ GivesUp(r)
  <2>1. Restores(r, "failed") \/ Ends(r, "failed")
        BY <1>8 DEF ObserveFails, GivesUp, Fails
  <2> QED
      BY <1>8, <2>1, <1>b, ResultType DEF ObserveFails, GivesUp, TypeOK
<1>9. CASE Pause(r)
  <2>1. Calls(r, "verify")
        BY <1>9 DEF Pause
  <2>2. pc' \in [Recorder -> Pc] /\ due' \in [Recorder -> Nat]
        BY <2>1, <1>b, CallsType
  <2>3. enabled' \in BOOLEAN /\ late' \subseteq Request
        BY <1>9, <1>a DEF Pause, Request, TypeOK
  <2>4. trouble' \in [Recorder -> BOOLEAN]
        BY <1>9 DEF Pause, TypeOK
  <2> QED
      BY <1>9, <2>2, <2>3, <2>4 DEF Pause, TypeOK
<1>10. CASE Verify(r)
  <2>1. \/ \E how \in Outcome : Ends(r, how)
        \/ Continues(r, "publish")
        BY <1>10, <1>b DEF Verify
  <2> QED
      BY <1>10, <2>1, <1>b, ResultType DEF Verify, TypeOK
<1>11. CASE Publish(r)
  <2>1. posted' \in [Recorder -> BOOLEAN]
        BY <1>11 DEF Publish, Fresh, TypeOK
  <2> QED
      BY <1>11, <2>1, <1>b, ResultType DEF Publish, TypeOK
<1>12. CASE Dies(r)
  <2>1. Leaves(r, "dead") /\ "dead" \in Pc
        BY <1>12, <1>b DEF Dies
  <2>2. UNCHANGED <<jobVars, probeVars, now, paused, posted, outcome>>
        BY <1>12 DEF Dies
  <2> QED
      BY <2>1, <2>2, LeavesType DEF TypeOK
<1> QED
    BY <1>1, <1>2, <1>3, <1>4, <1>5, <1>6, <1>7, <1>8, <1>9, <1>10, <1>11,
       <1>12 DEF Step

\* Every variable keeps its type, and a snapshot is finished after it was
\* started (_producer_history_object).
THEOREM TypeCorrect == Spec => []TypeOK
<1>1. Init => TypeOK
  <2> SUFFICES ASSUME Init PROVE TypeOK
      OBVIOUS
  <2>1. 0 \in Time /\ 1 \in Time
        BY TimingAssumption DEF Time
  <2>2. archive \subseteq Snapshot
    <3>1. [started |-> 0, finished |-> 0] \in Snapshot
          BY <2>1 DEF Snapshot
    <3> QED
        BY <3>1 DEF Init
  <2>3. "idle" \in Pc /\ "none" \in Outcome /\ controls \in Controls
        BY SnapshotAssumption DEF Init, Pc, Outcome
  <2> QED
      BY <2>1, <2>2, <2>3 DEF Init, TypeOK
<1>2. TypeOK /\ [Next]_vars => TypeOK'
  <2> SUFFICES ASSUME TypeOK, [Next]_vars
               PROVE  TypeOK'
      OBVIOUS
  <2> USE DEF jobVars, probeVars, workVars, recorderVars
  <2>1. CASE UNCHANGED vars
    <3>1. UNCHANGED <<jobVars, probeVars, now>> /\ UNCHANGED recorderVars
          BY <2>1 DEF vars
    <3> QED
        BY <3>1 DEF TypeOK
  <2>2. ASSUME NEW r \in Recorder, Inspect(r) \/ Step(r) \/ Dies(r)
        PROVE  TypeOK'
        BY <2>2, RecorderKeepsTypes
  <2>3. CASE LateResume \/ LatePause \/ LateRun \/ NaturalRun
    <3>1. /\ enabled' \in BOOLEAN /\ UNCHANGED <<controls, archive>>
          /\ late' \subseteq Request /\ fired' \subseteq Time
          /\ attempts' \in Nat /\ probes' \subseteq Time
      <4>1. CASE LateResume \/ LatePause
            BY <2>3, <4>1 DEF LateResume, LatePause, TypeOK
      <4>2. CASE LateRun \/ NaturalRun
            BY <2>3, <4>2 DEF LateRun, NaturalRun, Attempt, TypeOK
      <4> QED
          BY <2>3, <4>1, <4>2
    <3>2. UNCHANGED now /\ UNCHANGED recorderVars
          BY <2>3 DEF LateResume, LatePause, LateRun, NaturalRun
    <3> QED
        BY <3>1, <3>2 DEF TypeOK
  <2>4. CASE Deploy \/ Stop
        BY <2>4 DEF Deploy, Stop, TypeOK
  <2>5. ASSUME NEW trigger \in Time, Probe(trigger)
        PROVE  TypeOK'
    <3>1. archive' \subseteq Snapshot
      <4>1. ASSUME NEW start \in trigger..now
            PROVE  Observation(start) \in Snapshot
        <5>1. start \in Time /\ now \in Time /\ start <= now
              BY <4>1, TimingAssumption DEF Time, TypeOK
        <5> QED
            BY <5>1 DEF Observation, Snapshot
      <4> QED
          BY <2>5, <4>1 DEF Probe, TypeOK
    <3> QED
        BY <2>5, <3>1 DEF Probe, TypeOK
  <2>6. CASE Tick
    <3>1. now' \in Time
          BY <2>6, TimingAssumption DEF Tick, Time, TypeOK
    <3> QED
        BY <2>6, <3>1 DEF Tick, TypeOK
  <2> QED
      BY <2>1, <2>2, <2>3, <2>4, <2>5, <2>6 DEF Next
<1> QED
    BY <1>1, <1>2, PTL DEF Spec

-----------------------------------------------------------------------------
(* Time. *)

\* A recorder within its bounds: TimeInv for one recorder.
InTime(r) == Busy(r) => now <= due[r] /\ DueInTime(r) /\ InspectedClear(r)

\* The bounds hold when a recorder makes its next call: after the calls
\* before it, and no later than their own length.
LEMMA CallInTime ==
    ASSUME TypeOK, NEW r \in Recorder, NEW p \in Pc, Calls(r, p)
    PROVE  /\ pc'[r] = p /\ due'[r] = now + Call
           /\ now <= now + Call
<1>1. now \in Nat /\ Call \in Nat
      BY TimingAssumption DEF TypeOK, Time
<1> QED
    BY <1>1 DEF Calls, TypeOK

\* Inspecting the job starts the bounds: it was not near a natural time
\* (_validate_paused_probe_schedule).
LEMMA InspectInTime ==
    ASSUME TypeOK, NEW r \in Recorder, InTime(r), Inspect(r)
    PROVE  InTime(r)'
<1>1. /\ now \in Nat /\ Natural \subseteq Nat
      /\ Wait \in Nat /\ Call \in Nat /\ Guard \in Nat /\ 2 * Call <= Wait
      /\ Call > 0
      BY TimingAssumption DEF TypeOK, Time
<1>2. CASE Ends(r, "refused")
      BY <1>2 DEF InTime, Busy, Ends, Leaves, TypeOK
<1>3. CASE ~Ends(r, "refused")
  <2>1. /\ pc'[r] \in {"run", "resume"} /\ due'[r] = now + Call
        /\ deadline'[r] = now + Wait /\ now' = now
        BY <1>3, <1>1 DEF Inspect, Calls, TypeOK
  <2>2. DueInTime(r)'
        BY <2>1, <1>1 DEF DueInTime
  <2>3. InspectedClear(r)'
    <3>1. CASE paused'[r]
      <4>1. ~NaturalWindow
            BY <1>3, <3>1 DEF Inspect, TypeOK
      <4>2. ASSUME NEW n \in Natural
            PROVE  n >= now + Guard \/ n + Guard <= now
        <5>1. ~(Distance(now, n) < Guard)
              BY <4>1 DEF NaturalWindow
        <5> QED
            BY <5>1, <1>1 DEF Distance
      <4> QED
          BY <4>2, <2>1, <1>1 DEF InspectedClear
    <3> QED
        BY <3>1 DEF InspectedClear
  <2> QED
      BY <2>1, <2>2, <2>3, <1>1 DEF InTime
<1> QED
    BY <1>2, <1>3

\* Every other step of a recorder keeps its bounds, and that it was clear of
\* the schedule when it inspected the job.
LEMMA StepInTime ==
    ASSUME TypeOK, NEW r \in Recorder, InTime(r), Step(r)
    PROVE  InTime(r)'
<1>1. /\ now \in Nat /\ due[r] \in Nat /\ deadline[r] \in Nat
      /\ Wait \in Nat /\ Call \in Nat /\ Call > 0 /\ 2 * Call <= Wait
      /\ Natural \subseteq Nat /\ Guard \in Nat
      BY TimingAssumption DEF TypeOK, Time
<1>2. Busy(r) /\ now <= due[r] /\ DueInTime(r) /\ InspectedClear(r)
      BY DEF InTime, Busy, Step, Resume, Reread, Readback, Run, Observe, Polls,
             ObserveFails, GivesUp, Pause, Verify, Publish
<1>3. CASE pc'[r] = "done"
      BY <1>3 DEF InTime, Busy
<1>4. ASSUME NEW p \in Pc, Calls(r, p), deadline' = deadline, now' = now,
             paused' = paused
      PROVE  /\ pc'[r] = p /\ due'[r] = now + Call /\ now' = now
             /\ deadline'[r] = deadline[r]
             /\ InspectedClear(r)' /\ now' <= due'[r]
      BY <1>1, <1>2, <1>4, CallInTime DEF InspectedClear
<1>5. ASSUME NEW how, Ends(r, how)
      PROVE  pc'[r] = "done"
      BY <1>5 DEF Ends, Leaves, TypeOK
<1>6. /\ {"resume", "reread", "readback", "run", "observe", "pause",
          "verify", "publish", "done", "dead"} \subseteq Pc
      BY DEF Pc
<1>7. ASSUME NEW how, Restores(r, how), now' = now, paused' = paused,
             now < deadline[r] + Call
      PROVE  InTime(r)'
  <2>1. Calls(r, "pause") /\ deadline' = deadline
        BY <1>7 DEF Restores, workVars
  <2> QED
      BY <2>1, <1>7, <1>1, <1>4, <1>6 DEF InTime, DueInTime
<1>8. ASSUME Fails(r), now' = now, paused' = paused, now < deadline[r] + Call
      PROVE  InTime(r)'
      BY <1>8, <1>3, <1>5, <1>7 DEF Fails
<1>9. CASE Resume(r)
  <2>1. CASE Ends(r, "refused")
        BY <2>1, <1>3, <1>5
  <2>2. ASSUME NEW p \in {"readback", "reread"}, Continues(r, p)
        PROVE  InTime(r)'
    <3>1. /\ Calls(r, p) /\ deadline' = deadline /\ now' = now
          /\ paused' = paused
          BY <1>9, <2>2 DEF Resume, Continues, workVars
    <3> QED
        BY <1>9, <3>1, <1>1, <1>2, <1>4, <1>6 DEF Resume, InTime, DueInTime
  <2> QED
      BY <1>9, <2>1, <2>2 DEF Resume
<1>10. CASE Reread(r)
  <2>1. now < deadline[r] + Call /\ now' = now /\ paused' = paused
        BY <1>10, <1>1, <1>2 DEF Reread, DueInTime
  <2> QED
      BY <1>10, <2>1, <1>3, <1>5, <1>7 DEF Reread
<1>11. CASE Readback(r)
  <2>1. now < deadline[r] + Call /\ now' = now /\ paused' = paused
        BY <1>11, <1>1, <1>2 DEF Readback, DueInTime
  <2>2. CASE Restores(r, "failed") \/ Ends(r, "failed")
        BY <2>1, <2>2, <1>3, <1>5, <1>7
  <2>3. CASE ~(Restores(r, "failed") \/ Ends(r, "failed"))
    <3>1. Calls(r, "run") /\ deadline' = deadline /\ now < deadline[r]
          BY <1>11, <2>3 DEF Readback
    <3> QED
        BY <2>1, <3>1, <1>1, <1>4, <1>6 DEF InTime, DueInTime
  <2> QED
      BY <2>2, <2>3
<1>12. CASE Run(r)
  <2>1. now < deadline[r] + Call /\ now' = now /\ paused' = paused
        BY <1>12, <1>1, <1>2 DEF Run, DueInTime
  <2>2. CASE Fails(r)
        BY <2>1, <2>2, <1>8
  <2>3. CASE ~Fails(r)
    <3>1. /\ Calls(r, "observe") /\ now < Until(r)
          /\ deadline' = [deadline EXCEPT ![r] = Until(r)]
          BY <1>12, <2>3 DEF Run
    <3>2. deadline'[r] = Until(r) /\ Until(r) \in Nat
          BY <3>1, <1>1 DEF Until, TypeOK
    <3>3. pc'[r] = "observe" /\ due'[r] = now + Call
          BY <3>1, <1>6, CallInTime
    <3>4. InspectedClear(r)'
          BY <2>1, <3>2, <1>2 DEF InspectedClear, Until
    <3> QED
        BY <2>1, <3>1, <3>2, <3>3, <3>4, <1>1 DEF InTime, DueInTime
  <2> QED
      BY <2>2, <2>3
<1>13. CASE Observe(r)
  <2>1. /\ now < deadline[r] + Call /\ now' = now /\ paused' = paused
        /\ deadline' = deadline
        BY <1>13, <1>1, <1>2 DEF Observe, DueInTime
  <2>2. ASSUME NEW p \in {"pause", "publish"}, Calls(r, p)
        PROVE  InTime(r)'
        BY <2>1, <2>2, <1>1, <1>4, <1>6 DEF InTime, DueInTime
  <2> QED
      BY <1>13, <2>2 DEF Observe
<1>14. CASE Polls(r)
  <2>1. /\ Calls(r, "observe") /\ deadline' = deadline /\ now' = now
        /\ paused' = paused /\ now < deadline[r]
        BY <1>14, <1>1 DEF Polls, Continues, Expired, workVars
  <2> QED
      BY <2>1, <1>1, <1>4, <1>6 DEF InTime, DueInTime
<1>15. CASE ObserveFails(r) \/ GivesUp(r)
  <2>1. /\ now < deadline[r] + Call /\ now' = now /\ paused' = paused
        /\ Fails(r)
        BY <1>15, <1>1, <1>2 DEF ObserveFails, GivesUp, DueInTime
  <2> QED
      BY <2>1, <1>8
<1>16. CASE Pause(r)
  <2>1. /\ Calls(r, "verify") /\ deadline' = deadline /\ now' = now
        /\ paused' = paused /\ now < deadline[r] + 2 * Call
        BY <1>16, <1>1, <1>2 DEF Pause, DueInTime
  <2> QED
      BY <2>1, <1>1, <1>4, <1>6 DEF InTime, DueInTime
<1>17. CASE Verify(r)
  <2>1. /\ now' = now /\ paused' = paused /\ now < deadline[r] + 3 * Call
        BY <1>17, <1>1, <1>2 DEF Verify, DueInTime
  <2>2. CASE Continues(r, "publish")
    <3>1. Calls(r, "publish") /\ deadline' = deadline
          BY <2>2 DEF Continues, workVars
    <3> QED
        BY <2>1, <3>1, <1>1, <1>4, <1>6 DEF InTime, DueInTime
  <2>3. CASE ~Continues(r, "publish")
        BY <1>17, <2>3, <1>3, <1>5 DEF Verify
  <2> QED
      BY <2>2, <2>3
<1>18. CASE Publish(r)
       BY <1>18, <1>3, <1>5 DEF Publish
<1> QED
    BY <1>9, <1>10, <1>11, <1>12, <1>13, <1>14, <1>15, <1>16, <1>17, <1>18
    DEF Step

\* What one recorder does leaves the others as they were.
LEMMA OthersAlone ==
    ASSUME TypeOK, NEW r \in Recorder, NEW s \in Recorder \ {r},
           Inspect(r) \/ Step(r) \/ Dies(r)
    PROVE  /\ pc'[s] = pc[s] /\ due'[s] = due[s] /\ deadline'[s] = deadline[s]
           /\ paused'[s] = paused[s] /\ outcome'[s] = outcome[s]
           /\ selected'[s] = selected[s] /\ triggered'[s] = triggered[s]
           /\ now' = now
<1> USE DEF TypeOK, Calls, Leaves, Ends, Continues, Restores, workVars
<1>1. CASE Inspect(r)
      BY <1>1 DEF Inspect
<1>2. CASE Resume(r) \/ Reread(r) \/ Readback(r)
      BY <1>2 DEF Resume, Reread, Readback
<1>3. CASE Run(r)
      BY <1>3 DEF Run, Fails
<1>4. CASE Observe(r) \/ Polls(r) \/ ObserveFails(r) \/ GivesUp(r)
      BY <1>4 DEF Observe, Polls, ObserveFails, GivesUp, Fails
<1>5. CASE Pause(r) \/ Verify(r) \/ Publish(r)
      BY <1>5 DEF Pause, Verify, Publish
<1>6. CASE Dies(r)
      BY <1>6 DEF Dies
<1> QED
    BY <1>1, <1>2, <1>3, <1>4, <1>5, <1>6 DEF Step

\* Every step keeps every recorder within its bounds; the clock waits for the
\* call that is due.
LEMMA TimeInvStep == TypeOK /\ TimeInv /\ [Next]_vars => TimeInv'
<1> SUFFICES ASSUME TypeOK, TimeInv, [Next]_vars, NEW s \in Recorder
             PROVE  InTime(s)'
    BY DEF TimeInv, InTime
<1>1. InTime(s)
      BY DEF TimeInv, InTime
<1>2. CASE UNCHANGED <<recorderVars, now>>
      BY <1>1, <1>2 DEF recorderVars, workVars, InTime, Busy, DueInTime,
                        InspectedClear
<1>3. ASSUME NEW r \in Recorder, Inspect(r) \/ Step(r) \/ Dies(r)
      PROVE  InTime(s)'
  <2>1. CASE s # r
        BY <1>1, <1>3, <2>1, OthersAlone
        DEF InTime, Busy, DueInTime, InspectedClear
  <2>2. CASE s = r /\ (Inspect(r) \/ Step(r))
        BY <1>1, <2>2, InspectInTime, StepInTime
  <2>3. CASE s = r /\ Dies(r)
        BY <2>3 DEF Dies, Leaves, InTime, Busy, TypeOK
  <2> QED
      BY <1>3, <2>1, <2>2, <2>3
<1>4. CASE Tick
  <2>1. /\ now \in Nat /\ due[s] \in Nat /\ deadline[s] \in Nat
        /\ now' = now + 1 /\ Wait \in Nat
        BY <1>4, TimingAssumption DEF Tick, TypeOK, Time
  <2>2. UNCHANGED recorderVars /\ (Busy(s) => now < due[s])
        BY <1>4 DEF Tick
  <2> QED
      BY <1>1, <2>1, <2>2 DEF recorderVars, workVars, InTime, Busy, DueInTime,
                              InspectedClear
<1>5. CASE UNCHANGED vars
      BY <1>2, <1>5 DEF vars
<1>6. CASE LateResume \/ LatePause \/ LateRun \/ NaturalRun \/ Deploy \/ Stop
      BY <1>2, <1>6 DEF LateResume, LatePause, LateRun, NaturalRun, Deploy, Stop
<1>7. ASSUME NEW trigger \in Time, Probe(trigger)
      PROVE  InTime(s)'
      BY <1>2, <1>7 DEF Probe
<1> QED
    BY <1>3, <1>4, <1>5, <1>6, <1>7 DEF Next

\* The bounds hold in every state.
LEMMA TimeInvHolds == Spec => []TimeInv
<1>1. Init => TimeInv
      BY DEF Init, TimeInv, Busy
<1> QED
    BY <1>1, TimeInvStep, TypeCorrect, PTL DEF Spec

\* While a recorder holds the resumed job no natural time of its schedule
\* passes: the distance _validate_paused_probe_schedule requires covers the
\* waiting and the three calls that may follow its end.
THEOREM ClearOfScheduleHolds == Spec => []ClearOfSchedule
<1>1. TypeOK /\ TimeInv => ClearOfSchedule
  <2> SUFFICES ASSUME TypeOK, TimeInv, NEW r \in Recorder, Holds(r)
               PROVE  now \notin Natural
      BY DEF ClearOfSchedule
  <2>1. /\ now \in Nat /\ due[r] \in Nat /\ deadline[r] \in Nat
        /\ Wait \in Nat /\ Call \in Nat /\ Call > 0 /\ Guard \in Nat
        /\ Wait + 3 * Call <= Guard /\ Natural \subseteq Nat
        BY TimingAssumption DEF TypeOK, Time
  <2>2. now <= due[r] /\ DueInTime(r) /\ InspectedClear(r) /\ paused[r]
        BY DEF TimeInv, Busy, Holds
  <2>3. now < deadline[r] + 3 * Call
        BY <2>1, <2>2 DEF DueInTime, Holds
  <2>4. deadline[r] <= now + Wait
        BY <2>2 DEF InspectedClear
  <2>5. ASSUME NEW n \in Natural
        PROVE  n # now
    <3>1. n + Wait >= deadline[r] + Guard \/ n + Guard + Wait <= deadline[r]
          BY <2>2 DEF InspectedClear
    <3> QED
        BY <2>1, <2>3, <2>4, <3>1
  <2> QED
      BY <2>5
<1> QED
    BY <1>1, TimeInvHolds, TypeCorrect, PTL

\* A recorder is over soon after its deadline: no polling outlives
\* WAIT_SECONDS, and only the calls that pause, verify and publish follow it.
THEOREM EndsInTimeHolds == Spec => []EndsInTime
<1>1. TypeOK /\ TimeInv => EndsInTime
  <2> SUFFICES ASSUME TypeOK, TimeInv, NEW r \in Recorder, Busy(r)
               PROVE  now < deadline[r] + 4 * Call
      BY DEF EndsInTime
  <2>1. /\ now \in Nat /\ due[r] \in Nat /\ deadline[r] \in Nat
        /\ Call \in Nat /\ Call > 0
        BY TimingAssumption DEF TypeOK, Time
  <2>2. now <= due[r] /\ DueInTime(r)
        BY DEF TimeInv
  <2>3. pc[r] \in Pc \ {"idle", "done", "dead"}
        BY DEF Busy, TypeOK
  <2> QED
      BY <2>1, <2>2, <2>3 DEF DueInTime, Pc
<1> QED
    BY <1>1, TimeInvHolds, TypeCorrect, PTL

-----------------------------------------------------------------------------
(* A job left ENABLED. *)

\* What accounts for an ENABLED job.
Accounts(r) == Holds(r) \/ Alarms(r) \/ Died(r)

\* PathInv for one recorder.
OnPath(r) ==
    pc[r] \in {"resume", "reread", "readback", "pause", "verify"} => paused[r]

\* A recorder that leaves the job ENABLED, or a resume unanswered, accounts
\* for it after its step, unless it did not before: then somebody else does.
LEMMA StepAccounts ==
    ASSUME TypeOK, NEW r \in Recorder, OnPath(r),
           Inspect(r) \/ Step(r) \/ Dies(r)
    PROVE  /\ enabled' => Accounts(r)' \/ (enabled /\ ~Accounts(r))
           /\ "resume" \in late' =>
                 \/ AnswersForLate(r)'
                 \/ "resume" \in late /\ ~AnswersForLate(r)
           /\ OnPath(r)'
<1> USE DEF OnPath, Accounts, Holds, Alarms, Died, AnswersForLate
<1>1. ASSUME NEW p \in Pc, Calls(r, p)
      PROVE  pc'[r] = p
      BY <1>1 DEF Calls, TypeOK
<1>2. ASSUME NEW how \in Outcome, Ends(r, how)
      PROVE  pc'[r] = "done" /\ outcome'[r] = how
      BY <1>2 DEF Ends, Leaves, TypeOK
<1>3. ASSUME NEW p \in Pc, Continues(r, p)
      PROVE  pc'[r] = p /\ outcome' = outcome
      BY <1>3, <1>1 DEF Continues
<1>4. ASSUME NEW how \in Outcome, Restores(r, how)
      PROVE  pc'[r] = "pause" /\ outcome'[r] = how
      BY <1>4, <1>1 DEF Restores, Pc, TypeOK
<1>5. /\ {"reread", "readback", "run", "observe", "pause", "verify", "publish",
          "resume"} \subseteq Pc
      /\ {"refused", "failed", "recorded", "resume_unknown", "pause_failed",
          "restore_unconfirmed"} \subseteq Outcome
      /\ outcome[r] \in Outcome
      BY DEF Pc, Outcome, TypeOK
<1>6. ASSUME Fails(r)
      PROVE  \/ paused[r] /\ pc'[r] = "pause"
             \/ ~paused[r] /\ pc'[r] = "done"
      BY <1>2, <1>4, <1>5, <1>6 DEF Fails
<1>7. CASE Inspect(r)
  <2>1. pc'[r] \in {"done", "run", "resume"} /\ UNCHANGED <<enabled, late>>
        BY <1>7, <1>1, <1>2, <1>5 DEF Inspect, jobVars
  <2>2. pc[r] = "idle" /\ (pc'[r] = "resume" => paused'[r])
    <3>1. CASE enabled
          BY <1>7, <3>1, <1>1, <1>2, <1>5 DEF Inspect
    <3>2. CASE ~enabled
          BY <1>7, <3>2 DEF Inspect, TypeOK
    <3> QED
        BY <3>1, <3>2
  <2> QED
      BY <2>1, <2>2
<1>8. CASE Resume(r)
  <2>1. paused[r] /\ paused' = paused /\ pc[r] = "resume"
        BY <1>8 DEF Resume
  <2>2. CASE Ends(r, "refused")
    <3>1. pc'[r] = "done"
          BY <2>2, <1>2, <1>5
    <3>2. ~Continues(r, "readback") /\ ~Continues(r, "reread")
          BY <3>1, <1>3, <1>5
    <3> QED
        BY <1>8, <2>1, <3>1, <3>2 DEF Resume
  <2>3. CASE Continues(r, "readback")
    <3>1. pc'[r] = "readback"
          BY <2>3, <1>3, <1>5
    <3>2. ~Continues(r, "reread")
          BY <3>1, <1>3, <1>5
    <3> QED
        BY <1>8, <2>1, <3>1, <3>2 DEF Resume
  <2>4. CASE Continues(r, "reread")
        BY <2>1, <2>4, <1>3, <1>5
  <2> QED
      BY <1>8, <2>2, <2>3, <2>4 DEF Resume
<1>9. CASE Reread(r)
  <2>1. /\ paused[r] /\ paused' = paused /\ pc[r] = "reread"
        /\ Ends(r, "resume_unknown") \/ Restores(r, "resume_unknown")
        BY <1>9 DEF Reread
  <2> QED
      BY <2>1, <1>2, <1>4, <1>5
<1>10. CASE Readback(r)
  <2>1. /\ paused[r] /\ paused' = paused /\ pc[r] = "readback"
        /\ UNCHANGED <<enabled, late>>
        BY <1>10 DEF Readback, jobVars
  <2>2. pc'[r] \in {"pause", "run"} \/ (~enabled /\ pc'[r] = "done")
    <3>1. \/ Restores(r, "failed") \/ Calls(r, "run")
          \/ ~enabled /\ Ends(r, "failed")
          BY <1>10 DEF Readback, MustRestore
    <3> QED
        BY <3>1, <1>1, <1>2, <1>4, <1>5
  <2> QED
      BY <2>1, <2>2
<1>11. CASE Run(r)
  <2>1. /\ paused' = paused /\ pc[r] = "run" /\ enabled' = enabled
        /\ "resume" \in late' => "resume" \in late
        BY <1>11 DEF Run
  <2>2. \/ pc'[r] = "observe"
        \/ paused[r] /\ pc'[r] = "pause"
        \/ ~paused[r] /\ pc'[r] = "done"
        BY <1>11, <1>1, <1>5, <1>6 DEF Run
  <2> QED
      BY <2>1, <2>2
<1>12. CASE Observe(r) \/ Polls(r) \/ ObserveFails(r) \/ GivesUp(r)
  <2>1. /\ paused' = paused /\ pc[r] = "observe" /\ UNCHANGED <<enabled, late>>
        BY <1>12 DEF Observe, Polls, ObserveFails, GivesUp, jobVars
  <2>2. \/ pc'[r] = "observe"
        \/ paused[r] /\ pc'[r] = "pause"
        \/ ~paused[r] /\ pc'[r] \in {"done", "publish"}
    <3>1. CASE Observe(r)
          BY <3>1, <1>1, <1>5 DEF Observe
    <3>2. CASE Polls(r)
          BY <3>2, <1>3, <1>5 DEF Polls
    <3>3. CASE ObserveFails(r) \/ GivesUp(r)
          BY <3>3, <1>6 DEF ObserveFails, GivesUp
    <3> QED
        BY <1>12, <3>1, <3>2, <3>3
  <2> QED
      BY <2>1, <2>2
<1>13. CASE Pause(r)
  <2>1. /\ paused[r] /\ paused' = paused /\ pc[r] = "pause"
        /\ outcome' = outcome /\ pc'[r] = "verify"
        /\ "resume" \in late' => "resume" \in late
        BY <1>13, <1>1, <1>5 DEF Pause
  <2> QED
      BY <2>1
<1>14. CASE Verify(r)
  <2>1. /\ paused[r] /\ paused' = paused /\ pc[r] = "verify"
        /\ UNCHANGED <<enabled, late>>
        BY <1>14 DEF Verify, jobVars
  <2>2. \/ pc'[r] = "done" /\ outcome'[r] \in {"pause_failed", "restore_unconfirmed"}
        \/ ~enabled /\ pc'[r] = "done" /\ outcome'[r] = outcome[r]
        \/ ~enabled /\ pc'[r] = "publish" /\ outcome[r] = "none"
        BY <1>14, <1>2, <1>3, <1>5 DEF Verify, Restored
  <2> QED
      BY <2>1, <2>2
<1>15. CASE Publish(r)
  <2>1. /\ paused' = paused /\ pc[r] = "publish" /\ UNCHANGED <<enabled, late>>
        /\ pc'[r] = "done"
        BY <1>15, <1>2, <1>5 DEF Publish, jobVars
  <2> QED
      BY <2>1
<1>16. CASE Dies(r)
  <2>1. /\ paused' = paused /\ pc'[r] = "dead" /\ UNCHANGED <<enabled, late>>
        /\ Busy(r)
        BY <1>16 DEF Dies, Leaves, jobVars, TypeOK
  <2> QED
      BY <2>1 DEF Busy
<1> QED
    BY <1>7, <1>8, <1>9, <1>10, <1>11, <1>12, <1>13, <1>14, <1>15, <1>16
    DEF Step

\* Every step keeps the account: what a recorder did not answer for before,
\* somebody else still answers for.
LEMMA AccountInvStep == TypeOK /\ AccountInv /\ [Next]_vars => AccountInv'
<1> SUFFICES ASSUME TypeOK, AccountInv, [Next]_vars
             PROVE  AccountInv'
    OBVIOUS
<1>1. /\ \A r \in Recorder : OnPath(r)
      /\ enabled => \E r \in Recorder : Accounts(r)
      /\ "resume" \in late => \E r \in Recorder : AnswersForLate(r)
      BY DEF AccountInv, PathInv, LateIsAccounted, EnabledIsAccounted,
             OnPath, Accounts
<1>2. SUFFICES /\ \A r \in Recorder : OnPath(r)'
               /\ enabled' => \E r \in Recorder : Accounts(r)'
               /\ "resume" \in late' => \E r \in Recorder : AnswersForLate(r)'
      BY DEF AccountInv, PathInv, LateIsAccounted, EnabledIsAccounted,
             OnPath, Accounts
<1>3. ASSUME NEW r \in Recorder, Inspect(r) \/ Step(r) \/ Dies(r)
      PROVE  /\ \A s \in Recorder : OnPath(s)'
             /\ enabled' => \E s \in Recorder : Accounts(s)'
             /\ "resume" \in late' => \E s \in Recorder : AnswersForLate(s)'
  <2>1. ASSUME NEW s \in Recorder, s # r
        PROVE  /\ OnPath(s)' <=> OnPath(s)
               /\ Accounts(s)' <=> Accounts(s)
               /\ AnswersForLate(s)' <=> AnswersForLate(s)
        BY <1>3, <2>1, OthersAlone
        DEF OnPath, Accounts, Holds, Alarms, Died, AnswersForLate
  <2>2. /\ enabled' => Accounts(r)' \/ (enabled /\ ~Accounts(r))
        /\ "resume" \in late' =>
              \/ AnswersForLate(r)'
              \/ "resume" \in late /\ ~AnswersForLate(r)
        /\ OnPath(r)'
        BY <1>1, <1>3, StepAccounts
  <2> QED
      BY <1>1, <2>1, <2>2
<1>4. ASSUME UNCHANGED <<pc, paused, outcome>>, NEW s \in Recorder
      PROVE  /\ OnPath(s)' <=> OnPath(s)
             /\ Accounts(s)' <=> Accounts(s)
             /\ AnswersForLate(s)' <=> AnswersForLate(s)
      BY <1>4 DEF OnPath, Accounts, Holds, Alarms, Died, AnswersForLate
<1>5. CASE LateResume
  <2>1. UNCHANGED <<pc, paused, outcome>> /\ "resume" \in late /\ "resume" \notin late'
        BY <1>5 DEF LateResume, recorderVars
  <2>2. \E s \in Recorder : Accounts(s)
        BY <1>1, <2>1 DEF AnswersForLate, Accounts, Holds
  <2> QED
      BY <1>1, <1>4, <2>1, <2>2
<1>6. ASSUME UNCHANGED <<pc, paused, outcome>>, enabled' => enabled,
             "resume" \in late' => "resume" \in late
      PROVE  /\ \A s \in Recorder : OnPath(s)'
             /\ enabled' => \E s \in Recorder : Accounts(s)'
             /\ "resume" \in late' => \E s \in Recorder : AnswersForLate(s)'
      BY <1>1, <1>4, <1>6
<1>7. CASE LatePause \/ LateRun \/ NaturalRun \/ Deploy \/ Stop \/ Tick
      BY <1>6, <1>7 DEF LatePause, LateRun, NaturalRun, Deploy, Stop, Tick,
                        recorderVars, jobVars
<1>8. ASSUME NEW trigger \in Time, Probe(trigger)
      PROVE  UNCHANGED <<pc, paused, outcome, enabled, late>>
      BY <1>8 DEF Probe, recorderVars, jobVars
<1>9. CASE UNCHANGED vars
      BY <1>6, <1>9 DEF vars, recorderVars, jobVars
<1> QED
    BY <1>3, <1>5, <1>6, <1>7, <1>8, <1>9 DEF Next

\* The job of a stopped target is ENABLED only while a recorder is about to
\* pause it, or one has died on the way, or one has said that it could not
\* make sure (_run_paused_probe, _pause_and_verify).
THEOREM EnabledIsAccountedHolds == Spec => []EnabledIsAccounted
<1>1. Init => AccountInv
      BY DEF Init, AccountInv, PathInv, LateIsAccounted, EnabledIsAccounted
<1>2. AccountInv => EnabledIsAccounted
      BY DEF AccountInv
<1> QED
    BY <1>1, <1>2, AccountInvStep, TypeCorrect, PTL DEF Spec

-----------------------------------------------------------------------------
(* What is published. *)

\* A recorder on its way to publish has selected a snapshot of its own probe.
Chosen(r) ==
    \/ pc[r] = "publish"
    \/ pc[r] \in {"pause", "verify"} /\ outcome[r] = "none"

SelectedInv ==
    \A r \in Recorder : Chosen(r) =>
        selected[r] \in Snapshot /\ triggered[r] <= selected[r].started

\* Only Observe makes the choice, among the valid ones; pausing and verifying
\* carry it on, and a failure on the way drops it.
LEMMA StepSelects ==
    ASSUME TypeOK, SelectedInv, NEW r \in Recorder,
           Inspect(r) \/ Step(r) \/ Dies(r), Chosen(r)'
    PROVE  selected'[r] \in Snapshot /\ triggered'[r] <= selected'[r].started
<1> USE DEF Chosen
<1>1. ASSUME NEW how \in Outcome \ {"none"}, Ends(r, how) \/ Restores(r, how)
      PROVE  ~Chosen(r)'
      BY <1>1 DEF Ends, Leaves, Restores, Calls, TypeOK
<1>2. {"refused", "failed", "resume_unknown", "pause_failed",
       "restore_unconfirmed", "recorded"} \subseteq Outcome \ {"none"}
      BY DEF Outcome
<1>3. ASSUME Fails(r)
      PROVE  ~Chosen(r)'
      BY <1>1, <1>2, <1>3 DEF Fails
<1>4. ASSUME NEW p \in {"readback", "reread", "run", "resume", "observe"}, Calls(r, p)
      PROVE  ~Chosen(r)'
      BY <1>4 DEF Calls, TypeOK
<1>5. CASE Inspect(r)
  <2>1. ~Ends(r, "refused")
        BY <1>1, <1>2
  <2> QED
      BY <1>4, <1>5, <2>1 DEF Inspect
<1>6. CASE Resume(r) \/ Reread(r) \/ Readback(r)
  <2>1. \/ Ends(r, "refused") \/ Ends(r, "resume_unknown") \/ Ends(r, "failed")
        \/ Restores(r, "resume_unknown") \/ Restores(r, "failed")
        \/ \E p \in {"readback", "reread", "run"} : Calls(r, p)
        BY <1>6 DEF Resume, Reread, Readback, Continues
  <2> QED
      BY <2>1, <1>1, <1>2, <1>4
<1>7. CASE Run(r)
      BY <1>3, <1>4, <1>7 DEF Run
<1>8. CASE Observe(r)
  <2>1. PICK o \in archive : Valid(r, o) /\ selected' = [selected EXCEPT ![r] = o]
        BY <1>8 DEF Observe
  <2>2. selected'[r] = o /\ o \in Snapshot /\ triggered' = triggered
        BY <1>8, <2>1 DEF Observe, TypeOK
  <2> QED
      BY <2>1, <2>2 DEF Valid
<1>9. CASE Polls(r) \/ ObserveFails(r) \/ GivesUp(r)
      BY <1>3, <1>4, <1>9 DEF Polls, ObserveFails, GivesUp, Continues
<1>10. CASE Pause(r)
      BY <1>10 DEF Pause, Calls, SelectedInv, TypeOK
<1>11. CASE Verify(r)
  <2>1. ASSUME Ends(r, "pause_failed") \/ Ends(r, "restore_unconfirmed")
        PROVE  FALSE
        BY <1>1, <1>2, <2>1
  <2>2. ASSUME outcome[r] # "none", Ends(r, outcome[r])
        PROVE  FALSE
        BY <1>1, <2>2 DEF TypeOK
  <2>3. outcome[r] = "none" /\ Continues(r, "publish") /\ pc[r] = "verify"
        BY <1>11, <2>1, <2>2 DEF Verify
  <2> QED
      BY <2>3 DEF Continues, workVars, SelectedInv
<1>12. CASE Publish(r)
      BY <1>1, <1>2, <1>12 DEF Publish
<1>13. CASE Dies(r)
      BY <1>13 DEF Dies, Leaves, TypeOK
<1> QED
    BY <1>5, <1>6, <1>7, <1>8, <1>9, <1>10, <1>11, <1>12, <1>13 DEF Step

\* Every step keeps SelectedInv, and publishes only what is still fresh.
LEMMA SelectedInvStep ==
    TypeOK /\ SelectedInv /\ [Next]_vars =>
        /\ SelectedInv'
        /\ \A r \in Recorder : posted'[r] /\ ~posted[r] =>
              /\ triggered[r] <= selected[r].started
              /\ now <= selected[r].started + Window
<1> SUFFICES ASSUME TypeOK, SelectedInv, [Next]_vars, NEW s \in Recorder
             PROVE  /\ Chosen(s)' => /\ selected'[s] \in Snapshot
                                     /\ triggered'[s] <= selected'[s].started
                    /\ posted'[s] /\ ~posted[s] =>
                          /\ triggered[s] <= selected[s].started
                          /\ now <= selected[s].started + Window
    BY DEF SelectedInv
<1>1. CASE UNCHANGED recorderVars
      BY <1>1 DEF recorderVars, workVars, SelectedInv, Chosen
<1>2. ASSUME NEW r \in Recorder, Inspect(r) \/ Step(r) \/ Dies(r)
      PROVE  /\ Chosen(s)' => /\ selected'[s] \in Snapshot
                              /\ triggered'[s] <= selected'[s].started
             /\ posted'[s] /\ ~posted[s] =>
                   /\ triggered[s] <= selected[s].started
                   /\ now <= selected[s].started + Window
  <2>1. Chosen(s)' => /\ selected'[s] \in Snapshot
                      /\ triggered'[s] <= selected'[s].started
    <3>1. CASE s = r
          BY <1>2, <3>1, StepSelects
    <3>2. CASE s # r
          BY <1>2, <3>2, OthersAlone DEF SelectedInv, Chosen
    <3> QED
        BY <3>1, <3>2
  <2>2. CASE Publish(r)
        BY <2>1, <2>2 DEF Publish, Fresh, SelectedInv, Chosen, TypeOK
  <2>3. CASE ~Publish(r)
    <3>1. posted' = posted
          BY <1>2, <2>3
          DEF Inspect, Step, Resume, Reread, Readback, Run, Observe, Polls,
              ObserveFails, GivesUp, Pause, Verify, Dies
    <3> QED
        BY <2>1, <3>1
  <2> QED
      BY <2>2, <2>3
<1>3. CASE UNCHANGED vars
      BY <1>1, <1>3 DEF vars
<1>4. CASE LateResume \/ LatePause \/ LateRun \/ NaturalRun \/ Deploy \/ Stop \/ Tick
      BY <1>1, <1>4
      DEF LateResume, LatePause, LateRun, NaturalRun, Deploy, Stop, Tick
<1>5. ASSUME NEW trigger \in Time, Probe(trigger)
      PROVE  UNCHANGED recorderVars
      BY <1>5 DEF Probe
<1> QED
    BY <1>1, <1>2, <1>3, <1>4, <1>5 DEF Next

\* What is published began after the recorder's trigger, and is fresh at that
\* moment, though pausing came between (record_daily_account_snapshot).
THEOREM PublishedIsNewHolds == Spec => PublishedIsNew
<1>1. Init => SelectedInv
      BY DEF Init, SelectedInv, Chosen
<1>2. TypeOK /\ SelectedInv /\ [Next]_vars =>
         [\A r \in Recorder : posted'[r] /\ ~posted[r] =>
             /\ triggered[r] <= selected[r].started
             /\ now <= selected[r].started + Window]_vars
      BY SelectedInvStep
<1> QED
    BY <1>1, <1>2, SelectedInvStep, TypeCorrect, PTL DEF Spec, PublishedIsNew
=============================================================================
