------------------------- MODULE LiveCommandsProofs -------------------------
(* Theorems about LiveCommands, for any number of workers, profiles,       *)
(* sessions, targets, releases and orders.                                 *)
EXTENDS LiveCommands, TLAPS

\* A minted decision is a command of the worker's profile.
LEMMA MintedType ==
    ASSUME TypeOK, NEW w \in Worker, NEW t \in Target
    PROVE  Minted(w, t) \in Command
<1> DEFINE m == Minted(w, t)
<1>1. /\ m.profile \in Profile /\ m.target \in Target /\ m.release \in Release
      /\ m = [profile |-> m.profile, signal |-> m.signal, effective |-> m.effective,
              target |-> m.target, release |-> m.release]
  BY LiveAssumption DEF Minted, TypeOK
<1>2. m.signal \in Session /\ m.effective \in Session /\ m.effective = m.signal + 1
  BY LiveAssumption DEF Minted, TypeOK, Session
<1> HIDE DEF m
<1>3. m \in [profile: Profile, signal: Session, effective: Session,
            target: Target, release: Release]
  BY <1>1, <1>2
<1>4. m \in Command
  BY <1>2, <1>3 DEF Command
<1> QED BY <1>4 DEF m

\* What a direct cycle routes has the shape of a command.
LEMMA DirectType ==
    ASSUME TypeOK, NEW w \in Worker, NEW t \in Target
    PROVE  DirectDecision(w, t) \in Command
BY LiveAssumption DEF DirectDecision, TypeOK, Command, Session

\* A command has a marker key.
LEMMA KeyOfType == ASSUME NEW c \in Command PROVE KeyOf(c) \in Key
BY DEF KeyOf, Key, Command

\* Selecting keeps the types of what it writes.
LEMMA SelectType ==
    ASSUME TypeOK, NEW w \in Worker, NEW C \in SUBSET Command, NEW st, Select(w, C, st)
    PROVE  /\ view' \in [Worker -> SUBSET Command]
           /\ pc' \in [Worker -> Pc]
           /\ cmd' \in [Worker -> Command \union {NoCommand}]
           /\ \/ pc' = [pc EXCEPT ![w] = "report"] /\ cmd' = cmd
              \/ pc' = [pc EXCEPT ![w] = "claim"] /\ cmd'[w] \in Command
                 /\ \A v \in Worker : v # w => cmd'[v] = cmd[v]
<1>1. Selected(C, st) \subseteq Command
  BY DEF Selected
<1>2. view' = [view EXCEPT ![w] = C]
  BY DEF Select
<1>3. CASE Selected(C, st) = {}
  BY <1>2, <1>3 DEF Select, TypeOK, GoTo, Pc
<1>4. CASE Selected(C, st) # {}
  <2>1. PICK c \in Selected(C, st) :
            pc' = [pc EXCEPT ![w] = "claim"] /\ cmd' = [cmd EXCEPT ![w] = c]
    BY <1>4 DEF Select, GoTo
  <2> QED BY <1>1, <1>2, <2>1 DEF TypeOK, Pc
<1> QED BY <1>3, <1>4

Shape == TypeOK /\ HasDecision

\* Types and HasDecision are inductive together.
LEMMA ShapeInvariant == Spec => []Shape
<1>1. Init => Shape
  BY LiveAssumption DEF Init, Shape, HasDecision, TypeOK, NoAcks, CommandState, OrderState,
     Ack, Pc, NoVerdictOrVerdict
<1>2. Shape /\ [Next]_vars => Shape'
  <2> SUFFICES ASSUME Shape, [Next]_vars PROVE Shape'
    OBVIOUS
  <2>0. TypeOK /\ HasDecision
    BY DEF Shape
  <2> USE <2>0 DEF HasDecision, Shape
  <2>1. ASSUME NEW w \in Worker, Start(w) PROVE Shape'
    BY <2>1 DEF TypeOK, Start, GoTo, Pc, Listed, Unresolved, worldVars, storeVars, fenceVars
  <2>2. ASSUME NEW w \in Worker, StartDirect(w) PROVE Shape'
    <3>1. CASE pc' = [pc EXCEPT ![w] = "report"] /\ cmd' = cmd
      BY <2>2, <3>1 DEF TypeOK, StartDirect, Pc, worldVars, storeVars, fenceVars
    <3>2. ASSUME NEW t \in Target, pc' = [pc EXCEPT ![w] = "gate"],
                 cmd' = [cmd EXCEPT ![w] = DirectDecision(w, t)]
          PROVE  Shape'
      BY <2>2, <3>2, DirectType DEF TypeOK, StartDirect, Pc, worldVars, storeVars, fenceVars
    <3> QED BY <2>2, <3>1, <3>2 DEF StartDirect, GoTo
  <2>3. ASSUME NEW w \in Worker, Observe(w) PROVE Shape'
    BY <2>3 DEF TypeOK, Observe, Says, NoVerdictOrVerdict, Terminal, Reconcilable, worldVars, storeVars, fenceVars
  <2>4. ASSUME NEW w \in Worker, Reconcile(w) PROVE Shape'
    BY <2>4 DEF TypeOK, Reconcile, NoVerdictOrVerdict, Terminal, Reconcilable, CommandState, worldVars, fenceVars
  <2>5. ASSUME NEW w \in Worker, Reconciled(w) PROVE Shape'
    BY <2>5 DEF TypeOK, Reconciled, GoTo, Pc, worldVars, storeVars, fenceVars, localVars
  <2>6. ASSUME NEW w \in Worker, NEW t \in Target, Mint(w, t) PROVE Shape'
    <3> DEFINE c == Minted(w, t)
               C == view[w] \union {c}
    <3>1. c \in Command
      BY MintedType
    <3>2. C \in SUBSET Command
      BY <3>1 DEF TypeOK
    <3>3. pc[w] = "decide" /\ Select(w, C, state')
      BY <2>6 DEF Mint
    <3>4. state' \in [Command -> CommandState]
      BY <2>6, <3>1 DEF Mint, TypeOK, CommandState
    <3> HIDE DEF c, C
    <3>5. /\ view' \in [Worker -> SUBSET Command] /\ pc' \in [Worker -> Pc]
          /\ cmd' \in [Worker -> Command \union {NoCommand}]
          /\ \/ pc' = [pc EXCEPT ![w] = "report"] /\ cmd' = cmd
             \/ pc' = [pc EXCEPT ![w] = "claim"] /\ cmd'[w] \in Command
                /\ \A v \in Worker : v # w => cmd'[v] = cmd[v]
      BY <3>2, <3>3, SelectType
    <3> QED
      BY <2>6, <3>3, <3>4, <3>5 DEF Mint, TypeOK, NoAcks, worldVars, fenceVars
  <2>7. ASSUME NEW w \in Worker, MintBlocked(w) PROVE Shape'
    BY <2>7 DEF TypeOK, MintBlocked, GoTo, Pc, worldVars, storeVars, fenceVars, localVars
  <2>8. ASSUME NEW w \in Worker, NoMint(w) PROVE Shape'
    <3>1. CASE EndedToday(w) \/ Cardinality(Today(w)) > 1
      BY <2>8, <3>1 DEF TypeOK, NoMint, GoTo, Pc, worldVars, storeVars, fenceVars
    <3>2. CASE ~(EndedToday(w) \/ Cardinality(Today(w)) > 1)
      <4>1. Select(w, view[w], state)
        BY <2>8, <3>2 DEF NoMint
      <4>2. view[w] \in SUBSET Command
        BY DEF TypeOK
      <4>3. /\ view' \in [Worker -> SUBSET Command] /\ pc' \in [Worker -> Pc]
            /\ cmd' \in [Worker -> Command \union {NoCommand}]
            /\ \/ pc' = [pc EXCEPT ![w] = "report"] /\ cmd' = cmd
               \/ pc' = [pc EXCEPT ![w] = "claim"] /\ cmd'[w] \in Command
                  /\ \A v \in Worker : v # w => cmd'[v] = cmd[v]
        BY <4>1, <4>2, SelectType
      <4>4. TypeOK'
        BY <2>8, <4>3 DEF TypeOK, NoMint, worldVars, storeVars, fenceVars
      <4>5. HasDecision'
        BY <2>8, <4>3 DEF TypeOK, NoMint, NoAcks
      <4> QED BY <4>4, <4>5
    <3> QED BY <3>1, <3>2
  <2>9. ASSUME NEW w \in Worker, Claim(w) PROVE Shape'
    <3>1. TypeOK'
      BY <2>9 DEF TypeOK, Claim, GoTo, Pc, CommandState, worldVars, fenceVars
    <3>2. HasDecision'
      <4>1. pc[w] = "claim" /\ acks[w] = NoAcks /\ acks' = acks
        BY <2>9 DEF Claim
      <4>2. CASE pc' = [pc EXCEPT ![w] = "gate"] /\ cmd' = cmd
        BY <4>1, <4>2 DEF TypeOK
      <4>3. CASE pc' = [pc EXCEPT ![w] = "report"] /\ cmd' = [cmd EXCEPT ![w] = NoCommand]
        BY <4>1, <4>3 DEF TypeOK
      <4> QED BY <2>9, <4>2, <4>3 DEF Claim, GoTo
    <3> QED BY <3>1, <3>2
  <2>10. ASSUME NEW w \in Worker, Gate(w) PROVE Shape'
    BY <2>10 DEF TypeOK, Gate, GoTo, Pc, worldVars, storeVars, fenceVars, localVars
  <2>11. ASSUME NEW w \in Worker, OwnerClaim(w) PROVE Shape'
    <3>1. TypeOK'
      <4>1. owner' \in Profile \union {NoProfile}
        BY <2>11, LiveAssumption DEF TypeOK, OwnerClaim
      <4>2. pc' \in [Worker -> Pc]
        BY <2>11 DEF TypeOK, OwnerClaim, GoTo, Pc
      <4> QED
        BY <2>11, <4>1, <4>2 DEF TypeOK, OwnerClaim, worldVars, storeVars, localVars
    <3>2. HasDecision'
      BY <2>11 DEF TypeOK, OwnerClaim, GoTo, Pc, localVars
    <3> QED BY <3>1, <3>2
  <2>12. ASSUME NEW w \in Worker, MarkerClaim(w) PROVE Shape'
    BY <2>12, KeyOfType DEF TypeOK, MarkerClaim, GoTo, Pc, worldVars, storeVars, localVars
  <2>13. ASSUME NEW w \in Worker, Route(w) PROVE Shape'
    <3>1. TypeOK'
      <4>1. PICK n \in Slot, a \in Answer :
                /\ pc[w] = "route"
                /\ acks' = [acks EXCEPT ![w][n] = a[1]]
                /\ orders' = [orders EXCEPT ![cmd[w]][n] = a[2]]
                /\ routers' = [routers EXCEPT ![KeyOf(cmd[w])] =
                                  IF acks[w] = NoAcks THEN @ + 1 ELSE @]
                /\ IF a[1] = "unknown" THEN GoTo(w, "settle") ELSE UNCHANGED pc
        BY <2>13 DEF Route
      <4>2. a[1] \in Ack /\ a[2] \in OrderState
        BY DEF Answer, Ack, OrderState
      <4>3. cmd[w] \in Command /\ KeyOf(cmd[w]) \in Key
        BY <4>1, KeyOfType
      <4>4. acks' \in [Worker -> [Slot -> Ack]]
        BY <4>1, <4>2 DEF TypeOK
      <4>5. orders' \in [Command -> [Slot -> OrderState]]
        BY <4>1, <4>2, <4>3 DEF TypeOK
      <4>6. routers' \in [Key -> Nat]
        BY <4>1, <4>3 DEF TypeOK
      <4>7. pc' \in [Worker -> Pc]
        BY <4>1 DEF TypeOK, GoTo, Pc
      <4> QED
        BY <2>13, <4>4, <4>5, <4>6, <4>7 DEF TypeOK, Route, worldVars, storeVars, fenceVars
    <3>2. HasDecision'
      BY <2>13 DEF TypeOK, Route, GoTo, Pc
    <3> QED BY <3>1, <3>2
  <2>14. ASSUME NEW w \in Worker, OrdersDone(w) PROVE Shape'
    BY <2>14 DEF TypeOK, OrdersDone, GoTo, Pc, worldVars, storeVars, fenceVars, localVars
  <2>15. ASSUME NEW w \in Worker, Settle(w) PROVE Shape'
    <3>1. TypeOK'
      <4>1. FirstOutcome(w) \subseteq CommandState
        BY DEF FirstOutcome, CommandState, Reconcilable, Terminal
      <4>2. pc' \in [Worker -> Pc]
        BY <2>15 DEF TypeOK, Settle, GoTo, Pc
      <4>3. next' \in [Worker -> CommandState]
        BY <2>15, <4>1 DEF TypeOK, Settle
      <4> QED
        BY <2>15, <4>2, <4>3 DEF TypeOK, Settle, worldVars, storeVars, fenceVars
    <3>2. HasDecision'
      BY <2>15 DEF TypeOK, Settle, GoTo, Pc
    <3> QED BY <3>1, <3>2
  <2>16. ASSUME NEW w \in Worker, AppendOutcome(w) PROVE Shape'
    <3>1. next[w] \in CommandState /\ NextOutcome(w, next[w]) \in CommandState
      BY DEF TypeOK, NextOutcome, CommandState, Reconcilable, Terminal
    <3>2. cmd[w] \in Command
      BY <2>16 DEF AppendOutcome
    <3>3. state' \in [Command -> CommandState]
      BY <2>16, <3>1, <3>2 DEF TypeOK, AppendOutcome
    <3>4. evidence' \in [Command -> {"none", "complete", "incomplete"}]
      BY <2>16, <3>2 DEF TypeOK, AppendOutcome
    <3>5. next' \in [Worker -> CommandState]
      BY <2>16, <3>1 DEF TypeOK, AppendOutcome
    <3>6. pc' \in [Worker -> Pc]
      BY <2>16 DEF TypeOK, AppendOutcome, GoTo, Pc
    <3>7. TypeOK'
      BY <2>16, <3>3, <3>4, <3>5, <3>6 DEF TypeOK, AppendOutcome, worldVars, fenceVars
    <3>8. HasDecision'
      BY <2>16 DEF TypeOK, AppendOutcome, GoTo, Pc
    <3> QED BY <3>7, <3>8
  <2>17. ASSUME NEW w \in Worker, Report(w) PROVE Shape'
    <3>1. TypeOK'
      <4>1. reports' \subseteq Key
        <5>1. CASE Pending(w) = {}
          BY <2>17, <5>1 DEF Report, TypeOK
        <5>2. CASE Pending(w) # {}
          <6>1. acks[w] # NoAcks
            BY <5>2 DEF Pending, NoAcks
          <6> QED BY <2>17, <5>2, <6>1, KeyOfType DEF Report, TypeOK
        <5> QED BY <5>1, <5>2
      <4> QED
        BY <2>17, <4>1 DEF TypeOK, Report, Return, NoAcks, Ack, CommandState,
           NoVerdictOrVerdict, GoTo, Pc, worldVars, storeVars
    <3>2. HasDecision'
      BY <2>17 DEF TypeOK, Report, Return, GoTo, Pc
    <3> QED BY <3>1, <3>2
  <2>18. ASSUME NEW w \in Worker, Crash(w) PROVE Shape'
    BY <2>18 DEF TypeOK, Crash, Return, NoAcks, Ack, CommandState, NoVerdictOrVerdict, GoTo, Pc, worldVars, storeVars, fenceVars
  <2>19. ASSUME NEW c \in Command, NEW n \in Slot, BrokerMoves(c, n) PROVE Shape'
    BY <2>19 DEF TypeOK, BrokerMoves, Advance, OrderState, worldVars, storeVars, fenceVars, localVars
  <2>20. CASE NextSession
    BY <2>20, LiveAssumption DEF TypeOK, NextSession, storeVars, fenceVars, localVars
  <2>21. ASSUME NEW r \in Release, Deploy(r) PROVE Shape'
    BY <2>21 DEF TypeOK, Deploy, storeVars, fenceVars, localVars
  <2>22. CASE UNCHANGED vars
    BY <2>22 DEF TypeOK, vars, worldVars, storeVars, fenceVars, localVars
  <2> QED
    BY <2>1, <2>2, <2>3, <2>4, <2>5, <2>6, <2>7, <2>8, <2>9, <2>10, <2>11, <2>12, <2>13,
       <2>14, <2>15, <2>16, <2>17, <2>18, <2>19, <2>20, <2>21, <2>22 DEF Next, Step
<1>3. QED BY <1>1, <1>2, PTL DEF Spec

\* A step that moves no marker and routes nothing.
QuietStep ==
    /\ markers' = markers /\ routers' = routers
    /\ \A v \in Worker : pc'[v] = "route" =>
          pc[v] = "route" /\ cmd'[v] = cmd[v] /\ acks'[v] = acks[v]

\* Whatever the workers do, a decision's marker has at most one routing
\* holder, and a decision nobody holds or held has no orders.
THEOREM MarkerFenceHolds == Spec => []FenceInv
<1>1. Init => MarkerFence /\ OneCyclePerDecision
  BY DEF Init, MarkerFence, OneCyclePerDecision
<1>2. Shape /\ MarkerFence /\ OneCyclePerDecision /\ [Next]_vars
        => MarkerFence' /\ OneCyclePerDecision'
  <2> SUFFICES ASSUME Shape, MarkerFence, OneCyclePerDecision, [Next]_vars
               PROVE  MarkerFence' /\ OneCyclePerDecision'
    OBVIOUS
  <2> USE DEF MarkerFence, OneCyclePerDecision
  <2>0. TypeOK /\ HasDecision
    BY DEF Shape
  <2>1. ASSUME NEW w \in Worker, MarkerClaim(w)
        PROVE  MarkerFence' /\ OneCyclePerDecision'
    <3> DEFINE k == KeyOf(cmd[w])
    <3>1. pc[w] = "marker" /\ cmd' = cmd /\ acks' = acks /\ routers' = routers
      BY <2>1 DEF MarkerClaim, localVars
    <3>2. CASE k \notin markers /\ markers' = markers \union {k} /\ pc' = [pc EXCEPT ![w] = "route"]
      BY <2>0, <3>1, <3>2, KeyOfType DEF HasDecision, TypeOK
    <3>3. CASE markers \subseteq markers' /\ pc' = [pc EXCEPT ![w] = "settle"]
      BY <2>0, <3>1, <3>3 DEF TypeOK
    <3> QED BY <2>1, <3>2, <3>3 DEF MarkerClaim, GoTo
  <2>2. ASSUME NEW w \in Worker, Route(w)
        PROVE  MarkerFence' /\ OneCyclePerDecision'
    <3> DEFINE k == KeyOf(cmd[w])
    <3>1. PICK n \in Slot, a \in Answer :
              /\ pc[w] = "route" /\ acks[w][n] = "none"
              /\ acks' = [acks EXCEPT ![w][n] = a[1]]
              /\ routers' = [routers EXCEPT ![k] = IF acks[w] = NoAcks THEN @ + 1 ELSE @]
              /\ IF a[1] = "unknown" THEN GoTo(w, "settle") ELSE UNCHANGED pc
              /\ markers' = markers /\ cmd' = cmd
      BY <2>2 DEF Route, fenceVars
    <3>2. k \in Key /\ cmd[w] \in Command
      BY <2>0, <3>1, KeyOfType DEF HasDecision
    <3>3. acks'[w] # NoAcks
      BY <2>0, <3>1 DEF TypeOK, NoAcks, Answer
    <3>4. \A v \in Worker : v # w => acks'[v] = acks[v]
      BY <2>0, <3>1 DEF TypeOK
    <3>5. \A v \in Worker : pc'[v] = "route" => pc[v] = "route"
      BY <2>0, <3>1 DEF TypeOK, GoTo
    <3>6. \A j \in Key : j # k => routers'[j] = routers[j]
      BY <2>0, <3>1, <3>2 DEF TypeOK
    <3>7. routers'[k] <= 1
      BY <2>0, <3>1, <3>2 DEF TypeOK
    <3>8. k \in markers
      BY <3>1
    <3>9. \A v \in Worker : pc'[v] = "route" /\ v # w => KeyOf(cmd[v]) # k
      BY <3>1, <3>5
    <3>10. \A v \in Worker : pc'[v] = "route" => KeyOf(cmd[v]) \in Key
      BY <2>0, <3>5, KeyOfType DEF HasDecision
    <3> HIDE DEF k
    <3>11. OneCyclePerDecision'
      BY <2>0, <3>6, <3>7
    <3>12. MarkerFence'
      BY <2>0, <3>1, <3>3, <3>4, <3>5, <3>6, <3>8, <3>9, <3>10
    <3> QED BY <3>11, <3>12
  <2>3. ASSUME QuietStep PROVE MarkerFence' /\ OneCyclePerDecision'
    BY <2>3 DEF QuietStep
  <2>4. ASSUME NEW w \in Worker, Start(w) PROVE QuietStep
    BY <2>0, <2>4 DEF Start, GoTo, QuietStep, TypeOK, fenceVars
  <2>5. ASSUME NEW w \in Worker, StartDirect(w) PROVE QuietStep
    BY <2>0, <2>5 DEF StartDirect, GoTo, QuietStep, TypeOK, fenceVars
  <2>6. ASSUME NEW w \in Worker, Observe(w) PROVE QuietStep
    BY <2>0, <2>6 DEF Observe, QuietStep, TypeOK, fenceVars
  <2>7. ASSUME NEW w \in Worker, Reconcile(w) PROVE QuietStep
    BY <2>0, <2>7 DEF Reconcile, QuietStep, TypeOK, fenceVars
  <2>8. ASSUME NEW w \in Worker, Reconciled(w) PROVE QuietStep
    BY <2>0, <2>8 DEF Reconciled, GoTo, localVars, QuietStep, TypeOK, fenceVars
  <2>9. ASSUME NEW w \in Worker, MintBlocked(w) PROVE QuietStep
    BY <2>0, <2>9 DEF MintBlocked, GoTo, localVars, QuietStep, TypeOK, fenceVars
  <2>10. ASSUME NEW w \in Worker, NoMint(w) PROVE QuietStep
    <3>1. CASE EndedToday(w) \/ Cardinality(Today(w)) > 1
      BY <2>0, <2>10, <3>1 DEF NoMint, GoTo, QuietStep, TypeOK, fenceVars
    <3>2. CASE ~(EndedToday(w) \/ Cardinality(Today(w)) > 1)
      <4>1. Select(w, view[w], state) /\ pc[w] = "decide"
        BY <2>10, <3>2 DEF NoMint
      <4> QED BY <2>0, <2>10, <4>1, SelectType DEF NoMint, QuietStep, TypeOK, fenceVars
    <3> QED BY <3>1, <3>2
  <2>11. ASSUME NEW w \in Worker, Claim(w) PROVE QuietStep
    BY <2>0, <2>11 DEF Claim, GoTo, QuietStep, TypeOK, fenceVars
  <2>12. ASSUME NEW w \in Worker, Gate(w) PROVE QuietStep
    BY <2>0, <2>12 DEF Gate, GoTo, localVars, QuietStep, TypeOK, fenceVars
  <2>13. ASSUME NEW w \in Worker, OwnerClaim(w) PROVE QuietStep
    BY <2>0, <2>13 DEF OwnerClaim, GoTo, localVars, QuietStep, TypeOK, fenceVars
  <2>14. ASSUME NEW w \in Worker, OrdersDone(w) PROVE QuietStep
    BY <2>0, <2>14 DEF OrdersDone, GoTo, localVars, QuietStep, TypeOK, fenceVars
  <2>15. ASSUME NEW w \in Worker, Settle(w) PROVE QuietStep
    BY <2>0, <2>15 DEF Settle, GoTo, QuietStep, TypeOK, fenceVars
  <2>16. ASSUME NEW w \in Worker, AppendOutcome(w) PROVE QuietStep
    BY <2>0, <2>16 DEF AppendOutcome, GoTo, QuietStep, TypeOK, fenceVars
  <2>17. ASSUME NEW w \in Worker, Report(w) PROVE QuietStep
    BY <2>0, <2>17 DEF Report, Return, GoTo, QuietStep, TypeOK, fenceVars
  <2>18. ASSUME NEW w \in Worker, Crash(w) PROVE QuietStep
    BY <2>0, <2>18 DEF Crash, Return, GoTo, QuietStep, TypeOK, fenceVars
  <2>19. ASSUME NEW w \in Worker, NEW t \in Target, Mint(w, t) PROVE QuietStep
    <3>1. view[w] \union {Minted(w, t)} \in SUBSET Command
      BY <2>0, MintedType DEF TypeOK
    <3>2. pc[w] = "decide" /\ Select(w, view[w] \union {Minted(w, t)}, state')
      BY <2>19 DEF Mint
    <3> QED BY <2>0, <2>19, <3>1, <3>2, SelectType DEF Mint, QuietStep, TypeOK, fenceVars
  <2>20. ASSUME NEW c \in Command, NEW n \in Slot, BrokerMoves(c, n) PROVE QuietStep
    BY <2>20 DEF BrokerMoves, QuietStep, fenceVars, localVars
  <2>21. ASSUME NextSession PROVE QuietStep
    BY <2>21 DEF NextSession, QuietStep, fenceVars, localVars
  <2>22. ASSUME NEW r \in Release, Deploy(r) PROVE QuietStep
    BY <2>22 DEF Deploy, QuietStep, fenceVars, localVars
  <2>23. ASSUME UNCHANGED vars PROVE QuietStep
    BY <2>23 DEF vars, QuietStep, fenceVars, localVars
  <2>24. QuietStep \/ \E w \in Worker : MarkerClaim(w) \/ Route(w)
    <3>1. CASE \E w \in Worker : Start(w) \/ StartDirect(w) \/ Step(w) \/ Crash(w)
      BY <3>1, <2>4, <2>5, <2>6, <2>7, <2>8, <2>9, <2>10, <2>11, <2>12, <2>13, <2>14,
         <2>15, <2>16, <2>17, <2>18, <2>19 DEF Step
    <3>2. CASE \E c \in Command, n \in Slot : BrokerMoves(c, n)
      BY <3>2, <2>20
    <3> QED BY <3>1, <3>2, <2>21, <2>22, <2>23 DEF Next
  <2> QED
    <3> HIDE DEF MarkerFence, OneCyclePerDecision
    <3> QED BY <2>1, <2>2, <2>3, <2>24
<1>3. QED BY <1>1, <1>2, ShapeInvariant, PTL DEF Spec, Shape, FenceInv

\* The orders of one decision come from one cycle: the claim of the execution
\* marker admits one routing holder, and the marker is never given back.
THEOREM OneCyclePerDecisionHolds == Spec => []OneCyclePerDecision
BY MarkerFenceHolds, PTL DEF FenceInv

\* The state of every component stays within its type.
THEOREM TypeCorrect == Spec => []TypeOK
BY ShapeInvariant, PTL DEF Shape

-----------------------------------------------------------------------------
(* One profile trades the account.                                         *)

\* What is selected comes from the listed commands.
LEMMA SelectProfile ==
    ASSUME TypeOK, OwnProfile, NEW w \in Worker, NEW C \in SUBSET Command,
           \A c \in C : c.profile = ProfileOf[w], NEW st, Select(w, C, st)
    PROVE  OwnProfile'
<1>1. Selected(C, st) \subseteq C
  BY DEF Selected
<1>2. view' = [view EXCEPT ![w] = C]
  BY DEF Select
<1>3. cmd' = cmd \/ \E c \in C : cmd' = [cmd EXCEPT ![w] = c]
  BY <1>1 DEF Select
<1> QED BY <1>2, <1>3 DEF OwnProfile, TypeOK

\* A worker lists, mints and works decisions of its own profile only.
LEMMA OwnProfileInvariant == Spec => []OwnProfile
<1>1. Init => OwnProfile
  BY DEF Init, OwnProfile
<1>2. Shape /\ OwnProfile /\ [Next]_vars => OwnProfile'
  <2> SUFFICES ASSUME Shape, OwnProfile, [Next]_vars PROVE OwnProfile'
    OBVIOUS
  <2>0. TypeOK /\ HasDecision
    BY DEF Shape
  <2>1. ASSUME view' = view, cmd' = cmd PROVE OwnProfile'
    BY <2>1 DEF OwnProfile
  <2>2. ASSUME NEW w \in Worker, Return(w) PROVE OwnProfile'
    BY <2>0, <2>2 DEF Return, OwnProfile, TypeOK
  <2>3. ASSUME NEW w \in Worker, Start(w) PROVE OwnProfile'
    BY <2>0, <2>3 DEF Start, Listed, OwnProfile, TypeOK
  <2>4. ASSUME NEW w \in Worker, StartDirect(w) PROVE OwnProfile'
    BY <2>0, <2>4 DEF StartDirect, DirectDecision, OwnProfile, TypeOK, localVars
  <2>5. ASSUME NEW w \in Worker, NEW t \in Target, Mint(w, t) PROVE OwnProfile'
    <3> DEFINE C == view[w] \union {Minted(w, t)}
    <3>1. C \in SUBSET Command
      BY <2>0, MintedType DEF TypeOK
    <3>2. \A c \in C : c.profile = ProfileOf[w]
      BY DEF OwnProfile, Minted
    <3>3. Select(w, C, state')
      BY <2>5 DEF Mint
    <3> QED BY <2>0, <3>1, <3>2, <3>3, SelectProfile
  <2>6. ASSUME NEW w \in Worker, NoMint(w) PROVE OwnProfile'
    <3>1. CASE view' = view /\ cmd' = cmd
      BY <2>1, <3>1
    <3>2. CASE Select(w, view[w], state)
      <4>1. view[w] \in SUBSET Command /\ \A c \in view[w] : c.profile = ProfileOf[w]
        BY <2>0 DEF TypeOK, OwnProfile
      <4> QED BY <2>0, <3>2, <4>1, SelectProfile
    <3> QED BY <2>6, <3>1, <3>2 DEF NoMint
  <2>7. ASSUME NEW w \in Worker, Claim(w) PROVE OwnProfile'
    BY <2>0, <2>7 DEF Claim, OwnProfile, TypeOK
  <2>8. ASSUME NEW w \in Worker,
               Observe(w) \/ Reconcile(w) \/ Reconciled(w) \/ MintBlocked(w) \/ Gate(w)
               \/ OwnerClaim(w) \/ MarkerClaim(w) \/ Route(w) \/ OrdersDone(w)
               \/ Settle(w) \/ AppendOutcome(w)
        PROVE OwnProfile'
    BY <2>1, <2>8 DEF Observe, Reconcile, Reconciled, MintBlocked, Gate, OwnerClaim,
       MarkerClaim, Route, OrdersDone, Settle, AppendOutcome, localVars
  <2>9. ASSUME NEW w \in Worker, Report(w) \/ Crash(w) PROVE OwnProfile'
    BY <2>2, <2>9 DEF Report, Crash
  <2>10. CASE \E w \in Worker : Start(w) \/ StartDirect(w) \/ Step(w) \/ Crash(w)
    BY <2>10, <2>3, <2>4, <2>5, <2>6, <2>7, <2>8, <2>9 DEF Step
  <2>11. CASE \/ \E c \in Command, n \in Slot : BrokerMoves(c, n)
              \/ NextSession
              \/ \E r \in Release : Deploy(r)
              \/ UNCHANGED vars
    BY <2>1, <2>11 DEF BrokerMoves, NextSession, Deploy, vars, localVars
  <2> QED BY <2>10, <2>11 DEF Next
<1>3. QED BY <1>1, <1>2, ShapeInvariant, PTL DEF Spec

\* A step that passes no owner claim and moves no order's existence.
KeepsOwner ==
    /\ owner' = owner
    /\ \A v \in Worker : pc'[v] \in {"marker", "route"} => pc[v] \in {"marker", "route"}
    /\ \A c \in Command : StatusSet(c)' # {} => StatusSet(c) # {}

\* Past the owner claim a worker's profile owns the account, and the orders
\* at the broker are the owner's.
THEOREM OwnerFenceHolds == Spec => []OwnerInv
<1>1. Init => OwnerFence
  <2> SUFFICES ASSUME Init PROVE OwnerFence
    OBVIOUS
  <2>1. \A c \in Command : StatusSet(c) = {}
    BY DEF Init, StatusSet
  <2> QED BY <2>1 DEF Init, OwnerFence
<1>2. Shape /\ OwnProfile /\ OwnProfile' /\ OwnerFence /\ [Next]_vars => OwnerFence'
  <2> SUFFICES ASSUME Shape, OwnProfile, OwnerFence, [Next]_vars PROVE OwnerFence'
    OBVIOUS
  <2>0. TypeOK /\ HasDecision
    BY DEF Shape
  <2>1. ASSUME KeepsOwner PROVE OwnerFence'
    BY <2>1 DEF KeepsOwner, OwnerFence
  <2>2. ASSUME NEW w \in Worker, OwnerClaim(w) PROVE OwnerFence'
    <3>1. orders' = orders /\ \A c \in Command : StatusSet(c)' = StatusSet(c)
      BY <2>2 DEF OwnerClaim, StatusSet
    <3>2. CASE owner \in {NoProfile, ProfileOf[w]} /\ owner' = ProfileOf[w]
      <4>1. \A c \in Command : StatusSet(c) # {} => owner # NoProfile
        BY LiveAssumption DEF OwnerFence, Command
      <4>2. \A v \in Worker : pc[v] \in {"marker", "route"} => owner # NoProfile
        BY LiveAssumption DEF OwnerFence
      <4>3. \A v \in Worker : pc'[v] \in {"marker", "route"} => v = w \/ pc[v] \in {"marker", "route"}
        BY <2>0, <2>2 DEF OwnerClaim, GoTo, TypeOK
      <4> QED BY <3>1, <3>2, <4>1, <4>2, <4>3 DEF OwnerFence
    <3>3. CASE owner' = owner /\ GoTo(w, "settle")
      BY <2>0, <3>1, <3>3 DEF OwnerFence, GoTo, TypeOK
    <3> QED BY <2>2, <3>2, <3>3 DEF OwnerClaim
  <2>3. ASSUME NEW w \in Worker, Route(w) PROVE OwnerFence'
    <3>1. PICK n \in Slot, a \in Answer :
              /\ pc[w] = "route" /\ owner' = owner
              /\ orders' = [orders EXCEPT ![cmd[w]][n] = a[2]]
              /\ IF a[1] = "unknown" THEN GoTo(w, "settle") ELSE UNCHANGED pc
      BY <2>3 DEF Route, fenceVars
    <3>2. cmd[w] \in Command /\ cmd[w].profile = owner
      BY <2>0, <3>1, NoCommandAssumption DEF HasDecision, OwnProfile, OwnerFence
    <3>3. \A c \in Command : c # cmd[w] => orders'[c] = orders[c]
      BY <2>0, <3>1 DEF TypeOK
    <3>4. \A c \in Command : c # cmd[w] => StatusSet(c)' = StatusSet(c)
      BY <3>3 DEF StatusSet
    <3>5. \A v \in Worker : pc'[v] \in {"marker", "route"} => pc[v] \in {"marker", "route"}
      BY <2>0, <3>1 DEF TypeOK, GoTo
    <3> QED BY <3>1, <3>2, <3>4, <3>5 DEF OwnerFence
  <2>4. ASSUME NEW c \in Command, NEW n \in Slot, BrokerMoves(c, n) PROVE KeepsOwner
    <3>1. PICK a \in Advance : orders[c][n] = a[1] /\ orders' = [orders EXCEPT ![c][n] = a[2]]
      BY <2>4 DEF BrokerMoves
    <3>2. orders[c][n] # "none"
      BY <3>1 DEF Advance
    <3>3. StatusSet(c) # {}
      BY <3>2 DEF StatusSet
    <3>4. \A d \in Command : d # c => orders'[d] = orders[d]
      BY <2>0, <3>1 DEF TypeOK
    <3>5. \A d \in Command : d # c => StatusSet(d)' = StatusSet(d)
      BY <3>4 DEF StatusSet
    <3> QED BY <2>4, <3>3, <3>5 DEF KeepsOwner, BrokerMoves, fenceVars
  <2>5. ASSUME owner' = owner, orders' = orders,
               \A v \in Worker : pc'[v] \in {"marker", "route"} => pc[v] \in {"marker", "route"}
        PROVE  KeepsOwner
    BY <2>5 DEF KeepsOwner, StatusSet
  <2>6. ASSUME NEW w \in Worker,
               Start(w) \/ StartDirect(w) \/ Observe(w) \/ Reconcile(w) \/ Reconciled(w)
               \/ MintBlocked(w) \/ Claim(w) \/ Gate(w) \/ OrdersDone(w) \/ Settle(w)
               \/ AppendOutcome(w)
        PROVE  KeepsOwner
    <3>1. owner' = owner /\ orders' = orders
      BY <2>6 DEF Start, StartDirect, Observe, Reconcile, Reconciled, MintBlocked, Claim,
         Gate, OrdersDone, Settle, AppendOutcome, fenceVars
    <3>2. \A v \in Worker : pc'[v] \in {"marker", "route"} => pc[v] \in {"marker", "route"}
      BY <2>0, <2>6 DEF Start, StartDirect, Observe, Reconcile, Reconciled, MintBlocked,
         Claim, Gate, OrdersDone, Settle, AppendOutcome, GoTo, TypeOK
    <3> QED BY <2>5, <3>1, <3>2
  <2>7. ASSUME NEW w \in Worker, MarkerClaim(w) PROVE KeepsOwner
    BY <2>0, <2>5, <2>7 DEF MarkerClaim, GoTo, TypeOK
  <2>8. ASSUME NEW w \in Worker, Report(w) \/ Crash(w) PROVE KeepsOwner
    BY <2>0, <2>5, <2>8 DEF Report, Crash, Return, GoTo, TypeOK, fenceVars
  <2>9. ASSUME NEW w \in Worker, NEW t \in Target, Mint(w, t) PROVE KeepsOwner
    <3>1. view[w] \union {Minted(w, t)} \in SUBSET Command
      BY <2>0, MintedType DEF TypeOK
    <3>2. pc[w] = "decide" /\ Select(w, view[w] \union {Minted(w, t)}, state')
      BY <2>9 DEF Mint
    <3> QED BY <2>0, <2>5, <2>9, <3>1, <3>2, SelectType DEF Mint, TypeOK, fenceVars
  <2>10. ASSUME NEW w \in Worker, NoMint(w) PROVE KeepsOwner
    <3>1. view[w] \in SUBSET Command
      BY <2>0 DEF TypeOK
    <3>2. CASE GoTo(w, "report")
      BY <2>0, <2>5, <2>10, <3>2 DEF NoMint, GoTo, TypeOK, fenceVars
    <3>3. CASE Select(w, view[w], state)
      BY <2>0, <2>5, <2>10, <3>1, <3>3, SelectType DEF NoMint, TypeOK, fenceVars
    <3> QED BY <2>10, <3>2, <3>3 DEF NoMint
  <2>11. CASE NextSession \/ (\E r \in Release : Deploy(r)) \/ UNCHANGED vars
    <3>1. KeepsOwner
      BY <2>5, <2>11 DEF NextSession, Deploy, vars, fenceVars
    <3> QED BY <2>1, <3>1
  <2>12. CASE \E w \in Worker : Start(w) \/ StartDirect(w) \/ Step(w) \/ Crash(w)
    BY <2>12, <2>1, <2>2, <2>3, <2>6, <2>7, <2>8, <2>9, <2>10 DEF Step
  <2> QED BY <2>1, <2>4, <2>11, <2>12 DEF Next
<1>3. QED BY <1>1, <1>2, ShapeInvariant, OwnProfileInvariant, PTL DEF Spec, Shape, OwnerInv

\* The account is traded by one profile only: the owner claim is refused to a
\* second profile and is never given back.
THEOREM OneAccountOwnerHolds == Spec => []OneAccountOwner
<1>1. OwnerInv => OneAccountOwner
  BY DEF OwnerInv, OwnerFence, OneAccountOwner
<1> QED BY <1>1, OwnerFenceHolds, PTL
-----------------------------------------------------------------------------
(* Decisions follow each other: what the store says of a command, when the *)
(* next one may be claimed and traded, and that the durable path           *)
(* implements DecisionBook.                                                *)

-----------------------------------------------------------------------------
(* What a step of a worker leaves alone.                                   *)

Keeps(v) ==
    /\ pc'[v] = pc[v] /\ view'[v] = view[v] /\ verdict'[v] = verdict[v]
    /\ cmd'[v] = cmd[v] /\ acks'[v] = acks[v] /\ next'[v] = next[v]

\* Bringing a decision to the broker, up to the recording of its outcome.
Carrying == Holding \ {"append"}

\* A step that writes neither the command store nor the broker, and in which
\* the worker gives up, goes on deciding or goes on carrying its decision.
Quiet(w) ==
    /\ state' = state /\ orders' = orders /\ routers' = routers /\ session' = session
    /\ \/ pc'[w] \in {"idle", "report"} /\ verdict'[w] \in {verdict[w], NoVerdict}
       \/ /\ view'[w] = view[w] /\ verdict'[w] = verdict[w] /\ cmd'[w] = cmd[w]
          /\ acks'[w] = acks[w] /\ next'[w] = next[w]
          /\ \/ pc[w] = "reconcile" /\ pc'[w] = "decide"
             \/ /\ pc[w] \in Carrying /\ pc'[w] \in Carrying
                /\ pc'[w] = "route" => acks[w] = NoAcks

Acts(w) == Start(w) \/ StartDirect(w) \/ Step(w) \/ Crash(w)

\* A worker's step writes its own locals only.
LEMMA OthersKeep ==
    ASSUME Shape, NEW w \in Worker, Acts(w), NEW v \in Worker, v # w
    PROVE  Keeps(v)
<1> USE DEF Keeps, TypeOK, GoTo
<1>0. TypeOK
  BY DEF Shape
<1>1. CASE Start(w) \/ StartDirect(w)
  BY <1>0, <1>1 DEF Start, StartDirect
<1>2. CASE Observe(w) \/ Reconcile(w) \/ Reconciled(w) \/ MintBlocked(w)
  BY <1>0, <1>2 DEF Observe, Reconcile, Reconciled, MintBlocked, localVars
<1>3. ASSUME NEW t \in Target, Mint(w, t) PROVE Keeps(v)
  BY <1>0, <1>3 DEF Mint, Select
<1>4. CASE NoMint(w) \/ Claim(w)
  BY <1>0, <1>4 DEF NoMint, Claim, Select
<1>5. CASE Gate(w) \/ OwnerClaim(w) \/ MarkerClaim(w) \/ OrdersDone(w)
  BY <1>0, <1>5 DEF Gate, OwnerClaim, MarkerClaim, OrdersDone, localVars
<1>6. CASE Route(w)
  BY <1>0, <1>6 DEF Route
<1>7. CASE Settle(w) \/ AppendOutcome(w)
  BY <1>0, <1>7 DEF Settle, AppendOutcome
<1>8. CASE Report(w) \/ Crash(w)
  BY <1>0, <1>8 DEF Report, Crash, Return
<1> QED BY <1>1, <1>2, <1>3, <1>4, <1>5, <1>6, <1>7, <1>8 DEF Acts, Step

\* These steps are quiet.
LEMMA QuietActions ==
    ASSUME Shape, NEW w \in Worker,
           Reconciled(w) \/ MintBlocked(w) \/ Gate(w) \/ OwnerClaim(w) \/ MarkerClaim(w)
           \/ OrdersDone(w) \/ Report(w) \/ Crash(w)
    PROVE  Quiet(w)
<1> USE DEF Quiet, TypeOK, GoTo, worldVars, storeVars, fenceVars
<1>0. TypeOK /\ HasDecision
  BY DEF Shape
<1>1. CASE Reconciled(w)
  BY <1>0, <1>1 DEF Reconciled, localVars
<1>2. CASE MintBlocked(w)
  BY <1>0, <1>2 DEF MintBlocked, localVars
<1>3. CASE Gate(w)
  BY <1>0, <1>3 DEF Gate, localVars, Carrying, Holding
<1>4. CASE OwnerClaim(w)
  BY <1>0, <1>4 DEF OwnerClaim, localVars, Carrying, Holding
<1>5. CASE MarkerClaim(w)
  BY <1>0, <1>5 DEF MarkerClaim, HasDecision, localVars, Carrying, Holding
<1>6. CASE OrdersDone(w)
  BY <1>0, <1>6 DEF OrdersDone, localVars, Carrying, Holding
<1>7. CASE Report(w) \/ Crash(w)
  BY <1>0, <1>7 DEF Report, Crash, Return
<1> QED BY <1>1, <1>2, <1>3, <1>4, <1>5, <1>6, <1>7

\* What is selected is due, and nothing that was looked at is under way.
LEMMA SelectedIsDue ==
    ASSUME Shape, NEW w \in Worker, NEW C \in SUBSET Command, NEW st, Select(w, C, st)
    PROVE  \/ pc'[w] = "report"
           \/ /\ pc'[w] = "claim" /\ cmd'[w] \in C /\ cmd'[w].effective = session
              /\ \A c \in C : st[c] \in Terminal \union {"QUEUED"}
<1>1. CASE Selected(C, st) = {}
  BY <1>1 DEF Select, Shape, TypeOK, GoTo
<1>2. CASE Selected(C, st) # {}
  <2>1. PICK c \in Selected(C, st) :
            pc' = [pc EXCEPT ![w] = "claim"] /\ cmd' = [cmd EXCEPT ![w] = c]
    BY <1>2 DEF Select, GoTo
  <2>2. /\ c \in C /\ c.effective = session
        /\ \A d \in C : st[d] \in Terminal \union {"QUEUED"}
    BY <2>1 DEF Selected
  <2> QED BY <2>1, <2>2 DEF Shape, TypeOK
<1> QED BY <1>1, <1>2

\* Every step, with the quiet ones together.
LEMMA StepCases ==
    ASSUME Shape, [Next]_vars
    PROVE  \/ \E w \in Worker :
                \/ Start(w) \/ StartDirect(w) \/ Observe(w) \/ Reconcile(w)
                \/ \E t \in Target : Mint(w, t)
                \/ NoMint(w) \/ Claim(w) \/ Route(w) \/ Settle(w) \/ AppendOutcome(w)
                \/ Acts(w) /\ Quiet(w)
           \/ \E c \in Command, n \in Slot : BrokerMoves(c, n)
           \/ NextSession
           \/ UNCHANGED <<session, state, orders, routers, pc, view, verdict, cmd, acks, next>>
<1>1. ASSUME NEW r \in Release, Deploy(r)
      PROVE  UNCHANGED <<session, state, orders, routers, pc, view, verdict, cmd, acks, next>>
  BY <1>1 DEF Deploy, storeVars, localVars
<1>2. CASE UNCHANGED vars
  BY <1>2 DEF vars, worldVars, storeVars, localVars
<1> QED BY <1>1, <1>2, QuietActions DEF Next, Step, Acts

-----------------------------------------------------------------------------
(* Commands fall due one session at a time.                                *)

\* Within a session only commands due in it become active.
Grows == session' = session /\ \A c \in Command : Active(c)' /\ c.effective # session => Active(c)

LEMMA DueOfOthers ==
    ASSUME Shape, DueInv, NEW w \in Worker, Acts(w), Grows, IsDue(w)', CommandsAreBound'
    PROVE  DueInv'
<1>1. \A v \in Worker : v # w => Keeps(v)
  BY OthersKeep
<1>2. ASSUME NEW v \in Worker, Keeps(v) PROVE IsDue(v)'
  BY <1>2 DEF Keeps, Grows, DueInv, IsDue, Holds
<1> QED BY <1>1, <1>2 DEF DueInv

\* A step that leaves the store alone, and with it what is active.
LEMMA DueWithoutWrite ==
    ASSUME Shape, DueInv, NEW w \in Worker, Acts(w), session' = session, state' = state,
           IsDue(w)'
    PROVE  DueInv'
<1>1. Grows /\ CommandsAreBound'
  BY DEF Grows, Active, DueInv, CommandsAreBound
<1> QED BY <1>1, DueOfOthers

\* Selecting sends a worker to claim a command that is due, when everything
\* active is of this session.
LEMMA SelectKeepsDue ==
    ASSUME Shape, DueInv, NEW w \in Worker, pc[w] = "decide",
           NEW C \in SUBSET Command, view[w] \subseteq C, Select(w, C, state'), Grows
    PROVE  IsDue(w)'
<1>1. CASE pc'[w] = "report"
  BY <1>1 DEF IsDue, Deciding, Holding, Holds
<1>2. CASE /\ pc'[w] = "claim" /\ cmd'[w] \in C /\ cmd'[w].effective = session
           /\ \A c \in C : state'[c] \in Terminal \union {"QUEUED"}
  <2>1. \A c \in C : ~Active(c)'
    BY <1>2 DEF Active, Terminal, Reconcilable
  <2>2. ProfileOf[w] \notin Direct
    BY DEF DueInv, IsDue, Deciding
  <2>3. ASSUME NEW c \in Command, c.profile = ProfileOf[w], Active(c)', c.effective # session'
        PROVE  FALSE
    BY <2>1, <2>3 DEF Grows, DueInv, IsDue, Deciding
  <2>4. cmd'[w].effective = session'
    BY <1>2 DEF Grows
  <2> QED BY <1>2, <2>2, <2>3, <2>4 DEF IsDue, Deciding, Holding, Holds
<1> QED BY <1>1, <1>2, SelectedIsDue

\* A worker that signs or acts today sees every earlier command still active:
\* by the time it claims a command there is none.
LEMMA DueInvariant == Spec => [](Shape /\ OwnProfile /\ DueInv)
<1>1. Init => DueInv
  BY DEF Init, DueInv, CommandsAreBound, IsDue, Deciding, Holding, Holds
<1>2. Shape /\ OwnProfile /\ DueInv /\ [Next]_vars => DueInv'
  <2> SUFFICES ASSUME Shape, OwnProfile, DueInv, [Next]_vars PROVE DueInv'
    OBVIOUS
  <2>0. TypeOK /\ HasDecision
    BY DEF Shape
  <2>1. ASSUME NEW w \in Worker, Start(w) PROVE DueInv'
    <3>1. state' = state /\ session' = session /\ ProfileOf[w] \notin Direct
      BY <2>1 DEF Start, worldVars, storeVars
    <3>2. CASE pc'[w] = "report"
      BY <3>1, <3>2, <2>1, DueWithoutWrite DEF Acts, IsDue, Deciding, Holding, Holds
    <3>3. CASE pc'[w] = "reconcile" /\ view'[w] = Listed(ProfileOf[w])
      <4>1. \A c \in Command : c.profile = ProfileOf[w] /\ Active(c) => c \in view'[w]
        BY <3>3 DEF Listed, Active, Reconcilable
      <4>2. IsDue(w)'
        BY <3>1, <3>3, <4>1 DEF IsDue, Active, Deciding, Holding, Holds
      <4> QED BY <2>1, <3>1, <4>2, DueWithoutWrite DEF Acts
    <3> QED BY <2>0, <2>1, <3>2, <3>3 DEF Start, GoTo, TypeOK
  <2>2. ASSUME NEW w \in Worker, StartDirect(w) PROVE DueInv'
    <3>1. state' = state /\ session' = session /\ ProfileOf[w] \in Direct
      BY <2>2 DEF StartDirect, worldVars, storeVars
    <3>2. \/ pc'[w] = "report"
          \/ pc'[w] = "gate" /\ cmd'[w].effective = session
      BY <2>0, <2>2 DEF StartDirect, GoTo, TypeOK, DirectDecision
    <3>3. IsDue(w)'
      BY <3>1, <3>2 DEF IsDue, Deciding, Holding, Holds
    <3> QED BY <2>2, <3>1, <3>3, DueWithoutWrite DEF Acts
  <2>3. ASSUME NEW w \in Worker, Observe(w) PROVE DueInv'
    <3>1. /\ state' = state /\ session' = session
          /\ pc' = pc /\ view' = view /\ cmd' = cmd
      BY <2>3 DEF Observe, worldVars, storeVars
    <3>2. IsDue(w)'
      BY <3>1 DEF DueInv, IsDue, Active, Holds
    <3> QED BY <2>3, <3>1, <3>2, DueWithoutWrite DEF Acts, Step
  <2>4. ASSUME NEW w \in Worker, Reconcile(w) PROVE DueInv'
    <3> DEFINE v == verdict[w]
    <3>1. /\ v # NoVerdict /\ session' = session
          /\ pc' = pc /\ view' = view /\ cmd' = cmd
          /\ state' = IF state[v.command] = v.from
                      THEN [state EXCEPT ![v.command] = v.to] ELSE state
      BY <2>4 DEF Reconcile, worldVars
    <3>2. v.command \in Command /\ v.from \in Reconcilable
      BY <2>0, <3>1 DEF TypeOK, NoVerdictOrVerdict
    <3> HIDE DEF v
    <3>3. \A c \in Command : state[c] \notin Reconcilable => state'[c] = state[c]
      BY <2>0, <3>1, <3>2 DEF TypeOK
    <3>4. Grows /\ CommandsAreBound'
      BY <3>1, <3>3 DEF Grows, Active, DueInv, CommandsAreBound, Reconcilable
    <3>5. IsDue(w)'
      BY <3>1, <3>4 DEF DueInv, IsDue, Grows, Holds
    <3> QED BY <2>4, <3>4, <3>5, DueOfOthers DEF Acts, Step
  <2>5. ASSUME NEW w \in Worker, NEW t \in Target, Mint(w, t) PROVE DueInv'
    <3> DEFINE m == Minted(w, t)
               C == view[w] \union {m}
    <3>1. m \in Command /\ C \in SUBSET Command
      BY <2>0, MintedType DEF TypeOK
    <3>2. /\ pc[w] = "decide" /\ session' = session /\ Select(w, C, state')
          /\ state' = IF state[m] = "ABSENT" THEN [state EXCEPT ![m] = "QUEUED"] ELSE state
      BY <2>5 DEF Mint, worldVars
    <3>3. ProfileOf[w] \notin Direct
      BY <3>2 DEF DueInv, IsDue, Deciding
    <3>4. m.profile \notin Direct /\ m.effective = m.signal + 1
      BY <2>0, <3>3 DEF Minted, TypeOK
    <3> HIDE DEF m
    <3>5. \A c \in Command : state'[c] = state[c] \/ (c = m /\ state'[c] = "QUEUED")
      BY <2>0, <3>1, <3>2 DEF TypeOK
    <3>6. Grows /\ CommandsAreBound'
      BY <3>2, <3>4, <3>5 DEF Grows, Active, DueInv, CommandsAreBound, Reconcilable
    <3>7. IsDue(w)'
      BY <3>1, <3>2, <3>6, SelectKeepsDue
    <3> QED BY <2>5, <3>6, <3>7, DueOfOthers DEF Acts, Step
  <2>6. ASSUME NEW w \in Worker, NoMint(w) PROVE DueInv'
    <3>1. state' = state /\ session' = session /\ pc[w] = "decide"
      BY <2>6 DEF NoMint, worldVars, storeVars
    <3>2. CASE pc'[w] = "report"
      BY <3>1, <3>2, <2>6, DueWithoutWrite DEF Acts, Step, IsDue, Deciding, Holding, Holds
    <3>3. CASE Select(w, view[w], state)
      <4>1. Grows /\ view[w] \in SUBSET Command
        BY <2>0, <3>1 DEF Grows, Active, TypeOK
      <4>2. IsDue(w)'
        BY <3>1, <3>3, <4>1, SelectKeepsDue
      <4> QED BY <2>6, <3>1, <4>2, DueWithoutWrite DEF Acts, Step
    <3> QED BY <2>0, <2>6, <3>2, <3>3 DEF NoMint, GoTo, TypeOK
  <2>7. ASSUME NEW w \in Worker, Claim(w) PROVE DueInv'
    <3>1. session' = session /\ pc[w] = "claim"
      BY <2>7 DEF Claim, worldVars
    <3>2. CASE state' = state /\ pc'[w] = "report"
      BY <3>1, <3>2, <2>7, DueWithoutWrite DEF Acts, Step, IsDue, Deciding, Holding, Holds
    <3>3. CASE /\ state[cmd[w]] = "QUEUED" /\ cmd' = cmd /\ pc'[w] = "gate"
               /\ state' = [state EXCEPT ![cmd[w]] = "CLAIMED"]
      <4>1. /\ cmd[w] \in Command /\ cmd[w].effective = session
            /\ cmd[w].profile \notin Direct /\ cmd[w].effective = cmd[w].signal + 1
        BY <2>0, <3>1, <3>3 DEF HasDecision, DueInv, IsDue, CommandsAreBound
      <4>2. \A c \in Command : c # cmd[w] => state'[c] = state[c]
        BY <2>0, <3>3 DEF TypeOK
      <4>3. Grows /\ CommandsAreBound'
        BY <3>1, <4>1, <4>2 DEF Grows, Active, DueInv, CommandsAreBound
      <4>4. IsDue(w)'
        BY <3>1, <3>3, <4>1, <4>3 DEF Grows, DueInv, IsDue, Deciding, Holds
      <4> QED BY <2>7, <4>3, <4>4, DueOfOthers DEF Acts, Step
    <3> QED BY <2>0, <2>7, <3>2, <3>3 DEF Claim, GoTo, TypeOK
  <2>8. ASSUME NEW w \in Worker, Route(w) \/ Settle(w) PROVE DueInv'
    <3>1. /\ state' = state /\ session' = session /\ cmd' = cmd
          /\ pc[w] \in {"route", "settle"}
      BY <2>8 DEF Route, Settle, worldVars, storeVars
    <3>2. \/ pc'[w] \in {"route", "settle", "report"}
          \/ pc'[w] = "append" /\ ProfileOf[w] \notin Direct
      BY <2>0, <2>8 DEF Route, Settle, GoTo, TypeOK, Claimed
    <3>3. IsDue(w)'
      BY <3>1, <3>2 DEF DueInv, IsDue, Active, Deciding, Holding, Holds
    <3> QED BY <2>8, <3>1, <3>3, DueWithoutWrite DEF Acts, Step
  <2>9. ASSUME NEW w \in Worker, AppendOutcome(w) PROVE DueInv'
    <3>1. /\ session' = session /\ cmd' = cmd /\ pc[w] = "append"
          /\ pc'[w] \in {"append", "report"}
      BY <2>0, <2>9 DEF AppendOutcome, worldVars, GoTo, TypeOK
    <3>2. \/ state' = state
          \/ /\ state[cmd[w]] \in {"CLAIMED"} \union Reconcilable
             /\ \A c \in Command : c # cmd[w] => state'[c] = state[c]
      BY <2>0, <2>9 DEF AppendOutcome, CanFollow, TypeOK
    <3>3. Grows /\ CommandsAreBound'
      BY <3>1, <3>2 DEF Grows, Active, DueInv, CommandsAreBound, Reconcilable
    <3>4. IsDue(w)'
      BY <3>1, <3>3 DEF Grows, DueInv, IsDue, Deciding, Holding, Holds
    <3> QED BY <2>9, <3>3, <3>4, DueOfOthers DEF Acts, Step
  <2>10. ASSUME NEW w \in Worker, Acts(w), Quiet(w) PROVE DueInv'
    <3>1. IsDue(w)'
      BY <2>10 DEF Quiet, Carrying, DueInv, IsDue, Active, Deciding, Holding, Holds
    <3> QED BY <2>10, <3>1, DueWithoutWrite DEF Quiet
  <2>11. CASE (\E c \in Command, n \in Slot : BrokerMoves(c, n))
              \/ UNCHANGED <<session, state, orders, routers, pc, view, verdict, cmd, acks, next>>
    <3>1. UNCHANGED <<session, state, pc, view, cmd>>
      BY <2>11 DEF BrokerMoves, worldVars, storeVars, localVars
    <3> QED BY <3>1 DEF DueInv, CommandsAreBound, IsDue, Active, Holds
  <2>12. CASE NextSession
    <3>1. state' = state /\ \A w \in Worker : pc'[w] = "idle"
      BY <2>12 DEF NextSession, storeVars
    <3> QED BY <3>1 DEF DueInv, CommandsAreBound, IsDue, Deciding, Holding, Holds
  <2> QED
    BY <2>1, <2>2, <2>3, <2>4, <2>5, <2>6, <2>7, <2>8, <2>9, <2>10, <2>11, <2>12, StepCases
<1>3. QED BY <1>1, <1>2, ShapeInvariant, OwnProfileInvariant, PTL DEF Spec

-----------------------------------------------------------------------------
(* Who writes the command store and the broker's orders.                   *)

\* A change of a command's state is a mint, a claim, a reconciliation or the
\* recording of an outcome.
LEMMA StoreWrites ==
    ASSUME Shape, [Next]_vars, NEW c \in Command, state'[c] # state[c]
    PROVE  \/ state[c] = "ABSENT" /\ state'[c] = "QUEUED"
           \/ /\ state[c] = "QUEUED" /\ state'[c] = "CLAIMED"
              /\ \E w \in Worker : Claim(w) /\ cmd[w] = c /\ cmd' = cmd
           \/ /\ state[c] \in Reconcilable
              /\ \E w \in Worker : /\ Reconcile(w) /\ verdict[w] # NoVerdict
                                   /\ verdict[w].command = c /\ state'[c] = verdict[w].to
           \/ \E w \in Worker : /\ AppendOutcome(w) /\ cmd[w] = c
                                /\ CanFollow(state[c], next[w]) /\ state'[c] = next[w]
<1>0. TypeOK /\ HasDecision
  BY DEF Shape
<1>1. ASSUME NEW w \in Worker, NEW t \in Target, Mint(w, t)
      PROVE  state[c] = "ABSENT" /\ state'[c] = "QUEUED"
  <2>1. Minted(w, t) \in Command
    BY <1>0, MintedType
  <2> QED BY <1>0, <1>1, <2>1 DEF Mint, TypeOK
<1>2. ASSUME NEW w \in Worker, Claim(w)
      PROVE  state[c] = "QUEUED" /\ state'[c] = "CLAIMED" /\ cmd[w] = c /\ cmd' = cmd
  BY <1>0, <1>2 DEF Claim, HasDecision, TypeOK
<1>3. ASSUME NEW w \in Worker, Reconcile(w)
      PROVE  /\ state[c] \in Reconcilable /\ verdict[w] # NoVerdict
             /\ verdict[w].command = c /\ state'[c] = verdict[w].to
  BY <1>0, <1>3 DEF Reconcile, TypeOK, NoVerdictOrVerdict
<1>4. ASSUME NEW w \in Worker, AppendOutcome(w)
      PROVE  cmd[w] = c /\ CanFollow(state[c], next[w]) /\ state'[c] = next[w]
  BY <1>0, <1>4 DEF AppendOutcome, HasDecision, TypeOK
<1>5. ASSUME NEW w \in Worker,
             Start(w) \/ StartDirect(w) \/ Observe(w) \/ NoMint(w) \/ Route(w) \/ Settle(w)
             \/ Quiet(w)
      PROVE  FALSE
  BY <1>5 DEF Start, StartDirect, Observe, NoMint, Route, Settle, Quiet, storeVars
<1>6. ASSUME (\E d \in Command, n \in Slot : BrokerMoves(d, n)) \/ NextSession
      PROVE  FALSE
  BY <1>6 DEF BrokerMoves, NextSession, storeVars
<1> QED BY <1>1, <1>2, <1>3, <1>4, <1>5, <1>6, StepCases

\* A change of an order is a routing by the worker that holds the command, or
\* a move of an order that is open at the broker.
LEMMA OrderWrites ==
    ASSUME Shape, [Next]_vars, NEW c \in Command, NEW n \in Slot, orders'[c][n] # orders[c][n]
    PROVE  \/ \E w \in Worker : Route(w) /\ pc[w] = "route" /\ cmd[w] = c
           \/ /\ BrokerMoves(c, n)
              /\ IsOpen(orders[c][n]) /\ orders'[c][n] \in {"partial", "filled", "dead"}
<1>0. TypeOK /\ HasDecision
  BY DEF Shape
<1>1. ASSUME NEW w \in Worker, Route(w) PROVE pc[w] = "route" /\ cmd[w] = c
  BY <1>0, <1>1 DEF Route, HasDecision, TypeOK
<1>2. ASSUME NEW d \in Command, NEW m \in Slot, BrokerMoves(d, m)
      PROVE  /\ BrokerMoves(c, n)
             /\ IsOpen(orders[c][n]) /\ orders'[c][n] \in {"partial", "filled", "dead"}
  <2>1. PICK a \in Advance : orders[d][m] = a[1] /\ orders' = [orders EXCEPT ![d][m] = a[2]]
    BY <1>2 DEF BrokerMoves
  <2>2. c = d /\ n = m /\ orders'[c][n] = a[2]
    BY <1>0, <2>1 DEF TypeOK
  <2> QED BY <1>2, <2>1, <2>2 DEF Advance, IsOpen
<1>3. ASSUME NEW w \in Worker,
             Start(w) \/ StartDirect(w) \/ Observe(w) \/ Reconcile(w)
             \/ (\E t \in Target : Mint(w, t)) \/ NoMint(w) \/ Claim(w) \/ Settle(w)
             \/ AppendOutcome(w) \/ Quiet(w)
      PROVE  FALSE
  BY <1>3 DEF Start, StartDirect, Observe, Reconcile, Mint, NoMint, Claim, Settle,
     AppendOutcome, Quiet
<1>4. ASSUME NextSession PROVE FALSE
  BY <1>4 DEF NextSession
<1> QED BY <1>1, <1>2, <1>3, <1>4, StepCases

\* A command's statuses change with its orders.
LEMMA StatusWrites ==
    ASSUME Shape, [Next]_vars, NEW c \in Command, StatusSet(c)' # StatusSet(c)
    PROVE  \/ \E w \in Worker : Route(w) /\ pc[w] = "route" /\ cmd[w] = c
           \/ \E n \in Slot : BrokerMoves(c, n) /\ IsOpen(orders[c][n])
<1>1. PICK n \in Slot : orders'[c][n] # orders[c][n]
  BY DEF StatusSet
<1> QED BY <1>1, OrderWrites

\* A command is claimed when it is due, under the identity it was minted by.
THEOREM ClaimedWhenDueAndBoundHolds == Spec => ClaimedWhenDueAndBound
<1>1. Shape /\ OwnProfile /\ DueInv /\ [Next]_vars =>
        \A c \in ClaimStep :
            /\ c.effective = session
            /\ \E w \in Worker : cmd'[w] = c /\ release[w] = c.release
  <2> SUFFICES ASSUME Shape, DueInv, [Next]_vars, NEW c \in ClaimStep
               PROVE  /\ c.effective = session
                      /\ \E w \in Worker : cmd'[w] = c /\ release[w] = c.release
    OBVIOUS
  <2>1. c \in Command /\ state[c] = "QUEUED" /\ state'[c] = "CLAIMED"
    BY DEF ClaimStep
  <2>2. PICK w \in Worker : Claim(w) /\ cmd[w] = c /\ cmd' = cmd
    BY <2>1, StoreWrites DEF CanFollow, Reconcilable
  <2>3. pc[w] = "claim" /\ BindingHolds(c, release[w])
    BY <2>1, <2>2 DEF Claim
  <2> QED BY <2>2, <2>3 DEF BindingHolds, DueInv, IsDue
<1>2. QED BY <1>1, DueInvariant, PTL DEF Spec, ClaimedWhenDueAndBound

\* An orphaned claim is never routed, and its profile claims nothing in
\* another session.
THEOREM OrphanBlocksHolds == Spec => OrphanBlocks
<1>1. Shape /\ OwnProfile /\ DueInv /\ [Next]_vars =>
        \A c \in Orphans :
            /\ StatusSet(c) = {} => StatusSet(c)' = {}
            /\ \A d \in ClaimStep : d.profile = c.profile => d.effective = c.effective
  <2> SUFFICES ASSUME Shape, OwnProfile, DueInv, [Next]_vars, NEW c \in Orphans
               PROVE  /\ StatusSet(c) = {} => StatusSet(c)' = {}
                      /\ \A d \in ClaimStep : d.profile = c.profile => d.effective = c.effective
    OBVIOUS
  <2>1. c \in Command /\ state[c] = "CLAIMED" /\ \A w \in Worker : ~HeldBy(w, c)
    BY DEF Orphans
  <2>2. ASSUME StatusSet(c) = {} PROVE StatusSet(c)' = {}
    <3>1. \A n \in Slot : ~IsOpen(orders[c][n])
      BY <2>2 DEF StatusSet, IsOpen
    <3>2. \A w \in Worker : ~(pc[w] = "route" /\ cmd[w] = c)
      BY <2>1 DEF HeldBy
    <3> QED BY <2>1, <2>2, <3>1, <3>2, StatusWrites
  <2>3. ASSUME NEW d \in ClaimStep, d.profile = c.profile PROVE d.effective = c.effective
    <3>1. d \in Command /\ state[d] = "QUEUED" /\ state'[d] = "CLAIMED"
      BY DEF ClaimStep
    <3>2. PICK w \in Worker : Claim(w) /\ cmd[w] = d
      BY <3>1, StoreWrites DEF CanFollow, Reconcilable
    <3>3. pc[w] = "claim" /\ d.profile = ProfileOf[w] /\ d.effective = session
      BY <3>1, <3>2, NoCommandAssumption DEF Claim, OwnProfile, DueInv, IsDue
    <3> QED BY <2>1, <2>3, <3>3 DEF DueInv, IsDue, Active
  <2> QED BY <2>2, <2>3
<1>2. QED BY <1>1, DueInvariant, PTL DEF Spec, OrphanBlocks

-----------------------------------------------------------------------------
(* A claimed command has one holder.                                       *)

\* The holders after a step held the command before, or have just claimed it.
LEMMA Holders ==
    ASSUME Shape, DueInv, [Next]_vars, NEW w \in Worker, Holds(w)'
    PROVE  \/ /\ Holds(w) /\ cmd'[w] = cmd[w] /\ (acks'[w] = acks[w] \/ Route(w))
              /\ pc'[w] # "append" => pc[w] # "append"
           \/ Claim(w) /\ cmd' = cmd /\ state[cmd[w]] = "QUEUED" /\ pc'[w] = "gate"
<1>0. TypeOK /\ HasDecision
  BY DEF Shape
<1>1. ASSUME Keeps(w)
      PROVE  Holds(w) /\ cmd'[w] = cmd[w] /\ acks'[w] = acks[w] /\ pc'[w] = pc[w]
  BY <1>1 DEF Keeps, Holds
<1>2. CASE Start(w) \/ StartDirect(w)
  BY <1>0, <1>2 DEF Start, StartDirect, GoTo, TypeOK, Holds, Holding
<1>3. CASE Observe(w) \/ Reconcile(w)
  BY <1>3 DEF Observe, Reconcile, Holds
<1>4. ASSUME NEW t \in Target, Mint(w, t) PROVE FALSE
  <2>1. view[w] \union {Minted(w, t)} \in SUBSET Command
    BY <1>0, MintedType DEF TypeOK
  <2>2. Select(w, view[w] \union {Minted(w, t)}, state')
    BY <1>4 DEF Mint
  <2>3. pc'[w] \in {"report", "claim"}
    BY <2>1, <2>2, SelectedIsDue
  <2> QED BY <2>3 DEF Holds, Holding
<1>5. ASSUME NoMint(w) PROVE FALSE
  <2>1. pc'[w] = "report" \/ Select(w, view[w], state)
    BY <1>0, <1>5 DEF NoMint, GoTo, TypeOK
  <2>2. pc'[w] \in {"report", "claim"}
    BY <1>0, <2>1, SelectedIsDue DEF TypeOK
  <2> QED BY <2>2 DEF Holds, Holding
<1>6. CASE Claim(w)
  BY <1>0, <1>6 DEF Claim, GoTo, TypeOK, Holds, Holding
<1>7. CASE Route(w)
  BY <1>0, <1>7 DEF Route, GoTo, TypeOK, Holds, Holding
<1>8. CASE Settle(w)
  BY <1>0, <1>8 DEF Settle, GoTo, TypeOK, Holds, Holding
<1>9. CASE AppendOutcome(w)
  BY <1>0, <1>9 DEF AppendOutcome, GoTo, TypeOK, Holds, Holding
<1>10. CASE Quiet(w)
  BY <1>10 DEF Quiet, Holds, Holding, Carrying, Deciding
<1>11. CASE \/ \E c \in Command, n \in Slot : BrokerMoves(c, n)
            \/ NextSession
            \/ UNCHANGED <<session, state, orders, routers, pc, view, verdict, cmd, acks, next>>
  <2>1. pc' = pc /\ cmd' = cmd /\ acks' = acks
    BY <1>11 DEF BrokerMoves, NextSession, localVars
  <2> QED BY <2>1 DEF Holds
<1>12. ASSUME NEW v \in Worker, v # w, Acts(v) PROVE Keeps(w)
  BY <1>12, OthersKeep
<1> QED
  BY <1>1, <1>2, <1>3, <1>4, <1>5, <1>6, <1>7, <1>8, <1>9, <1>10, <1>11, <1>12, StepCases
     DEF Acts, Step

\* What a holder holds is written by nobody else, and stays claimed until it
\* records the outcome.
LEMMA ClaimInvariant == Spec => [](Shape /\ OwnProfile /\ DueInv /\ ClaimInv)
<1>1. Init => ClaimInv
  BY DEF Init, ClaimInv, KeepsClaim, Holds, Holding
<1>2. Shape /\ DueInv /\ ClaimInv /\ [Next]_vars => ClaimInv'
  <2> SUFFICES ASSUME Shape, DueInv, ClaimInv, [Next]_vars PROVE ClaimInv'
    OBVIOUS
  <2>0. TypeOK /\ HasDecision
    BY DEF Shape
  <2>1. ASSUME NEW w \in Worker, Holds(w)' PROVE KeepsClaim(w)'
    <3>1. CASE Claim(w) /\ cmd' = cmd /\ state[cmd[w]] = "QUEUED" /\ pc'[w] = "gate"
      BY <2>0, <3>1 DEF Claim, GoTo, HasDecision, TypeOK, KeepsClaim
    <3>2. CASE Holds(w) /\ cmd'[w] = cmd[w] /\ (pc'[w] # "append" => pc[w] # "append")
      <4> DEFINE c == cmd[w]
      <4>1. /\ c \in Command /\ state[c] \notin {"ABSENT", "QUEUED"}
            /\ pc[w] # "append" => state[c] = "CLAIMED"
        BY <2>0, <3>2 DEF ClaimInv, KeepsClaim, HasDecision, Holds, Holding
      <4>2. CASE state'[c] = state[c]
        BY <3>2, <4>1, <4>2 DEF KeepsClaim
      <4>3. ASSUME NEW v \in Worker, Reconcile(v), state[c] \in Reconcilable,
                   state'[c] = verdict[v].to, verdict[v] # NoVerdict
            PROVE  KeepsClaim(w)'
        <5>1. pc[w] = "append" /\ pc'[w] = "append"
          BY <4>1, <4>3 DEF Reconcile, Reconcilable
        <5>2. state'[c] \in Reconcilable \union Terminal
          BY <2>0, <4>3 DEF TypeOK, NoVerdictOrVerdict
        <5> QED BY <3>2, <5>1, <5>2 DEF KeepsClaim, Reconcilable, Terminal
      <4>4. ASSUME NEW v \in Worker, AppendOutcome(v), cmd[v] = c,
                   CanFollow(state[c], next[v]), state'[c] = next[v]
            PROVE  KeepsClaim(w)'
        <5>1. pc[v] = "append" /\ Holds(v)
          BY <4>4 DEF AppendOutcome, DueInv, IsDue, Holds, Holding
        <5>2. v = w
          BY <3>2, <4>4, <5>1 DEF ClaimInv
        <5>3. pc'[w] = "append"
          BY <3>2, <5>1, <5>2
        <5>4. next[v] \notin {"ABSENT", "QUEUED"}
          BY <4>4 DEF CanFollow, Reconcilable, Terminal
        <5> QED BY <3>2, <4>4, <5>3, <5>4 DEF KeepsClaim
      <4> QED BY <4>1, <4>2, <4>3, <4>4, StoreWrites
    <3> QED BY <2>1, <3>1, <3>2, Holders
  <2>2. ASSUME NEW w \in Worker, NEW v \in Worker, Holds(w)', Holds(v)', w # v
        PROVE  cmd'[w] # cmd'[v]
    <3>1. ASSUME NEW u \in Worker, NEW x \in Worker, u # x, Holds(u), Claim(x),
                 cmd' = cmd, state[cmd[x]] = "QUEUED"
          PROVE  cmd'[u] # cmd'[x]
      BY <3>1 DEF ClaimInv, KeepsClaim
    <3>2. ~(Claim(w) /\ Claim(v) /\ pc'[w] = "gate" /\ pc'[v] = "gate")
      <4>1. Claim(w) => pc'[v] = pc[v]
        BY <2>2, OthersKeep DEF Acts, Step, Keeps
      <4>2. Claim(v) => pc[v] = "claim"
        BY DEF Claim
      <4> QED BY <4>1, <4>2
    <3>3. CASE Holds(w) /\ cmd'[w] = cmd[w] /\ Holds(v) /\ cmd'[v] = cmd[v]
      BY <2>2, <3>3 DEF ClaimInv
    <3> QED BY <2>2, <3>1, <3>2, <3>3, Holders
  <2> QED BY <2>1, <2>2 DEF ClaimInv, KeepsClaim
<1>3. QED BY <1>1, <1>2, DueInvariant, PTL DEF Spec

-----------------------------------------------------------------------------
(* What is recorded is so at the broker.                                   *)

\* A command is routed while it is claimed; a direct decision, while the
\* store knows nothing of it.
LEMMA RoutedIsClaimed ==
    ASSUME Shape, OwnProfile, DueInv, ClaimInv, NEW w \in Worker, pc[w] = "route"
    PROVE  /\ cmd[w] \in Command
           /\ \/ cmd[w].profile \in Direct /\ state[cmd[w]] = "ABSENT"
              \/ cmd[w].profile \notin Direct /\ Holds(w) /\ state[cmd[w]] = "CLAIMED"
<1>1. cmd[w] \in Command
  BY DEF Shape, HasDecision
<1>2. cmd[w].profile = ProfileOf[w]
  BY <1>1, NoCommandAssumption DEF OwnProfile
<1>3. CASE ProfileOf[w] \in Direct
  BY <1>1, <1>2, <1>3 DEF DueInv, CommandsAreBound
<1>4. CASE ProfileOf[w] \notin Direct
  BY <1>1, <1>2, <1>4 DEF ClaimInv, KeepsClaim, Holds, Holding
<1> QED BY <1>1, <1>3, <1>4

\* A command that is past its claim and has no working order keeps its orders.
LEMMA Frozen ==
    ASSUME Shape, OwnProfile, DueInv, ClaimInv, [Next]_vars, NEW c \in Command,
           state[c] \in Reconcilable \union Terminal, ~Working(c)
    PROVE  ~Working(c)' /\ StatusSet(c)' = StatusSet(c)
<1>1. \A w \in Worker : ~(pc[w] = "route" /\ cmd[w] = c)
  BY RoutedIsClaimed DEF Reconcilable, Terminal
<1>2. \A n \in Slot : orders'[c][n] = orders[c][n]
  BY <1>1, OrderWrites DEF Working
<1> QED BY <1>2 DEF Working, StatusSet

\* A command past its claim stays past it.
LEMMA PastStays ==
    ASSUME Shape, [Next]_vars, NEW c \in Command, state[c] \in Reconcilable \union Terminal
    PROVE  state'[c] \in Reconcilable \union Terminal
<1>1. ASSUME NEW w \in Worker, verdict[w] # NoVerdict
      PROVE  verdict[w].to \in Reconcilable \union Terminal
  BY <1>1 DEF Shape, TypeOK, NoVerdictOrVerdict
<1> QED BY <1>1, StoreWrites DEF CanFollow, Reconcilable, Terminal

\* A verdict is what a worker observed and has not recorded yet.
LEMMA Verdicts ==
    ASSUME Shape, [Next]_vars, NEW w \in Worker, verdict'[w] # NoVerdict
    PROVE  \/ verdict'[w] = verdict[w]
           \/ /\ state' = state /\ orders' = orders
              /\ \E c \in Command :
                    /\ state[c] \in Reconcilable
                    /\ verdict'[w] = [command |-> c, from |-> state[c], to |-> Says(c)]
<1>0. TypeOK
  BY DEF Shape
<1>1. CASE Observe(w)
  <2>1. todo[w] \subseteq Command
    BY <1>0 DEF TypeOK
  <2> QED BY <1>0, <1>1, <2>1 DEF Observe, TypeOK, storeVars
<1>2. CASE Reconcile(w)
  BY <1>0, <1>2 DEF Reconcile, TypeOK
<1>3. ASSUME NEW v \in Worker, v # w, Acts(v) PROVE verdict'[w] = verdict[w]
  BY <1>3, OthersKeep DEF Keeps
<1>4. CASE Quiet(w)
  BY <1>4 DEF Quiet
<1>5. CASE Start(w) \/ StartDirect(w) \/ (\E t \in Target : Mint(w, t)) \/ NoMint(w) \/ Claim(w)
           \/ Route(w) \/ Settle(w) \/ AppendOutcome(w)
  BY <1>5 DEF Start, StartDirect, Mint, NoMint, Claim, Route, Settle, AppendOutcome
<1>6. CASE (\E c \in Command, n \in Slot : BrokerMoves(c, n)) \/ NextSession
           \/ UNCHANGED <<session, state, orders, routers, pc, view, verdict, cmd, acks, next>>
  BY <1>6 DEF BrokerMoves, NextSession, localVars
<1> QED BY <1>1, <1>2, <1>3, <1>4, <1>5, <1>6, StepCases DEF Acts, Step

\* What a worker appends next follows from its answers.
LEMMA Appending ==
    ASSUME Shape, [Next]_vars, NEW w \in Worker, pc'[w] = "append"
    PROVE  /\ acks'[w] = acks[w]
           /\ \/ pc[w] = "append" /\ next'[w] \in {next[w], NextOutcome(w, next[w])}
              \/ next'[w] \in FirstOutcome(w)
<1>0. TypeOK
  BY DEF Shape
<1>1. CASE Settle(w)
  BY <1>0, <1>1 DEF Settle, GoTo, TypeOK
<1>2. CASE AppendOutcome(w)
  BY <1>0, <1>2 DEF AppendOutcome, GoTo, TypeOK
<1>3. ASSUME NEW v \in Worker, v # w, Acts(v)
      PROVE  acks'[w] = acks[w] /\ pc[w] = "append" /\ next'[w] = next[w]
  BY <1>3, OthersKeep DEF Keeps
<1>4. ASSUME Quiet(w) PROVE FALSE
  BY <1>4 DEF Quiet, Carrying, Holding
<1>5. ASSUME Start(w) \/ StartDirect(w) \/ Observe(w) \/ Reconcile(w) \/ Claim(w) \/ Route(w)
      PROVE  FALSE
  BY <1>0, <1>5 DEF Start, StartDirect, Observe, Reconcile, Claim, Route, GoTo, TypeOK
<1>6. ASSUME NEW t \in Target, Mint(w, t) PROVE FALSE
  <2>1. view[w] \union {Minted(w, t)} \in SUBSET Command
    BY <1>0, MintedType DEF TypeOK
  <2>2. Select(w, view[w] \union {Minted(w, t)}, state')
    BY <1>6 DEF Mint
  <2> QED BY <2>1, <2>2, SelectedIsDue
<1>7. ASSUME NoMint(w) PROVE FALSE
  <2>1. pc'[w] = "report" \/ Select(w, view[w], state)
    BY <1>0, <1>7 DEF NoMint, GoTo, TypeOK
  <2> QED BY <1>0, <2>1, SelectedIsDue DEF TypeOK
<1>8. CASE (\E c \in Command, n \in Slot : BrokerMoves(c, n)) \/ NextSession
           \/ UNCHANGED <<session, state, orders, routers, pc, view, verdict, cmd, acks, next>>
  BY <1>8 DEF BrokerMoves, NextSession, localVars
<1> QED
  BY <1>1, <1>2, <1>3, <1>4, <1>5, <1>6, <1>7, <1>8, StepCases DEF Acts, Step

\* Of a command that is minted and not claimed there is no order.
UntouchedInv ==
    \A c \in Command :
        c.profile \notin Direct /\ state[c] \in {"ABSENT", "QUEUED"} => StatusSet(c) = {}

LEMMA NoOrders == ASSUME NEW c \in Command, StatusSet(c) = {}
                  PROVE  \A n \in Slot : orders[c][n] = "none"
BY DEF StatusSet

LEMMA UntouchedStep ==
    ASSUME Shape, OwnProfile, DueInv, ClaimInv, RecordInv, [Next]_vars
    PROVE  UntouchedInv'
<1> SUFFICES ASSUME NEW c \in Command, c.profile \notin Direct, state'[c] \in {"ABSENT", "QUEUED"}
             PROVE  StatusSet(c)' = {}
  BY DEF UntouchedInv
<1>1. state[c] \in {"ABSENT", "QUEUED"}
  <2>1. \A w \in Worker : verdict[w] # NoVerdict => verdict[w].to \in Reconcilable \union Terminal
    BY DEF Shape, TypeOK, NoVerdictOrVerdict
  <2> QED BY <2>1, StoreWrites DEF CanFollow, Reconcilable, Terminal
<1>2. StatusSet(c) = {}
  BY <1>1 DEF RecordInv
<1>3. \A w \in Worker : ~(pc[w] = "route" /\ cmd[w] = c)
  BY <1>1, RoutedIsClaimed
<1>4. \A n \in Slot : ~IsOpen(orders[c][n])
  BY <1>2, NoOrders DEF IsOpen
<1> QED BY <1>2, <1>3, <1>4, StatusWrites

\* The answers a holder was given describe the orders of its command.
LEMMA AnswersStep ==
    ASSUME Shape, OwnProfile, DueInv, ClaimInv, RecordInv, [Next]_vars, NEW w \in Worker
    PROVE  AnswersAreTrue(w)'
<1>0. TypeOK /\ HasDecision
  BY DEF Shape
<1> SUFFICES ASSUME Holds(w)', NEW n \in Slot
             PROVE  /\ acks'[w][n] \in {"none", "rejected"} => orders'[cmd'[w]][n] = "none"
                    /\ acks'[w][n] = "filled" => orders'[cmd'[w]][n] = "filled"
  BY DEF AnswersAreTrue
<1> DEFINE c == cmd[w]
<1>1. CASE Claim(w) /\ cmd' = cmd /\ state[c] = "QUEUED" /\ pc'[w] = "gate"
  <2>1. /\ pc[w] = "claim" /\ orders' = orders /\ acks' = acks
        /\ c \in Command /\ c.profile \notin Direct
    BY <1>0, <1>1, NoCommandAssumption DEF Claim, HasDecision, OwnProfile, DueInv, CommandsAreBound
  <2>2. acks[w] = NoAcks
    BY <1>0, <2>1 DEF HasDecision
  <2>3. orders[c][n] = "none"
    BY <1>1, <2>1, NoOrders DEF RecordInv
  <2> QED BY <1>1, <2>1, <2>2, <2>3 DEF NoAcks
<1>2. CASE Holds(w) /\ cmd'[w] = c /\ (acks'[w] = acks[w] \/ Route(w))
  <2>1. /\ c \in Command
        /\ acks[w][n] \in {"none", "rejected"} => orders[c][n] = "none"
        /\ acks[w][n] = "filled" => orders[c][n] = "filled"
    BY <1>0, <1>2 DEF HasDecision, Holds, Holding, RecordInv, AnswersAreTrue
  <2>2. CASE Route(w)
    <3>1. PICK m \in Slot, a \in Answer :
              acks' = [acks EXCEPT ![w][m] = a[1]] /\ orders' = [orders EXCEPT ![c][m] = a[2]]
      BY <2>2 DEF Route
    <3>2. CASE n = m
      <4>1. acks'[w][n] = a[1] /\ orders'[c][n] = a[2]
        BY <1>0, <2>1, <3>1, <3>2 DEF TypeOK
      <4> QED BY <1>2, <4>1 DEF Answer
    <3>3. CASE n # m
      <4>1. acks'[w][n] = acks[w][n] /\ orders'[c][n] = orders[c][n]
        BY <1>0, <2>1, <3>1, <3>3 DEF TypeOK
      <4> QED BY <1>2, <2>1, <4>1
    <3> QED BY <3>2, <3>3
  <2>3. CASE ~Route(w)
    <3>1. CASE orders'[c][n] = orders[c][n]
      BY <1>2, <2>1, <2>3, <3>1
    <3>2. ASSUME NEW v \in Worker, Route(v), pc[v] = "route", cmd[v] = c PROVE FALSE
      <4>1. c.profile \notin Direct
        BY <1>2, <2>1, NoCommandAssumption DEF Holds, OwnProfile
      <4>2. Holds(v)
        BY <3>2, <4>1, RoutedIsClaimed
      <4> QED BY <1>2, <2>3, <3>2, <4>2 DEF ClaimInv
    <3>3. CASE IsOpen(orders[c][n])
      BY <1>2, <2>1, <2>3, <3>3 DEF IsOpen
    <3> QED BY <2>1, <3>1, <3>2, <3>3, OrderWrites
  <2> QED BY <2>2, <2>3
<1> QED BY <1>1, <1>2, Holders

\* A worker records an end only of a command whose answers say so.
LEMMA NextStep ==
    ASSUME Shape, RecordInv, [Next]_vars, NEW w \in Worker
    PROVE  NextIsTrue(w)'
<1> SUFFICES ASSUME pc'[w] = "append"
             PROVE  /\ next'[w] \in {"CANCELLED", "REJECTED"} => Pending(w)' = {}
                    /\ next'[w] = "FILLED" => Pending(w)' = {"filled"}
  BY DEF NextIsTrue
<1>1. Pending(w)' = Pending(w)
  BY Appending DEF Pending
<1>2. CASE next'[w] \in FirstOutcome(w)
  BY <1>1, <1>2 DEF FirstOutcome
<1>3. CASE pc[w] = "append" /\ next'[w] \in {next[w], NextOutcome(w, next[w])}
  BY <1>1, <1>3 DEF NextOutcome, RecordInv, NextIsTrue
<1> QED BY <1>2, <1>3, Appending

\* What a worker concluded of a command stays true until it writes it.
LEMMA VerdictStep ==
    ASSUME Shape, OwnProfile, DueInv, ClaimInv, RecordInv, [Next]_vars, NEW w \in Worker
    PROVE  VerdictIsTrue(w)'
<1> SUFFICES ASSUME verdict'[w] # NoVerdict, NEW c, c = verdict'[w].command
             PROVE  /\ state'[c] \in Reconcilable \union Terminal
                    /\ verdict'[w].to \in Terminal => ~Working(c)'
                    /\ verdict'[w].to = "FILLED" => StatusSet(c)' = {"filled"}
  BY DEF VerdictIsTrue, Working, StatusSet
<1>1. CASE verdict'[w] = verdict[w]
  <2>1. c \in Command
    BY <1>1 DEF Shape, TypeOK, NoVerdictOrVerdict
  <2>2. /\ state[c] \in Reconcilable \union Terminal
        /\ verdict[w].to \in Terminal => ~Working(c)
        /\ verdict[w].to = "FILLED" => StatusSet(c) = {"filled"}
    BY <1>1 DEF RecordInv, VerdictIsTrue
  <2>3. /\ state'[c] \in Reconcilable \union Terminal
        /\ verdict[w].to \in Terminal => ~Working(c)'
        /\ verdict[w].to = "FILLED" => StatusSet(c)' = {"filled"}
    BY <2>1, <2>2, PastStays, Frozen DEF Terminal
  <2> QED BY <1>1, <2>3
<1>2. CASE /\ state' = state /\ orders' = orders
           /\ c \in Command /\ state[c] \in Reconcilable
           /\ verdict'[w] = [command |-> c, from |-> state[c], to |-> Says(c)]
  <2>1. Says(c) \in Terminal => StatusSet(c) \subseteq {"filled", "dead"}
    BY <1>2 DEF Says, Terminal, Reconcilable
  <2>2. Says(c) = "FILLED" => StatusSet(c) = {"filled"}
    BY <1>2 DEF Says, Reconcilable
  <2>3. StatusSet(c) \subseteq {"filled", "dead"} => ~Working(c)
    BY DEF StatusSet, Working, IsOpen
  <2>4. (Working(c)' <=> Working(c)) /\ StatusSet(c)' = StatusSet(c)
    BY <1>2 DEF Working, StatusSet
  <2>5. verdict'[w].to = Says(c)
    BY <1>2
  <2>6. verdict'[w].to \in Terminal => ~Working(c)'
    BY <2>1, <2>3, <2>4, <2>5
  <2>7. verdict'[w].to = "FILLED" => StatusSet(c)' = {"filled"}
    BY <2>2, <2>4, <2>5
  <2> QED BY <1>2, <2>6, <2>7
<1>3. CASE /\ state' = state /\ orders' = orders
           /\ \E d \in Command :
                 /\ state[d] \in Reconcilable
                 /\ verdict'[w] = [command |-> d, from |-> state[d], to |-> Says(d)]
  <2>1. PICK d \in Command :
            /\ state[d] \in Reconcilable
            /\ verdict'[w] = [command |-> d, from |-> state[d], to |-> Says(d)]
    BY <1>3
  <2>2. c = d
    BY <2>1
  <2> QED BY <1>2, <1>3, <2>1, <2>2
<1> QED BY <1>1, <1>3, Verdicts

\* A holder without pending answers has no order; with filled answers only,
\* all its orders are filled.
LEMMA PendingOrders ==
    ASSUME Shape, RecordInv, NEW w \in Worker, Holds(w)
    PROVE  /\ Pending(w) = {} => StatusSet(cmd[w]) = {}
           /\ Pending(w) = {"filled"} => StatusSet(cmd[w]) = {"filled"}
<1>0. AnswersAreTrue(w)
  BY DEF RecordInv
<1>1. ASSUME Pending(w) = {} PROVE StatusSet(cmd[w]) = {}
  <2>1. \A n \in Slot : acks[w][n] \in {"none", "rejected"}
    BY <1>1 DEF Pending
  <2> QED BY <1>0, <2>1 DEF AnswersAreTrue, StatusSet
<1>2. ASSUME Pending(w) = {"filled"} PROVE StatusSet(cmd[w]) = {"filled"}
  <2>1. \A n \in Slot : acks[w][n] \in {"none", "rejected", "filled"}
    BY <1>2 DEF Pending
  <2>2. \E n \in Slot : acks[w][n] = "filled"
    BY <1>2 DEF Pending
  <2>3. \A n \in Slot : orders[cmd[w]][n] \in {"none", "filled"}
    BY <1>0, <2>1 DEF AnswersAreTrue
  <2>4. \E n \in Slot : orders[cmd[w]][n] = "filled"
    BY <1>0, <2>2 DEF AnswersAreTrue
  <2> QED BY <2>3, <2>4 DEF StatusSet
<1> QED BY <1>1, <1>2

\* A command's end is recorded when its orders have ended.
LEMMA EndStep ==
    ASSUME Shape, OwnProfile, DueInv, ClaimInv, RecordInv, [Next]_vars,
           NEW c \in Command, state'[c] \in Terminal
    PROVE  /\ state[c] \in Reconcilable \union Terminal \/ (state[c] = "CLAIMED" /\ orders' = orders)
           /\ ~Working(c)
           /\ state'[c] = "FILLED" => StatusSet(c) = {"filled"}
<1>1. CASE state'[c] = state[c]
  BY <1>1 DEF RecordInv, EndedHasNoWorkingOrder, FilledIsFilled
<1>2. ASSUME NEW w \in Worker, Reconcile(w), state[c] \in Reconcilable,
             verdict[w] # NoVerdict, verdict[w].command = c, state'[c] = verdict[w].to
      PROVE  ~Working(c) /\ (state'[c] = "FILLED" => StatusSet(c) = {"filled"})
  BY <1>2 DEF RecordInv, VerdictIsTrue
<1>3. ASSUME NEW w \in Worker, AppendOutcome(w), cmd[w] = c,
             CanFollow(state[c], next[w]), state'[c] = next[w]
      PROVE  /\ state[c] \in Reconcilable \/ (state[c] = "CLAIMED" /\ orders' = orders)
             /\ ~Working(c) /\ (state'[c] = "FILLED" => StatusSet(c) = {"filled"})
  <2>1. pc[w] = "append" /\ Holds(w)
    BY <1>3 DEF AppendOutcome, DueInv, IsDue, Holds, Holding
  <2>2. /\ Pending(w) = {} => StatusSet(c) = {}
        /\ Pending(w) = {"filled"} => StatusSet(c) = {"filled"}
    BY <1>3, <2>1, PendingOrders
  <2>3. \/ state'[c] = "FILLED" /\ Pending(w) = {"filled"}
        \/ state'[c] \in {"CANCELLED", "REJECTED"} /\ Pending(w) = {}
    BY <1>3, <2>1 DEF RecordInv, NextIsTrue, Terminal
  <2>4. StatusSet(c) \in {{}, {"filled"}} => ~Working(c)
    BY DEF Working, StatusSet, IsOpen
  <2>5. state[c] \in Reconcilable \/ (state[c] = "CLAIMED" /\ orders' = orders)
    BY <1>3 DEF CanFollow, AppendOutcome
  <2> QED BY <2>2, <2>3, <2>4, <2>5
<1> QED BY <1>1, <1>2, <1>3, StoreWrites DEF Terminal

\* What the store, the answers and the verdicts say is so at the broker.
LEMMA RecordInvariant ==
    Spec => [](Shape /\ OwnProfile /\ DueInv /\ ClaimInv /\ RecordInv)
<1>1. Init => RecordInv
  <2> SUFFICES ASSUME Init PROVE RecordInv
    OBVIOUS
  <2>1. \A c \in Command : StatusSet(c) = {} /\ state[c] = "ABSENT"
    BY DEF Init, StatusSet
  <2>2. \A w \in Worker : AnswersAreTrue(w) /\ NextIsTrue(w) /\ VerdictIsTrue(w)
    BY DEF Init, AnswersAreTrue, NextIsTrue, VerdictIsTrue, Holds, Holding
  <2> QED BY <2>1, <2>2 DEF RecordInv, EndedHasNoWorkingOrder, FilledIsFilled, Terminal
<1>2. Shape /\ OwnProfile /\ DueInv /\ ClaimInv /\ RecordInv /\ [Next]_vars => RecordInv'
  <2> SUFFICES ASSUME Shape, OwnProfile, DueInv, ClaimInv, RecordInv, [Next]_vars
               PROVE  RecordInv'
    OBVIOUS
  <2>1. ASSUME NEW c \in Command, state'[c] \in Terminal
        PROVE  ~Working(c)' /\ (state'[c] = "FILLED" => StatusSet(c)' = {"filled"})
    <3>1. ~Working(c) /\ (state'[c] = "FILLED" => StatusSet(c) = {"filled"})
      BY <2>1, EndStep
    <3>2. CASE state[c] \in Reconcilable \union Terminal
      BY <3>1, <3>2, Frozen
    <3>3. CASE orders' = orders
      BY <3>1, <3>3 DEF Working, StatusSet
    <3> QED BY <2>1, <3>2, <3>3, EndStep
  <2>2. EndedHasNoWorkingOrder'
    BY <2>1 DEF EndedHasNoWorkingOrder
  <2>3. FilledIsFilled'
    BY <2>1 DEF FilledIsFilled, Terminal
  <2>4. \A w \in Worker : (AnswersAreTrue(w) /\ NextIsTrue(w) /\ VerdictIsTrue(w))'
    BY AnswersStep, NextStep, VerdictStep
  <2> QED BY <2>2, <2>3, <2>4, UntouchedStep DEF RecordInv, UntouchedInv
<1>3. QED BY <1>1, <1>2, ClaimInvariant, PTL DEF Spec

\* A command recorded as filled was filled at the broker, order by order.
THEOREM FilledIsFilledHolds == Spec => []FilledIsFilled
BY RecordInvariant, PTL DEF RecordInv

-----------------------------------------------------------------------------
(* One decision of a profile works at a time.                              *)

Settled == Shape /\ OwnProfile /\ DueInv /\ ClaimInv /\ RecordInv /\ MarkerFence

LEMMA SettledInvariant == Spec => []Settled
BY RecordInvariant, MarkerFenceHolds, PTL DEF Settled, FenceInv

\* A worker that has routed is the one that routed before.
LEMMA Routers ==
    ASSUME Shape, [Next]_vars, NEW w \in Worker, pc'[w] = "route", acks'[w] # NoAcks
    PROVE  \/ Route(w)
           \/ pc[w] = "route" /\ acks'[w] = acks[w] /\ cmd'[w] = cmd[w]
<1>0. TypeOK /\ HasDecision
  BY DEF Shape
<1>1. ASSUME NEW v \in Worker, v # w, Acts(v)
      PROVE  pc[w] = "route" /\ acks'[w] = acks[w] /\ cmd'[w] = cmd[w]
  BY <1>1, OthersKeep DEF Keeps
<1>2. ASSUME Quiet(w) PROVE FALSE
  BY <1>2 DEF Quiet
<1>3. ASSUME Start(w) \/ StartDirect(w) \/ Observe(w) \/ Reconcile(w) \/ Claim(w) \/ Settle(w)
             \/ AppendOutcome(w)
      PROVE  FALSE
  BY <1>0, <1>3 DEF Start, StartDirect, Observe, Reconcile, Claim, Settle, AppendOutcome,
     GoTo, TypeOK, HasDecision
<1>4. ASSUME NEW t \in Target, Mint(w, t) PROVE FALSE
  <2>1. view[w] \union {Minted(w, t)} \in SUBSET Command
    BY <1>0, MintedType DEF TypeOK
  <2>2. Select(w, view[w] \union {Minted(w, t)}, state')
    BY <1>4 DEF Mint
  <2> QED BY <2>1, <2>2, SelectedIsDue
<1>5. ASSUME NoMint(w) PROVE FALSE
  <2>1. pc'[w] = "report" \/ Select(w, view[w], state)
    BY <1>0, <1>5 DEF NoMint, GoTo, TypeOK
  <2> QED BY <1>0, <2>1, SelectedIsDue DEF TypeOK
<1>6. CASE (\E c \in Command, n \in Slot : BrokerMoves(c, n)) \/ NextSession
           \/ UNCHANGED <<session, state, orders, routers, pc, view, verdict, cmd, acks, next>>
  BY <1>6 DEF BrokerMoves, NextSession, localVars
<1> QED BY <1>1, <1>2, <1>3, <1>4, <1>5, <1>6, StepCases DEF Acts, Step

\* What routing writes, and what it leaves alone.
LEMMA RouteWrites ==
    ASSUME Shape, NEW w \in Worker, Route(w)
    PROVE  /\ pc[w] = "route" /\ cmd[w] \in Command /\ KeyOf(cmd[w]) \in Key
           /\ cmd' = cmd /\ state' = state /\ acks'[w] # NoAcks
           /\ routers'[KeyOf(cmd[w])] =
                 IF acks[w] = NoAcks THEN routers[KeyOf(cmd[w])] + 1 ELSE routers[KeyOf(cmd[w])]
           /\ \A k \in Key : k # KeyOf(cmd[w]) => routers'[k] = routers[k]
           /\ \A c \in Command : c # cmd[w] => orders'[c] = orders[c]
           /\ \A v \in Worker : v # w => pc'[v] = pc[v] /\ acks'[v] = acks[v]
<1> DEFINE k == KeyOf(cmd[w])
<1>0. TypeOK /\ HasDecision
  BY DEF Shape
<1>1. PICK n \in Slot, a \in Answer :
          /\ pc[w] = "route" /\ acks[w][n] = "none"
          /\ acks' = [acks EXCEPT ![w][n] = a[1]]
          /\ orders' = [orders EXCEPT ![cmd[w]][n] = a[2]]
          /\ routers' = [routers EXCEPT ![k] = IF acks[w] = NoAcks THEN @ + 1 ELSE @]
          /\ cmd' = cmd /\ state' = state
  BY DEF Route, storeVars
<1>2. cmd[w] \in Command /\ k \in Key
  BY <1>0, <1>1, KeyOfType DEF HasDecision
<1>3. acks'[w] # NoAcks
  BY <1>0, <1>1 DEF TypeOK, NoAcks, Answer
<1>4. /\ routers'[k] = IF acks[w] = NoAcks THEN routers[k] + 1 ELSE routers[k]
      /\ \A j \in Key : j # k => routers'[j] = routers[j]
  BY <1>0, <1>1, <1>2 DEF TypeOK
<1>5. \A c \in Command : c # cmd[w] => orders'[c] = orders[c]
  BY <1>0, <1>1 DEF TypeOK
<1>6. \A v \in Worker : v # w => pc'[v] = pc[v] /\ acks'[v] = acks[v]
  BY OthersKeep DEF Acts, Step, Keeps
<1> QED BY <1>1, <1>2, <1>3, <1>4, <1>5, <1>6

\* Nothing else counts as routing.
LEMMA RoutersKept ==
    ASSUME Shape, [Next]_vars, \A w \in Worker : ~Route(w)
    PROVE  routers' = routers
<1>1. ASSUME NEW w \in Worker,
             Start(w) \/ StartDirect(w) \/ Observe(w) \/ Reconcile(w)
             \/ (\E t \in Target : Mint(w, t)) \/ NoMint(w) \/ Claim(w) \/ Settle(w)
             \/ AppendOutcome(w) \/ Quiet(w)
      PROVE  routers' = routers
  BY <1>1 DEF Start, StartDirect, Observe, Reconcile, Mint, NoMint, Claim, Settle,
     AppendOutcome, Quiet
<1>2. CASE (\E c \in Command, n \in Slot : BrokerMoves(c, n)) \/ NextSession
  BY <1>2 DEF BrokerMoves, NextSession
<1> QED BY <1>1, <1>2, StepCases

\* A decision that has orders was routed, and stays so.
LEMMA RoutedStays ==
    ASSUME Shape, [Next]_vars, NEW k \in Key
    PROVE  routers[k] # 0 => routers'[k] # 0
<1>1. routers[k] \in Nat
  BY DEF Shape, TypeOK
<1>2. ASSUME NEW w \in Worker, Route(w) PROVE routers'[k] \in {routers[k], routers[k] + 1}
  <2>1. /\ KeyOf(cmd[w]) \in Key
        /\ routers'[KeyOf(cmd[w])] =
              IF acks[w] = NoAcks THEN routers[KeyOf(cmd[w])] + 1 ELSE routers[KeyOf(cmd[w])]
        /\ \A j \in Key : j # KeyOf(cmd[w]) => routers'[j] = routers[j]
    BY <1>2, RouteWrites
  <2> QED BY <2>1
<1> QED BY <1>1, <1>2, RoutersKept

\* Orders appear by routing only.
LEMMA OrdersAppear ==
    ASSUME Shape, [Next]_vars, NEW c \in Command, StatusSet(c)' # {}, StatusSet(c) = {}
    PROVE  \E w \in Worker : Route(w) /\ cmd[w] = c
<1>1. \A n \in Slot : ~IsOpen(orders[c][n])
  BY NoOrders DEF IsOpen
<1> QED BY <1>1, StatusWrites

LEMMA WorkingAppears ==
    ASSUME Shape, [Next]_vars, NEW c \in Command, Working(c)', ~Working(c)
    PROVE  \E w \in Worker : Route(w) /\ cmd[w] = c
<1>1. PICK n \in Slot : IsOpen(orders'[c][n])
  BY DEF Working
<1>2. ~IsOpen(orders[c][n])
  BY DEF Working
<1> QED BY <1>1, <1>2, OrderWrites

\* While a command of a durable profile is routed, what is active of the
\* profile is that session's.
LEMMA SameKey ==
    ASSUME Settled, NEW w \in Worker, pc[w] = "route", NEW d \in Command, Active(d),
           d.profile \notin Direct, d.profile = cmd[w].profile
    PROVE  KeyOf(d) = KeyOf(cmd[w])
<1> DEFINE c == cmd[w]
<1>0. Shape /\ HasDecision /\ OwnProfile /\ DueInv /\ ClaimInv
  BY DEF Settled, Shape
<1>1. c \in Command /\ Holds(w) /\ state[c] = "CLAIMED"
  BY <1>0, RoutedIsClaimed
<1>2. c.effective = session /\ c.profile = ProfileOf[w]
  BY <1>0, <1>1, NoCommandAssumption DEF DueInv, IsDue, Holding, OwnProfile
<1>3. d.effective = session
  BY <1>0, <1>1, <1>2 DEF DueInv, IsDue
<1>4. c.effective = c.signal + 1 /\ d.effective = d.signal + 1
  BY <1>0, <1>1 DEF DueInv, CommandsAreBound, Active, Reconcilable
<1>5. c.signal \in Nat /\ d.signal \in Nat
  BY <1>1, LiveAssumption DEF Command, Session
<1> QED BY <1>2, <1>3, <1>4, <1>5 DEF KeyOf

\* No other command of the profile works meanwhile.
LEMMA OnlyOwnWorks ==
    ASSUME Settled, TradeInv, NEW w \in Worker, pc[w] = "route", NEW d \in Command,
           d.profile \notin Direct, d.profile = cmd[w].profile, Working(d)
    PROVE  d = cmd[w] /\ acks[w] # NoAcks
<1>0. TypeOK /\ HasDecision /\ RecordInv /\ MarkerFence
  BY DEF Settled, Shape
<1>1. StatusSet(d) # {}
  BY DEF Working, StatusSet, IsOpen
<1>2. state[d] \in CommandState \ ({"ABSENT", "QUEUED"} \union Terminal)
  BY <1>0, <1>1 DEF TypeOK, RecordInv, EndedHasNoWorkingOrder
<1>3. Active(d)
  BY <1>2 DEF Active, CommandState
<1>4. KeyOf(d) = KeyOf(cmd[w]) /\ cmd[w] \in Command
  BY <1>0, <1>3, SameKey DEF HasDecision
<1>5. acks[w] # NoAcks
  BY <1>0, <1>1, <1>4 DEF MarkerFence, TradeInv
<1> QED BY <1>1, <1>4, <1>5 DEF TradeInv

\* The decision a cycle starts to route has no order and has never been routed;
\* one it goes on routing has orders of its own command only.
LEMMA TradeStep == Settled /\ TradeInv /\ [Next]_vars => TradeInv'
<1> SUFFICES ASSUME Settled, TradeInv, [Next]_vars PROVE TradeInv'
  OBVIOUS
<1>0. /\ Shape /\ TypeOK /\ HasDecision /\ OwnProfile /\ DueInv /\ ClaimInv
      /\ RecordInv /\ MarkerFence
  BY DEF Settled, Shape
<1>1. ASSUME NEW c \in Command, StatusSet(c)' # {} PROVE routers'[KeyOf(c)] # 0
  <2>1. KeyOf(c) \in Key
    BY KeyOfType
  <2>2. CASE StatusSet(c) # {}
    BY <1>0, <2>1, <2>2, RoutedStays DEF TradeInv
  <2>3. ASSUME NEW w \in Worker, Route(w), cmd[w] = c PROVE routers'[KeyOf(c)] # 0
    <3>1. routers[KeyOf(c)] \in Nat
      BY <1>0, <2>1 DEF TypeOK
    <3>2. pc[w] = "route"
          /\ routers'[KeyOf(c)] = IF acks[w] = NoAcks THEN routers[KeyOf(c)] + 1 ELSE routers[KeyOf(c)]
      BY <1>0, <2>3, RouteWrites
    <3> QED BY <2>3, <3>1, <3>2 DEF TradeInv
  <2> QED BY <1>0, <1>1, <2>2, <2>3, OrdersAppear
<1>2. ASSUME NEW w \in Worker, pc'[w] = "route", acks'[w] # NoAcks
      PROVE  /\ routers'[KeyOf(cmd'[w])] # 0
             /\ \A c \in Command : KeyOf(c) = KeyOf(cmd'[w]) /\ StatusSet(c)' # {} => c = cmd'[w]
  <2>1. CASE Route(w)
    <3>1. /\ pc[w] = "route" /\ cmd' = cmd /\ cmd[w] \in Command /\ KeyOf(cmd[w]) \in Key
          /\ routers'[KeyOf(cmd[w])] =
                IF acks[w] = NoAcks THEN routers[KeyOf(cmd[w])] + 1 ELSE routers[KeyOf(cmd[w])]
          /\ \A c \in Command : c # cmd[w] => orders'[c] = orders[c]
      BY <1>0, <2>1, RouteWrites
    <3>2. routers[KeyOf(cmd[w])] \in Nat
      BY <1>0, <3>1 DEF TypeOK
    <3>3. routers'[KeyOf(cmd[w])] # 0
      BY <3>1, <3>2 DEF TradeInv
    <3>4. ASSUME NEW c \in Command, KeyOf(c) = KeyOf(cmd[w]), c # cmd[w] PROVE StatusSet(c) = {}
      BY <1>0, <3>1, <3>4 DEF TradeInv, MarkerFence
    <3>5. ASSUME NEW c \in Command, c # cmd[w] PROVE StatusSet(c)' = StatusSet(c)
      BY <3>1, <3>5 DEF StatusSet
    <3> QED BY <3>1, <3>3, <3>4, <3>5
  <2>2. CASE ~Route(w) /\ pc[w] = "route" /\ acks'[w] = acks[w] /\ cmd'[w] = cmd[w]
    <3>1. cmd[w] \in Command /\ KeyOf(cmd[w]) \in Key
      BY <1>0, <2>2, KeyOfType DEF HasDecision
    <3>2. routers'[KeyOf(cmd[w])] # 0
      BY <1>0, <1>2, <2>2, <3>1, RoutedStays DEF TradeInv
    <3>3. ASSUME NEW c \in Command, KeyOf(c) = KeyOf(cmd[w]), StatusSet(c)' # {} PROVE c = cmd[w]
      <4>1. CASE StatusSet(c) # {}
        BY <1>2, <2>2, <3>3, <4>1 DEF TradeInv
      <4>2. ASSUME NEW v \in Worker, Route(v), cmd[v] = c PROVE FALSE
        <5>1. pc[v] = "route" /\ v # w
          BY <1>0, <2>2, <4>2, RouteWrites
        <5> QED BY <1>0, <2>2, <3>3, <4>2, <5>1 DEF MarkerFence
      <4> QED BY <1>0, <3>3, <4>1, <4>2, OrdersAppear
    <3> QED BY <2>2, <3>2, <3>3
  <2> QED BY <1>0, <1>2, <2>1, <2>2, Routers
<1>3. ASSUME NEW w \in Worker, Route(w), NEW d \in Command, d.profile \notin Direct,
             d.profile = cmd[w].profile, Working(d)
      PROVE  d = cmd[w]
  BY <1>0, <1>3, RouteWrites, OnlyOwnWorks
<1>4. OneWorkingDecision'
  <2> SUFFICES ASSUME NEW c \in Command, NEW d \in Command, c.profile \notin Direct,
                      Working(c)', Working(d)', c.profile = d.profile
               PROVE  c = d
    BY DEF OneWorkingDecision, Working
  <2>1. CASE Working(c) /\ Working(d)
    BY <2>1 DEF TradeInv, OneWorkingDecision
  <2>2. ASSUME NEW w \in Worker, Route(w), NEW x \in Command, x # cmd[w], Working(x)'
        PROVE  Working(x)
    BY <1>0, <2>2, RouteWrites DEF Working
  <2>3. CASE ~Working(c)
    BY <1>0, <1>3, <2>2, <2>3, WorkingAppears
  <2>4. CASE ~Working(d)
    BY <1>0, <1>3, <2>2, <2>4, WorkingAppears
  <2> QED BY <2>1, <2>3, <2>4
<1> QED BY <1>1, <1>2, <1>4 DEF TradeInv, StatusSet

LEMMA TradeInvariant == Spec => [](Settled /\ TradeInv)
<1>1. Init => TradeInv
  <2> SUFFICES ASSUME Init PROVE TradeInv
    OBVIOUS
  <2>1. \A c \in Command : StatusSet(c) = {} /\ ~Working(c)
    BY DEF Init, StatusSet, Working, IsOpen
  <2> QED BY <2>1 DEF Init, TradeInv, OneWorkingDecision
<1>2. QED BY <1>1, TradeStep, SettledInvariant, PTL DEF Spec

\* One command of a profile is settled, at the broker and in the record, before
\* the next one works.
THEOREM SettledBeforeNextHolds == Spec => []SettledBeforeNext
<1>1. Settled /\ TradeInv => SettledBeforeNext
  BY DEF Settled, RecordInv, TradeInv, SettledBeforeNext
<1> QED BY <1>1, TradeInvariant, PTL

-----------------------------------------------------------------------------
(* The refinement of DecisionBook.                                         *)

\* What may carry a decision.
CommandOf(k, t, r) ==
    [profile |-> k.profile, signal |-> k.signal, effective |-> k.effective,
     target |-> t, release |-> r]

LEMMA KeyCommands ==
    ASSUME NEW k \in Key
    PROVE  /\ \A t \in Target, r \in Release : CommandOf(k, t, r) \in Command
                                               /\ KeyOf(CommandOf(k, t, r)) = k
           /\ \A c \in Command : KeyOf(c) = k =>
                  c.target \in Target /\ c.release \in Release /\ c = CommandOf(k, c.target, c.release)
BY DEF CommandOf, Command, Key, KeyOf

\* A decision is worked while a cycle routes it or an order of it is open.
Works(k) ==
    \/ \E w \in Worker : pc[w] = "route" /\ acks[w] # NoAcks /\ KeyOf(cmd[w]) = k
    \/ \E c \in Command : KeyOf(c) = k /\ Working(c)

LEMMA WorkedIs ==
    ASSUME NEW k \in Key
    PROVE  (Worked(k) <=> Works(k)) /\ (Worked(k)' <=> Works(k)')
<1>1. (\E c \in Command : KeyOf(c) = k /\ Working(c))
        <=> \E t \in Target, r \in Release : Working(CommandOf(k, t, r))
  BY KeyCommands
<1>2. (\E c \in Command : KeyOf(c) = k /\ Working(c)')
        <=> \E t \in Target, r \in Release : Working(CommandOf(k, t, r))'
  BY KeyCommands
<1>3. Worked(k) <=> Works(k)
  BY <1>1 DEF Worked, Works, CommandOf
<1>4. Worked(k)' <=> Works(k)'
  BY <1>2 DEF Worked, Works, CommandOf
<1> QED BY <1>3, <1>4

LEMMA BookInit == Init => Book!Init
<1> SUFFICES ASSUME Init PROVE Book!Init
  OBVIOUS
<1>1. \A k \in DurableKey : BookEntry(k) = "unrouted"
  BY DEF Init, BookEntry, DurableKey
<1> QED BY <1>1 DEF Book!Init

\* A worker that routes nothing leaves the orders alone; the world moves the
\* orders of one command and no worker.
LEMMA OrdersKept ==
    ASSUME Shape, NEW w \in Worker, Acts(w), ~Route(w)
    PROVE  orders' = orders
BY DEF Acts, Step, Start, StartDirect, Observe, Reconcile, Reconciled, Mint, MintBlocked, NoMint,
   Claim, Gate, OwnerClaim, MarkerClaim, OrdersDone, Settle, AppendOutcome, Report, Crash

\* Without a routing, nothing begins to be worked.
LEMMA WorkedEarlier ==
    ASSUME Shape, [Next]_vars, \A w \in Worker : ~Route(w), NEW k \in Key, Worked(k)'
    PROVE  Worked(k)
<1>1. \/ \E w \in Worker : pc'[w] = "route" /\ acks'[w] # NoAcks /\ KeyOf(cmd'[w]) = k
      \/ \E c \in Command : KeyOf(c) = k /\ Working(c)'
  BY WorkedIs DEF Works
<1>2. ASSUME NEW w \in Worker, pc'[w] = "route", acks'[w] # NoAcks, KeyOf(cmd'[w]) = k
      PROVE  pc[w] = "route" /\ acks[w] # NoAcks /\ KeyOf(cmd[w]) = k
  BY <1>2, Routers
<1>3. ASSUME NEW c \in Command, Working(c)' PROVE Working(c)
  BY <1>3, WorkingAppears
<1> QED BY <1>1, <1>2, <1>3, WorkedIs DEF Works

\* And at most one decision ceases to be worked.
LEMMA WorkedLater ==
    ASSUME Shape, [Next]_vars, \A w \in Worker : ~Route(w)
    PROVE  \E k : \A j \in Key : j # k /\ Worked(j) => Worked(j)'
<1>1. ASSUME NEW w \in Worker, Acts(w), NEW j \in Key, j # KeyOf(cmd[w]), Worked(j)
      PROVE  Worked(j)'
  <2>1. orders' = orders
    BY <1>1, OrdersKept
  <2>2. ASSUME NEW v \in Worker, pc[v] = "route", acks[v] # NoAcks, KeyOf(cmd[v]) = j
        PROVE  pc'[v] = "route" /\ acks'[v] # NoAcks /\ KeyOf(cmd'[v]) = j
    BY <1>1, <2>2, OthersKeep DEF Keeps
  <2>3. ASSUME NEW c \in Command, Working(c) PROVE Working(c)'
    BY <2>1, <2>3 DEF Working
  <2> QED BY <1>1, <2>2, <2>3, WorkedIs DEF Works
<1>2. ASSUME NEW c \in Command, NEW n \in Slot, BrokerMoves(c, n),
             NEW j \in Key, j # KeyOf(c), Worked(j)
      PROVE  Worked(j)'
  <2>1. pc' = pc /\ acks' = acks /\ cmd' = cmd
    BY <1>2 DEF BrokerMoves, localVars
  <2>2. \A d \in Command : d # c => orders'[d] = orders[d]
    BY <1>2 DEF BrokerMoves, Shape, TypeOK
  <2>3. \A d \in Command : KeyOf(d) = j /\ Working(d) => Working(d)'
    BY <1>2, <2>2 DEF Working
  <2> QED BY <1>2, <2>1, <2>3, WorkedIs DEF Works
<1>3. ASSUME NextSession \/ (\E r \in Release : Deploy(r)) \/ UNCHANGED vars,
             NEW j \in Key, Worked(j)
      PROVE  Worked(j)'
  <2>1. orders' = orders /\ pc' = pc /\ acks' = acks /\ cmd' = cmd
    BY <1>3 DEF NextSession, Deploy, vars, localVars
  <2>2. \A d \in Command : Working(d)' <=> Working(d)
    BY <2>1 DEF Working
  <2> QED BY <1>3, <2>1, <2>2, WorkedIs DEF Works
<1> QED BY <1>1, <1>2, <1>3 DEF Next, Acts

\* A routing concerns the decision that is routed only.
LEMMA RouteElsewhere ==
    ASSUME Shape, NEW w \in Worker, Route(w), NEW j \in Key, j # KeyOf(cmd[w])
    PROVE  BookEntry(j)' = BookEntry(j)
<1>1. /\ routers'[j] = routers[j] /\ cmd' = cmd
      /\ \A c \in Command : c # cmd[w] => orders'[c] = orders[c]
      /\ \A v \in Worker : v # w => pc'[v] = pc[v] /\ acks'[v] = acks[v]
  BY RouteWrites
<1>2. \A v \in Worker : KeyOf(cmd[v]) = j => pc'[v] = pc[v] /\ acks'[v] = acks[v]
  BY <1>1
<1>3. \A c \in Command : KeyOf(c) = j => (Working(c)' <=> Working(c))
  BY <1>1 DEF Working
<1>4. Works(j)' <=> Works(j)
  BY <1>1, <1>2, <1>3 DEF Works
<1> QED BY <1>1, <1>4, WorkedIs DEF BookEntry

\* The first routing opens a decision that was never worked, when nothing of its
\* profile is worked.
LEMMA RouteOpens ==
    ASSUME Settled, TradeInv, NEW w \in Worker, Route(w), acks[w] = NoAcks,
           NEW k \in DurableKey, k = KeyOf(cmd[w])
    PROVE  /\ BookEntry(k) = "unrouted" /\ BookEntry(k)' \in {"working", "closed"}
           /\ \A e \in DurableKey : e.profile = k.profile => BookEntry(e) # "working"
<1> DEFINE c == cmd[w]
<1>0. Shape /\ TypeOK /\ HasDecision /\ OwnProfile /\ DueInv /\ ClaimInv /\ MarkerFence
  BY DEF Settled, Shape
<1>1. /\ pc[w] = "route" /\ c \in Command /\ k \in Key /\ cmd' = cmd
      /\ routers'[k] = routers[k] + 1 /\ routers[k] = 0
  BY <1>0, RouteWrites DEF MarkerFence
<1>2. c.profile \notin Direct /\ c.profile = k.profile
  BY DEF DurableKey, KeyOf
<1>3. BookEntry(k) = "unrouted" /\ BookEntry(k)' \in {"working", "closed"}
  BY <1>1 DEF BookEntry
<1>4. ASSUME NEW e \in DurableKey, e.profile = k.profile, Worked(e) PROVE FALSE
  <2>1. e \in Key
    BY DEF DurableKey
  <2>2. ASSUME NEW v \in Worker, pc[v] = "route", acks[v] # NoAcks, KeyOf(cmd[v]) = e
        PROVE  FALSE
    <3>1. cmd[v].profile = c.profile
      BY <1>2, <1>4, <2>2 DEF KeyOf
    <3>2. cmd[v] \in Command /\ Active(cmd[v])
      BY <1>0, <1>2, <2>2, <3>1, RoutedIsClaimed DEF Active
    <3>3. KeyOf(cmd[v]) = k
      BY <1>1, <1>2, <3>1, <3>2, SameKey
    <3>4. v # w
      BY <2>2
    <3> QED BY <1>0, <1>1, <2>2, <3>3, <3>4 DEF MarkerFence
  <2>3. ASSUME NEW d \in Command, KeyOf(d) = e, Working(d) PROVE FALSE
    <3>1. d.profile = c.profile
      BY <1>2, <1>4, <2>3 DEF KeyOf
    <3> QED BY <1>1, <1>2, <2>3, <3>1, OnlyOwnWorks
  <2> QED BY <1>4, <2>1, <2>2, <2>3, WorkedIs DEF Works
<1> QED BY <1>3, <1>4 DEF BookEntry

\* A later one finds it worked.
LEMMA RouteGoesOn ==
    ASSUME Settled, TradeInv, NEW w \in Worker, Route(w), acks[w] # NoAcks,
           NEW k, k = KeyOf(cmd[w])
    PROVE  BookEntry(k) = "working" /\ BookEntry(k)' \in {"working", "closed"}
<1>1. pc[w] = "route" /\ k \in Key /\ cmd' = cmd /\ routers'[k] = routers[k] /\ routers[k] # 0
  BY RouteWrites DEF Settled, TradeInv
<1>2. Worked(k)
  BY <1>1, WorkedIs DEF Works
<1> QED BY <1>1, <1>2 DEF BookEntry

\* The book changes at one decision at a time, as DecisionBook lets it.
Turns(k) ==
    /\ \A j \in DurableKey : j # k => BookEntry(j)' = BookEntry(j)
    /\ \/ BookEntry(k) = "working" /\ BookEntry(k)' = "closed"
       \/ /\ BookEntry(k) = "unrouted" /\ BookEntry(k)' \in {"working", "closed"}
          /\ \A e \in DurableKey : e.profile = k.profile => BookEntry(e) # "working"
Stays == \A j \in DurableKey : BookEntry(j)' = BookEntry(j)

LEMMA BookTurns ==
    ASSUME Settled, TradeInv, [Next]_vars
    PROVE  Stays \/ \E k \in DurableKey : Turns(k)
<1>0. Shape /\ DurableKey \subseteq Key
  BY DEF Settled, DurableKey
<1>1. ASSUME NEW w \in Worker, Route(w) PROVE Stays \/ \E k \in DurableKey : Turns(k)
  <2>0. PICK k : k = KeyOf(cmd[w])
    OBVIOUS
  <2>1. \A j \in DurableKey : j # k => BookEntry(j)' = BookEntry(j)
    BY <1>0, <1>1, <2>0, RouteElsewhere
  <2>2. CASE k \notin DurableKey
    BY <2>1, <2>2 DEF Stays
  <2>3. CASE k \in DurableKey /\ acks[w] = NoAcks
    BY <1>1, <2>0, <2>1, <2>3, RouteOpens DEF Turns
  <2>4. CASE k \in DurableKey /\ acks[w] # NoAcks
    BY <1>1, <2>0, <2>1, <2>4, RouteGoesOn DEF Turns, Stays
  <2> QED BY <2>2, <2>3, <2>4
<1>2. ASSUME \A w \in Worker : ~Route(w) PROVE Stays \/ \E k \in DurableKey : Turns(k)
  <2>1. routers' = routers
    BY <1>0, <1>2, RoutersKept
  <2>2. \A j \in Key : Worked(j)' => Worked(j)
    BY <1>0, <1>2, WorkedEarlier
  <2>3. PICK k : \A j \in Key : j # k /\ Worked(j) => Worked(j)'
    BY <1>0, <1>2, WorkedLater
  <2>4. \A j \in DurableKey : j # k => BookEntry(j)' = BookEntry(j)
    BY <1>0, <2>1, <2>2, <2>3 DEF BookEntry
  <2>5. CASE k \notin DurableKey
    BY <2>4, <2>5 DEF Stays
  <2>6. CASE k \in DurableKey
    <3>1. BookEntry(k)' = BookEntry(k) \/ (BookEntry(k) = "working" /\ BookEntry(k)' = "closed")
      BY <1>0, <2>1, <2>2, <2>6 DEF BookEntry
    <3> QED BY <2>4, <2>6, <3>1 DEF Stays, Turns
  <2> QED BY <2>5, <2>6
<1> QED BY <1>1, <1>2

BookNow == [k \in DurableKey |-> BookEntry(k)]

\* Such a turn is a step of DecisionBook.
LEMMA TurnIsBookStep ==
    ASSUME NEW k \in DurableKey, Turns(k)
    PROVE  Book!Next
<1>1. BookNow' = [BookNow EXCEPT ![k] = BookEntry(k)']
  BY DEF BookNow, Turns
<1>2. BookNow'[k] # BookNow[k]
  BY DEF BookNow, Turns
<1>3. CASE BookEntry(k) = "working" /\ BookEntry(k)' = "closed"
  <2>1. Book!Close(k)
    BY <1>1, <1>3 DEF Book!Close, BookNow
  <2> QED BY <1>2, <2>1 DEF Book!Next, BookNow
<1>4. CASE /\ BookEntry(k) = "unrouted" /\ BookEntry(k)' \in {"working", "closed"}
           /\ \A e \in DurableKey : e.profile = k.profile => BookEntry(e) # "working"
  <2>1. Book!Open(k) \/ Book!OpenAndClose(k)
    BY <1>1, <1>4 DEF Book!Open, Book!OpenAndClose, BookNow, LineOf
  <2> QED BY <1>2, <2>1 DEF Book!Next, BookNow
<1> QED BY <1>3, <1>4 DEF Turns

\* The durable path implements DecisionBook: a decision is worked once, alone in
\* its profile, and is never worked again once closed.
THEOREM BookIsImplemented == Spec => ImplementsDecisionBook
<1>1. Init => Book!Init
  BY BookInit
<1>2. Settled /\ TradeInv /\ [Next]_vars => [Book!Next]_BookNow
  <2> SUFFICES ASSUME Settled, TradeInv, [Next]_vars PROVE Book!Next \/ BookNow' = BookNow
    OBVIOUS
  <2>1. CASE Stays
    BY <2>1 DEF Stays, BookNow
  <2> QED BY <2>1, BookTurns, TurnIsBookStep
<1>3. QED BY <1>1, <1>2, TradeInvariant, PTL DEF Spec, ImplementsDecisionBook, Book!Spec, BookNow
=============================================================================
