---------------------------- MODULE LiveCommands ----------------------------
(***************************************************************************)
(* The live decision of run_strategy (application/rebalance_service.py):   *)
(* a strategy decision becomes an immutable command in the durable command *)
(* store, is claimed once in its effective session, passes the account     *)
(* owner fence and the execution marker, routes orders to the broker, and  *)
(* is recorded and reconciled until it is terminal.                        *)
(*                                                                         *)
(* A worker is one invocation of /run.  Workers share the command store,   *)
(* the marker store and the broker account; everything else of a worker    *)
(* is the local state of its call of run_strategy and is lost in a crash.  *)
(*                                                                         *)
(* A definition marked "Bug:" is a fault the properties must find: put in  *)
(* the place of the definition after it, it breaks one of them.            *)
(***************************************************************************)
EXTENDS Naturals, FiniteSets

CONSTANTS
    Worker,           \* invocations of /run that may overlap
    Profile,          \* strategy profiles trading one physical account
    ProfileOf,        \* the profile a worker serves
    CompletedSession, \* profiles that sign the previous, completed session
    Direct,           \* profiles whose durable-command flag is off
    Target,           \* what an allocation may be
    Release,          \* runtime identities (package commits and configuration)
    LastSession,      \* bound: trading sessions are 1 .. LastSession
    MaxOrders,        \* bound: orders of one rebalance cycle
    NoProfile, NoCommand, NoVerdict

ASSUME LiveAssumption ==
    /\ ProfileOf \in [Worker -> Profile]
    /\ CompletedSession \subseteq Profile
    /\ Direct \subseteq Profile
    /\ LastSession \in Nat \ {0} /\ MaxOrders \in Nat
    /\ NoProfile \notin Profile

Session == 0 .. LastSession + 1
Slot == 1 .. MaxOrders

\* A command is content-addressed: its identity is everything it says.  A
\* direct decision, which no command carries, has signal = effective.
Command ==
    {c \in [profile: Profile, signal: Session, effective: Session,
            target: Target, release: Release] :
        c.effective \in {c.signal, c.signal + 1}}

Key ==
    {k \in [profile: Profile, signal: Session, effective: Session] :
        k.effective \in {k.signal, k.signal + 1}}
KeyOf(c) == [profile |-> c.profile, signal |-> c.signal, effective |-> c.effective]

ASSUME NoCommandAssumption == NoCommand \notin Command

Terminal == {"FILLED", "CANCELLED", "REJECTED"}
Reconcilable == {"SUBMITTED", "ACCEPTED", "PARTIALLY_FILLED", "RECONCILIATION_REQUIRED"}
CommandState == {"ABSENT", "QUEUED", "CLAIMED"} \union Reconcilable \union Terminal
OrderState == {"none", "open", "partial", "filled", "dead"}
Ack == {"none", "rejected", "submitted", "accepted", "partially_filled", "filled",
        "no_id", "unknown"}
Pc == {"idle", "reconcile", "decide", "claim", "gate", "submit", "marker", "route",
       "settle", "append", "report"}

NoVerdictOrVerdict ==
    [command: Command, from: Reconcilable, to: Reconcilable \union Terminal] \union {NoVerdict}

VARIABLES
    session,   \* the trading session the account snapshot is dated
    deployed,  \* the runtime identity serving new requests
    state,     \* command store: the last event of each command
    evidence,  \* command store: do its recorded orders all carry a broker id?
    owner,     \* marker store: the profile that owns the physical account
    markers,   \* marker store: claimed execution markers
    reports,   \* persisted execution reports of cycles that traded
    orders,    \* broker: the orders of each decision
    pc, release, view, todo, verdict, cmd, acks, next, \* local to a worker
    routers    \* history: how many cycles routed orders under a marker key

storeVars == <<state, evidence>>
fenceVars == <<owner, markers, reports>>
localVars == <<release, view, todo, verdict, cmd, acks, next>>
worldVars == <<session, deployed>>
vars == <<worldVars, storeVars, fenceVars, orders, pc, localVars, routers>>

NoAcks == [n \in Slot |-> "none"]

Init ==
    /\ session = 1
    /\ deployed \in Release
    /\ state = [c \in Command |-> "ABSENT"]
    /\ evidence = [c \in Command |-> "none"]
    /\ owner = NoProfile
    /\ markers = {} /\ reports = {}
    /\ orders = [c \in Command |-> [n \in Slot |-> "none"]]
    /\ pc = [w \in Worker |-> "idle"]
    /\ release = [w \in Worker |-> deployed]
    /\ view = [w \in Worker |-> {}]
    /\ todo = [w \in Worker |-> {}]
    /\ verdict = [w \in Worker |-> NoVerdict]
    /\ cmd = [w \in Worker |-> NoCommand]
    /\ acks = [w \in Worker |-> NoAcks]
    /\ next = [w \in Worker |-> "ABSENT"]
    /\ routers = [k \in Key |-> 0]

GoTo(w, label) == pc' = [pc EXCEPT ![w] = label]

\* The call of run_strategy is over: nothing of it survives.
Return(w) ==
    /\ GoTo(w, "idle")
    /\ view' = [view EXCEPT ![w] = {}]
    /\ todo' = [todo EXCEPT ![w] = {}]
    /\ verdict' = [verdict EXCEPT ![w] = NoVerdict]
    /\ cmd' = [cmd EXCEPT ![w] = NoCommand]
    /\ acks' = [acks EXCEPT ![w] = NoAcks]
    /\ next' = [next EXCEPT ![w] = "ABSENT"]
    /\ UNCHANGED release

-----------------------------------------------------------------------------
(* Listing and reconciling the commands of earlier cycles.                 *)

Listed(p) == {c \in Command : c.profile = p /\ state[c] # "ABSENT"}
Unresolved(C) == {c \in C : state[c] \notin Terminal}

\* Bug: the runtime identity is not compared.
AnyBinding(c, r) == TRUE
\* _validate_live_command_binding: the runtime identity is the one signed.
BindingHolds(c, r) == c.release = r

\* The commands are read once, here; a command another worker enqueues
\* later is not in view.  A command bound to another runtime identity
\* blocks the cycle before anything is written.
Start(w) ==
    LET mine == Listed(ProfileOf[w])
        valid == \A c \in Unresolved(mine) : BindingHolds(c, deployed)
    IN /\ pc[w] = "idle"
       /\ ProfileOf[w] \notin Direct
       /\ GoTo(w, IF valid THEN "reconcile" ELSE "report")
       /\ release' = [release EXCEPT ![w] = deployed]
       /\ view' = [view EXCEPT ![w] = IF valid THEN mine ELSE {}]
       /\ todo' = [todo EXCEPT ![w] = IF valid THEN Unresolved(mine) ELSE {}]
       /\ UNCHANGED <<worldVars, storeVars, fenceVars, orders, verdict, cmd, acks, next, routers>>

\* What the statuses of a command's recorded orders say of the command.
StatusSet(c) == {orders[c][n] : n \in Slot} \ {"none"}
\* Bug: one filled order fills the command.
SaysAnyFilled(c) ==
    LET S == StatusSet(c)
    IN IF "filled" \in S THEN "FILLED" ELSE IF "partial" \in S THEN "PARTIALLY_FILLED"
       ELSE IF S = {"dead"} THEN "CANCELLED" ELSE state[c]
\* Bug: cancelled and expired are not terminal.
SaysNeverCancelled(c) ==
    LET S == StatusSet(c)
    IN IF S = {"filled"} THEN "FILLED" ELSE IF "partial" \in S THEN "PARTIALLY_FILLED"
       ELSE IF S = {"open"} THEN "ACCEPTED" ELSE state[c]
Says(c) ==
    LET S == StatusSet(c)
    IN IF S = {"filled"} THEN "FILLED"
       ELSE IF S \subseteq {"filled", "dead"} THEN "CANCELLED"
       ELSE IF "partial" \in S THEN "PARTIALLY_FILLED"
       ELSE IF S = {"open"} THEN "ACCEPTED"
       ELSE state[c]

\* Reads one command's state, last event and order statuses.  Nothing is
\* concluded when an order id is missing or the broker does not answer.
Observe(w) ==
    \E c \in todo[w] :
        /\ pc[w] = "reconcile"
        /\ verdict[w] = NoVerdict
        /\ todo' = [todo EXCEPT ![w] = @ \ {c}]
        /\ \/ UNCHANGED verdict
           \/ /\ state[c] \in Reconcilable
              /\ evidence[c] = "complete"
              /\ Says(c) # state[c]
              /\ verdict' = [verdict EXCEPT ![w] =
                    [command |-> c, from |-> state[c], to |-> Says(c)]]
        /\ UNCHANGED <<worldVars, storeVars, fenceVars, orders, pc, release, view, cmd,
                       acks, next, routers>>

\* append_event with expected_previous_state: written only if no other
\* worker has moved the command since it was read.
Reconcile(w) ==
    LET v == verdict[w]
    IN /\ pc[w] = "reconcile"
       /\ v # NoVerdict
       /\ state' = IF state[v.command] = v.from
                   THEN [state EXCEPT ![v.command] = v.to]
                   ELSE state
       /\ verdict' = [verdict EXCEPT ![w] = NoVerdict]
       /\ UNCHANGED <<worldVars, evidence, fenceVars, orders, pc, release, view, todo, cmd,
                      acks, next, routers>>

Reconciled(w) ==
    /\ pc[w] = "reconcile"
    /\ todo[w] = {} /\ verdict[w] = NoVerdict
    /\ GoTo(w, "decide")
    /\ UNCHANGED <<worldVars, storeVars, fenceVars, orders, localVars, routers>>

-----------------------------------------------------------------------------
(* Minting this session's decision and selecting the command to execute.   *)

Completed(w) == ProfileOf[w] \in CompletedSession

\* A completed-session profile signs the session before and acts today; the
\* others sign today and act in the next session.
Minted(w, t) ==
    [profile |-> ProfileOf[w],
     signal |-> IF Completed(w) THEN session - 1 ELSE session,
     effective |-> IF Completed(w) THEN session ELSE session + 1,
     target |-> t, release |-> release[w]]

Today(w) ==
    IF Completed(w)
    THEN {c \in Unresolved(view[w]) : c.effective = session}
    ELSE {c \in view[w] : c.signal = session}
EndedToday(w) ==
    /\ Completed(w)
    /\ \E c \in view[w] : c.effective = session /\ state[c] \in Terminal
NeedsMint(w) == Today(w) = {} /\ ~EndedToday(w)

\* Bug: earlier unresolved commands do not block.
SelectedDespitePrior(C, st) ==
    LET due == {c \in C : st[c] \notin Terminal /\ c.effective = session}
    IN IF Cardinality(due) = 1 THEN due ELSE {}
\* Bug: a command stuck in CLAIMED does not block.
SelectedPastOrphan(C, st) ==
    LET open == {c \in C : st[c] \notin Terminal}
        due == {c \in open : c.effective = session}
    IN IF Cardinality(due) = 1 /\ \A c \in open : st[c] \in {"QUEUED", "CLAIMED"}
       THEN due ELSE {}

\* The one command of C that may be claimed: due now, with every other
\* unresolved command still queued for a later session.
Selected(C, st) ==
    LET open == {c \in C : st[c] \notin Terminal}
        due == {c \in open : c.effective = session}
        prior == {c \in open : st[c] # "QUEUED" \/ c.effective < session}
    IN IF prior = {} /\ Cardinality(due) = 1 THEN due ELSE {}

Select(w, C, st) ==
    /\ view' = [view EXCEPT ![w] = C]
    /\ IF Selected(C, st) = {}
       THEN GoTo(w, "report") /\ UNCHANGED cmd
       ELSE \E c \in Selected(C, st) :
               GoTo(w, "claim") /\ cmd' = [cmd EXCEPT ![w] = c]

\* enqueue creates the command unless the same one exists.
Mint(w, t) ==
    LET c == Minted(w, t)
    IN /\ pc[w] = "decide"
       /\ NeedsMint(w)
       /\ state' = IF state[c] = "ABSENT" THEN [state EXCEPT ![c] = "QUEUED"] ELSE state
       /\ Select(w, view[w] \union {c}, state')
       /\ UNCHANGED <<worldVars, evidence, fenceVars, orders, release, todo, verdict,
                      acks, next, routers>>

\* The plan's risk approval is missing: nothing is enqueued.
MintBlocked(w) ==
    /\ pc[w] = "decide"
    /\ NeedsMint(w)
    /\ GoTo(w, "report")
    /\ UNCHANGED <<worldVars, storeVars, fenceVars, orders, localVars, routers>>

NoMint(w) ==
    /\ pc[w] = "decide"
    /\ ~NeedsMint(w)
    /\ IF EndedToday(w) \/ Cardinality(Today(w)) > 1
       THEN GoTo(w, "report") /\ UNCHANGED <<view, cmd>>
       ELSE Select(w, view[w], state)
    /\ UNCHANGED <<worldVars, storeVars, fenceVars, orders, release, todo, verdict, acks,
                   next, routers>>

\* claim_due, unless the frozen plan is risk-blocked.
Claim(w) ==
    /\ pc[w] = "claim"
    /\ \/ /\ state[cmd[w]] = "QUEUED" /\ BindingHolds(cmd[w], release[w])
          /\ state' = [state EXCEPT ![cmd[w]] = "CLAIMED"]
          /\ GoTo(w, "gate")
          /\ UNCHANGED cmd
       \/ /\ GoTo(w, "report")
          /\ cmd' = [cmd EXCEPT ![w] = NoCommand]
          /\ UNCHANGED state
    /\ UNCHANGED <<worldVars, evidence, fenceVars, orders, release, view, todo, verdict,
                   acks, next, routers>>

DirectDecision(w, t) ==
    [profile |-> ProfileOf[w], signal |-> session, effective |-> session,
     target |-> t, release |-> deployed]

\* The durable-command flag is off: the plan itself is the decision.  One
\* that takes effect in another session is blocked here.
StartDirect(w) ==
    /\ pc[w] = "idle"
    /\ ProfileOf[w] \in Direct
    /\ \/ /\ GoTo(w, "report")
          /\ UNCHANGED cmd
       \/ \E t \in Target :
             /\ GoTo(w, "gate")
             /\ cmd' = [cmd EXCEPT ![w] = DirectDecision(w, t)]
    /\ UNCHANGED <<worldVars, storeVars, fenceVars, orders, release, view, todo, verdict,
                   acks, next, routers>>

-----------------------------------------------------------------------------
(* The claimed cycle: fences, orders, outcome.                             *)

Claimed(w) == cmd[w] # NoCommand /\ ProfileOf[w] \notin Direct

\* Account identity, then the marker and the earlier reports.  A read that
\* fails stops a claimed command and lets a direct decision go on.
Gate(w) ==
    LET known == KeyOf(cmd[w]) \in markers \union reports
    IN /\ pc[w] = "gate"
       /\ \/ GoTo(w, "report")                         \* identity blocked
          \/ GoTo(w, IF Claimed(w) THEN "report" ELSE "submit")  \* read failed
          \/ known /\ GoTo(w, IF Claimed(w) THEN "settle" ELSE "report")
          \/ ~known /\ GoTo(w, "submit")
       /\ UNCHANGED <<worldVars, storeVars, fenceVars, orders, localVars, routers>>

\* Bug: the answer of the owner claim is ignored.
OwnerClaimUnchecked(w) ==
    /\ pc[w] = "submit" /\ owner' = ProfileOf[w]
    /\ GoTo(w, "marker")
    /\ UNCHANGED <<worldVars, storeVars, markers, reports, orders, localVars, routers>>

\* The first order claims the account for the profile.  A call that fails
\* may have been executed by the store.
OwnerClaim(w) ==
    LET p == ProfileOf[w]
    IN /\ pc[w] = "submit"
       /\ \/ /\ owner \in {NoProfile, p}
             /\ owner' = p
             /\ \/ GoTo(w, "marker")
                \/ GoTo(w, "settle")                     \* the reply is lost
          \/ /\ GoTo(w, "settle")                        \* refused or failed
             /\ UNCHANGED owner
       /\ UNCHANGED <<worldVars, storeVars, markers, reports, orders, localVars, routers>>

\* Bug: the answer of the marker claim is ignored.
MarkerClaimUnchecked(w) ==
    /\ pc[w] = "marker" /\ GoTo(w, "route")
    /\ markers' = markers \union {KeyOf(cmd[w])}
    /\ UNCHANGED <<worldVars, storeVars, owner, reports, orders, localVars, routers>>

\* Then it claims the execution marker; a failed claim is not retried.
MarkerClaim(w) ==
    LET k == KeyOf(cmd[w])
    IN /\ pc[w] = "marker"
       /\ \/ /\ k \notin markers
             /\ markers' = markers \union {k}
             /\ \/ GoTo(w, "route")
                \/ GoTo(w, "settle")                     \* the reply is lost
          \/ /\ GoTo(w, "settle")                        \* held or failed
             /\ UNCHANGED markers
       /\ UNCHANGED <<worldVars, storeVars, owner, reports, orders, localVars, routers>>

\* Bug: a status the code does not know is passed on.
AnswerUnfiltered == {<<"rejected", "none">>, <<"accepted", "open">>, <<"cancelled", "dead">>}
Answer == {<<"rejected", "none">>, <<"submitted", "open">>, <<"accepted", "open">>,
           <<"partially_filled", "partial">>, <<"filled", "filled">>, <<"no_id", "open">>,
           <<"unknown", "none">>, <<"unknown", "open">>}

\* submit_order_via_port: one order, the broker's answer, and whether the
\* order exists.  After an unknown answer no further order is routed.
Route(w) ==
    \E n \in Slot, a \in Answer :
        LET c == cmd[w]
        IN /\ pc[w] = "route"
           /\ acks[w][n] = "none"
           /\ \A m \in Slot : m < n => acks[w][m] # "none"
           /\ acks' = [acks EXCEPT ![w][n] = a[1]]
           /\ orders' = [orders EXCEPT ![c][n] = a[2]]
           /\ routers' = [routers EXCEPT ![KeyOf(c)] = IF acks[w] = NoAcks THEN @ + 1 ELSE @]
           /\ IF a[1] = "unknown" THEN GoTo(w, "settle") ELSE UNCHANGED pc
           /\ UNCHANGED <<worldVars, storeVars, fenceVars, release, view, todo, verdict,
                          cmd, next>>

\* No order is needed, the last one is routed, or a hook failed.
OrdersDone(w) ==
    /\ pc[w] \in {"submit", "route"}
    /\ GoTo(w, "settle")
    /\ UNCHANGED <<worldVars, storeVars, fenceVars, orders, localVars, routers>>

\* Bug: an unanswered submission is not kept as pending.
PendingKnown(w) == {acks[w][n] : n \in Slot} \ {"none", "rejected", "unknown"}
Pending(w) == {acks[w][n] : n \in Slot} \ {"none", "rejected"}

\* The states _record_live_command_outcome may append first.
FirstOutcome(w) ==
    IF Pending(w) = {"filled"} THEN {"SUBMITTED"}
    ELSE IF Pending(w) = {} THEN {"CANCELLED", "REJECTED"}
    ELSE IF Pending(w) \subseteq {"submitted", "accepted"} THEN {"SUBMITTED"}
    ELSE {"RECONCILIATION_REQUIRED"}

\* The state appended after s was, or s when s is the last.
NextOutcome(w, s) ==
    IF s = "SUBMITTED" /\ Pending(w) \in {{"filled"}, {"accepted"}} THEN "ACCEPTED"
    ELSE IF s = "ACCEPTED" /\ Pending(w) = {"filled"} THEN "FILLED"
    ELSE s

Settle(w) ==
    /\ pc[w] = "settle"
    /\ IF Claimed(w)
       THEN \E s \in FirstOutcome(w) : GoTo(w, "append") /\ next' = [next EXCEPT ![w] = s]
       ELSE GoTo(w, "report") /\ UNCHANGED next
    /\ UNCHANGED <<worldVars, storeVars, fenceVars, orders, release, view, todo, verdict, cmd,
                   acks, routers>>

\* The transitions the command store accepts (external); the others, and a
\* write that fails, leave the command as it is and end the recording.
CanFollow(from, to) ==
    \/ from = "CLAIMED" /\ to \in {"SUBMITTED", "CANCELLED", "REJECTED", "RECONCILIATION_REQUIRED"}
    \/ from \in Reconcilable /\ to \in (Reconcilable \ {"SUBMITTED", from}) \union Terminal

AppendOutcome(w) ==
    LET c == cmd[w]
        s == next[w]
    IN /\ pc[w] = "append"
       /\ \/ /\ CanFollow(state[c], s)
             /\ state' = [state EXCEPT ![c] = s]
             /\ evidence' = [evidence EXCEPT ![c] =
                   IF Pending(w) \subseteq {"submitted", "accepted", "partially_filled", "filled"}
                   THEN "complete" ELSE "incomplete"]
             /\ IF NextOutcome(w, s) = s
                THEN GoTo(w, "report") /\ UNCHANGED next
                ELSE next' = [next EXCEPT ![w] = NextOutcome(w, s)] /\ UNCHANGED pc
          \/ /\ GoTo(w, "report")
             /\ UNCHANGED <<state, evidence, next>>
       /\ UNCHANGED <<worldVars, fenceVars, orders, release, view, todo, verdict, cmd,
                      acks, routers>>

\* main.py persists the execution report of the cycle and answers.
Report(w) ==
    /\ pc[w] = "report"
    /\ reports' = IF Pending(w) = {} THEN reports ELSE reports \union {KeyOf(cmd[w])}
    /\ Return(w)
    /\ UNCHANGED <<worldVars, storeVars, owner, markers, orders, routers>>

\* An exception, a worker timeout or an instance that is replaced.
Crash(w) ==
    /\ pc[w] # "idle"
    /\ Return(w)
    /\ UNCHANGED <<worldVars, storeVars, fenceVars, orders, routers>>

-----------------------------------------------------------------------------
(* The world.                                                              *)

Advance == {<<"open", "partial">>, <<"open", "filled">>, <<"open", "dead">>,
            <<"partial", "filled">>, <<"partial", "dead">>}

BrokerMoves(c, n) ==
    \E a \in Advance :
        /\ orders[c][n] = a[1]
        /\ orders' = [orders EXCEPT ![c][n] = a[2]]
        /\ UNCHANGED <<worldVars, storeVars, fenceVars, pc, localVars, routers>>

\* A request ends within its timeout, so no cycle spans two sessions.
NextSession ==
    /\ session < LastSession
    /\ \A w \in Worker : pc[w] = "idle"
    /\ session' = session + 1
    /\ UNCHANGED <<deployed, storeVars, fenceVars, orders, pc, localVars, routers>>

\* Traffic moves to another revision; requests in flight keep theirs.
Deploy(r) ==
    /\ deployed # r
    /\ deployed' = r
    /\ UNCHANGED <<session, storeVars, fenceVars, orders, pc, localVars, routers>>

Step(w) ==
    \/ Observe(w) \/ Reconcile(w) \/ Reconciled(w)
    \/ \E t \in Target : Mint(w, t)
    \/ MintBlocked(w) \/ NoMint(w) \/ Claim(w)
    \/ Gate(w) \/ OwnerClaim(w) \/ MarkerClaim(w) \/ Route(w) \/ OrdersDone(w)
    \/ Settle(w) \/ AppendOutcome(w) \/ Report(w)

Next ==
    \/ \E w \in Worker : Start(w) \/ StartDirect(w) \/ Step(w) \/ Crash(w)
    \/ \E c \in Command, n \in Slot : BrokerMoves(c, n)
    \/ NextSession
    \/ \E r \in Release : Deploy(r)

Spec == Init /\ [][Next]_vars

\* A successful observation: every recorded order's status was read.
Concludes(w) == Observe(w) /\ verdict'[w] # NoVerdict

\* The scheduler invokes /run each session, some invocation gets through
\* reconciliation, and the broker resolves every order it holds.
Fairness ==
    /\ \A w \in Worker :
        /\ WF_vars(Start(w)) /\ WF_vars(Step(w))
        /\ SF_vars(Concludes(w)) /\ SF_vars(Reconcile(w))
    /\ \A c \in Command, n \in Slot :
        WF_vars(BrokerMoves(c, n))
FairSpec == Spec /\ Fairness

-----------------------------------------------------------------------------
(* Properties.                                                             *)

\* Every variable has its type (the state kept by the two stores, the broker
\* and the locals of run_strategy).
TypeOK ==
    /\ session \in 1 .. LastSession /\ deployed \in Release
    /\ state \in [Command -> CommandState]
    /\ evidence \in [Command -> {"none", "complete", "incomplete"}]
    /\ owner \in Profile \union {NoProfile}
    /\ markers \subseteq Key /\ reports \subseteq Key
    /\ orders \in [Command -> [Slot -> OrderState]]
    /\ pc \in [Worker -> Pc]
    /\ release \in [Worker -> Release]
    /\ view \in [Worker -> SUBSET Command] /\ todo \in [Worker -> SUBSET Command]
    /\ verdict \in [Worker -> NoVerdictOrVerdict]
    /\ cmd \in [Worker -> Command \union {NoCommand}]
    /\ acks \in [Worker -> [Slot -> Ack]]
    /\ next \in [Worker -> CommandState]
    /\ routers \in [Key -> Nat]

\* Whatever overlaps, is retried or crashes, the orders of one decision (same
\* profile, signal and effective session) come from a single cycle: of two
\* commands minted for one session by overlapping cycles only one trades
\* (claim_marker in submit_claimed_order).
OneCyclePerDecision == \A k \in Key : routers[k] <= 1

\* The inductive form of TypeOK and OneCyclePerDecision: a worker past the
\* claim has a decision; orders are routed only by a worker that holds the
\* decision's marker, no two hold the same, and a marker outlives its holder.
HasDecision ==
    \A w \in Worker :
        /\ pc[w] \in {"claim", "gate", "submit", "marker", "route", "settle", "append"}
              => cmd[w] \in Command
        /\ acks[w] # NoAcks =>
              pc[w] \in {"route", "settle", "append", "report"} /\ cmd[w] \in Command
MarkerFence ==
    /\ \A w \in Worker :
          pc[w] = "route" =>
              /\ KeyOf(cmd[w]) \in markers
              /\ acks[w] = NoAcks => routers[KeyOf(cmd[w])] = 0
    /\ \A w, v \in Worker :
          pc[w] = "route" /\ pc[v] = "route" /\ w # v => KeyOf(cmd[w]) # KeyOf(cmd[v])
    /\ \A k \in Key : k \notin markers => routers[k] = 0
FenceInv == TypeOK /\ HasDecision /\ MarkerFence /\ OneCyclePerDecision

IsOpen(o) == o \in {"open", "partial"}
Working(c) == \E n \in Slot : IsOpen(orders[c][n])

\* A durable profile never has orders of two commands working at the broker:
\* a new decision is sized and routed only once the previous one is settled
\* (prior_unresolved in run_strategy, reconciliation before the snapshot).
OneWorkingDecision ==
    LET working == {c \in Command : c.profile \notin Direct /\ Working(c)}
    IN \A c, d \in working : c.profile = d.profile => c = d

\* A command recorded as ended has no working order, not even one whose
\* submission got no answer (_record_live_command_outcome,
\* _reconcile_live_command).
EndedHasNoWorkingOrder == \A c \in Command : state[c] \in Terminal => ~Working(c)

\* Commands follow each other: one is settled, at the broker and in the
\* record, before the next one of its profile works.
SettledBeforeNext == EndedHasNoWorkingOrder /\ OneWorkingDecision

\* A command recorded as filled was filled at the broker, order by order.
FilledIsFilled == \A c \in Command : state[c] = "FILLED" => StatusSet(c) = {"filled"}

\* The account is traded by one profile only, whichever path its cycles take
\* (claim_account_owner).
OneAccountOwner ==
    LET traded == {c \in Command : StatusSet(c) # {}}
    IN \A c, d \in traded : c.profile = d.profile

\* Its inductive form: a worker holds and sees only decisions of its own
\* profile, and past the owner claim that profile owns the account.
OwnProfile ==
    \A w \in Worker :
        /\ \A c \in view[w] : c.profile = ProfileOf[w]
        /\ cmd[w] # NoCommand => cmd[w].profile = ProfileOf[w]
OwnerFence ==
    /\ \A w \in Worker : pc[w] \in {"marker", "route"} => owner = ProfileOf[w]
    /\ \A c \in Command : StatusSet(c) # {} => c.profile = owner
OwnerInv == TypeOK /\ HasDecision /\ OwnProfile /\ OwnerFence

HeldBy(w, c) == cmd[w] = c /\ pc[w] \in {"gate", "submit", "marker", "route", "settle", "append"}

\* A claimed command whose cycle is gone (crash, failed journal read, identity
\* block) is never routed again, and blocks every claim of its profile in
\* later sessions.
ClaimStep == {c \in Command : state[c] = "QUEUED" /\ state'[c] = "CLAIMED"}
Orphans == {c \in Command : state[c] = "CLAIMED" /\ \A w \in Worker : ~HeldBy(w, c)}
OrphanBlocks ==
    [][\A c \in Orphans :
          /\ StatusSet(c) = {} => StatusSet(c)' = {}
          /\ \A d \in ClaimStep : d.profile = c.profile => d.effective = c.effective]_vars

\* A command is claimed only in its effective session and under the runtime
\* identity it was minted by, however often the service was redeployed in
\* between (_validate_live_command_binding).
ClaimedWhenDueAndBound ==
    [][\A c \in ClaimStep :
          /\ c.effective = session
          /\ \E w \in Worker : cmd'[w] = c /\ release[w] = c.release]_vars

\* The inductive form of the three.  A worker on the durable path has seen every
\* command of its profile that an earlier session left active, and by the time
\* it claims there is none: what is active then is of this session.
Active(c) == state[c] \in {"CLAIMED"} \union Reconcilable
Deciding == {"reconcile", "decide"}
Holding == {"gate", "submit", "marker", "route", "settle", "append"}
Holds(w) == pc[w] \in Holding /\ ProfileOf[w] \notin Direct
CommandsAreBound ==
    \A c \in Command : state[c] # "ABSENT" => c.profile \notin Direct /\ c.effective = c.signal + 1
IsDue(w) ==
    /\ pc[w] \in Deciding \union {"claim", "append"} => ProfileOf[w] \notin Direct
    /\ pc[w] \in Holding \union {"claim"} => cmd[w].effective = session
    /\ \A c \in Command :
          c.profile = ProfileOf[w] /\ Active(c) /\ c.effective # session =>
             (pc[w] \in Deciding => c \in view[w]) /\ pc[w] # "claim" /\ ~Holds(w)
DueInv == CommandsAreBound /\ \A w \in Worker : IsDue(w)

\* A claimed command is worked by the one worker that claimed it, and stays
\* CLAIMED until that worker records its outcome.
KeepsClaim(w) ==
    Holds(w) => /\ state[cmd[w]] \notin {"ABSENT", "QUEUED"}
                /\ pc[w] # "append" => state[cmd[w]] = "CLAIMED"
ClaimInv ==
    /\ \A w \in Worker : KeepsClaim(w)
    /\ \A w, v \in Worker : Holds(w) /\ Holds(v) /\ w # v => cmd[w] # cmd[v]

\* What the store, a worker's answers and a worker's verdict say of a command
\* is so at the broker.
AnswersAreTrue(w) ==
    Holds(w) => \A n \in Slot :
                   /\ acks[w][n] \in {"none", "rejected"} => orders[cmd[w]][n] = "none"
                   /\ acks[w][n] = "filled" => orders[cmd[w]][n] = "filled"
NextIsTrue(w) ==
    pc[w] = "append" => /\ next[w] \in {"CANCELLED", "REJECTED"} => Pending(w) = {}
                        /\ next[w] = "FILLED" => Pending(w) = {"filled"}
VerdictIsTrue(w) ==
    LET c == verdict[w].command
    IN verdict[w] # NoVerdict =>
          /\ state[c] \in Reconcilable \union Terminal
          /\ verdict[w].to \in Terminal => ~Working(c)
          /\ verdict[w].to = "FILLED" => StatusSet(c) = {"filled"}
RecordInv ==
    /\ \A c \in Command :
          c.profile \notin Direct /\ state[c] \in {"ABSENT", "QUEUED"} => StatusSet(c) = {}
    /\ \A w \in Worker : AnswersAreTrue(w) /\ NextIsTrue(w) /\ VerdictIsTrue(w)
    /\ EndedHasNoWorkingOrder /\ FilledIsFilled

\* The orders of a decision are those of the one command its cycle routed.
TradeInv ==
    /\ \A c \in Command : StatusSet(c) # {} => routers[KeyOf(c)] # 0
    /\ \A w \in Worker : pc[w] = "route" /\ acks[w] # NoAcks =>
          /\ routers[KeyOf(cmd[w])] # 0
          /\ \A c \in Command : KeyOf(c) = KeyOf(cmd[w]) /\ StatusSet(c) # {} => c = cmd[w]
    /\ OneWorkingDecision

\* The cycles of profile p get past their binding check.
Unblocked(p) == \A c \in Unresolved(Listed(p)) : BindingHolds(c, deployed)

\* A command whose orders are all known to the store ends once the broker is
\* done with them, for a profile whose cycles get through from some time on:
\* runs that keep being scheduled reconcile it.  While the service runs under
\* another identity than the one an unresolved command is bound to, run_strategy
\* returns before it polls anything, and the command stays as it is.
SubmittedEnds ==
    \A c \in Command :
        <>[]Unblocked(c.profile) =>
            ((state[c] \in Reconcilable /\ evidence[c] = "complete") ~> state[c] \in Terminal)

-----------------------------------------------------------------------------
(* The durable path implements DecisionBook: a decision is worked from the *)
(* first order its cycle routes until that cycle routes no more and every  *)
(* order has ended at the broker.                                          *)

DurableKey == {k \in Key : k.profile \notin Direct}

Worked(k) ==
    \/ \E w \in Worker :
          pc[w] = "route" /\ acks[w] # NoAcks /\ KeyOf(cmd[w]) = k
    \/ \E t \in Target, r \in Release :
          Working([profile |-> k.profile, signal |-> k.signal, effective |-> k.effective,
                   target |-> t, release |-> r])

BookEntry(k) ==
    IF routers[k] = 0 THEN "unrouted" ELSE IF Worked(k) THEN "working" ELSE "closed"

LineOf(k) == k.profile

Book == INSTANCE DecisionBook WITH
            Decision <- DurableKey, Line <- LineOf,
            book <- [k \in DurableKey |-> BookEntry(k)]

\* Every behaviour of the code is a behaviour of DecisionBook: a decision is
\* worked once, alone in its profile, and is never worked again once closed.
ImplementsDecisionBook == Book!Spec
=============================================================================
