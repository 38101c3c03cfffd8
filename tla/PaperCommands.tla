---------------------------- MODULE PaperCommands -----------------------------
(***************************************************************************)
(* Paper commands: a dry-run cycle appends the strategy's risk state and   *)
(* queues a command for a session; a consumer, called for a session, reads *)
(* the account once and simulates the queued commands of that session      *)
(* against it.  No order is ever sent.  The store, the claim and the gate  *)
(* are the shared library's.                                               *)
(* A definition marked "Bug:" is a fault the properties must find.         *)
(*                                                                         *)
(* Source: application/paper_execution_command_consumer.py,                *)
(* paper_strategy_risk_state.py, durable_execution_commands.py, main.py.   *)
(***************************************************************************)
EXTENDS Integers, FiniteSets

CONSTANTS Consumers,   \* calls of the consumer's route, which may overlap
          LastSession, \* bound: sessions are 1..LastSession
          MaxCommands  \* bound: commands in the store

VARIABLES today,       \* the session of the moment
          transitions, \* sessions whose risk-state transition is stored
          commands,    \* the command store
          cycle,       \* the dry-run cycle
          consumer     \* the consumer calls

vars == <<today, transitions, commands, cycle, consumer>>

Sessions == 1..LastSession
\* A managed and a foreign position, in value; short when below zero.
Account == [managed : {-1, 0}, foreign : BOOLEAN]
Target == {0, 1}
\* The receipt is bound to this decision and allows new risk, does not allow
\* it, or is bound to another one.
Command == [session : Sessions, target : Target, receipt : {"allows", "refuses", "other"}]
Claimed == {"claimed", "submitted", "accepted"}
State == {"queued", "rejected", "filled", "reconciliation_required"} \cup Claimed
NoAccount == [managed |-> 0, foreign |-> TRUE]
NoCommand == [session |-> LastSession + 1, target |-> 0, receipt |-> "other"]
Entry == [state : State, seen : Account]
IdleConsumer == [pc |-> "idle", asOf |-> 0, seen |-> NoAccount, command |-> NoCommand]
IdleCycle == [pc |-> "idle", command |-> NoCommand]

TypeOK ==
  /\ today \in Sessions /\ transitions \subseteq Sessions
  /\ \A c \in DOMAIN commands : c \in Command /\ commands[c] \in Entry
  /\ cycle.pc \in {"idle", "recorded"}
  /\ \A w \in Consumers : consumer[w].pc \in {"idle", "read", "consuming", "claimed"}

Init ==
  /\ today = 1 /\ transitions = {} /\ commands = [c \in {} |-> "none"]
  /\ cycle = IdleCycle /\ consumer = [w \in Consumers |-> IdleConsumer]

-----------------------------------------------------------------------------
(* The cycle: the transition first, then the command, which is the same    *)
(* command when the decision and its receipt are.                          *)
\* Bug: the transition is stored under the session of today.
StoredToday(c) == transitions \cup {today}
Stored(c) == transitions \cup {c.session}
RecordTransition ==
  /\ cycle = IdleCycle
  /\ \E c \in Command :
       /\ c.session \in {today, today + 1} /\ transitions' = Stored(c)
       /\ cycle' = [pc |-> "recorded", command |-> c]
  /\ UNCHANGED <<today, commands, consumer>>
\* Bug: a decision made again starts its command anew.
Anew(c) == [d \in DOMAIN commands \cup {c} |-> IF d = c THEN [state |-> "queued", seen |-> NoAccount] ELSE commands[d]]
New(c) == [d \in DOMAIN commands \cup {c} |-> IF d \in DOMAIN commands THEN commands[d] ELSE [state |-> "queued", seen |-> NoAccount]]
Enqueue ==
  /\ cycle.pc = "recorded" /\ Cardinality(DOMAIN commands \cup {cycle.command}) <= MaxCommands
  /\ commands' = New(cycle.command) /\ cycle' = IdleCycle
  /\ UNCHANGED <<today, transitions, consumer>>
\* The plan is blocked, a store call fails, or the instance ends.
CycleEnds ==
  /\ cycle.pc = "recorded" /\ cycle' = IdleCycle
  /\ UNCHANGED <<today, transitions, commands, consumer>>

-----------------------------------------------------------------------------
(* run_paper_execution_command_consumer: the account, as it is then, the   *)
(* session date, then the commands; without a release receipt none.        *)
ReadAccount(w) ==
  /\ consumer[w].pc = "idle"
  /\ \E seen \in Account : consumer' = [consumer EXCEPT ![w].pc = "read", ![w].seen = seen]
  /\ UNCHANGED <<today, transitions, commands, cycle>>
Consume(w) ==
  /\ consumer[w].pc = "read"
  /\ consumer' = [consumer EXCEPT ![w].pc = "consuming", ![w].asOf = today]
  /\ UNCHANGED <<today, transitions, commands, cycle>>

Due(w) == {c \in DOMAIN commands : c.session = consumer[w].asOf /\ commands[c].state = "queued"}
Claim(w) ==
  /\ consumer[w].pc = "consuming"
  /\ \E c \in Due(w) :
       /\ commands' = [commands EXCEPT ![c] = [state |-> "claimed", seen |-> consumer[w].seen]]
       /\ consumer' = [consumer EXCEPT ![w].pc = "claimed", ![w].command = c]
  /\ UNCHANGED <<today, transitions, cycle>>

(* _build_reconciled_order_proposals: a position that is not the strategy's*)
(* or a quote that is missing is a finding; the effect is that of the      *)
(* absolute values, whatever the side.                                     *)
\* Bug: a foreign position is passed over.
NoFinding(seen) == FALSE
Finding(seen) == seen.foreign
Abs(v) == IF v < 0 THEN 0 - v ELSE v
Grows(c, seen) == c.target > Abs(seen.managed)
Admitted(c, seen) ==
  /\ ~Finding(seen) /\ c.receipt # "other"
  /\ Grows(c, seen) => c.receipt = "allows"
Write(w, state) ==
  /\ commands' = [commands EXCEPT ![consumer[w].command].state = state]
  /\ UNCHANGED <<today, transitions, cycle>>
Done(w) == consumer' = [consumer EXCEPT ![w].pc = "consuming", ![w].command = NoCommand]
StateOf(w) == commands[consumer[w].command].state
Simulate(w) ==
  /\ consumer[w].pc = "claimed"
  /\ \/ /\ StateOf(w) = "claimed" /\ Admitted(consumer[w].command, consumer[w].seen)
        /\ Write(w, "submitted") /\ consumer' = consumer
     \/ StateOf(w) = "submitted" /\ Write(w, "accepted") /\ consumer' = consumer
     \/ StateOf(w) = "accepted" /\ Write(w, "filled") /\ Done(w)
\* A missing quote, or what the gate does not admit.
Reject(w) ==
  /\ consumer[w].pc = "claimed" /\ StateOf(w) = "claimed" /\ Write(w, "rejected") /\ Done(w)
Fault(w) ==
  /\ consumer[w].pc = "claimed" /\ Write(w, "reconciliation_required") /\ Done(w)
\* The call returns or the instance ends, at any point.
Return(w) ==
  /\ consumer[w].pc # "idle" /\ consumer' = [consumer EXCEPT ![w] = IdleConsumer]
  /\ UNCHANGED <<today, transitions, commands, cycle>>

NextSession ==
  /\ today < LastSession /\ today' = today + 1
  /\ UNCHANGED <<transitions, commands, cycle, consumer>>
Next ==
  \/ RecordTransition \/ Enqueue \/ CycleEnds \/ NextSession
  \/ \E w \in Consumers :
       ReadAccount(w) \/ Consume(w) \/ Claim(w) \/ Simulate(w) \/ Reject(w) \/ Fault(w) \/ Return(w)
Spec == Init /\ [][Next]_vars

-----------------------------------------------------------------------------
(* A command is queued only for a session whose risk-state transition is   *)
(* stored, whatever ends between the two ("silently proceeding would let a *)
(* restarted runtime forget its cooldown").                                *)
TransitionFirst == \A c \in DOMAIN commands : c.session \in transitions

(* What is filled on paper was reconciled against an account without       *)
(* foreign positions and admitted under its own receipt, and grew no       *)
(* position that receipt did not allow to grow.                            *)
FilledIsReconciled ==
  \A c \in DOMAIN commands : commands[c].state \in {"submitted", "accepted", "filled"} =>
    /\ ~commands[c].seen.foreign /\ c.receipt # "other"
    /\ Abs(c.target) > Abs(commands[c].seen.managed) => c.receipt = "allows"

(* A command leaves the queue once: neither a consumer's end, nor another  *)
(* call, nor the same decision made again starts it over, and its outcome  *)
(* stays.                                                                  *)
StartedOnce ==
  \A c \in DOMAIN commands :
    /\ commands[c].state # "queued" => commands'[c].state # "queued" /\ commands'[c].seen = commands[c].seen
    /\ commands[c].state \in {"rejected", "filled"} => commands'[c] = commands[c]

(* What makes them hold: the recorded cycle has its transition stored, and *)
(* a claimed command is under way, with the account of the one call that   *)
(* claimed it.                                                             *)
Call == [pc : {"idle", "read", "consuming", "claimed"}, asOf : 0..LastSession, seen : Account,
         command : Command \cup {NoCommand}]
CommandsTyped ==
  /\ today \in Sessions /\ DOMAIN commands \subseteq Command
  /\ \A c \in DOMAIN commands : commands[c] \in Entry
  /\ consumer \in [Consumers -> Call]
RecordedIsStored ==
  cycle # IdleCycle => cycle.command \in Command /\ cycle.command.session \in transitions
ClaimsAreUnderWay ==
  /\ \A w \in Consumers : consumer[w].pc = "claimed" =>
       LET c == consumer[w].command
       IN c \in DOMAIN commands /\ commands[c].state \in Claimed /\ commands[c].seen = consumer[w].seen
  /\ \A w, u \in Consumers :
       consumer[w].pc = "claimed" /\ consumer[u].pc = "claimed" /\ consumer[w].command = consumer[u].command => w = u
PaperInv ==
  CommandsTyped /\ RecordedIsStored /\ ClaimsAreUnderWay /\ TransitionFirst /\ FilledIsReconciled
=============================================================================
