------------------------- MODULE BrokerReconciliation -------------------------
(***************************************************************************)
(* The read-only account readers.  The reconciliation receipt and the      *)
(* account snapshot read cash, positions, orders and two lists of          *)
(* executions one after the other while orders fill and days change; the   *)
(* receipt compares them, and the local ledger, with configured digests.   *)
(* A definition marked "Bug:" is a fault the properties must find.         *)
(*                                                                         *)
(* Source: application/broker_reconciliation.py.                           *)
(***************************************************************************)
EXTENDS Naturals, Sequences, FiniteSets

CONSTANTS Orders,    \* orders of the account, each filled by one trade
          DayLength, \* instants of a trading day
          Lookback,  \* the seven days of the history queries
          MaxTime    \* bound: the last instant

VARIABLES now,     \* the clock
          account, \* cash, shares and the state of each order at the broker
          trades,  \* the executions of the account
          ledger,  \* the orders the local execution ledger records
          reader   \* the run: where it stands, what it read, what it answered

vars == <<now, account, trades, ledger, reader>>

Times == 0..MaxTime
DayOf(t) == t \div DayLength
Trade == [order : Orders, at : Times]
Account == [cash : 0..Cardinality(Orders), shares : 0..Cardinality(Orders),
            orders : [Orders -> {"none", "working", "filled", "cancelled"}]]
\* The configured digests are those of the account at rest.
AtRest == [cash |-> Cardinality(Orders), shares |-> 0, orders |-> [o \in Orders |-> "none"]]
Surfaces == <<"cash", "shares", "orders", "history", "today", "ledger">>
Nothing == [cash |-> 0, shares |-> 0, orders |-> AtRest.orders, history |-> {}, today |-> {}, ledger |-> {}]
Idle == [pc |-> "idle", todo |-> <<>>, start |-> 0, expected |-> FALSE, seen |-> Nothing,
         blockers |-> {}, counted |-> 0, earlier |-> {}, days |-> {}]

TypeOK ==
  /\ now \in Times /\ account \in Account /\ trades \subseteq Trade /\ ledger \subseteq Orders
  /\ reader.pc \in {"idle", "receipt", "snapshot", "answered", "blocked"}
  /\ reader.seen.history \cup reader.seen.today \subseteq Trade
  /\ reader.counted \in Nat

Init == now = 0 /\ account = AtRest /\ trades = {} /\ ledger = {} /\ reader = Idle

-----------------------------------------------------------------------------
(* The account moves on: orders begin, fill or are cancelled, the local    *)
(* ledger records what this service filled, time passes.                   *)
Order(o) ==
  /\ account.orders[o] = "none" /\ account' = [account EXCEPT !.orders[o] = "working"]
  /\ UNCHANGED <<now, trades, ledger, reader>>
Fill(o) ==
  /\ account.orders[o] = "working"
  /\ account' = [cash |-> account.cash - 1, shares |-> account.shares + 1,
                 orders |-> [account.orders EXCEPT ![o] = "filled"]]
  /\ trades' = trades \cup {[order |-> o, at |-> now]}
  /\ UNCHANGED <<now, ledger, reader>>
Cancel(o) ==
  /\ account.orders[o] = "working" /\ account' = [account EXCEPT !.orders[o] = "cancelled"]
  /\ UNCHANGED <<now, trades, ledger, reader>>
Record(o) ==
  /\ account.orders[o] = "filled" /\ o \notin ledger /\ ledger' = ledger \cup {o}
  /\ UNCHANGED <<now, account, trades, reader>>
Tick == now < MaxTime /\ now' = now + 1 /\ UNCHANGED <<account, trades, ledger, reader>>

-----------------------------------------------------------------------------
(* run_read_only_broker_reconciliation, run_read_only_account_snapshot.    *)
Begin ==
  /\ reader.pc = "idle"
  /\ \E kind \in {"receipt", "snapshot"}, expected \in BOOLEAN :
       reader' = [Idle EXCEPT !.pc = kind, !.start = now, !.expected = expected, !.earlier = trades,
                              !.todo = IF kind = "receipt" THEN Surfaces ELSE SubSeq(Surfaces, 1, 5)]
  /\ UNCHANGED <<now, account, trades, ledger>>

(* What the broker answers: the history leaves out the day's executions,   *)
(* or not, and today_executions has nothing else.                          *)
InWindow(t) == reader.start <= t.at + Lookback /\ t.at <= reader.start
Asked == {t \in trades : reader.start <= t.at + Lookback}
OfToday == {t \in Asked : DayOf(t.at) = DayOf(now)}
Answers(s) ==
  CASE s = "history" -> {(Asked \ OfToday) \cup more : more \in SUBSET OfToday}
    [] s = "today" -> {OfToday}
    [] s = "ledger" -> {ledger}
    [] OTHER -> {account[s]}
Read ==
  /\ reader.todo # <<>>
  /\ \E answer \in Answers(Head(reader.todo)) :
       reader' = [reader EXCEPT !.seen[Head(reader.todo)] = answer, !.todo = Tail(@),
                    !.days = IF Head(reader.todo) \in {"history", "today"} THEN @ \cup {DayOf(now)} ELSE @]
  /\ UNCHANGED <<now, account, trades, ledger>>

(* Executions are merged by trade and cut to the window; rows of one trade *)
(* that differ block the run, and cannot here.                             *)
\* Bug: the rows of the two lists are added up.
Rows(seen) == Cardinality({t \in seen.history : InWindow(t)}) + Cardinality({t \in seen.today : InWindow(t)})
Counted(seen) == Cardinality({t \in seen.history \cup seen.today : InWindow(t)})

(* What no read of this broker proves is never taken to match: the account *)
(* itself, all the open orders, all the executions.                        *)
\* Bug: a short list is taken to be complete.
NothingUnproven(seen) == {}
Unproven(seen) == {"identity", "orders", "executions"}
Differs(seen) ==
  {s \in {"cash", "shares", "orders"} : seen[s] # AtRest[s]}
  \cup (IF Counted(seen) > 0 THEN {"executions"} ELSE {})
  \cup (IF seen.ledger # {} THEN {"ledger"} ELSE {})
Blockers(seen) ==
  Unproven(seen) \cup (IF reader.expected THEN Differs(seen) ELSE {"cash", "shares", "orders", "executions", "ledger"})

Answer ==
  /\ reader.pc \in {"receipt", "snapshot"} /\ reader.todo = <<>>
  /\ reader' = [reader EXCEPT !.pc = "answered", !.counted = Counted(reader.seen),
                  !.blockers = IF reader.pc = "receipt" THEN Blockers(reader.seen) ELSE {"snapshot"}]
  /\ UNCHANGED <<now, account, trades, ledger>>
(* Any read that fails, or an incomplete row, blocks the whole run.        *)
Block ==
  /\ reader.pc \in {"receipt", "snapshot"} /\ reader' = [Idle EXCEPT !.pc = "blocked"]
  /\ UNCHANGED <<now, account, trades, ledger>>

Next ==
  \/ \E o \in Orders : Order(o) \/ Fill(o) \/ Cancel(o) \/ Record(o)
  \/ Tick \/ Begin \/ Read \/ Answer \/ Block
Spec == Init /\ [][Next]_vars

-----------------------------------------------------------------------------
(* A receipt never permits the recovery, however the account and its       *)
(* digests agree: the reads are of different instants, and of an account   *)
(* the broker does not name (collect_read_only_reconciliation_observations,*)
(* "this reader cannot unlock a frozen baseline").                         *)
NeverPermits == reader.pc = "answered" => reader.blockers # {}

(* Every execution of the seven days before the run is counted once,       *)
(* whichever lists it is in, and none after its beginning is; only a day   *)
(* that ends between the two lists may hide one.                           *)
Due == {t \in reader.earlier : InWindow(t)}
Existing == {t \in trades : InWindow(t)}
EachTradeOnce ==
  reader.pc = "answered" =>
    /\ reader.counted <= Cardinality(Existing)
    /\ Cardinality(reader.days) = 1 => Cardinality(Due) <= reader.counted

(* What makes it hold: the lists read so far are of executions that        *)
(* happened, and on the day it was read the history has every execution    *)
(* that is due and not of that day, and the list of the day the others.    *)
Ahead(s) == \E i \in 1..Len(reader.todo) : reader.todo[i] = s
HistoryHolds == \E d \in reader.days : \A t \in Due : t \in reader.seen.history \/ DayOf(t.at) = d
TodayHolds == \E d \in reader.days : \A t \in Due : DayOf(t.at) = d => t \in reader.seen.today
ReaderTyped ==
  /\ DOMAIN reader = DOMAIN Idle /\ DOMAIN reader.seen = DOMAIN Nothing /\ reader.todo \in Seq(DOMAIN Nothing)
  /\ IsFiniteSet(trades) /\ IsFiniteSet(reader.days)
ReaderInv ==
  /\ ReaderTyped /\ reader.seen.history \cup reader.seen.today \cup reader.earlier \subseteq trades
  /\ reader.todo # <<>> => reader.pc \in {"receipt", "snapshot"}
  /\ reader.pc \in {"receipt", "snapshot"} => (Ahead("history") \/ HistoryHolds) /\ (Ahead("today") \/ TodayHolds)
  /\ reader.pc = "answered" =>
       HistoryHolds /\ TodayHolds /\ reader.counted = Counted(reader.seen) /\ reader.blockers # {}
=============================================================================
