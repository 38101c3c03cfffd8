--------------------------- MODULE ExecutionCycle ---------------------------
(***************************************************************************)
(* One rebalance cycle, execute_rebalance_cycle of                         *)
(* application/execution_service.py, with the account new-risk gate it     *)
(* consults twice: in the cycle, where it latches, and once more for each  *)
(* buy in submit_order of application/longbridge_execution.py, which sees  *)
(* the last snapshot only.  The cycle sells, may sell the cash sweep to    *)
(* fund a buy, refreshes account and plan until the proceeds show, buys,   *)
(* and sweeps what is left.  Meanwhile the broker executes and settles.    *)
(*                                                                         *)
(* Prices are constant within a cycle, shares whole, limit premiums zero.  *)
(* A definition marked "Bug:" is a fault the properties must find.         *)
(***************************************************************************)
EXTENDS Integers, Sequences, FiniteSetsExt

CONSTANTS
    Asset,       \* strategy_symbols, in the order of the plan
    Sweep,       \* the cash sweep symbol, one of Asset
    Price,       \* of each symbol
    Targets,     \* target values a producer may plan
    InitHold, InitCash,  \* the account before the cycle
    Scales,      \* combined scales the gate may return, in halves
    Substitutes, \* may the small-account helper turn the sweep into cash?
    Threshold, MinTrade, SubstituteBelow, CashOnly,  \* configuration
    Attempts,    \* post_sell_refresh_attempts
    Lots         \* bound: what the broker estimates can be bought, in shares

Symbol == {Asset[i] : i \in DOMAIN Asset}

ASSUME CycleAssumption ==
    /\ Asset \in Seq(Symbol) /\ Sweep \in Symbol
    /\ \A i, j \in DOMAIN Asset : Asset[i] = Asset[j] => i = j
    /\ Price \in [Symbol -> Nat \ {0}]
    /\ Targets \subseteq [Symbol -> Nat] /\ InitHold \in [Symbol -> Nat] /\ InitCash \in Int
    /\ Scales \subseteq {0, 1, 2} /\ Substitutes \subseteq BOOLEAN /\ CashOnly \in BOOLEAN
    /\ {Threshold, MinTrade, SubstituteBelow} \subseteq Nat /\ Attempts \in Nat \ {0}
    /\ Lots \subseteq Nat

Answer == {"rejected", "known", "unknown", "hook_failed"}
Phase == {"sell", "fund", "buy", "rebuy"}
Gate == {"admitted", "prohibited"}
Pc == {"plan", "sell", "fund", "refresh", "screen", "buy", "rebuy", "done"}

VARIABLES
    pc,
    view,       \* plan and portfolio the cycle works on
    todo,       \* symbols left in the running loop
    small,      \* small_account_buy_blocked
    riskBlocked,\* account_new_risk_buy_blocked
    scale,      \* cycle_combined_scale
    snapshot,   \* what the gate says of the cycle snapshot
    halted,     \* submission_halted
    sold,       \* sell_submitted
    sweepSold,  \* cash_sweep_sold_this_cycle
    pendingRelease,  \* pending_sell_release_symbols is not empty
    attempt, before, best, released,  \* the refresh loop
    negative,   \* history: buys were skipped for negative cash
    seen,       \* history: what the observations said
    sent        \* broker: the orders submitted, oldest first

local == <<small, sweepSold, pendingRelease>>
loop == <<attempt, before, best, released>>
risk == <<riskBlocked, scale, snapshot, seen>>
vars == <<pc, view, todo, local, risk, halted, sold, loop, negative, sent>>

Larger(a, b) == IF a > b THEN a ELSE b
Smaller(a, b) == IF a < b THEN a ELSE b

-----------------------------------------------------------------------------
(* The broker.  An order of unknown answer may not exist: quantity 0.      *)

Sides(side) == {i \in DOMAIN sent : sent[i].side = side}
OfSymbol(s, side) == {i \in Sides(side) : sent[i].symbol = s}
Quantity == [i \in DOMAIN sent |-> sent[i].quantity]
Executed == [i \in DOMAIN sent |-> sent[i].executed]
Settled == [i \in DOMAIN sent |-> sent[i].settled]
Worth(shares) == [i \in DOMAIN sent |-> shares[i] * Price[sent[i].symbol]]

\* The account as the broker reports it: what has settled.
Held(s) ==
    InitHold[s] - SumFunctionOnSet(Settled, OfSymbol(s, "sell"))
                + SumFunctionOnSet(Settled, OfSymbol(s, "buy"))
Sellable(s) == InitHold[s] - SumFunctionOnSet(Quantity, OfSymbol(s, "sell"))
Cash ==
    InitCash + SumFunctionOnSet(Worth(Settled), Sides("sell"))
             - SumFunctionOnSet(Worth(Settled), Sides("buy"))

Executes(i) ==
    /\ sent[i].executed < sent[i].quantity
    /\ sent' = [sent EXCEPT ![i].executed = @ + 1]
    /\ UNCHANGED <<pc, view, todo, local, risk, halted, sold, loop, negative>>

Settles(i) ==
    /\ sent[i].settled < sent[i].executed
    /\ sent' = [sent EXCEPT ![i].settled = sent[i].executed]
    /\ UNCHANGED <<pc, view, todo, local, risk, halted, sold, loop, negative>>

-----------------------------------------------------------------------------
(* Observations: a portfolio snapshot and the plan resolved from it.       *)

\* combined_scale, then _apply_safe_haven_cash_substitution, then the
\* small-account helper, which may turn the sweep into cash.
Target(t, factor, substituted) ==
    [s \in Symbol |->
        LET v == (t[s] * factor) \div 2
        IN IF s = Sweep /\ (substituted \/ v < SubstituteBelow) THEN 0 ELSE v]

Portfolio(t, factor, substituted) ==
    [held |-> [s \in Symbol |-> Held(s)],
     sellable |-> [s \in Symbol |-> Larger(0, Sellable(s))],
     cash |-> Cash, investable |-> Larger(0, Cash),
     plan |-> t, target |-> Target(t, factor, substituted), substituted |-> substituted]

NoView == [held |-> InitHold, sellable |-> InitHold, cash |-> 0, investable |-> 0,
           plan |-> [s \in Symbol |-> 0], target |-> [s \in Symbol |-> 0], substituted |-> FALSE]

\* Bug: the last observation decides alone.
ForgetsProhibition(gate) == gate = "prohibited"
\* What one observation said constrains the rest of the cycle.
RiskLatch(gate) == riskBlocked \/ gate = "prohibited"
\* Bug: the last scale replaces the earlier ones.
LatestScale(factor) == factor
ScaleLatch(factor) == Smaller(scale, factor)

Observe(gate, blocked, factor) ==
    /\ riskBlocked' = RiskLatch(gate)
    /\ snapshot' = gate
    /\ scale' = ScaleLatch(factor)
    /\ seen' = seen \union {gate} \union (IF blocked THEN {"blocked"} ELSE {})

Init ==
    /\ pc = "plan" /\ view = NoView /\ todo = <<>>
    /\ small \in BOOLEAN
    /\ riskBlocked = FALSE /\ scale = 2 /\ snapshot = "prohibited" /\ seen = {}
    /\ halted = FALSE /\ sold = FALSE /\ sweepSold = FALSE /\ pendingRelease = FALSE
    /\ attempt = 0 /\ before = 0 /\ best = 0 /\ released = 0
    /\ negative = FALSE /\ sent = <<>>

\* The gate is evaluated before a plan that may not execute ends the cycle.
Plan ==
    \E t \in Targets, gate \in Gate, blocked \in BOOLEAN, factor \in Scales, sub \in Substitutes :
        /\ pc = "plan"
        /\ Observe(gate, blocked, factor)
        /\ view' = Portfolio(t, factor, sub)
        /\ todo' = Asset
        /\ pc' = IF blocked THEN "done" ELSE "sell"
        /\ UNCHANGED <<local, halted, sold, loop, negative, sent>>

-----------------------------------------------------------------------------
(* submit_order_via_port.                                                  *)

Order(s, side, quantity, phase, answer) ==
    [symbol |-> s, side |-> side, quantity |-> quantity, phase |-> phase,
     plan |-> view.plan[s], answer |-> answer, executed |-> 0, settled |-> 0]

\* The second gate rejects buys while the last snapshot prohibits them.
Gated(side, answer) == side = "buy" /\ snapshot = "prohibited" => answer = "rejected"

\* Bug: a failed hook does not halt.
IgnoresHook(answer) == answer = "unknown"
Halts(answer) == answer \in {"unknown", "hook_failed"}

Submit(s, side, quantity, phase, answer) ==
    /\ quantity > 0 /\ ~halted
    /\ Gated(side, answer)
    /\ \E exists \in IF answer = "unknown" THEN {0, quantity}
                     ELSE IF answer = "rejected" THEN {0} ELSE {quantity} :
          sent' = Append(sent, Order(s, side, exists, phase, answer))
    /\ halted' = Halts(answer)

Submitted(answer) == answer \in {"known", "hook_failed"}

-----------------------------------------------------------------------------
(* Sells.                                                                  *)

HeldValue(s) == view.held[s] * Price[s]

\* _sell_delta_exceeds_floor
NeedsSell(s) ==
    LET diff == HeldValue(s) - view.target[s]
    IN diff > Threshold /\ (view.target[s] = 0 \/ diff > MinTrade)

\* _sell_order_quantity
SellQuantity(s) ==
    IF view.target[s] = 0 THEN view.sellable[s]
    ELSE Smaller((HeldValue(s) - view.target[s]) \div Price[s], view.sellable[s])

Sell ==
    /\ pc = "sell" /\ todo # <<>>
    /\ LET s == Head(todo)
       IN \E answer \in Answer :
            /\ NeedsSell(s)
            /\ Submit(s, "sell", SellQuantity(s), "sell", answer)
            /\ sold' = (sold \/ Submitted(answer))
            /\ sweepSold' = (sweepSold \/ (Submitted(answer) /\ s = Sweep))
            /\ pendingRelease' = (pendingRelease \/ answer = "rejected")
    /\ todo' = Tail(todo)
    /\ UNCHANGED <<pc, view, small, risk, loop, negative>>

\* Nothing to sell of this symbol, or its quote failed.
SkipSell ==
    /\ pc = "sell" /\ todo # <<>> /\ ~halted
    /\ todo' = Tail(todo)
    /\ UNCHANGED <<pc, view, local, risk, halted, sold, loop, negative, sent>>

SellsDone ==
    /\ pc = "sell" /\ (todo = <<>> \/ halted)
    /\ pc' = "fund"
    /\ UNCHANGED <<view, todo, local, risk, halted, sold, loop, negative, sent>>

-----------------------------------------------------------------------------
(* The cash sweep may fund a buy.                                          *)

WantsBuy(s) ==
    LET diff == view.target[s] - HeldValue(s)
    IN diff > Threshold /\ diff > MinTrade

AfterFunding(sells, stop) == pc' = IF sells /\ ~stop THEN "refresh" ELSE "screen"
StartRefresh ==
    /\ attempt' = 0 /\ released' = 0
    /\ before' = view.investable /\ best' = view.investable

\* Bug: a cycle that sold still sells the sweep.
FundsTwice == ~halted /\ ~small /\ ~riskBlocked
MayFund == ~halted /\ ~sold /\ ~small /\ ~riskBlocked

\* should_sell_cash_sweep_to_fund_whole_share_buy said yes.
Fund ==
    /\ pc = "fund"
    /\ MayFund
    /\ \E s \in Symbol \ {Sweep} : WantsBuy(s)
    /\ view.sellable[Sweep] > 0
    /\ \E answer \in Answer :
          /\ Submit(Sweep, "sell", view.sellable[Sweep], "fund", answer)
          /\ sold' = Submitted(answer) /\ sweepSold' = (sweepSold \/ Submitted(answer))
          /\ AfterFunding(Submitted(answer), halted')
    /\ StartRefresh
    /\ UNCHANGED <<view, todo, small, pendingRelease, risk, negative>>

NoFund ==
    /\ pc = "fund"
    /\ AfterFunding(sold, halted)
    /\ StartRefresh
    /\ UNCHANGED <<view, todo, local, risk, halted, sold, negative, sent>>

-----------------------------------------------------------------------------
(* Refresh: every observation constrains the cycle; the best cash forecast *)
(* and the fills already known fund it.                                    *)

\* _filled_sell_release_value: the sells whose status the broker answers.
KnownSells == {i \in Sides("sell") : Submitted(sent[i].answer)}
Release(S) == SumFunctionOnSet(Worth(Executed), S)

\* Bug: one refresh too many.
OneTooMany == attempt = Attempts
LastAttempt == attempt + 1 = Attempts
\* Bug: fills already in the forecast count twice.
AddsForecasts(latest, most, fills) == Larger(latest, most) + (fills - before)
Forecast(latest, most, fills) == Larger(Larger(latest, most), fills)

Refresh ==
    \E t \in Targets, gate \in Gate, blocked \in BOOLEAN, factor \in Scales,
       sub \in Substitutes, answered \in SUBSET KnownSells :
        LET fresh == Portfolio(t, ScaleLatch(factor), sub)
        IN /\ pc = "refresh"
           /\ Observe(gate, blocked, factor)
           /\ halted' = (halted \/ blocked)
           /\ attempt' = attempt + 1
           /\ released' = Larger(released, Release(answered))
           /\ best' = Larger(best, fresh.investable)
           /\ IF fresh.investable > before \/ LastAttempt
              THEN /\ pc' = "screen"
                   /\ view' = [fresh EXCEPT !.investable =
                         Forecast(@, best', before + released')]
              ELSE UNCHANGED <<pc, view>>
           /\ UNCHANGED <<todo, local, sold, before, negative, sent>>

-----------------------------------------------------------------------------
(* Buys.                                                                   *)

\* Bug: any missing fraction of a share is topped up.
TopsUpAnyRest(s) ==
    /\ sold /\ view.investable >= Price[s]
    /\ view.held[s] >= 1 /\ WantsBuy(s)

\* _should_top_up_existing_whole_share_buy
TopsUp(s) ==
    LET rest == view.target[s] - HeldValue(s)
    IN /\ sold /\ view.investable >= Price[s]
       /\ view.held[s] >= 1 /\ rest > 0 /\ rest < Price[s]
       /\ 2 * view.target[s] >= (2 * view.held[s] + 1) * Price[s]

\* _planned_whole_share_buy_quantity
Planned(s) ==
    LET budget == Smaller(view.target[s] - HeldValue(s), view.investable) \div Price[s]
    IN IF budget > 0 THEN budget ELSE IF TopsUp(s) THEN 1 ELSE 0

Candidates == {s \in Symbol : WantsBuy(s)}

\* Planned buys exceed the cash while a sell was rejected; a symbol without a
\* quote is not counted.
AwaitsRelease(quoted) ==
    /\ CashOnly /\ pendingRelease
    /\ SumFunctionOnSet([s \in Symbol |-> Planned(s) * Price[s]], quoted) > view.investable

Screen ==
    /\ pc = "screen" /\ pc' = "buy"
    /\ \E quoted \in SUBSET Candidates :
        LET deferred == halted \/ small \/ riskBlocked \/ AwaitsRelease(quoted)
        IN /\ negative' = (Candidates # {} /\ ~deferred /\ CashOnly /\ view.cash < 0)
           /\ todo' = IF deferred \/ negative' \/ view.investable = 0
                      THEN <<>> ELSE Asset
    /\ UNCHANGED <<view, local, risk, halted, sold, loop, sent>>

Buy ==
    /\ pc = "buy" /\ todo # <<>>
    /\ LET s == Head(todo)
       IN \E answer \in Answer, estimate \in Lots :
            LET quantity == Smaller(Planned(s), estimate)
            IN /\ WantsBuy(s)
               /\ Submit(s, "buy", quantity, "buy", answer)
               /\ view' = IF Submitted(answer)
                          THEN [view EXCEPT !.investable = Larger(0, @ - quantity * Price[s])]
                          ELSE view
    /\ todo' = Tail(todo)
    /\ UNCHANGED <<pc, local, risk, sold, loop, negative>>

\* Not a candidate, no quote, no estimate, or not one share affordable.
SkipBuy ==
    /\ pc = "buy" /\ todo # <<>> /\ ~halted
    /\ todo' = Tail(todo)
    /\ UNCHANGED <<pc, view, local, risk, halted, sold, loop, negative, sent>>

BuysDone ==
    /\ pc = "buy" /\ (todo = <<>> \/ halted)
    /\ pc' = "rebuy"
    /\ UNCHANGED <<view, todo, local, risk, halted, sold, loop, negative, sent>>

\* Bug: a sold sweep is bought back.
RebuysSold == ~small
MayRebuy == ~sweepSold /\ ~small

\* What is left goes to the cash sweep.
Rebuy ==
    /\ pc = "rebuy" /\ pc' = "done"
    /\ MayRebuy
    /\ view.target[Sweep] > 0 \/ ~view.substituted
    /\ view.investable > 2 * Price[Sweep] /\ view.investable >= SubstituteBelow
    /\ \E answer \in Answer, estimate \in Lots :
          Submit(Sweep, "buy", Smaller(view.investable \div Price[Sweep], estimate), "rebuy", answer)
    /\ UNCHANGED <<view, todo, local, risk, sold, loop, negative>>

NoRebuy ==
    /\ pc = "rebuy" /\ pc' = "done"
    /\ UNCHANGED <<view, todo, local, risk, halted, sold, loop, negative, sent>>

Cycle ==
    \/ Plan \/ Sell \/ SkipSell \/ SellsDone \/ Fund \/ NoFund \/ Refresh
    \/ Screen \/ Buy \/ SkipBuy \/ BuysDone \/ Rebuy \/ NoRebuy

Next == Cycle \/ \E i \in DOMAIN sent : Executes(i) \/ Settles(i)

Spec == Init /\ [][Next]_vars

-----------------------------------------------------------------------------
(* Properties.                                                             *)

\* The cycle's locals and the broker's orders have their types.
View == [held : [Symbol -> Int], sellable : [Symbol -> Nat], cash : Int, investable : Nat,
         plan : [Symbol -> Nat], target : [Symbol -> Nat], substituted : BOOLEAN]
Sent == [symbol : Symbol, side : {"sell", "buy"}, quantity : Nat, phase : Phase,
         plan : Nat, answer : Answer, executed : Nat, settled : Nat]
TypeOK ==
    /\ pc \in Pc /\ view \in View /\ todo \in Seq(Symbol)
    /\ small \in BOOLEAN /\ riskBlocked \in BOOLEAN /\ halted \in BOOLEAN /\ sold \in BOOLEAN
    /\ sweepSold \in BOOLEAN /\ pendingRelease \in BOOLEAN /\ negative \in BOOLEAN
    /\ scale \in 0 .. 2 /\ snapshot \in Gate /\ seen \subseteq Gate \union {"blocked"}
    /\ attempt \in 0 .. Attempts /\ before \in Nat /\ best \in Nat /\ released \in Nat
    /\ sent \in Seq(Sent)
    /\ \A i \in DOMAIN sent : sent[i].settled <= sent[i].executed /\ sent[i].executed <= sent[i].quantity

\* An order whose outcome is not known, or whose bookkeeping failed, is the
\* last one of its cycle (submission_halted).
UnknownIsLast ==
    \A i \in DOMAIN sent : i < Len(sent) => sent[i].answer \in {"known", "rejected"}

\* No share is offered twice: the sells of a symbol never exceed what was
\* held, though each loop works on a snapshot older than its own orders.
NoOversell == \A s \in Symbol : Sellable(s) >= 0

\* Buys are paid from the cash there was and from sells that were executed,
\* whichever of the three forecasts (latest, best, fills) funded them.
FundedBuys ==
    SumFunctionOnSet(Worth(Quantity), Sides("buy")) <= Larger(0, InitCash) + Release(Sides("sell"))

\* A symbol sold to reach its target is bought back in the same cycle only when
\* the producer has planned more of it since, whatever the refreshed snapshots
\* and scales say; the cash sweep, sold for funding, may be restored.
NoRoundTrip ==
    \A s \in Symbol \ {Sweep} : \A i \in OfSymbol(s, "sell"), j \in OfSymbol(s, "buy") :
        sent[i].quantity > 0 /\ sent[j].quantity > 0 => sent[j].plan > sent[i].plan

\* Idle cash is not swept back into a sweep this cycle has sold, in whichever
\* loop it was sold.
NoRebuyAfterSweepSale ==
    ~(\E i \in OfSymbol(Sweep, "sell"), j \in DOMAIN sent :
         Submitted(sent[i].answer) /\ sent[j].phase = "rebuy")

NewOrder(o) == Len(sent') = Len(sent) + 1 /\ o = sent'[Len(sent')]

\* A regular buy, and a sale that funds one, is submitted only while no
\* observation of the cycle, however old, prohibited new risk or blocked
\* execution; a blocked observation also stops the rebuy.
RiskLatches ==
    [][\A o \in {sent'[i] : i \in DOMAIN sent'} :
          NewOrder(o) =>
              /\ o.phase \in {"fund", "buy"} => seen = {"admitted"}
              /\ o.side = "buy" => "blocked" \notin seen]_vars

\* A buy never carries a position past its target by more than half a share
\* (the top-up of _should_top_up_existing_whole_share_buy).
BuyWithinTarget ==
    [][\A o \in {sent'[i] : i \in DOMAIN sent'} :
          NewOrder(o) /\ o.phase = "buy" =>
              2 * (view.held[o.symbol] + o.quantity) * Price[o.symbol]
                  <= 2 * view.target[o.symbol] + Price[o.symbol]]_vars

\* What is offered is covered: sells by the holding, buys by the cash and the
\* sells that were executed (_sell_order_quantity, the funding forecasts).
OrdersAreCovered == NoOversell /\ FundedBuys

\* A cycle does not trade against itself: no symbol it sold is bought back
\* without a new plan, nor idle cash swept into a sweep it sold.
NoSelfTrade == NoRoundTrip /\ NoRebuyAfterSweepSale

\* What bounds a buy outlives the refreshed snapshots: the risk that was seen,
\* and the target (account_new_risk_buy_blocked, the whole-share top-up).
BuysAreBounded == RiskLatches /\ BuyWithinTarget

\* execution_service.py: "Every observed refresh constrains this cycle": no
\* buy of any kind is accepted once an observation prohibited new risk.
EveryObservationConstrains ==
    [][\A o \in {sent'[i] : i \in DOMAIN sent'} :
          NewOrder(o) /\ o.side = "buy" /\ "prohibited" \in seen => o.quantity = 0]_vars

\* telegram.py: "account cash is already negative; skipping buys this cycle":
\* no buy follows that notice.
NegativeCashSkipsBuys ==
    [][\A o \in {sent'[i] : i \in DOMAIN sent'} :
          NewOrder(o) /\ o.side = "buy" /\ negative => o.quantity = 0]_vars

-----------------------------------------------------------------------------
\* What makes them hold.  The gate, the halt and the sweep are what was seen
\* and sent.
Latched ==
    /\ riskBlocked <=> "prohibited" \in seen
    /\ "blocked" \in seen => halted \/ pc = "done"
    /\ pc = "plan" <=> seen = {}
    /\ pc = "buy" /\ todo # <<>> => ~riskBlocked
Halting ==
    /\ ~halted => \A i \in DOMAIN sent : sent[i].answer \in {"known", "rejected"}
    /\ UnknownIsLast
    /\ \A i \in DOMAIN sent : sent[i].answer = "rejected" => sent[i].quantity = 0
Sweeping ==
    /\ \A i \in OfSymbol(Sweep, "sell") : Submitted(sent[i].answer) => sweepSold
    /\ \A i \in DOMAIN sent : sent[i].phase = "rebuy" => pc = "done" /\ ~sweepSold
    /\ NoRebuyAfterSweepSale

\* Each symbol is sold once in its loop, from the first view; then only the
\* sweep, when nothing was sold.
Selling ==
    /\ pc = "plan" => sent = <<>> /\ scale = 2
    /\ pc \in {"sell", "fund"} => view.sellable = InitHold /\ view.held = InitHold
    /\ pc = "sell" =>
          \A i \in DOMAIN todo : /\ OfSymbol(todo[i], "sell") = {}
                                 /\ \A j \in DOMAIN todo : todo[i] = todo[j] => i = j
    /\ pc \in {"sell", "fund"} /\ ~sold /\ ~halted => \A i \in DOMAIN sent : sent[i].quantity = 0
    /\ \A s \in Symbol \ {Sweep} : \A i, j \in OfSymbol(s, "sell") : i = j

\* What the buys may still cost is within the cash and the sells executed.
Bought == SumFunctionOnSet(Worth(Quantity), Sides("buy"))
Funds == Larger(0, InitCash) + Release(Sides("sell"))
Funding ==
    /\ pc \in {"plan", "sell", "fund", "refresh", "screen"} => Sides("buy") = {}
    /\ pc \in {"sell", "fund"} => view.investable = Larger(0, InitCash)
    /\ pc = "refresh" => before = Larger(0, InitCash) /\ best <= Funds /\ before + released <= Funds
    /\ pc \in {"screen", "buy", "rebuy"} /\ ~halted => Bought + view.investable <= Funds

\* What a sale leaves is worth the target it was sold for, and no later view
\* shows less of it or scales that target up.
Scaled(plan) == (plan * scale) \div 2
Trading ==
    /\ pc \notin {"plan", "refresh", "done"} => \A s \in Symbol \ {Sweep} : view.target[s] = Scaled(view.plan[s])
    /\ \A i \in Sides("sell") : sent[i].symbol # Sweep /\ sent[i].quantity > 0 =>
          /\ Scaled(sent[i].plan) <= (InitHold[sent[i].symbol] - sent[i].quantity) * Price[sent[i].symbol]
          /\ pc \in {"sell", "fund", "screen", "buy", "rebuy"} =>
                view.held[sent[i].symbol] >= InitHold[sent[i].symbol] - sent[i].quantity

\* The refresh loop ends with its last attempt.
Refreshing == pc = "refresh" => attempt < Attempts

CycleInv ==
    TypeOK /\ Refreshing /\ Latched /\ Halting /\ Sweeping /\ Selling /\ NoOversell /\ Funding /\ FundedBuys /\ Trading /\ NoRoundTrip
=============================================================================
