------------------------ MODULE ExecutionCycleProofs -------------------------
(***************************************************************************)
(* What a rebalance cycle never does, for any symbols, prices, holdings,   *)
(* targets and scales.  CycleInv is the invariant: the first view shows    *)
(* the account before the cycle, each symbol is sold once from it, and     *)
(* what the buys may still cost stays within the cash and the sells that   *)
(* were executed.  The account is the initial one and the sums of what was *)
(* sent (Sums).                                                            *)
(***************************************************************************)
EXTENDS ExecutionCycle, Sums, SequenceTheorems

(* A whole number of shares for an amount costs no more than the amount.   *)
LEMMA Shares ==
  ASSUME NEW a \in Int, NEW p \in Nat \ {0}
  PROVE  a \div p \in Int /\ (a \div p) * p <= a /\ (a >= 0 => a \div p \in Nat)
  OBVIOUS

(* A position of more shares is worth more.                                *)
LEMMA Costs ==
  ASSUME NEW a \in Int, NEW b \in Int, NEW p \in Nat, a <= b
  PROVE  a * p \in Int /\ b * p \in Int /\ a * p <= b * p
  OBVIOUS

(* The smaller and the larger of two numbers.                              *)
LEMMA Extremes ==
  /\ \A a, b \in Int : /\ Smaller(a, b) \in Int /\ Smaller(a, b) <= a /\ Smaller(a, b) <= b
                       /\ Larger(a, b) \in Int /\ a <= Larger(a, b) /\ b <= Larger(a, b)
  /\ \A a \in Nat, b \in Int : Larger(a, b) \in Nat
  BY DEF Smaller, Larger

(* What is sent keeps its indices.                                         *)
LEMMA SentIndices ==
  ASSUME TypeOK
  PROVE  /\ Len(sent) \in Nat /\ DOMAIN sent = 1 .. Len(sent)
         /\ \A i \in DOMAIN sent : sent[i] \in Sent
  BY LenProperties, ElementOfSeq DEF TypeOK

(* The sums of the orders are natural numbers.                             *)
LEMMA SumsTyped ==
  ASSUME CycleAssumption, TypeOK, NEW S \in SUBSET DOMAIN sent
  PROVE  /\ IsFiniteSet(S)
         /\ \A i \in DOMAIN sent :
               /\ Quantity[i] \in Nat /\ Executed[i] \in Nat /\ Settled[i] \in Nat
               /\ Worth(Quantity)[i] \in Nat /\ Worth(Executed)[i] \in Nat /\ Worth(Settled)[i] \in Nat
         /\ SumFunctionOnSet(Quantity, S) \in Nat /\ SumFunctionOnSet(Settled, S) \in Nat
         /\ SumFunctionOnSet(Worth(Quantity), S) \in Nat
         /\ SumFunctionOnSet(Worth(Executed), S) \in Nat
         /\ SumFunctionOnSet(Worth(Settled), S) \in Nat
<1>1. IsFiniteSet(S)
  <2>1. IsFiniteSet(DOMAIN sent)
    BY SentIndices, FS_Interval
  <2> QED BY <2>1, FS_Subset
<1>2. \A i \in DOMAIN sent :
        /\ Quantity[i] \in Nat /\ Executed[i] \in Nat /\ Settled[i] \in Nat
        /\ Worth(Quantity)[i] \in Nat /\ Worth(Executed)[i] \in Nat /\ Worth(Settled)[i] \in Nat
  <2> TAKE i \in DOMAIN sent
  <2>1. sent[i] \in Sent
    BY SentIndices
  <2>2. Quantity[i] \in Nat /\ Executed[i] \in Nat /\ Settled[i] \in Nat /\ Price[sent[i].symbol] \in Nat
    BY <2>1 DEF Sent, Quantity, Executed, Settled, CycleAssumption
  <2>3. /\ Worth(Quantity)[i] = Quantity[i] * Price[sent[i].symbol]
        /\ Worth(Executed)[i] = Executed[i] * Price[sent[i].symbol]
        /\ Worth(Settled)[i] = Settled[i] * Price[sent[i].symbol]
    BY DEF Worth
  <2>4. \A q, p \in Nat : q * p \in Nat
    OBVIOUS
  <2>5. Worth(Quantity)[i] \in Nat
    BY <2>2, <2>3, <2>4
  <2>6. Worth(Executed)[i] \in Nat
    BY <2>2, <2>3, <2>4
  <2>7. Worth(Settled)[i] \in Nat
    BY <2>2, <2>3, <2>4
  <2> QED BY <2>2, <2>5, <2>6, <2>7
<1>3. \A i \in S : i \in DOMAIN sent
  OBVIOUS
<1>4. SumFunctionOnSet(Quantity, S) \in Nat
  BY <1>1, <1>2, <1>3, SumNotNegative
<1>5. SumFunctionOnSet(Settled, S) \in Nat
  BY <1>1, <1>2, <1>3, SumNotNegative
<1>6. SumFunctionOnSet(Worth(Quantity), S) \in Nat
  BY <1>1, <1>2, <1>3, SumNotNegative
<1>7. SumFunctionOnSet(Worth(Executed), S) \in Nat
  BY <1>1, <1>2, <1>3, SumNotNegative
<1>8. SumFunctionOnSet(Worth(Settled), S) \in Nat
  BY <1>1, <1>2, <1>3, SumNotNegative
<1> QED BY <1>1, <1>2, <1>4, <1>5, <1>6, <1>7, <1>8

(* What was sent on a side, and of a symbol.                               *)
LEMMA SidesTyped ==
  /\ \A side : Sides(side) \subseteq DOMAIN sent
  /\ \A s, side : OfSymbol(s, side) \subseteq Sides(side)
  BY DEF Sides, OfSymbol

(* A view of the account has the type of one.                              *)
LEMMA PortfolioTyped ==
  ASSUME CycleAssumption, TypeOK, NEW t \in Targets, NEW factor \in 0 .. 2, NEW sub \in Substitutes
  PROVE  /\ Portfolio(t, factor, sub) \in View /\ Cash \in Int
         /\ \A s \in Symbol : Held(s) \in Int /\ Sellable(s) \in Int
<1>1. \A s \in Symbol : Held(s) \in Int /\ Sellable(s) \in Int
  <2> TAKE s \in Symbol
  <2>1. InitHold[s] \in Nat
    BY DEF CycleAssumption
  <2>2. \A side : SumFunctionOnSet(Settled, OfSymbol(s, side)) \in Nat /\ SumFunctionOnSet(Quantity, OfSymbol(s, side)) \in Nat
    BY SumsTyped, SidesTyped
  <2> DEFINE gone == SumFunctionOnSet(Settled, OfSymbol(s, "sell"))
             come == SumFunctionOnSet(Settled, OfSymbol(s, "buy"))
             offered == SumFunctionOnSet(Quantity, OfSymbol(s, "sell"))
  <2>3. gone \in Nat /\ come \in Nat /\ offered \in Nat
    BY <2>2
  <2>4. Held(s) = InitHold[s] - gone + come
    BY Zenon DEF Held
  <2>5. Sellable(s) = InitHold[s] - offered
    BY Zenon DEF Sellable
  <2> HIDE DEF gone, come, offered
  <2> QED BY <2>1, <2>3, <2>4, <2>5
<1>2. Cash \in Int
  <2>1. \A side : SumFunctionOnSet(Worth(Settled), Sides(side)) \in Nat
    BY SumsTyped, SidesTyped
  <2> DEFINE in == SumFunctionOnSet(Worth(Settled), Sides("sell"))
             out == SumFunctionOnSet(Worth(Settled), Sides("buy"))
  <2>2. in \in Nat /\ out \in Nat /\ InitCash \in Int
    BY <2>1 DEF CycleAssumption
  <2>3. Cash = InitCash + in - out
    BY DEF Cash
  <2> HIDE DEF in, out
  <2> QED BY <2>2, <2>3
<1>3. Target(t, factor, sub) \in [Symbol -> Nat]
  BY DEF Target, CycleAssumption
<1>4. t \in [Symbol -> Nat] /\ sub \in BOOLEAN
  BY DEF CycleAssumption
<1>5. [s \in Symbol |-> Held(s)] \in [Symbol -> Int]
  BY <1>1
<1>6. [s \in Symbol |-> Larger(0, Sellable(s))] \in [Symbol -> Nat] /\ Larger(0, Cash) \in Nat
  BY <1>1, <1>2, Extremes
<1>7. Portfolio(t, factor, sub) \in View
  BY <1>2, <1>3, <1>4, <1>5, <1>6 DEF Portfolio, View
<1> QED BY <1>1, <1>2, <1>7

-----------------------------------------------------------------------------
(* An order that is sent comes last.                                       *)
LEMMA Appended ==
  ASSUME TypeOK, NEW o \in Sent, sent' = Append(sent, o)
  PROVE  /\ sent' \in Seq(Sent) /\ Len(sent') = Len(sent) + 1 /\ Len(sent) + 1 \notin DOMAIN sent
         /\ DOMAIN sent' = DOMAIN sent \cup {Len(sent) + 1}
         /\ \A i \in DOMAIN sent : sent'[i] = sent[i]
         /\ sent'[Len(sent) + 1] = o
<1>1. sent \in Seq(Sent) /\ Len(sent) \in Nat /\ DOMAIN sent = 1 .. Len(sent)
  BY SentIndices DEF TypeOK
<1>2. sent' \in Seq(Sent) /\ Len(sent') = Len(sent) + 1
  BY <1>1
<1>3. DOMAIN sent' = 1 .. (Len(sent) + 1)
  BY <1>2, LenProperties
<1> QED BY <1>1, <1>2, <1>3

(* What submitting sends: the quantity, or nothing of it.                  *)
LEMMA Submitting ==
  ASSUME CycleAssumption, TypeOK, NEW s \in Symbol, NEW side \in {"sell", "buy"}, NEW q \in Int,
         NEW phase \in Phase, NEW answer \in Answer, Submit(s, side, q, phase, answer)
  PROVE  /\ q \in Nat /\ q > 0 /\ ~halted /\ halted' = Halts(answer) /\ halted' \in BOOLEAN
         /\ \E e \in {0, q} : /\ Order(s, side, e, phase, answer) \in Sent
                              /\ sent' = Append(sent, Order(s, side, e, phase, answer))
                              /\ answer = "rejected" => e = 0
<1>1. q \in Nat /\ q > 0 /\ ~halted /\ halted' = Halts(answer)
  BY DEF Submit
<1>2. PICK e \in {0, q} : /\ sent' = Append(sent, Order(s, side, e, phase, answer))
                          /\ answer = "rejected" => e = 0
  BY DEF Submit
<1>3. view.plan[s] \in Nat
  BY DEF TypeOK, View
<1>4. Order(s, side, e, phase, answer) \in Sent
  <2>1. e \in Nat /\ 0 \in Nat
    BY <1>1
  <2> QED BY <2>1, <1>3 DEF Order, Sent
<1> QED BY <1>1, <1>2, <1>4 DEF Halts

(* What is left of a list when its first member is taken.                  *)
LEMMA Rests ==
  ASSUME NEW T, NEW q \in Seq(T), q # <<>>
  PROVE  /\ Head(q) = q[1] /\ 1 \in DOMAIN q /\ Tail(q) \in Seq(T)
         /\ \A i \in DOMAIN Tail(q) : i \in Nat /\ i + 1 # 1 /\ i + 1 \in DOMAIN q /\ Tail(q)[i] = q[i + 1]
         /\ \A i, j \in DOMAIN Tail(q) : i + 1 = j + 1 => i = j
<1>1. /\ Len(q) \in Nat /\ Len(q) >= 1 /\ DOMAIN q = 1 .. Len(q)
      /\ Tail(q) \in Seq(T) /\ Len(Tail(q)) = Len(q) - 1 /\ Head(q) = q[1]
  BY EmptySeq, LenProperties, HeadTailProperties
<1>2. DOMAIN Tail(q) = 1 .. (Len(q) - 1)
  BY <1>1, LenProperties
<1>3. \A i \in 1 .. (Len(q) - 1) : Tail(q)[i] = q[i + 1]
  BY <1>1, HeadTailProperties
<1>4. \A i \in 1 .. (Len(q) - 1) : i \in Nat /\ i + 1 # 1 /\ i + 1 \in 1 .. Len(q)
  BY <1>1
<1>5. \A i, j \in Nat : i + 1 = j + 1 => i = j
  OBVIOUS
<1> QED BY <1>1, <1>2, <1>3, <1>4, <1>5

(* The quantities that are submitted are whole.                            *)
LEMMA QuantitiesTyped ==
  ASSUME CycleAssumption, TypeOK, NEW s \in Symbol
  PROVE  /\ HeldValue(s) \in Int /\ SellQuantity(s) \in Int /\ Planned(s) \in Int
         /\ view.sellable[s] \in Nat /\ view.investable \div Price[s] \in Int
<1>1. /\ view.held[s] \in Int /\ view.sellable[s] \in Nat /\ view.target[s] \in Nat /\ view.investable \in Nat
      /\ Price[s] \in Nat \ {0}
  BY DEF TypeOK, View, CycleAssumption
<1>2. HeldValue(s) \in Int
  BY <1>1 DEF HeldValue
<1>3. /\ (HeldValue(s) - view.target[s]) \div Price[s] \in Int /\ view.investable \div Price[s] \in Int
      /\ Smaller(view.target[s] - HeldValue(s), view.investable) \div Price[s] \in Int
  <2> DEFINE worth == HeldValue(s)
             target == view.target[s]
  <2>1. /\ HeldValue(s) - view.target[s] \in Int /\ view.target[s] - HeldValue(s) \in Int
        /\ view.investable \in Int
    <3>1. worth \in Int /\ target \in Int
      BY <1>1, <1>2
    <3> HIDE DEF worth, target
    <3>2. worth - target \in Int /\ target - worth \in Int
      BY <3>1
    <3> QED BY <1>1, <3>2 DEF worth, target
  <2>2. Smaller(view.target[s] - HeldValue(s), view.investable) \in Int
    BY <2>1, Extremes
  <2> QED BY <1>1, <2>1, <2>2, Shares
<1>4. SellQuantity(s) \in Int
  BY <1>1, <1>3 DEF SellQuantity, Smaller
<1>5. Planned(s) \in Int
  BY <1>3 DEF Planned
<1> QED BY <1>1, <1>2, <1>3, <1>4, <1>5

(* The broker's steps: no order is added or rewritten, and what is executed*)
(* stays so.                                                               *)
LEMMA BrokerSteps ==
  ASSUME TypeOK, NEW i \in DOMAIN sent, Executes(i) \/ Settles(i)
  PROVE  /\ sent' \in Seq(Sent) /\ Len(sent') = Len(sent) /\ DOMAIN sent' = DOMAIN sent
         /\ \A j \in DOMAIN sent :
               /\ sent'[j].symbol = sent[j].symbol /\ sent'[j].side = sent[j].side
               /\ sent'[j].quantity = sent[j].quantity /\ sent'[j].phase = sent[j].phase
               /\ sent'[j].plan = sent[j].plan /\ sent'[j].answer = sent[j].answer
               /\ sent[j].executed <= sent'[j].executed
               /\ sent'[j].settled <= sent'[j].executed /\ sent'[j].executed <= sent'[j].quantity
         /\ UNCHANGED <<pc, view, todo, local, risk, halted, sold, loop, negative>>
<1>1. sent \in Seq(Sent) /\ Len(sent) \in Nat /\ DOMAIN sent = 1 .. Len(sent) /\ \A j \in DOMAIN sent : sent[j] \in Sent
  BY SentIndices DEF TypeOK
<1>2. \A j \in DOMAIN sent : sent[j].settled <= sent[j].executed /\ sent[j].executed <= sent[j].quantity
  BY DEF TypeOK
<1>3. \A j \in DOMAIN sent : /\ sent[j].executed \in Nat /\ sent[j].settled \in Nat /\ sent[j].quantity \in Nat
  BY <1>1 DEF Sent
<1>4. \A o \in Sent, n \in Nat : [o EXCEPT !.executed = n] \in Sent /\ [o EXCEPT !.settled = n] \in Sent
  BY DEF Sent
<1>7. \A o \in Sent, n \in Nat :
        /\ LET e == [o EXCEPT !.executed = n]
           IN /\ e.symbol = o.symbol /\ e.side = o.side /\ e.quantity = o.quantity /\ e.phase = o.phase
              /\ e.plan = o.plan /\ e.answer = o.answer /\ e.settled = o.settled /\ e.executed = n
        /\ LET e == [o EXCEPT !.settled = n]
           IN /\ e.symbol = o.symbol /\ e.side = o.side /\ e.quantity = o.quantity /\ e.phase = o.phase
              /\ e.plan = o.plan /\ e.answer = o.answer /\ e.settled = n /\ e.executed = o.executed
  BY DEF Sent
<1>5. CASE Executes(i)
  <2>1. sent' = [sent EXCEPT ![i] = [sent[i] EXCEPT !.executed = sent[i].executed + 1]] /\ sent[i].executed < sent[i].quantity
    BY <1>5 DEF Executes
  <2>2. [sent[i] EXCEPT !.executed = sent[i].executed + 1] \in Sent
    <3>1. sent[i].executed + 1 \in Nat
      BY <1>3
    <3> QED BY <1>1, <1>4, <3>1
  <2>3. sent' \in Seq(Sent) /\ Len(sent') = Len(sent)
    BY <1>1, <2>1, <2>2, ExceptSeq
  <2>4. DOMAIN sent' = DOMAIN sent
    BY <2>1
  <2>5. \A j \in DOMAIN sent : sent'[j] = IF j = i THEN [sent[i] EXCEPT !.executed = sent[i].executed + 1] ELSE sent[j]
    BY <2>1
  <2>6. UNCHANGED <<pc, view, todo, local, risk, halted, sold, loop, negative>>
    BY <1>5 DEF Executes
  <2>7. \A j \in DOMAIN sent :
               /\ sent'[j].symbol = sent[j].symbol /\ sent'[j].side = sent[j].side
               /\ sent'[j].quantity = sent[j].quantity /\ sent'[j].phase = sent[j].phase
               /\ sent'[j].plan = sent[j].plan /\ sent'[j].answer = sent[j].answer
               /\ sent'[j].settled = sent[j].settled
               /\ sent'[j].executed = IF j = i THEN sent[i].executed + 1 ELSE sent[j].executed
    <3>1. sent[i].executed + 1 \in Nat
      BY <1>3
    <3> TAKE j \in DOMAIN sent
    <3>2. CASE j = i
      <4>1. sent'[i] = [sent[i] EXCEPT !.executed = sent[i].executed + 1] /\ sent[i] \in Sent
        BY <1>1, <2>5
      <4> QED BY <1>7, <3>1, <3>2, <4>1
    <3>3. CASE j # i
      BY <2>5, <3>3
    <3> QED BY <3>2, <3>3
  <2>8. \A j \in DOMAIN sent : /\ sent[j].executed <= sent'[j].executed
                               /\ sent'[j].settled <= sent'[j].executed /\ sent'[j].executed <= sent'[j].quantity
    BY <1>2, <1>3, <2>1, <2>7
  <2> QED BY <2>3, <2>4, <2>6, <2>7, <2>8
<1>6. CASE Settles(i)
  <2>1. sent' = [sent EXCEPT ![i] = [sent[i] EXCEPT !.settled = sent[i].executed]]
    BY <1>6 DEF Settles
  <2>2. [sent[i] EXCEPT !.settled = sent[i].executed] \in Sent
    BY <1>1, <1>3, <1>4
  <2>3. sent' \in Seq(Sent) /\ Len(sent') = Len(sent)
    BY <1>1, <2>1, <2>2, ExceptSeq
  <2>4. DOMAIN sent' = DOMAIN sent
    BY <2>1
  <2>5. \A j \in DOMAIN sent : sent'[j] = IF j = i THEN [sent[i] EXCEPT !.settled = sent[i].executed] ELSE sent[j]
    BY <2>1
  <2>6. UNCHANGED <<pc, view, todo, local, risk, halted, sold, loop, negative>>
    BY <1>6 DEF Settles
  <2>7. \A j \in DOMAIN sent :
               /\ sent'[j].symbol = sent[j].symbol /\ sent'[j].side = sent[j].side
               /\ sent'[j].quantity = sent[j].quantity /\ sent'[j].phase = sent[j].phase
               /\ sent'[j].plan = sent[j].plan /\ sent'[j].answer = sent[j].answer
               /\ sent'[j].executed = sent[j].executed
               /\ sent'[j].settled = IF j = i THEN sent[i].executed ELSE sent[j].settled
    <3> TAKE j \in DOMAIN sent
    <3>2. CASE j = i
      <4>1. sent'[i] = [sent[i] EXCEPT !.settled = sent[i].executed] /\ sent[i] \in Sent /\ sent[i].executed \in Nat
        BY <1>1, <1>3, <2>5
      <4> QED BY <1>7, <3>2, <4>1
    <3>3. CASE j # i
      BY <2>5, <3>3
    <3> QED BY <3>2, <3>3
  <2>8. \A j \in DOMAIN sent : /\ sent[j].executed <= sent'[j].executed
                               /\ sent'[j].settled <= sent'[j].executed /\ sent'[j].executed <= sent'[j].quantity
    BY <1>2, <1>3, <2>7
  <2> QED BY <2>3, <2>4, <2>6, <2>7, <2>8
<1> QED BY <1>5, <1>6

-----------------------------------------------------------------------------
(* The types.                                                              *)
LEMMA TypeInit == ASSUME CycleAssumption, Init PROVE TypeOK
<1>1. Asset \in Seq(Symbol) /\ InitHold \in [Symbol -> Nat] /\ Attempts \in Nat
  BY DEF CycleAssumption
<1>2. view \in View
  BY <1>1 DEF Init, NoView, View
<1>3. todo \in Seq(Symbol) /\ sent \in Seq(Sent) /\ DOMAIN sent = {}
  BY EmptySeq DEF Init
<1>4. \A i \in DOMAIN sent : sent[i].settled <= sent[i].executed /\ sent[i].executed <= sent[i].quantity
  BY <1>3
<1>5. 0 \in 0 .. Attempts /\ 2 \in 0 .. 2 /\ 0 \in Nat
  BY <1>1
<1> QED BY <1>1, <1>2, <1>3, <1>4, <1>5 DEF Init, TypeOK, Pc, Gate

LEMMA SubmitTyped ==
  ASSUME CycleAssumption, TypeOK, NEW s \in Symbol, NEW side \in {"sell", "buy"}, NEW q \in Int,
         NEW phase \in Phase, NEW answer \in Answer, Submit(s, side, q, phase, answer)
  PROVE  /\ halted' \in BOOLEAN /\ sent' \in Seq(Sent)
         /\ \A i \in DOMAIN sent' : sent'[i].settled <= sent'[i].executed /\ sent'[i].executed <= sent'[i].quantity
<1>1. PICK e \in {0, q} : /\ Order(s, side, e, phase, answer) \in Sent
                          /\ sent' = Append(sent, Order(s, side, e, phase, answer))
                          /\ answer = "rejected" => e = 0
  BY Submitting
<1>2. q \in Nat /\ halted' \in BOOLEAN
  BY Submitting
<1>3. /\ sent' \in Seq(Sent) /\ DOMAIN sent' = DOMAIN sent \cup {Len(sent) + 1}
      /\ \A i \in DOMAIN sent : sent'[i] = sent[i]
      /\ sent'[Len(sent) + 1] = Order(s, side, e, phase, answer)
  BY <1>1, Appended
<1>4. LET o == Order(s, side, e, phase, answer) IN o.settled <= o.executed /\ o.executed <= o.quantity
  BY <1>2 DEF Order
<1> QED BY <1>2, <1>3, <1>4 DEF TypeOK

LEMMA ObserveTyped ==
  ASSUME TypeOK, NEW gate \in Gate, NEW blocked \in BOOLEAN, NEW factor \in 0 .. 2, Observe(gate, blocked, factor)
  PROVE  /\ riskBlocked' \in BOOLEAN /\ snapshot' \in Gate /\ scale' \in 0 .. 2 /\ ScaleLatch(factor) \in 0 .. 2
         /\ seen' \subseteq Gate \union {"blocked"}
  BY DEF TypeOK, Observe, RiskLatch, ScaleLatch, Smaller

LEMMA TypeStep == ASSUME CycleAssumption, TypeOK, Refreshing, [Next]_vars PROVE TypeOK' /\ Refreshing'
<1> USE DEF local, loop, risk
<1>1. ASSUME Plan PROVE TypeOK' /\ Refreshing'
  <2>1. PICK t \in Targets, gate \in Gate, blocked \in BOOLEAN, factor \in Scales, sub \in Substitutes :
           /\ Observe(gate, blocked, factor) /\ view' = Portfolio(t, factor, sub) /\ todo' = Asset
           /\ pc' = IF blocked THEN "done" ELSE "sell"
           /\ UNCHANGED <<local, halted, sold, loop, negative, sent>>
    BY <1>1 DEF Plan
  <2>2. factor \in 0 .. 2 /\ Asset \in Seq(Symbol)
    BY DEF CycleAssumption
  <2>3. view' \in View
    BY <2>1, <2>2, PortfolioTyped
  <2>4. riskBlocked' \in BOOLEAN /\ snapshot' \in Gate /\ scale' \in 0 .. 2 /\ seen' \subseteq Gate \union {"blocked"}
    BY <2>1, <2>2, ObserveTyped
  <2>5. pc' \in Pc
    BY <2>1 DEF Pc
  <2> QED BY <2>1, <2>2, <2>3, <2>4, <2>5 DEF TypeOK, Refreshing
<1>2. ASSUME Sell PROVE TypeOK' /\ Refreshing'
  <2>1. PICK answer \in Answer : /\ Submit(Head(todo), "sell", SellQuantity(Head(todo)), "sell", answer)
                                 /\ sold' = (sold \/ Submitted(answer))
                                 /\ sweepSold' = (sweepSold \/ (Submitted(answer) /\ Head(todo) = Sweep))
                                 /\ pendingRelease' = (pendingRelease \/ answer = "rejected")
    BY <1>2 DEF Sell
  <2>2. Head(todo) \in Symbol /\ Tail(todo) \in Seq(Symbol)
    BY <1>2, HeadTailProperties DEF Sell, TypeOK
  <2>3. /\ halted' \in BOOLEAN /\ sent' \in Seq(Sent)
        /\ \A i \in DOMAIN sent' : sent'[i].settled <= sent'[i].executed /\ sent'[i].executed <= sent'[i].quantity
    BY <2>1, <2>2, SubmitTyped, QuantitiesTyped DEF Phase
  <2>4. sold' \in BOOLEAN /\ sweepSold' \in BOOLEAN /\ pendingRelease' \in BOOLEAN
    BY <2>1 DEF TypeOK, Submitted
  <2>5. todo' = Tail(todo) /\ UNCHANGED <<pc, view, small, risk, loop, negative>>
    BY <1>2 DEF Sell
  <2> QED BY <2>2, <2>3, <2>4, <2>5 DEF TypeOK, Refreshing
<1>3. ASSUME SkipSell \/ SkipBuy PROVE TypeOK' /\ Refreshing'
  <2>1. todo' = Tail(todo) /\ todo # <<>> /\ UNCHANGED <<pc, view, local, risk, halted, sold, loop, negative, sent>>
    BY <1>3 DEF SkipSell, SkipBuy
  <2>2. Tail(todo) \in Seq(Symbol)
    BY <2>1, HeadTailProperties DEF TypeOK
  <2> QED BY <2>1, <2>2 DEF TypeOK, Refreshing
<1>4. ASSUME SellsDone \/ BuysDone \/ NoRebuy PROVE TypeOK' /\ Refreshing'
  <2>1. /\ pc' \in {"fund", "rebuy", "done"}
        /\ UNCHANGED <<view, todo, local, risk, halted, sold, loop, negative, sent>>
    BY <1>4 DEF SellsDone, BuysDone, NoRebuy
  <2>2. pc' \in Pc /\ pc' # "refresh"
    BY <2>1 DEF Pc
  <2> QED BY <2>1, <2>2 DEF TypeOK, Refreshing, local, risk, loop
<1>5. ASSUME Fund PROVE TypeOK' /\ Refreshing'
  <2>1. PICK answer \in Answer :
           /\ Submit(Sweep, "sell", view.sellable[Sweep], "fund", answer)
           /\ sold' = Submitted(answer) /\ sweepSold' = (sweepSold \/ Submitted(answer))
           /\ AfterFunding(Submitted(answer), halted')
    BY <1>5 DEF Fund
  <2>2. Sweep \in Symbol /\ 0 \in 0 .. Attempts /\ view.investable \in Nat
    BY DEF CycleAssumption, TypeOK, View
  <2>3. /\ halted' \in BOOLEAN /\ sent' \in Seq(Sent)
        /\ \A i \in DOMAIN sent' : sent'[i].settled <= sent'[i].executed /\ sent'[i].executed <= sent'[i].quantity
    <3>1. view.sellable[Sweep] \in Int /\ "fund" \in Phase /\ "sell" \in {"sell", "buy"}
      BY <2>2, QuantitiesTyped DEF Phase
    <3> QED BY <2>1, <2>2, <3>1, SubmitTyped
  <2>4. sold' \in BOOLEAN /\ sweepSold' \in BOOLEAN
    BY <2>1 DEF TypeOK, Submitted
  <2>5. pc' \in Pc
    BY <2>1 DEF AfterFunding, Pc
  <2>6. StartRefresh /\ UNCHANGED <<view, todo, small, pendingRelease, risk, negative>>
    BY <1>5 DEF Fund
  <2> QED BY <2>2, <2>3, <2>4, <2>5, <2>6 DEF TypeOK, StartRefresh, Refreshing, CycleAssumption
<1>6. ASSUME NoFund PROVE TypeOK' /\ Refreshing'
  <2>1. 0 \in 0 .. Attempts /\ view.investable \in Nat
    BY DEF CycleAssumption, TypeOK, View
  <2> QED BY <1>6, <2>1 DEF NoFund, TypeOK, AfterFunding, StartRefresh, Pc, Refreshing, CycleAssumption
<1>7. ASSUME Refresh PROVE TypeOK' /\ Refreshing'
  <2>1. PICK t \in Targets, gate \in Gate, blocked \in BOOLEAN, factor \in Scales, sub \in Substitutes,
             answered \in SUBSET KnownSells :
           LET fresh == Portfolio(t, ScaleLatch(factor), sub)
           IN /\ pc = "refresh" /\ Observe(gate, blocked, factor)
              /\ halted' = (halted \/ blocked) /\ attempt' = attempt + 1
              /\ released' = Larger(released, Release(answered)) /\ best' = Larger(best, fresh.investable)
              /\ IF fresh.investable > before \/ LastAttempt
                 THEN /\ pc' = "screen"
                      /\ view' = [fresh EXCEPT !.investable = Forecast(@, best', before + released')]
                 ELSE UNCHANGED <<pc, view>>
              /\ UNCHANGED <<todo, local, sold, before, negative, sent>>
    BY <1>7 DEF Refresh
  <2> DEFINE fresh == Portfolio(t, ScaleLatch(factor), sub)
  <2>2. factor \in 0 .. 2
    BY DEF CycleAssumption
  <2>3. riskBlocked' \in BOOLEAN /\ snapshot' \in Gate /\ scale' \in 0 .. 2 /\ seen' \subseteq Gate \union {"blocked"}
    BY <2>1, <2>2, ObserveTyped
  <2>4. fresh \in View
    BY <2>1, <2>2, ObserveTyped, PortfolioTyped
  <2>5. Release(answered) \in Nat
    BY SumsTyped DEF Release, KnownSells, Sides
  <2>6. best' \in Nat /\ released' \in Nat /\ halted' \in BOOLEAN /\ attempt' = attempt + 1 /\ before \in Nat
    BY <2>1, <2>4, <2>5 DEF TypeOK, View, Larger
  <2>7. attempt < Attempts /\ attempt \in Nat /\ Attempts \in Nat
    BY <2>1 DEF Refreshing, TypeOK, CycleAssumption
  <2>8. pc' \in Pc /\ view' \in View /\ Refreshing'
    <3>1. CASE fresh.investable > before \/ LastAttempt
      <4>1. Forecast(fresh.investable, best', before + released') \in Nat
        <5>1. fresh.investable \in Nat
          BY <2>4 DEF View
        <5> HIDE DEF fresh
        <5>2. best' \in Int /\ before + released' \in Int
          BY <2>6
        <5>3. Larger(fresh.investable, best') \in Nat
          BY <5>1, <5>2, Extremes
        <5> QED BY <5>2, <5>3, Extremes DEF Forecast
      <4>2. view' = [fresh EXCEPT !.investable = Forecast(fresh.investable, best', before + released')] /\ pc' = "screen"
        BY <2>1, <3>1
      <4> HIDE DEF fresh
      <4>3. view' \in View
        BY <2>4, <4>1, <4>2 DEF View
      <4> QED BY <4>2, <4>3 DEF Pc, Refreshing
    <3>2. CASE ~(fresh.investable > before \/ LastAttempt)
      <4>1. UNCHANGED <<pc, view>> /\ attempt + 1 # Attempts
        BY <2>1, <3>2 DEF LastAttempt
      <4> QED BY <2>6, <2>7, <4>1 DEF TypeOK, Refreshing
    <3> QED BY <3>1, <3>2
  <2>9. UNCHANGED <<todo, local, sold, before, negative, sent>>
    BY <2>1
  <2> QED BY <2>3, <2>6, <2>7, <2>8, <2>9 DEF TypeOK
<1>8. ASSUME Screen PROVE TypeOK' /\ Refreshing'
  <2>1. PICK quoted \in SUBSET Candidates :
          LET deferred == halted \/ small \/ riskBlocked \/ AwaitsRelease(quoted)
          IN /\ negative' = (Candidates # {} /\ ~deferred /\ CashOnly /\ view.cash < 0)
             /\ todo' = IF deferred \/ negative' \/ view.investable = 0 THEN <<>> ELSE Asset
    BY <1>8 DEF Screen
  <2>2. negative' \in BOOLEAN /\ todo' \in Seq(Symbol)
    BY <2>1, EmptySeq DEF CycleAssumption
  <2>3. pc' \in Pc /\ pc' = "buy" /\ UNCHANGED <<view, local, risk, halted, sold, loop, sent>>
    BY <1>8 DEF Screen, Pc
  <2> QED BY <2>2, <2>3 DEF TypeOK, Refreshing
<1>9. ASSUME Buy PROVE TypeOK' /\ Refreshing'
  <2> DEFINE s == Head(todo)
  <2>1. PICK answer \in Answer, estimate \in Lots :
          LET quantity == Smaller(Planned(s), estimate)
          IN /\ Submit(s, "buy", quantity, "buy", answer)
             /\ view' = IF Submitted(answer)
                        THEN [view EXCEPT !.investable = Larger(0, @ - quantity * Price[s])] ELSE view
    BY <1>9 DEF Buy
  <2>2. s \in Symbol /\ Tail(todo) \in Seq(Symbol)
    BY <1>9, HeadTailProperties DEF Buy, TypeOK
  <2> DEFINE quantity == Smaller(Planned(s), estimate)
  <2>3. quantity \in Int /\ Price[s] \in Int
    <3>1. Planned(s) \in Int /\ estimate \in Int /\ Price[s] \in Int
      <4>1. Planned(s) \in Int
        BY <2>2, QuantitiesTyped
      <4>2. estimate \in Int /\ Price[s] \in Int
        BY <2>2 DEF CycleAssumption
      <4> QED BY <4>1, <4>2
    <3> QED BY <3>1, Extremes
  <2>4. /\ halted' \in BOOLEAN /\ sent' \in Seq(Sent)
        /\ \A i \in DOMAIN sent' : sent'[i].settled <= sent'[i].executed /\ sent'[i].executed <= sent'[i].quantity
    BY <2>1, <2>2, <2>3, SubmitTyped DEF Phase
  <2>5. view' \in View
    <3>1. quantity * Price[s] \in Int
      BY <2>3
    <3>2. view \in View /\ view.investable \in Nat
      BY DEF TypeOK, View
    <3>3. Larger(0, view.investable - quantity * Price[s]) \in Nat
      BY <3>1, <3>2 DEF Larger
    <3>4. \A n \in Nat : [view EXCEPT !.investable = n] \in View
      BY <3>2 DEF View
    <3> QED BY <2>1, <3>2, <3>3, <3>4
  <2>6. todo' = Tail(todo) /\ UNCHANGED <<pc, local, risk, sold, loop, negative>>
    BY <1>9 DEF Buy
  <2> QED BY <2>2, <2>4, <2>5, <2>6 DEF TypeOK, Refreshing
<1>10. ASSUME Rebuy PROVE TypeOK' /\ Refreshing'
  <2>1. PICK answer \in Answer, estimate \in Lots :
          Submit(Sweep, "buy", Smaller(view.investable \div Price[Sweep], estimate), "rebuy", answer)
    BY <1>10 DEF Rebuy
  <2>2. Sweep \in Symbol /\ Smaller(view.investable \div Price[Sweep], estimate) \in Int
    <3>1. Sweep \in Symbol /\ estimate \in Int
      BY DEF CycleAssumption
    <3>2. view.investable \div Price[Sweep] \in Int
      BY <3>1, QuantitiesTyped
    <3> QED BY <3>1, <3>2, Extremes
  <2>3. /\ halted' \in BOOLEAN /\ sent' \in Seq(Sent)
        /\ \A i \in DOMAIN sent' : sent'[i].settled <= sent'[i].executed /\ sent'[i].executed <= sent'[i].quantity
    BY <2>1, <2>2, SubmitTyped DEF Phase
  <2>4. pc' \in Pc /\ pc' = "done" /\ UNCHANGED <<view, todo, local, risk, sold, loop, negative>>
    BY <1>10 DEF Rebuy, Pc
  <2> QED BY <2>3, <2>4 DEF TypeOK, Refreshing
<1>11. ASSUME NEW i \in DOMAIN sent, Executes(i) \/ Settles(i) PROVE TypeOK' /\ Refreshing'
  BY <1>11, BrokerSteps DEF TypeOK, Refreshing
<1>12. ASSUME UNCHANGED vars PROVE TypeOK' /\ Refreshing'
  BY <1>12 DEF vars, TypeOK, Refreshing
<1> QED BY <1>1, <1>2, <1>3, <1>4, <1>5, <1>6, <1>7, <1>8, <1>9, <1>10, <1>11, <1>12 DEF Next, Cycle

-----------------------------------------------------------------------------
(* What each of the four submissions sends, and what else it changes.      *)
Adds(o) == o \in Sent /\ sent' = Append(sent, o)

LEMMA SellSends ==
  ASSUME CycleAssumption, TypeOK, Sell
  PROVE  \E s \in Symbol, answer \in Answer, e \in Nat :
           /\ todo \in Seq(Symbol) /\ todo # <<>> /\ s = Head(todo) /\ todo' = Tail(todo)
           /\ pc = "sell" /\ NeedsSell(s) /\ e <= SellQuantity(s)
           /\ Adds(Order(s, "sell", e, "sell", answer)) /\ (answer = "rejected" => e = 0)
           /\ ~halted /\ halted' = Halts(answer)
           /\ sold' = (sold \/ Submitted(answer))
           /\ sweepSold' = (sweepSold \/ (Submitted(answer) /\ s = Sweep))
           /\ UNCHANGED <<pc, view, small, risk, loop, negative>>
<1>1. todo \in Seq(Symbol) /\ todo # <<>> /\ Head(todo) \in Symbol
  BY HeadTailProperties DEF Sell, TypeOK
<1>2. PICK s \in Symbol : s = Head(todo)
  BY <1>1
<1>3. PICK answer \in Answer : /\ NeedsSell(s) /\ Submit(s, "sell", SellQuantity(s), "sell", answer)
                               /\ sold' = (sold \/ Submitted(answer))
                               /\ sweepSold' = (sweepSold \/ (Submitted(answer) /\ s = Sweep))
  BY <1>2 DEF Sell
<1>4. SellQuantity(s) \in Int /\ "sell" \in Phase /\ "sell" \in {"sell", "buy"}
  BY QuantitiesTyped DEF Phase
<1>5. /\ SellQuantity(s) \in Nat /\ ~halted /\ halted' = Halts(answer)
      /\ \E e \in {0, SellQuantity(s)} : /\ Order(s, "sell", e, "sell", answer) \in Sent
                                         /\ sent' = Append(sent, Order(s, "sell", e, "sell", answer))
                                         /\ answer = "rejected" => e = 0
  BY <1>3, <1>4, Submitting
<1>6. PICK e \in {0, SellQuantity(s)} : /\ Order(s, "sell", e, "sell", answer) \in Sent
                                        /\ sent' = Append(sent, Order(s, "sell", e, "sell", answer))
                                        /\ answer = "rejected" => e = 0
  BY <1>5
<1>7. e \in Nat /\ e <= SellQuantity(s)
  BY <1>5
<1>8. todo' = Tail(todo) /\ UNCHANGED <<pc, view, small, risk, loop, negative>> /\ pc = "sell"
  BY DEF Sell
<1>9. Adds(Order(s, "sell", e, "sell", answer))
  BY <1>6 DEF Adds
<1> QED BY <1>1, <1>2, <1>3, <1>5, <1>6, <1>7, <1>8, <1>9

LEMMA FundSends ==
  ASSUME CycleAssumption, TypeOK, Fund
  PROVE  \E answer \in Answer, e \in Nat :
           /\ pc = "fund" /\ MayFund /\ e <= view.sellable[Sweep]
           /\ Adds(Order(Sweep, "sell", e, "fund", answer)) /\ (answer = "rejected" => e = 0)
           /\ ~halted /\ halted' = Halts(answer)
           /\ sold' = Submitted(answer) /\ sweepSold' = (sweepSold \/ Submitted(answer))
           /\ AfterFunding(Submitted(answer), halted') /\ StartRefresh
           /\ UNCHANGED <<view, todo, small, pendingRelease, risk, negative>>
<1> DEFINE q == view.sellable[Sweep]
<1>1. PICK answer \in Answer :
         /\ Submit(Sweep, "sell", q, "fund", answer)
         /\ sold' = Submitted(answer) /\ sweepSold' = (sweepSold \/ Submitted(answer))
         /\ AfterFunding(Submitted(answer), halted')
  BY DEF Fund
<1>2. Sweep \in Symbol
  BY DEF CycleAssumption
<1>3. q \in Int /\ "fund" \in Phase /\ "sell" \in {"sell", "buy"}
  BY <1>2, QuantitiesTyped DEF Phase
<1>4. /\ q \in Nat /\ ~halted /\ halted' = Halts(answer)
      /\ \E e \in {0, q} : /\ Order(Sweep, "sell", e, "fund", answer) \in Sent
                           /\ sent' = Append(sent, Order(Sweep, "sell", e, "fund", answer))
                           /\ answer = "rejected" => e = 0
  BY <1>1, <1>2, <1>3, Submitting
<1>5. PICK e \in {0, q} : /\ Order(Sweep, "sell", e, "fund", answer) \in Sent
                          /\ sent' = Append(sent, Order(Sweep, "sell", e, "fund", answer))
                          /\ answer = "rejected" => e = 0
  BY <1>4
<1>6. e \in Nat /\ e <= q
  BY <1>4
<1>7. pc = "fund" /\ MayFund /\ StartRefresh /\ UNCHANGED <<view, todo, small, pendingRelease, risk, negative>>
  BY DEF Fund
<1> QED BY <1>1, <1>4, <1>5, <1>6, <1>7 DEF Adds

LEMMA BuySends ==
  ASSUME CycleAssumption, TypeOK, Buy
  PROVE  \E s \in Symbol, answer \in Answer, q \in Nat, e \in Nat :
           /\ e \in {0, q} /\ todo \in Seq(Symbol) /\ todo # <<>> /\ s = Head(todo) /\ todo' = Tail(todo)
           /\ pc = "buy" /\ WantsBuy(s) /\ q <= Planned(s) /\ q > 0
           /\ Adds(Order(s, "buy", e, "buy", answer)) /\ (answer = "rejected" => e = 0)
           /\ ~halted /\ halted' = Halts(answer)
           /\ view' = IF Submitted(answer)
                      THEN [view EXCEPT !.investable = Larger(0, @ - q * Price[s])] ELSE view
           /\ UNCHANGED <<pc, local, risk, sold, loop, negative>>
<1> DEFINE s == Head(todo)
<1>1. s \in Symbol /\ todo \in Seq(Symbol) /\ todo # <<>>
  BY HeadTailProperties DEF Buy, TypeOK
<1>2. PICK answer \in Answer, estimate \in Lots :
         /\ WantsBuy(s) /\ Submit(s, "buy", Smaller(Planned(s), estimate), "buy", answer)
         /\ view' = IF Submitted(answer)
                    THEN [view EXCEPT !.investable = Larger(0, @ - Smaller(Planned(s), estimate) * Price[s])] ELSE view
  BY DEF Buy
<1> DEFINE q == Smaller(Planned(s), estimate)
<1>3. q \in Int /\ q <= Planned(s) /\ "buy" \in Phase /\ "buy" \in {"sell", "buy"}
  <2>1. Planned(s) \in Int
    BY <1>1, QuantitiesTyped
  <2>2. estimate \in Int
    BY DEF CycleAssumption
  <2> QED BY <2>1, <2>2, Extremes DEF Phase
<1>4. /\ q \in Nat /\ q > 0 /\ ~halted /\ halted' = Halts(answer)
      /\ \E e \in {0, q} : /\ Order(s, "buy", e, "buy", answer) \in Sent
                           /\ sent' = Append(sent, Order(s, "buy", e, "buy", answer))
                           /\ answer = "rejected" => e = 0
  <2> HIDE DEF q, s
  <2>1. Submit(s, "buy", q, "buy", answer)
    BY <1>2 DEF q, s
  <2> QED BY <1>1, <1>3, <2>1, Submitting
<1>5. PICK e \in {0, q} : /\ Order(s, "buy", e, "buy", answer) \in Sent
                          /\ sent' = Append(sent, Order(s, "buy", e, "buy", answer))
                          /\ answer = "rejected" => e = 0
  BY <1>4
<1>9. e \in Nat
  BY <1>4
<1>6. todo' = Tail(todo) /\ UNCHANGED <<pc, local, risk, sold, loop, negative>> /\ pc = "buy"
  BY DEF Buy
<1>7. view' = IF Submitted(answer)
              THEN [view EXCEPT !.investable = Larger(0, @ - q * Price[s])] ELSE view
  BY <1>2
<1>8. s = Head(todo) /\ WantsBuy(s)
  BY <1>2
<1> HIDE DEF s, q
<1> QED BY <1>1, <1>3, <1>4, <1>5, <1>6, <1>7, <1>8, <1>9 DEF Adds

LEMMA RebuySends ==
  ASSUME CycleAssumption, TypeOK, Rebuy
  PROVE  \E answer \in Answer, q \in Nat, e \in Nat :
           /\ e \in {0, q} /\ pc = "rebuy" /\ pc' = "done" /\ MayRebuy /\ q <= view.investable \div Price[Sweep]
           /\ Adds(Order(Sweep, "buy", e, "rebuy", answer)) /\ (answer = "rejected" => e = 0)
           /\ ~halted /\ halted' = Halts(answer)
           /\ UNCHANGED <<view, todo, local, risk, sold, loop, negative>>
<1>1. PICK answer \in Answer, estimate \in Lots :
         Submit(Sweep, "buy", Smaller(view.investable \div Price[Sweep], estimate), "rebuy", answer)
  BY DEF Rebuy
<1> DEFINE q == Smaller(view.investable \div Price[Sweep], estimate)
<1>2. Sweep \in Symbol /\ estimate \in Int
  BY DEF CycleAssumption
<1>3. q \in Int /\ q <= view.investable \div Price[Sweep] /\ "rebuy" \in Phase /\ "buy" \in {"sell", "buy"}
  <2>1. view.investable \div Price[Sweep] \in Int
    BY <1>2, QuantitiesTyped
  <2> QED BY <1>2, <2>1, Extremes DEF Phase
<1>4. /\ q \in Nat /\ ~halted /\ halted' = Halts(answer)
      /\ \E e \in {0, q} : /\ Order(Sweep, "buy", e, "rebuy", answer) \in Sent
                           /\ sent' = Append(sent, Order(Sweep, "buy", e, "rebuy", answer))
                           /\ answer = "rejected" => e = 0
  <2> HIDE DEF q
  <2>1. Submit(Sweep, "buy", q, "rebuy", answer)
    BY <1>1 DEF q
  <2> QED BY <1>2, <1>3, <2>1, Submitting
<1>5. PICK e \in {0, q} : /\ Order(Sweep, "buy", e, "rebuy", answer) \in Sent
                          /\ sent' = Append(sent, Order(Sweep, "buy", e, "rebuy", answer))
                          /\ answer = "rejected" => e = 0
  BY <1>4
<1>6. pc = "rebuy" /\ pc' = "done" /\ MayRebuy /\ UNCHANGED <<view, todo, local, risk, sold, loop, negative>>
  BY DEF Rebuy
<1>7. e \in Nat
  BY <1>4
<1> HIDE DEF q
<1> QED BY <1>7, <1>3, <1>4, <1>5, <1>6 DEF Adds

(* The other steps leave the orders as they are.                           *)
LEMMA OtherSteps ==
  ASSUME Plan \/ SkipSell \/ SellsDone \/ NoFund \/ Refresh \/ Screen \/ SkipBuy \/ BuysDone \/ NoRebuy
         \/ UNCHANGED vars
  PROVE  UNCHANGED <<sent, sweepSold>>
  BY DEF Plan, SkipSell, SellsDone, NoFund, Refresh, Screen, SkipBuy, BuysDone, NoRebuy, vars, local

-----------------------------------------------------------------------------
(* What one more order does to the account: it is bought or sold in full,  *)
(* and nothing of it is executed yet.                                      *)
LEMMA Adding ==
  ASSUME CycleAssumption, TypeOK, NEW o, Adds(o), o.executed = 0
  PROVE  /\ \A side : Sides(side)' = Sides(side) \cup (IF o.side = side THEN {Len(sent) + 1} ELSE {})
         /\ \A s, side : OfSymbol(s, side)' =
               OfSymbol(s, side) \cup (IF o.side = side /\ o.symbol = s THEN {Len(sent) + 1} ELSE {})
         /\ \A side : o.side # side => Sides(side)' = Sides(side)
         /\ \A s, side : o.side # side \/ o.symbol # s => OfSymbol(s, side)' = OfSymbol(s, side)
         /\ o.side = "sell" => Bought' = Bought
         /\ o.side = "buy" => Bought' = Bought + o.quantity * Price[o.symbol]
         /\ Release(Sides("sell"))' = Release(Sides("sell"))
         /\ \A s \in Symbol : o.side = "sell" /\ o.symbol = s => Sellable(s)' = Sellable(s) - o.quantity
         /\ \A s \in Symbol : o.side # "sell" \/ o.symbol # s => Sellable(s)' = Sellable(s)
<1> DEFINE n == Len(sent) + 1
           quantity == [i \in DOMAIN sent' |-> sent'[i].quantity]
           bought == [i \in DOMAIN sent' |-> quantity[i] * Price[sent'[i].symbol]]
           executed == [i \in DOMAIN sent' |-> sent'[i].executed * Price[sent'[i].symbol]]
<1>1. /\ o \in Sent /\ n \notin DOMAIN sent /\ DOMAIN sent' = DOMAIN sent \cup {n}
      /\ \A i \in DOMAIN sent : sent'[i] = sent[i]
      /\ sent'[n] = o
  BY Appended DEF Adds
<1>2. \A side : Sides(side)' = Sides(side) \cup (IF o.side = side THEN {n} ELSE {})
  <2> HIDE DEF n
  <2> QED BY <1>1 DEF Sides
<1>3. \A s, side : OfSymbol(s, side)' = OfSymbol(s, side) \cup (IF o.side = side /\ o.symbol = s THEN {n} ELSE {})
  <2>1. \A s, side : OfSymbol(s, side)' = {i \in Sides(side)' : sent'[i].symbol = s}
    BY DEF OfSymbol
  <2> HIDE DEF n
  <2>2. \A side : \A i \in Sides(side) : sent'[i] = sent[i]
    BY <1>1 DEF Sides
  <2> QED BY <1>1, <1>2, <2>1, <2>2 DEF OfSymbol
<1>4. /\ o.quantity \in Nat /\ o.symbol \in Symbol /\ Price[o.symbol] \in Nat /\ o.quantity * Price[o.symbol] \in Nat
  <2>1. \A a, b \in Nat : a * b \in Nat
    OBVIOUS
  <2>2. o.quantity \in Nat /\ o.symbol \in Symbol /\ Price[o.symbol] \in Nat
    BY <1>1 DEF Sent, CycleAssumption
  <2> QED BY <2>1, <2>2
<1>5. \A i \in DOMAIN sent : /\ quantity[i] = Quantity[i] /\ bought[i] = Worth(Quantity)[i]
                             /\ executed[i] = Worth(Executed)[i]
  BY <1>1 DEF Quantity, Executed, Worth
<1>6. /\ n \in DOMAIN sent' /\ quantity[n] = o.quantity /\ bought[n] = o.quantity * Price[o.symbol]
      /\ executed[n] = 0
  <2>1. n \in DOMAIN sent' /\ sent'[n] = o
    BY <1>1
  <2> HIDE DEF n
  <2> QED BY <1>4, <2>1
<1>7. /\ Bought' = SumFunctionOnSet(bought, Sides("buy")')
      /\ Release(Sides("sell"))' = SumFunctionOnSet(executed, Sides("sell")')
      /\ \A s \in Symbol : Sellable(s)' = InitHold[s] - SumFunctionOnSet(quantity, OfSymbol(s, "sell")')
  BY DEF Bought, Release, Sellable, Worth, Quantity, Executed
<1> HIDE DEF n, quantity, bought, executed
<1>8. ASSUME NEW S \in SUBSET DOMAIN sent
      PROVE  /\ SumFunctionOnSet(bought, S) = SumFunctionOnSet(Worth(Quantity), S)
             /\ SumFunctionOnSet(bought, S \cup {n}) = SumFunctionOnSet(Worth(Quantity), S) + o.quantity * Price[o.symbol]
             /\ SumFunctionOnSet(executed, S) = SumFunctionOnSet(Worth(Executed), S)
             /\ SumFunctionOnSet(executed, S \cup {n}) = SumFunctionOnSet(Worth(Executed), S)
             /\ SumFunctionOnSet(quantity, S) = SumFunctionOnSet(Quantity, S)
             /\ SumFunctionOnSet(quantity, S \cup {n}) = SumFunctionOnSet(Quantity, S) + o.quantity
  <2>1. /\ IsFiniteSet(S) /\ SumFunctionOnSet(Quantity, S) \in Nat
        /\ SumFunctionOnSet(Worth(Quantity), S) \in Nat /\ SumFunctionOnSet(Worth(Executed), S) \in Nat
    BY SumsTyped
  <2>2. \A i \in DOMAIN sent : Quantity[i] \in Nat /\ Worth(Quantity)[i] \in Nat /\ Worth(Executed)[i] \in Nat
    BY SumsTyped
  <2>3. n \notin S /\ \A i \in S : i \in DOMAIN sent
    BY <1>1
  <2>4. /\ SumFunctionOnSet(bought, S) = SumFunctionOnSet(Worth(Quantity), S)
        /\ SumFunctionOnSet(executed, S) = SumFunctionOnSet(Worth(Executed), S)
        /\ SumFunctionOnSet(quantity, S) = SumFunctionOnSet(Quantity, S)
    BY <1>5, <2>1, <2>3, SumSame
  <2>5. \A i \in S \cup {n} : quantity[i] \in Int /\ bought[i] \in Int /\ executed[i] \in Int
    <3> TAKE i \in S \cup {n}
    <3>1. CASE i = n
      BY <1>4, <1>6, <3>1
    <3>2. CASE i \in S
      <4>1. i \in DOMAIN sent
        BY <2>3, <3>2
      <4>2. quantity[i] \in Nat /\ bought[i] \in Nat /\ executed[i] \in Nat
        BY <1>5, <2>2, <4>1
      <4> QED BY <4>2
    <3> QED BY <3>1, <3>2
  <2>6. /\ SumFunctionOnSet(bought, S \cup {n}) = bought[n] + SumFunctionOnSet(bought, S)
        /\ SumFunctionOnSet(executed, S \cup {n}) = executed[n] + SumFunctionOnSet(executed, S)
        /\ SumFunctionOnSet(quantity, S \cup {n}) = quantity[n] + SumFunctionOnSet(quantity, S)
    BY <2>1, <2>3, <2>5, SumAdds
  <2> QED BY <1>4, <1>6, <2>1, <2>4, <2>6
<1>9. /\ \A side : Sides(side) \in SUBSET DOMAIN sent
      /\ \A s, side : OfSymbol(s, side) \in SUBSET DOMAIN sent
  BY SidesTyped
<1>10. \A T : T \cup {} = T
  OBVIOUS
<1>11. (o.side = "sell" => Bought' = Bought) /\ (o.side = "buy" => Bought' = Bought + o.quantity * Price[o.symbol])
  <2>1. /\ o.side = "sell" => Sides("buy")' = Sides("buy")
        /\ o.side = "buy" => Sides("buy")' = Sides("buy") \cup {n}
    BY <1>2, <1>10
  <2> QED BY <1>7, <1>8, <1>9, <2>1 DEF Bought
<1>12. Release(Sides("sell"))' = Release(Sides("sell"))
  <2>1. Sides("sell")' = Sides("sell") \/ Sides("sell")' = Sides("sell") \cup {n}
    BY <1>2, <1>10
  <2> QED BY <1>7, <1>8, <1>9, <2>1 DEF Release
<1>13. ASSUME NEW s \in Symbol
       PROVE  /\ o.side = "sell" /\ o.symbol = s => Sellable(s)' = Sellable(s) - o.quantity
              /\ o.side # "sell" \/ o.symbol # s => Sellable(s)' = Sellable(s)
  <2>1. /\ o.side = "sell" /\ o.symbol = s => OfSymbol(s, "sell")' = OfSymbol(s, "sell") \cup {n}
        /\ o.side # "sell" \/ o.symbol # s => OfSymbol(s, "sell")' = OfSymbol(s, "sell")
    BY <1>3, <1>10
  <2>2. InitHold[s] \in Nat /\ SumFunctionOnSet(Quantity, OfSymbol(s, "sell")) \in Nat
    BY <1>9, SumsTyped DEF CycleAssumption
  <2>3. /\ SumFunctionOnSet(quantity, OfSymbol(s, "sell")) = SumFunctionOnSet(Quantity, OfSymbol(s, "sell"))
        /\ SumFunctionOnSet(quantity, OfSymbol(s, "sell") \cup {n})
              = SumFunctionOnSet(Quantity, OfSymbol(s, "sell")) + o.quantity
    BY <1>8, <1>9
  <2>4. Sellable(s)' = InitHold[s] - SumFunctionOnSet(quantity, OfSymbol(s, "sell")')
    BY <1>7
  <2>5. Sellable(s) = InitHold[s] - SumFunctionOnSet(Quantity, OfSymbol(s, "sell"))
    BY DEF Sellable
  <2>6. CASE o.side = "sell" /\ o.symbol = s
    <3>1. Sellable(s)' = InitHold[s] - (SumFunctionOnSet(Quantity, OfSymbol(s, "sell")) + o.quantity)
      BY <2>1, <2>3, <2>4, <2>6
    <3> QED BY <1>4, <2>2, <2>5, <2>6, <3>1
  <2>7. CASE ~(o.side = "sell" /\ o.symbol = s)
    BY <2>1, <2>3, <2>4, <2>5, <2>7
  <2> QED BY <2>6, <2>7
<1>14. /\ \A side : o.side # side => Sides(side)' = Sides(side)
       /\ \A s, side : o.side # side \/ o.symbol # s => OfSymbol(s, side)' = OfSymbol(s, side)
  BY <1>2, <1>3, <1>10
<1> QED BY <1>2, <1>3, <1>11, <1>12, <1>13, <1>14 DEF n

(* What the broker's steps do to it: more of the sells is executed.        *)
LEMMA Working ==
  ASSUME CycleAssumption, TypeOK, NEW i \in DOMAIN sent, Executes(i) \/ Settles(i)
  PROVE  /\ \A side : Sides(side)' = Sides(side)
         /\ \A s, side : OfSymbol(s, side)' = OfSymbol(s, side)
         /\ Bought' = Bought /\ Release(Sides("sell")) <= Release(Sides("sell"))'
         /\ \A s \in Symbol : Sellable(s)' = Sellable(s)
<1> DEFINE quantity == [j \in DOMAIN sent' |-> sent'[j].quantity]
           bought == [j \in DOMAIN sent' |-> quantity[j] * Price[sent'[j].symbol]]
           executed == [j \in DOMAIN sent' |-> sent'[j].executed * Price[sent'[j].symbol]]
<1>1. /\ DOMAIN sent' = DOMAIN sent
      /\ \A j \in DOMAIN sent :
            /\ sent'[j].symbol = sent[j].symbol /\ sent'[j].side = sent[j].side
            /\ sent'[j].quantity = sent[j].quantity /\ sent[j].executed <= sent'[j].executed
  BY BrokerSteps
<1>2. \A side : Sides(side)' = Sides(side)
  BY <1>1 DEF Sides
<1>3. \A s, side : OfSymbol(s, side)' = OfSymbol(s, side)
  <2>1. \A s, side : OfSymbol(s, side)' = {j \in Sides(side)' : sent'[j].symbol = s}
    BY DEF OfSymbol
  <2>2. \A side : \A j \in Sides(side) : sent'[j].symbol = sent[j].symbol
    BY <1>1 DEF Sides
  <2> QED BY <1>2, <2>1, <2>2 DEF OfSymbol
<1>4. \A j \in DOMAIN sent : quantity[j] = Quantity[j] /\ bought[j] = Worth(Quantity)[j]
  BY <1>1 DEF Quantity, Worth
<1>5. \A j \in DOMAIN sent : executed[j] \in Int /\ Worth(Executed)[j] \in Int /\ Worth(Executed)[j] <= executed[j]
  <2> TAKE j \in DOMAIN sent
  <2>1. /\ sent[j].executed \in Nat /\ sent[j].symbol \in Symbol /\ Price[sent[j].symbol] \in Nat
    BY SentIndices DEF Sent, CycleAssumption
  <2>2. sent'[j].executed \in Nat
    <3>1. sent'[j] \in Sent
      BY <1>1, BrokerSteps, ElementOfSeq, LenProperties
    <3> QED BY <3>1 DEF Sent
  <2>3. sent[j].executed * Price[sent[j].symbol] <= sent'[j].executed * Price[sent[j].symbol]
    BY <1>1, <2>1, <2>2, Costs
  <2>4. executed[j] = sent'[j].executed * Price[sent[j].symbol] /\ Worth(Executed)[j] = sent[j].executed * Price[sent[j].symbol]
    BY <1>1 DEF Worth, Executed
  <2>5. \A a, b \in Nat : a * b \in Int
    OBVIOUS
  <2> QED BY <2>1, <2>2, <2>3, <2>4, <2>5
<1>6. /\ Bought' = SumFunctionOnSet(bought, Sides("buy")')
      /\ Release(Sides("sell"))' = SumFunctionOnSet(executed, Sides("sell")')
      /\ \A s \in Symbol : Sellable(s)' = InitHold[s] - SumFunctionOnSet(quantity, OfSymbol(s, "sell")')
  BY DEF Bought, Release, Sellable, Worth, Quantity, Executed
<1> HIDE DEF quantity, bought, executed
<1>7. /\ \A side : Sides(side) \in SUBSET DOMAIN sent
      /\ \A s, side : OfSymbol(s, side) \in SUBSET DOMAIN sent
  BY SidesTyped
<1>8. ASSUME NEW S \in SUBSET DOMAIN sent
      PROVE  /\ SumFunctionOnSet(bought, S) = SumFunctionOnSet(Worth(Quantity), S)
             /\ SumFunctionOnSet(quantity, S) = SumFunctionOnSet(Quantity, S)
             /\ SumFunctionOnSet(Worth(Executed), S) <= SumFunctionOnSet(executed, S)
  <2>1. IsFiniteSet(S) /\ \A j \in S : j \in DOMAIN sent
    BY SumsTyped
  <2>2. SumFunctionOnSet(bought, S) = SumFunctionOnSet(Worth(Quantity), S)
    BY <1>4, <2>1, SumSame
  <2>3. SumFunctionOnSet(quantity, S) = SumFunctionOnSet(Quantity, S)
    BY <1>4, <2>1, SumSame
  <2>4. SumFunctionOnSet(Worth(Executed), S) <= SumFunctionOnSet(executed, S)
    BY <1>5, <2>1, SumAtMost
  <2> QED BY <2>2, <2>3, <2>4
<1>9. Bought' = Bought /\ Release(Sides("sell")) <= Release(Sides("sell"))'
  BY <1>2, <1>6, <1>7, <1>8 DEF Bought, Release
<1>10. \A s \in Symbol : Sellable(s)' = Sellable(s)
  BY <1>3, <1>6, <1>7, <1>8 DEF Sellable
<1> QED BY <1>2, <1>3, <1>9, <1>10

(* The other steps leave it alone.                                         *)
LEMMA Resting ==
  ASSUME UNCHANGED sent
  PROVE  /\ \A side : Sides(side)' = Sides(side)
         /\ \A s, side : OfSymbol(s, side)' = OfSymbol(s, side)
         /\ Bought' = Bought /\ Release(Sides("sell"))' = Release(Sides("sell"))
         /\ \A s \in Symbol : Sellable(s)' = Sellable(s)
  BY DEF Sides, OfSymbol, Bought, Release, Sellable, Worth, Quantity, Executed

-----------------------------------------------------------------------------
(* The latches hold what was seen.                                         *)
LEMMA LatchedStep ==
  ASSUME CycleAssumption, TypeOK, Latched, [Next]_vars
  PROVE  Latched'
<1>1. CASE Plan
  <2>1. PICK t \in Targets, gate \in Gate, blocked \in BOOLEAN, factor \in Scales, sub \in Substitutes :
          Observe(gate, blocked, factor) /\ pc' = IF blocked THEN "done" ELSE "sell"
    BY <1>1 DEF Plan
  <2>2. /\ riskBlocked' = (riskBlocked \/ gate = "prohibited")
        /\ seen' = seen \union {gate} \union (IF blocked THEN {"blocked"} ELSE {})
    BY <2>1 DEF Observe, RiskLatch
  <2>3. pc = "plan" /\ seen = {} /\ ~riskBlocked
    BY <1>1 DEF Plan, Latched
  <2> QED BY <2>1, <2>2, <2>3 DEF Latched, Gate, TypeOK
<1>2. CASE Refresh
  <2>1. PICK gate \in Gate, blocked \in BOOLEAN, factor \in Scales :
          Observe(gate, blocked, factor) /\ halted' = (halted \/ blocked)
    BY <1>2 DEF Refresh
  <2>2. /\ riskBlocked' = (riskBlocked \/ gate = "prohibited")
        /\ seen' = seen \union {gate} \union (IF blocked THEN {"blocked"} ELSE {})
    BY <2>1 DEF Observe, RiskLatch
  <2>3. pc = "refresh" /\ (pc' = "screen" \/ pc' = pc)
    BY <1>2 DEF Refresh
  <2> QED BY <2>1, <2>2, <2>3 DEF Latched, Gate, TypeOK
<1>3. CASE Sell
  <2>1. pc = "sell" /\ ~halted /\ UNCHANGED <<pc, riskBlocked, seen>>
    BY <1>3 DEF Sell, Submit, risk
  <2> QED BY <2>1 DEF Latched
<1>4. CASE Fund
  <2>1. pc = "fund" /\ ~halted /\ UNCHANGED <<riskBlocked, seen>> /\ (pc' = "refresh" \/ pc' = "screen")
    BY <1>4 DEF Fund, MayFund, risk, AfterFunding
  <2> QED BY <2>1 DEF Latched
<1>5. CASE NoFund
  <2>1. pc = "fund" /\ UNCHANGED <<riskBlocked, seen, halted>> /\ (pc' = "refresh" \/ pc' = "screen")
    BY <1>5 DEF NoFund, risk, AfterFunding
  <2> QED BY <2>1 DEF Latched
<1>6. CASE Screen
  <2>1. pc = "screen" /\ pc' = "buy" /\ UNCHANGED <<riskBlocked, seen, halted>> /\ (riskBlocked => todo' = <<>>)
    BY <1>6 DEF Screen, risk
  <2> QED BY <2>1 DEF Latched
<1>7. CASE Buy
  <2>1. pc = "buy" /\ todo # <<>> /\ ~halted /\ UNCHANGED <<pc, riskBlocked, seen>>
    BY <1>7 DEF Buy, Submit, risk
  <2> QED BY <2>1 DEF Latched
<1>8. CASE Rebuy
  <2>1. pc = "rebuy" /\ pc' = "done" /\ UNCHANGED <<riskBlocked, seen>>
    BY <1>8 DEF Rebuy, risk
  <2> QED BY <2>1 DEF Latched
<1>9. CASE SkipSell \/ SellsDone \/ SkipBuy \/ BuysDone \/ NoRebuy \/ UNCHANGED vars
  <2>1. /\ UNCHANGED <<riskBlocked, seen, halted>>
        /\ \/ pc' = pc /\ (pc = "buy" /\ todo' # <<>> => todo # <<>>)
           \/ pc # "plan" /\ pc' \in {"fund", "rebuy", "done"} /\ pc # "done"
    BY <1>9 DEF SkipSell, SellsDone, SkipBuy, BuysDone, NoRebuy, vars, risk
  <2> QED BY <2>1 DEF Latched
<1>10. CASE \E i \in DOMAIN sent : Executes(i) \/ Settles(i)
  BY <1>10 DEF Executes, Settles, risk, Latched
<1> QED BY <1>1, <1>2, <1>3, <1>4, <1>5, <1>6, <1>7, <1>8, <1>9, <1>10 DEF Next, Cycle

(* An order that is sent last, while nothing had halted the cycle.         *)
LEMMA HaltingAdds ==
  ASSUME TypeOK, Halting, ~halted, NEW s, NEW side, NEW e \in Nat, NEW phase, NEW answer \in Answer,
         Adds(Order(s, side, e, phase, answer)), answer = "rejected" => e = 0, halted' = Halts(answer)
  PROVE  Halting'
<1>1. /\ Len(sent') = Len(sent) + 1 /\ Len(sent) \in Nat /\ DOMAIN sent = 1 .. Len(sent)
      /\ DOMAIN sent' = DOMAIN sent \cup {Len(sent) + 1}
      /\ \A i \in DOMAIN sent : sent'[i] = sent[i]
      /\ sent'[Len(sent) + 1] = Order(s, side, e, phase, answer)
  BY Appended, SentIndices DEF Adds
<1>2. \A i \in DOMAIN sent : sent[i].answer \in {"known", "rejected"}
  BY DEF Halting
<1>3. /\ sent'[Len(sent) + 1].answer = answer /\ sent'[Len(sent) + 1].quantity = e
  BY <1>1 DEF Order
<1>4. ~halted' => answer \in {"known", "rejected"}
  BY DEF Halts, Answer
<1>5. \A i \in DOMAIN sent' : i < Len(sent') => i \in DOMAIN sent
  BY <1>1
<1> HIDE DEF Halts
<1>6. (~halted => \A i \in DOMAIN sent : sent[i].answer \in {"known", "rejected"})'
  BY <1>1, <1>2, <1>3, <1>4
<1>7. UnknownIsLast'
  BY <1>1, <1>2, <1>5 DEF UnknownIsLast
<1>8. (\A i \in DOMAIN sent : sent[i].answer = "rejected" => sent[i].quantity = 0)'
  BY <1>1, <1>3 DEF Halting
<1> QED BY <1>6, <1>7, <1>8 DEF Halting

LEMMA HaltingStep ==
  ASSUME CycleAssumption, TypeOK, Halting, [Next]_vars
  PROVE  Halting'
<1>1. CASE Sell
  BY <1>1, SellSends, HaltingAdds
<1>2. CASE Fund
  BY <1>2, FundSends, HaltingAdds
<1>3. CASE Buy
  BY <1>3, BuySends, HaltingAdds
<1>4. CASE Rebuy
  BY <1>4, RebuySends, HaltingAdds
<1>5. CASE \/ Plan \/ SkipSell \/ SellsDone \/ NoFund \/ Refresh \/ Screen \/ SkipBuy \/ BuysDone \/ NoRebuy
           \/ UNCHANGED vars
  <2>1. UNCHANGED sent
    BY <1>5, OtherSteps
  <2>2. halted => halted'
    <3>1. SkipSell \/ SellsDone \/ NoFund \/ Screen => UNCHANGED halted
      BY DEF SkipSell, SellsDone, NoFund, Screen
    <3>2. SkipBuy \/ BuysDone \/ NoRebuy \/ UNCHANGED vars => UNCHANGED halted
      BY DEF SkipBuy, BuysDone, NoRebuy, vars
    <3>3. Plan => UNCHANGED halted
      BY DEF Plan
    <3>4. ASSUME Refresh PROVE halted => halted'
      <4>1. PICK gate \in Gate, blocked \in BOOLEAN, factor \in Scales :
              Observe(gate, blocked, factor) /\ halted' = (halted \/ blocked)
        BY <3>4 DEF Refresh
      <4> QED BY <4>1
    <3> QED BY <1>5, <3>1, <3>2, <3>3, <3>4
  <2> QED BY <2>1, <2>2 DEF Halting, UnknownIsLast
<1>6. CASE \E i \in DOMAIN sent : Executes(i) \/ Settles(i)
  BY <1>6, BrokerSteps DEF Halting, UnknownIsLast
<1> QED BY <1>1, <1>2, <1>3, <1>4, <1>5, <1>6 DEF Next, Cycle

(* A sweep that was sold is remembered, and not bought back.               *)
LEMMA SweepingAdds ==
  ASSUME TypeOK, Sweeping, NEW o, Adds(o), sweepSold => sweepSold', pc # "done",
         o.symbol = Sweep /\ o.side = "sell" /\ Submitted(o.answer) => sweepSold',
         o.phase = "rebuy" => pc' = "done" /\ ~sweepSold' /\ o.side = "buy",
         pc' = "done" => o.phase = "rebuy"
  PROVE  Sweeping'
<1> DEFINE n == Len(sent) + 1
<1>1. /\ DOMAIN sent' = DOMAIN sent \cup {n} /\ n \notin DOMAIN sent
      /\ \A i \in DOMAIN sent : sent'[i] = sent[i]
      /\ sent'[n] = o
  BY Appended DEF Adds
<1> HIDE DEF n
<1>2. (\A i \in OfSymbol(Sweep, "sell") : Submitted(sent[i].answer) => sweepSold)'
  <2>1. \A i \in DOMAIN sent : sent[i].side = "sell" /\ sent[i].symbol = Sweep /\ Submitted(sent[i].answer) => sweepSold
    BY DEF Sweeping, OfSymbol, Sides
  <2>2. \A i \in DOMAIN sent' : sent'[i].side = "sell" /\ sent'[i].symbol = Sweep /\ Submitted(sent'[i].answer) => sweepSold'
    BY <1>1, <2>1
  <2> QED BY <2>2 DEF OfSymbol, Sides, Submitted
<1>3. \A i \in DOMAIN sent : sent[i].phase # "rebuy"
  BY DEF Sweeping
<1>4. (\A i \in DOMAIN sent : sent[i].phase = "rebuy" => pc = "done" /\ ~sweepSold)'
  BY <1>1, <1>3
<1>5. NoRebuyAfterSweepSale'
  BY <1>2, <1>4 DEF NoRebuyAfterSweepSale
<1> QED BY <1>2, <1>4, <1>5 DEF Sweeping

LEMMA SweepingStep ==
  ASSUME CycleAssumption, TypeOK, Sweeping, [Next]_vars
  PROVE  Sweeping'
<1>0. \A s, side, e, phase, answer :
        LET o == Order(s, side, e, phase, answer)
        IN o.symbol = s /\ o.side = side /\ o.phase = phase /\ o.answer = answer
  BY DEF Order
<1>1. CASE Sell
  <2>1. PICK s \in Symbol, answer \in Answer, e \in Nat :
           /\ pc = "sell" /\ Adds(Order(s, "sell", e, "sell", answer)) /\ pc' = pc
           /\ sweepSold' = (sweepSold \/ (Submitted(answer) /\ s = Sweep))
    BY <1>1, SellSends
  <2> DEFINE o == Order(s, "sell", e, "sell", answer)
  <2>2. o.symbol = s /\ o.side = "sell" /\ o.phase = "sell" /\ o.answer = answer /\ Adds(o)
    BY <1>0, <2>1
  <2> HIDE DEF o
  <2> QED BY <2>1, <2>2, SweepingAdds
<1>2. CASE Fund
  <2>1. PICK answer \in Answer, e \in Nat :
           /\ pc = "fund" /\ Adds(Order(Sweep, "sell", e, "fund", answer))
           /\ sweepSold' = (sweepSold \/ Submitted(answer)) /\ AfterFunding(Submitted(answer), halted')
    BY <1>2, FundSends
  <2> DEFINE o == Order(Sweep, "sell", e, "fund", answer)
  <2>2. o.phase = "fund" /\ o.answer = answer /\ Adds(o)
    BY <1>0, <2>1
  <2>3. pc' # "done"
    BY <2>1 DEF AfterFunding
  <2> HIDE DEF o
  <2> QED BY <2>1, <2>2, <2>3, SweepingAdds
<1>3. CASE Buy
  <2>1. UNCHANGED sweepSold
    BY <1>3 DEF Buy, local
  <2>2. PICK s \in Symbol, answer \in Answer, e \in Nat :
           pc = "buy" /\ Adds(Order(s, "buy", e, "buy", answer)) /\ pc' = pc
    BY <1>3, BuySends
  <2> DEFINE o == Order(s, "buy", e, "buy", answer)
  <2>3. o.side = "buy" /\ o.phase = "buy" /\ Adds(o)
    BY <1>0, <2>2
  <2> HIDE DEF o
  <2> QED BY <2>1, <2>2, <2>3, SweepingAdds
<1>4. CASE Rebuy
  <2>1. UNCHANGED sweepSold /\ ~sweepSold /\ pc = "rebuy" /\ pc' = "done"
    BY <1>4 DEF Rebuy, MayRebuy, local
  <2>2. PICK answer \in Answer, e \in Nat : Adds(Order(Sweep, "buy", e, "rebuy", answer))
    BY <1>4, RebuySends
  <2> DEFINE o == Order(Sweep, "buy", e, "rebuy", answer)
  <2>3. o.side = "buy" /\ o.phase = "rebuy" /\ Adds(o)
    BY <1>0, <2>2
  <2> HIDE DEF o
  <2> QED BY <2>1, <2>3, SweepingAdds
<1>5. CASE \/ Plan \/ SkipSell \/ SellsDone \/ NoFund \/ Refresh \/ Screen \/ SkipBuy \/ BuysDone \/ NoRebuy
           \/ UNCHANGED vars
  <2>1. UNCHANGED <<sent, sweepSold>>
    BY <1>5, OtherSteps
  <2>2. pc = "done" => pc' = "done"
    BY <1>5 DEF Plan, SkipSell, SellsDone, NoFund, Refresh, Screen, SkipBuy, BuysDone, NoRebuy, vars
  <2> QED BY <2>1, <2>2 DEF Sweeping, NoRebuyAfterSweepSale, OfSymbol, Sides
<1>6. CASE \E i \in DOMAIN sent : Executes(i) \/ Settles(i)
  <2>1. /\ DOMAIN sent' = DOMAIN sent /\ UNCHANGED <<pc, sweepSold>>
        /\ \A j \in DOMAIN sent : /\ sent'[j].symbol = sent[j].symbol /\ sent'[j].side = sent[j].side
                                  /\ sent'[j].phase = sent[j].phase /\ sent'[j].answer = sent[j].answer
    BY <1>6, BrokerSteps DEF local
  <2>2. OfSymbol(Sweep, "sell")' = OfSymbol(Sweep, "sell") /\ OfSymbol(Sweep, "sell") \subseteq DOMAIN sent
    BY <2>1 DEF OfSymbol, Sides
  <2>3. (\A i \in OfSymbol(Sweep, "sell") : Submitted(sent[i].answer) => sweepSold)'
    BY <2>1, <2>2 DEF Sweeping, Submitted
  <2>4. (\A i \in DOMAIN sent : sent[i].phase = "rebuy" => pc = "done" /\ ~sweepSold)'
    BY <2>1 DEF Sweeping
  <2>5. NoRebuyAfterSweepSale'
    BY <2>1, <2>2 DEF Sweeping, NoRebuyAfterSweepSale, Submitted
  <2> QED BY <2>3, <2>4, <2>5 DEF Sweeping
<1> QED BY <1>1, <1>2, <1>3, <1>4, <1>5, <1>6 DEF Next, Cycle

-----------------------------------------------------------------------------
(* Before anything is sent the account is the initial one.                 *)
LEMMA Untouched ==
  ASSUME CycleAssumption, sent = <<>>, NEW t, NEW factor, NEW sub
  PROVE  /\ Portfolio(t, factor, sub).held = InitHold /\ Portfolio(t, factor, sub).sellable = InitHold
         /\ Portfolio(t, factor, sub).investable = Larger(0, InitCash)
         /\ \A side : Sides(side) = {}
         /\ \A s, side : OfSymbol(s, side) = {}
<1>1. /\ \A side : Sides(side) = {}
      /\ \A s, side : OfSymbol(s, side) = {}
  <2>1. DOMAIN sent = {}
    OBVIOUS
  <2> QED BY <2>1 DEF Sides, OfSymbol
<1>2. \A g : SumFunctionOnSet(g, {}) = 0
  BY SumEmpty
<1>3. InitHold \in [Symbol -> Nat] /\ InitCash \in Int
  BY DEF CycleAssumption
<1>4. \A s \in Symbol : Held(s) = InitHold[s] /\ Larger(0, Sellable(s)) = InitHold[s]
  <2> TAKE s \in Symbol
  <2>1. /\ SumFunctionOnSet(Settled, OfSymbol(s, "sell")) = 0 /\ SumFunctionOnSet(Settled, OfSymbol(s, "buy")) = 0
        /\ SumFunctionOnSet(Quantity, OfSymbol(s, "sell")) = 0 /\ InitHold[s] \in Nat
    BY <1>1, <1>2, <1>3
  <2>2. Held(s) = InitHold[s] /\ Sellable(s) = InitHold[s]
    BY <2>1 DEF Held, Sellable
  <2> QED BY <2>1, <2>2 DEF Larger
<1>5. Cash = InitCash
  <2>1. SumFunctionOnSet(Worth(Settled), Sides("sell")) = 0 /\ SumFunctionOnSet(Worth(Settled), Sides("buy")) = 0
    BY <1>1, <1>2
  <2> QED BY <1>3, <2>1 DEF Cash
<1>6. InitHold = [s \in Symbol |-> InitHold[s]]
  BY <1>3
<1> QED BY <1>1, <1>4, <1>5, <1>6 DEF Portfolio

(* One sale of what is offered: the parts of Selling that it can disturb.  *)
LEMMA SellingAdds ==
  ASSUME CycleAssumption, TypeOK, NoOversell, NEW o, Adds(o), o.executed = 0, o.side = "sell",
         o.quantity <= Sellable(o.symbol)
  PROVE  NoOversell'
<1>1. o \in Sent /\ o.symbol \in Symbol
  BY DEF Adds, Sent
<1>2. \A s \in Symbol : Sellable(s) \in Int /\ Sellable(s) >= 0
  <2> TAKE s \in Symbol
  <2>1. InitHold[s] \in Nat /\ SumFunctionOnSet(Quantity, OfSymbol(s, "sell")) \in Nat
    BY SumsTyped, SidesTyped DEF CycleAssumption
  <2>2. Sellable(s) \in Int
    BY <2>1 DEF Sellable
  <2> QED BY <2>2 DEF NoOversell
<1>3. \A s \in Symbol : /\ o.symbol = s => Sellable(s)' = Sellable(s) - o.quantity
                        /\ o.symbol # s => Sellable(s)' = Sellable(s)
  BY Adding
<1>4. o.quantity \in Nat
  BY <1>1 DEF Sent
<1>5. ASSUME NEW s \in Symbol PROVE Sellable(s)' >= 0
  <2>1. CASE o.symbol = s
    <3>1. Sellable(s) \in Int /\ o.quantity <= Sellable(s) /\ Sellable(s)' = Sellable(s) - o.quantity
      BY <1>2, <1>3, <2>1
    <3> HIDE DEF Sellable
    <3> QED BY <1>4, <3>1
  <2>2. CASE o.symbol # s
    BY <1>2, <1>3, <2>2
  <2> QED BY <2>1, <2>2
<1> QED BY <1>5 DEF NoOversell

LEMMA SellStep ==
  ASSUME CycleAssumption, TypeOK, Selling, NoOversell, Sell
  PROVE  Selling' /\ NoOversell'
<1>1. PICK s \in Symbol, answer \in Answer, e \in Nat :
           /\ todo \in Seq(Symbol) /\ todo # <<>> /\ s = Head(todo) /\ todo' = Tail(todo)
           /\ pc = "sell" /\ e <= SellQuantity(s)
           /\ Adds(Order(s, "sell", e, "sell", answer)) /\ (answer = "rejected" => e = 0)
           /\ halted' = Halts(answer) /\ sold' = (sold \/ Submitted(answer)) /\ ~halted
           /\ pc' = pc /\ view' = view
  BY SellSends
<1> DEFINE o == Order(s, "sell", e, "sell", answer)
           n == Len(sent) + 1
<1>2. /\ o.symbol = s /\ o.side = "sell" /\ o.answer = answer /\ o.quantity = e /\ o.executed = 0 /\ Adds(o)
  BY <1>1 DEF Order
<1> HIDE DEF o
<1>3. /\ 1 \in DOMAIN todo /\ s = todo[1]
      /\ \A i \in DOMAIN todo' : i + 1 # 1 /\ i + 1 \in DOMAIN todo /\ todo'[i] = todo[i + 1]
      /\ \A i, j \in DOMAIN todo' : i + 1 = j + 1 => i = j
  BY <1>1, Rests
<1>4. /\ \A i \in DOMAIN todo : OfSymbol(todo[i], "sell") = {}
      /\ \A i, j \in DOMAIN todo : todo[i] = todo[j] => i = j
  BY <1>1 DEF Selling
<1>5. /\ DOMAIN sent' = DOMAIN sent \cup {n} /\ n \notin DOMAIN sent
      /\ \A i \in DOMAIN sent : sent'[i] = sent[i]
      /\ sent'[n] = o
  BY <1>2, Appended DEF Adds
<1> HIDE DEF n
<1>6. /\ \A r : r # s => OfSymbol(r, "sell")' = OfSymbol(r, "sell")
      /\ OfSymbol(s, "sell")' = OfSymbol(s, "sell") \cup {n}
  <2>1. \A r : r # s => OfSymbol(r, "sell")' = OfSymbol(r, "sell")
    BY <1>2, Adding
  <2>2. \A r, side : OfSymbol(r, side)' = OfSymbol(r, side) \cup (IF o.side = side /\ o.symbol = r THEN {n} ELSE {})
    BY <1>2, Adding DEF n
  <2> QED BY <1>2, <2>1, <2>2
<1>7. view.sellable = InitHold /\ view.held = InitHold
  BY <1>1 DEF Selling
<1>8. NoOversell'
  <2>1. OfSymbol(s, "sell") = {} /\ InitHold[s] \in Nat
    BY <1>3, <1>4 DEF CycleAssumption
  <2>2. Sellable(s) = InitHold[s]
    <3>1. SumFunctionOnSet(Quantity, OfSymbol(s, "sell")) = 0
      BY <2>1, SumEmpty
    <3> QED BY <2>1, <3>1 DEF Sellable
  <2>3. SellQuantity(s) <= view.sellable[s] /\ SellQuantity(s) \in Int
    <3>1. view.target[s] \in Nat /\ HeldValue(s) \in Int /\ Price[s] \in Nat \ {0} /\ SellQuantity(s) \in Int /\ view.sellable[s] \in Nat
      <4>1. view.target[s] \in Nat /\ Price[s] \in Nat \ {0}
        BY DEF TypeOK, View, CycleAssumption
      <4> QED BY <4>1, QuantitiesTyped
    <3> DEFINE shares == (HeldValue(s) - view.target[s]) \div Price[s]
    <3>2. shares \in Int
      <4>1. HeldValue(s) - view.target[s] \in Int
        BY <3>1
      <4> QED BY <3>1, <4>1, Shares
    <3>3. SellQuantity(s) = IF view.target[s] = 0 THEN view.sellable[s] ELSE Smaller(shares, view.sellable[s])
      BY DEF SellQuantity
    <3> HIDE DEF shares
    <3>4. Smaller(shares, view.sellable[s]) <= view.sellable[s]
      <4>1. view.sellable[s] \in Int
        BY <3>1
      <4> QED BY <3>2, <4>1, Extremes
    <3>5. view.sellable[s] <= view.sellable[s]
      BY <3>1
    <3> QED BY <3>1, <3>3, <3>4, <3>5
  <2>4. o.quantity <= Sellable(o.symbol)
    BY <1>1, <1>2, <1>7, <2>1, <2>2, <2>3
  <2> QED BY <1>2, <2>4, SellingAdds
<1>9. (pc = "sell" => \A i \in DOMAIN todo : /\ OfSymbol(todo[i], "sell") = {}
                                             /\ \A j \in DOMAIN todo : todo[i] = todo[j] => i = j)'
  <2>1. \A i \in DOMAIN todo' : todo'[i] # s /\ OfSymbol(todo'[i], "sell") = {}
    BY <1>3, <1>4
  <2>2. \A i \in DOMAIN todo' : OfSymbol(todo[i], "sell")' = {}
    BY <1>6, <2>1
  <2>3. \A i, j \in DOMAIN todo' : todo'[i] = todo'[j] => i = j
    <3>1. \A i, j \in DOMAIN todo' : todo'[i] = todo'[j] => i + 1 = j + 1
      BY <1>3, <1>4
    <3> QED BY <1>3, <3>1
  <2> QED BY <2>2, <2>3
<1>10. (pc \in {"sell", "fund"} /\ ~sold /\ ~halted => \A i \in DOMAIN sent : sent[i].quantity = 0)'
  <2>1. ~sold' /\ ~halted' => ~sold /\ answer = "rejected"
    BY <1>1 DEF Submitted, Halts, Answer
  <2>2. ~sold => \A i \in DOMAIN sent : sent[i].quantity = 0
    BY <1>1 DEF Selling
  <2> QED BY <1>1, <1>2, <1>5, <2>1, <2>2
<1>11. (\A r \in Symbol \ {Sweep} : \A i, j \in OfSymbol(r, "sell") : i = j)'
  <2>1. \A r \in Symbol \ {Sweep} : \A i, j \in OfSymbol(r, "sell") : i = j
    BY DEF Selling
  <2>2. OfSymbol(s, "sell") = {}
    BY <1>3, <1>4
  <2>3. ASSUME NEW r \in Symbol \ {Sweep} PROVE \A i, j \in OfSymbol(r, "sell")' : i = j
    <3>1. CASE r = s
      BY <1>6, <2>2, <3>1
    <3>2. CASE r # s
      BY <1>6, <2>1, <3>2
    <3> QED BY <3>1, <3>2
  <2> QED BY <2>3
<1>12. pc' = "sell" /\ view'.sellable = InitHold /\ view'.held = InitHold
  BY <1>1, <1>7
<1> QED BY <1>8, <1>9, <1>10, <1>11, <1>12 DEF Selling

LEMMA FundStep ==
  ASSUME CycleAssumption, TypeOK, Selling, NoOversell, Fund
  PROVE  Selling' /\ NoOversell'
<1>1. PICK answer \in Answer, e \in Nat :
           /\ pc = "fund" /\ MayFund /\ e <= view.sellable[Sweep]
           /\ Adds(Order(Sweep, "sell", e, "fund", answer))
           /\ AfterFunding(Submitted(answer), halted')
  BY FundSends
<1> DEFINE o == Order(Sweep, "sell", e, "fund", answer)
<1>2. /\ o.symbol = Sweep /\ o.side = "sell" /\ o.quantity = e /\ o.executed = 0 /\ Adds(o)
  BY <1>1 DEF Order
<1> HIDE DEF o
<1>3. Sweep \in Symbol /\ InitHold[Sweep] \in Nat
  BY DEF CycleAssumption
<1>4. Sellable(Sweep) = InitHold[Sweep]
  <2>1. \A i \in DOMAIN sent : sent[i].quantity = 0
    BY <1>1 DEF Selling, MayFund
  <2>2. IsFiniteSet(OfSymbol(Sweep, "sell")) /\ \A i \in OfSymbol(Sweep, "sell") : Quantity[i] = 0
    BY <2>1, SidesTyped, SumsTyped DEF Quantity
  <2>3. SumFunctionOnSet(Quantity, OfSymbol(Sweep, "sell")) = 0
    BY <2>2, SumOfZeros
  <2> QED BY <1>3, <2>3 DEF Sellable
<1>5. NoOversell'
  <2>1. o.quantity <= Sellable(o.symbol)
    BY <1>1, <1>2, <1>4 DEF Selling
  <2> QED BY <1>2, <2>1, SellingAdds
<1>6. (\A r \in Symbol \ {Sweep} : \A i, j \in OfSymbol(r, "sell") : i = j)'
  <2>1. \A r \in Symbol \ {Sweep} : OfSymbol(r, "sell")' = OfSymbol(r, "sell")
    <3>1. \A r, side : o.side # side \/ o.symbol # r => OfSymbol(r, side)' = OfSymbol(r, side)
      BY <1>2, Adding
    <3> QED BY <1>2, <3>1
  <2>2. \A r \in Symbol \ {Sweep} : \A i, j \in OfSymbol(r, "sell") : i = j
    BY DEF Selling
  <2>3. \A r \in Symbol \ {Sweep} : \A i, j \in OfSymbol(r, "sell")' : i = j
    BY <2>1, <2>2
  <2> QED BY <2>3
<1>7. pc' \in {"refresh", "screen"}
  BY <1>1 DEF AfterFunding
<1> QED BY <1>5, <1>6, <1>7 DEF Selling

LEMMA SellingStep ==
  ASSUME CycleAssumption, TypeOK, Selling, NoOversell, [Next]_vars
  PROVE  Selling' /\ NoOversell'
<1>1. CASE Plan
  <2>1. PICK t \in Targets, factor \in Scales, sub \in Substitutes, blocked \in BOOLEAN :
          /\ view' = Portfolio(t, factor, sub) /\ todo' = Asset /\ sent' = sent
          /\ pc' = IF blocked THEN "done" ELSE "sell"
    BY <1>1 DEF Plan
  <2>2. sent = <<>>
    BY <1>1 DEF Plan, Selling
  <2>3. /\ view'.held = InitHold /\ view'.sellable = InitHold
        /\ \A s, side : OfSymbol(s, side)' = {}
    <3>1. \A s, side : OfSymbol(s, side) = {}
      BY <2>2, Untouched
    <3> QED BY <2>1, <2>2, <3>1, Untouched, Resting
  <2>4. \A i, j \in DOMAIN todo' : todo'[i] = todo'[j] => i = j
    BY <2>1 DEF CycleAssumption
  <2>5. NoOversell'
    BY <2>1, Resting DEF NoOversell
  <2>6. DOMAIN sent' = {}
    BY <2>1, <2>2
  <2>7. pc' # "plan"
    BY <2>1
  <2> QED BY <2>3, <2>4, <2>5, <2>6, <2>7 DEF Selling
<1>2. CASE Sell
  BY <1>2, SellStep
<1>3. CASE Fund
  BY <1>3, FundStep
<1>4. CASE Buy \/ Rebuy
  <2>0. \A s, e, phase, answer : Order(s, "buy", e, phase, answer).side = "buy" /\ Order(s, "buy", e, phase, answer).executed = 0
    BY DEF Order
  <2>1. PICK o : Adds(o) /\ o.side = "buy" /\ o.executed = 0
    <3>1. \E s, e, phase, answer : Adds(Order(s, "buy", e, phase, answer))
      BY <1>4, BuySends, RebuySends
    <3> QED BY <2>0, <3>1
  <2>2. pc' \in {"buy", "done"}
    <3>1. CASE Buy
      BY <3>1, BuySends
    <3>2. CASE Rebuy
      BY <3>2, RebuySends
    <3> QED BY <1>4, <3>1, <3>2
  <2>3. \A s : OfSymbol(s, "sell")' = OfSymbol(s, "sell")
    BY <2>1, Adding
  <2>4. \A s \in Symbol : Sellable(s)' = Sellable(s)
    BY <2>1, Adding
  <2>5. NoOversell'
    BY <2>4 DEF NoOversell
  <2>6. \A r \in Symbol \ {Sweep} : \A i, j \in OfSymbol(r, "sell")' : i = j
    BY <2>3 DEF Selling
  <2> QED BY <2>2, <2>5, <2>6 DEF Selling
<1>5. CASE SkipSell
  <2>1. /\ pc = "sell" /\ todo # <<>> /\ todo' = Tail(todo) /\ todo \in Seq(Symbol)
        /\ UNCHANGED <<pc, view, sent, sold, halted, scale>>
    BY <1>5 DEF SkipSell, risk, TypeOK
  <2>2. /\ \A i \in DOMAIN todo' : i + 1 \in DOMAIN todo /\ todo'[i] = todo[i + 1]
        /\ \A i, j \in DOMAIN todo' : i + 1 = j + 1 => i = j
    BY <2>1, Rests
  <2>3. /\ \A i \in DOMAIN todo : OfSymbol(todo[i], "sell") = {}
        /\ \A i, j \in DOMAIN todo : todo[i] = todo[j] => i = j
    BY <2>1 DEF Selling
  <2>4. \A s, side : OfSymbol(s, side)' = OfSymbol(s, side)
    BY <2>1, Resting
  <2>5. \A i \in DOMAIN todo' : OfSymbol(todo[i], "sell")' = {}
    BY <2>2, <2>3, <2>4
  <2>6. \A i, j \in DOMAIN todo' : todo'[i] = todo'[j] => i = j
    <3>1. \A i, j \in DOMAIN todo' : todo'[i] = todo'[j] => i + 1 = j + 1
      BY <2>2, <2>3
    <3> QED BY <2>2, <3>1
  <2>7. NoOversell'
    BY <2>1, Resting DEF NoOversell
  <2>8. (\A r \in Symbol \ {Sweep} : \A i, j \in OfSymbol(r, "sell") : i = j)'
    BY <2>4 DEF Selling
  <2> QED BY <2>1, <2>5, <2>6, <2>7, <2>8 DEF Selling
<1>6. CASE SellsDone \/ NoFund \/ Refresh \/ Screen \/ SkipBuy \/ BuysDone \/ NoRebuy \/ UNCHANGED vars
  <2>1. sent' = sent
    BY <1>6, OtherSteps
  <2>2. /\ \A s, side : OfSymbol(s, side)' = OfSymbol(s, side)
        /\ NoOversell'
    BY <2>1, Resting DEF NoOversell
  <2>3. \/ pc' \notin {"plan", "sell", "fund"}
        \/ pc' = "fund" /\ pc = "sell" /\ UNCHANGED <<view, sold, halted>>
        \/ UNCHANGED <<pc, view, sold, halted, todo, scale>>
    BY <1>6 DEF SellsDone, NoFund, AfterFunding, Refresh, Screen, SkipBuy, BuysDone, NoRebuy, vars, risk
  <2> QED BY <2>1, <2>2, <2>3 DEF Selling
<1>7. CASE \E i \in DOMAIN sent : Executes(i) \/ Settles(i)
  <2>1. PICK i \in DOMAIN sent : Executes(i) \/ Settles(i)
    BY <1>7
  <2>2. /\ \A s, side : OfSymbol(s, side)' = OfSymbol(s, side)
        /\ \A s \in Symbol : Sellable(s)' = Sellable(s)
    BY <2>1, Working
  <2>3. /\ DOMAIN sent' = DOMAIN sent /\ \A j \in DOMAIN sent : sent'[j].quantity = sent[j].quantity
        /\ UNCHANGED <<pc, view, todo, halted, sold, scale>>
    BY <2>1, BrokerSteps DEF risk
  <2>4. pc # "plan"
    BY <2>1 DEF Selling
  <2>5. NoOversell'
    BY <2>2 DEF NoOversell
  <2> QED BY <2>2, <2>3, <2>4, <2>5 DEF Selling
<1> QED BY <1>1, <1>2, <1>3, <1>4, <1>5, <1>6, <1>7 DEF Next, Cycle

-----------------------------------------------------------------------------
(* What was bought and what pays for it are amounts.                       *)
LEMMA FundsTyped ==
  ASSUME CycleAssumption, TypeOK
  PROVE  /\ Bought \in Nat /\ Release(Sides("sell")) \in Nat /\ Larger(0, InitCash) \in Nat
         /\ Funds \in Nat /\ Funds = Larger(0, InitCash) + Release(Sides("sell"))
         /\ view.investable \in Nat
         /\ FundedBuys <=> Bought <= Funds
<1>1. Bought \in Nat /\ Release(Sides("sell")) \in Nat
  BY SumsTyped, SidesTyped DEF Bought, Release
<1>2. Larger(0, InitCash) \in Nat
  <2>1. InitCash \in Int
    BY DEF CycleAssumption
  <2> QED BY <2>1 DEF Larger
<1>3. Funds \in Nat /\ Funds = Larger(0, InitCash) + Release(Sides("sell"))
  BY <1>1, <1>2 DEF Funds
<1>4. view.investable \in Nat
  BY DEF TypeOK, View
<1>5. FundedBuys <=> Bought <= Funds
  BY DEF FundedBuys, Bought, Funds
<1> QED BY <1>1, <1>2, <1>3, <1>4, <1>5

(* A planned buy costs no more than is left to invest.                     *)
LEMMA PlannedIsPaid ==
  ASSUME CycleAssumption, TypeOK, NEW s \in Symbol
  PROVE  Planned(s) * Price[s] <= view.investable
<1>1. /\ Price[s] \in Nat \ {0} /\ view.investable \in Nat /\ view.target[s] - HeldValue(s) \in Int
  <2>1. Price[s] \in Nat \ {0} /\ view.investable \in Nat /\ view.target[s] \in Nat
    BY DEF CycleAssumption, TypeOK, View
  <2>2. HeldValue(s) \in Int
    BY QuantitiesTyped
  <2> QED BY <2>1, <2>2
<1> DEFINE most == Smaller(view.target[s] - HeldValue(s), view.investable)
           budget == most \div Price[s]
<1>2. most \in Int /\ most <= view.investable
  <2>1. view.investable \in Int
    BY <1>1
  <2> QED BY <1>1, <2>1, Extremes
<1>3. Planned(s) = IF budget > 0 THEN budget ELSE IF TopsUp(s) THEN 1 ELSE 0
  BY DEF Planned
<1> HIDE DEF most
<1>4. budget \in Int /\ budget * Price[s] <= most
  BY <1>1, <1>2, Shares
<1> HIDE DEF budget
<1>5. CASE budget > 0
  <2>1. budget * Price[s] \in Int
    BY <1>1, <1>4
  <2>2. Planned(s) = budget
    BY <1>3, <1>5
  <2> QED BY <1>1, <1>2, <1>4, <2>1, <2>2
<1>6. CASE ~(budget > 0)
  <2>1. Planned(s) = 0 \/ (Planned(s) = 1 /\ view.investable >= Price[s])
    BY <1>3, <1>6 DEF TopsUp
  <2> QED BY <1>1, <2>1
<1> QED BY <1>5, <1>6

(* The forecasts of a refresh are no more than the funds.                  *)
LEMMA ForecastIsFunded ==
  ASSUME CycleAssumption, TypeOK, Sides("buy") = {}
  PROVE  /\ Cash \in Int /\ Larger(0, Cash) <= Funds
         /\ \A answered \in SUBSET KnownSells :
               Release(answered) \in Nat /\ Larger(0, InitCash) + Release(answered) <= Funds
<1>1. \A i \in DOMAIN sent : /\ Worth(Settled)[i] \in Int /\ Worth(Executed)[i] \in Int
                             /\ Worth(Settled)[i] <= Worth(Executed)[i]
  <2> TAKE i \in DOMAIN sent
  <2>1. /\ sent[i].settled \in Nat /\ sent[i].executed \in Nat /\ Price[sent[i].symbol] \in Nat
        /\ sent[i].settled <= sent[i].executed
    <3>1. sent[i] \in Sent /\ sent[i].settled <= sent[i].executed
      BY SentIndices DEF TypeOK
    <3> QED BY <3>1 DEF Sent, CycleAssumption
  <2>2. sent[i].settled * Price[sent[i].symbol] <= sent[i].executed * Price[sent[i].symbol]
    <3>1. sent[i].settled \in Int /\ sent[i].executed \in Int
      BY <2>1
    <3> QED BY <2>1, <3>1, Costs
  <2>3. /\ Worth(Settled)[i] = sent[i].settled * Price[sent[i].symbol]
        /\ Worth(Executed)[i] = sent[i].executed * Price[sent[i].symbol]
    BY DEF Worth, Settled, Executed
  <2>4. Worth(Settled)[i] \in Nat /\ Worth(Executed)[i] \in Nat
    BY SumsTyped, SentIndices
  <2> QED BY <2>2, <2>3, <2>4
<1>2. /\ IsFiniteSet(Sides("sell")) /\ Sides("sell") \in SUBSET DOMAIN sent
      /\ SumFunctionOnSet(Worth(Settled), Sides("sell")) \in Nat
  BY SidesTyped, SumsTyped
<1>3. SumFunctionOnSet(Worth(Settled), Sides("sell")) <= Release(Sides("sell"))
  <2>1. \A i \in Sides("sell") : i \in DOMAIN sent
    BY <1>2
  <2> QED BY <1>1, <1>2, <2>1, SumAtMost DEF Release
<1>4. /\ InitCash \in Int /\ Release(Sides("sell")) \in Nat /\ Larger(0, InitCash) \in Nat
      /\ Funds = Larger(0, InitCash) + Release(Sides("sell"))
  BY FundsTyped DEF CycleAssumption
<1>5. Cash = InitCash + SumFunctionOnSet(Worth(Settled), Sides("sell"))
  <2>1. SumFunctionOnSet(Worth(Settled), Sides("buy")) = 0
    BY SumEmpty
  <2> QED BY <1>2, <1>4, <2>1 DEF Cash
<1>6. InitCash <= Larger(0, InitCash)
  BY <1>4, Extremes
<1>7. Cash \in Int /\ Larger(0, Cash) <= Funds
  <2> DEFINE settled == SumFunctionOnSet(Worth(Settled), Sides("sell"))
             c == Cash
             f == Funds
  <2>1. c \in Int /\ c <= f /\ 0 <= f
    <3> HIDE DEF settled
    <3>1. settled \in Nat /\ settled <= Release(Sides("sell")) /\ c = InitCash + settled
      BY <1>2, <1>3, <1>5 DEF settled
    <3> HIDE DEF c
    <3> QED BY <1>4, <1>6, <3>1
  <2> HIDE DEF c, f
  <2>2. Larger(0, c) <= f
    BY <2>1 DEF Larger
  <2> QED BY <2>1, <2>2 DEF c, f
<1>8. ASSUME NEW answered \in SUBSET KnownSells
      PROVE  Release(answered) \in Nat /\ Larger(0, InitCash) + Release(answered) <= Funds
  <2>1. answered \in SUBSET Sides("sell") /\ answered \in SUBSET DOMAIN sent
    BY <1>2 DEF KnownSells
  <2>2. Release(answered) \in Nat
    BY <2>1, SumsTyped DEF Release
  <2>3. \A i \in Sides("sell") : Worth(Executed)[i] \in Nat
    BY <1>2, SumsTyped
  <2>4. Release(answered) <= Release(Sides("sell"))
    BY <1>2, <2>1, <2>3, SumOfMore DEF Release
  <2> QED BY <1>4, <2>2, <2>4
<1> QED BY <1>7, <1>8

(* A buy that is sent is paid from what was left.                          *)
LEMMA BuyIsPaid ==
  ASSUME CycleAssumption, TypeOK, NEW o, Adds(o), o.executed = 0, o.side = "buy",
         NEW q \in Nat, o.quantity \in {0, q}, q * Price[o.symbol] <= view.investable,
         Bought + view.investable <= Funds
  PROVE  /\ Funds' = Funds /\ (FundedBuys' <=> Bought' <= Funds) /\ Bought' <= Funds
         /\ Bought' \in Nat /\ q * Price[o.symbol] \in Nat
         /\ Bought' + (view.investable - q * Price[o.symbol]) <= Funds
         /\ o.quantity = 0 => Bought' = Bought
<1>1. /\ o \in Sent /\ o.quantity \in Nat /\ Price[o.symbol] \in Nat
  BY DEF Adds, Sent, CycleAssumption
<1>2. Bought' = Bought + o.quantity * Price[o.symbol] /\ Release(Sides("sell"))' = Release(Sides("sell"))
  BY Adding
<1>3. Funds' = Funds
  BY <1>2 DEF Funds
<1>4. FundedBuys' <=> Bought' <= Funds'
  BY DEF FundedBuys, Bought, Funds
<1>5. Bought \in Nat /\ Funds \in Nat /\ view.investable \in Nat
  BY FundsTyped
<1> DEFINE b == Bought
           p == Price[o.symbol]
           bb == Bought'
           f == Funds
           inv == view.investable
<1>6. /\ b \in Nat /\ p \in Nat /\ f \in Nat /\ inv \in Nat /\ bb = b + o.quantity * p /\ b + inv <= f
      /\ q * p <= inv
  BY <1>1, <1>2, <1>5
<1> HIDE DEF b, p, bb, f, inv
<1>7. q * p \in Nat /\ 0 * p = 0
  BY <1>6
<1>8. o.quantity * p = 0 \/ o.quantity * p = q * p
  <2>1. CASE o.quantity = 0
    BY <1>7, <2>1
  <2>2. CASE o.quantity = q
    BY <2>2
  <2> QED BY <2>1, <2>2
<1>9. bb \in Nat /\ bb <= f /\ bb + (inv - q * p) <= f
  <2> DEFINE c == q * p
             d == o.quantity * p
  <2>1. c \in Nat /\ (d = 0 \/ d = c) /\ c <= inv /\ bb = b + d
    BY <1>6, <1>7, <1>8
  <2>2. b \in Nat /\ f \in Nat /\ inv \in Nat /\ b + inv <= f
    BY <1>6
  <2> HIDE DEF c, d
  <2>3. bb \in Nat /\ bb <= f /\ bb + (inv - c) <= f
    <3>1. CASE d = 0
      BY <2>1, <2>2, <3>1
    <3>2. CASE d = c
      BY <2>1, <2>2, <3>2
    <3> QED BY <2>1, <3>1, <3>2
  <2> QED BY <2>3 DEF c
<1>10. o.quantity = 0 => bb = b
  BY <1>6, <1>7
<1> QED BY <1>3, <1>4, <1>7, <1>9, <1>10 DEF b, p, bb, f, inv

LEMMA FundingStep ==
  ASSUME CycleAssumption, TypeOK, Selling, Funding, FundedBuys, [Next]_vars
  PROVE  Funding' /\ FundedBuys'
<1>0. /\ Bought \in Nat /\ Release(Sides("sell")) \in Nat /\ Larger(0, InitCash) \in Nat
      /\ Funds \in Nat /\ Funds = Larger(0, InitCash) + Release(Sides("sell"))
      /\ view.investable \in Nat /\ Bought <= Funds
  BY FundsTyped
<1>1. Funds' = Larger(0, InitCash) + Release(Sides("sell"))'
  BY DEF Funds
<1>2. FundedBuys' <=> Bought' <= Funds'
  BY DEF FundedBuys, Bought, Funds
<1>3. Sides("buy") = {} => Bought = 0
  BY SumEmpty DEF Bought
<1>4. ASSUME UNCHANGED sent
      PROVE  Sides("buy")' = Sides("buy") /\ Bought' = Bought /\ Funds' = Funds /\ FundedBuys'
  <2>1. Sides("buy")' = Sides("buy") /\ Bought' = Bought /\ Release(Sides("sell"))' = Release(Sides("sell"))
    BY <1>4, Resting
  <2> QED BY <1>0, <1>1, <1>2, <2>1
<1>5. CASE Plan
  <2>1. PICK t \in Targets, factor \in Scales, sub \in Substitutes, blocked \in BOOLEAN :
          /\ view' = Portfolio(t, factor, sub) /\ sent' = sent /\ pc' = IF blocked THEN "done" ELSE "sell"
    BY <1>5 DEF Plan
  <2>2. sent = <<>> /\ pc = "plan"
    BY <1>5 DEF Plan, Selling
  <2>3. view'.investable = Larger(0, InitCash)
    BY <2>1, <2>2, Untouched
  <2>4. Sides("buy")' = {} /\ FundedBuys'
    BY <1>4, <2>1, <2>2 DEF Funding
  <2>5. pc' \in {"sell", "done"}
    BY <2>1
  <2> QED BY <2>3, <2>4, <2>5 DEF Funding
<1>6. CASE Sell \/ Fund
  <2>1. PICK o : Adds(o) /\ o.side = "sell" /\ o.executed = 0
    <3>1. \A s, e, phase, answer : Order(s, "sell", e, phase, answer).side = "sell" /\ Order(s, "sell", e, phase, answer).executed = 0
      BY DEF Order
    <3>2. \E s, e, phase, answer : Adds(Order(s, "sell", e, phase, answer))
      BY <1>6, SellSends, FundSends
    <3> QED BY <3>1, <3>2
  <2>2. Sides("buy")' = Sides("buy") /\ Bought' = Bought /\ Release(Sides("sell"))' = Release(Sides("sell"))
    BY <2>1, Adding
  <2>3. Funds' = Funds /\ FundedBuys'
    BY <1>0, <1>1, <1>2, <2>2
  <2>4. pc \in {"sell", "fund"} /\ view' = view
    <3>1. CASE Sell
      BY <3>1, SellSends
    <3>2. CASE Fund
      BY <3>2, FundSends
    <3> QED BY <1>6, <3>1, <3>2
  <2>5. Sides("buy")' = {} /\ view'.investable = Larger(0, InitCash) /\ Bought' = 0
    BY <1>3, <2>2, <2>4 DEF Funding
  <2>6. \/ pc' = "sell" \/ pc' = "screen"
        \/ /\ pc' = "refresh" /\ released' = 0
           /\ before' = view.investable /\ best' = view.investable
    <3>1. CASE Sell
      BY <3>1, SellSends
    <3>2. CASE Fund
      BY <3>2, FundSends DEF AfterFunding, StartRefresh
    <3> QED BY <1>6, <3>1, <3>2
  <2>7. Larger(0, InitCash) + 0 <= Funds /\ 0 + Larger(0, InitCash) <= Funds /\ Larger(0, InitCash) <= Funds
    BY <1>0
  <2>8. (pc = "refresh" => before = Larger(0, InitCash) /\ best <= Funds /\ before + released <= Funds)'
    BY <2>3, <2>4, <2>5, <2>6, <2>7
  <2>9. (pc \in {"screen", "buy", "rebuy"} /\ ~halted => Bought + view.investable <= Funds)'
    BY <2>3, <2>5, <2>7
  <2> QED BY <2>3, <2>5, <2>8, <2>9 DEF Funding
<1>7. CASE NoFund
  <2>1. /\ sent' = sent /\ view' = view /\ pc = "fund"
        /\ \/ pc' = "screen"
           \/ /\ pc' = "refresh" /\ released' = 0
              /\ before' = view.investable /\ best' = view.investable
    BY <1>7 DEF NoFund, AfterFunding, StartRefresh
  <2>2. Sides("buy")' = {} /\ view'.investable = Larger(0, InitCash) /\ Bought' = 0 /\ Funds' = Funds /\ FundedBuys'
    BY <1>3, <1>4, <2>1 DEF Funding
  <2>3. Larger(0, InitCash) + 0 <= Funds /\ 0 + Larger(0, InitCash) <= Funds /\ Larger(0, InitCash) <= Funds
    BY <1>0
  <2>4. (pc = "refresh" => before = Larger(0, InitCash) /\ best <= Funds /\ before + released <= Funds)'
    BY <2>1, <2>2, <2>3
  <2>5. (pc \in {"screen", "buy", "rebuy"} /\ ~halted => Bought + view.investable <= Funds)'
    BY <2>2, <2>3
  <2> QED BY <2>1, <2>2, <2>4, <2>5 DEF Funding
<1>8. CASE Refresh
  <2>1. PICK t \in Targets, factor \in Scales, sub \in Substitutes, answered \in SUBSET KnownSells :
           LET fresh == Portfolio(t, ScaleLatch(factor), sub)
           IN /\ pc = "refresh" /\ sent' = sent /\ before' = before
              /\ released' = Larger(released, Release(answered))
              /\ best' = Larger(best, fresh.investable)
              /\ IF fresh.investable > before \/ LastAttempt
                 THEN /\ pc' = "screen"
                      /\ view' = [fresh EXCEPT !.investable = Forecast(@, best', before + released')]
                 ELSE UNCHANGED <<pc, view>>
    BY <1>8 DEF Refresh
  <2> DEFINE fresh == Portfolio(t, ScaleLatch(factor), sub)
  <2>2. Sides("buy") = {} /\ before = Larger(0, InitCash) /\ best <= Funds /\ before + released <= Funds
    BY <2>1 DEF Funding
  <2>3. /\ Cash \in Int /\ Larger(0, Cash) <= Funds
        /\ Release(answered) \in Nat /\ Larger(0, InitCash) + Release(answered) <= Funds
    BY <2>2, ForecastIsFunded
  <2>4. fresh.investable = Larger(0, Cash)
    BY DEF Portfolio
  <2>5. Larger(0, Cash) \in Nat
    BY <2>3, Extremes
  <2>6. best \in Nat /\ released \in Nat /\ before \in Nat
    BY DEF TypeOK
  <2>7. \A a, b \in Int : Larger(a, b) = a \/ Larger(a, b) = b
    BY DEF Larger
  <2>8. best' \in Nat /\ best' <= Funds /\ released' \in Nat /\ before + released' <= Funds
    <3>1. best' = best \/ best' = Larger(0, Cash)
      BY <2>1, <2>4 DEF Larger
    <3>2. released' = released \/ released' = Release(answered)
      BY <2>1 DEF Larger
    <3> QED BY <2>2, <2>3, <2>5, <2>6, <3>1, <3>2
  <2>9. Forecast(fresh.investable, best', before + released') <= Funds
    <3>1. Larger(fresh.investable, best') \in Int /\ Larger(fresh.investable, best') <= Funds
      BY <2>3, <2>4, <2>5, <2>8 DEF Larger
    <3>2. before + released' \in Int
      BY <2>6, <2>8
    <3> QED BY <2>7, <2>8, <3>1, <3>2 DEF Forecast
  <2>10. Sides("buy")' = {} /\ Bought' = 0 /\ Funds' = Funds /\ FundedBuys'
    BY <1>3, <1>4, <2>1, <2>2
  <2>11. CASE fresh.investable > before \/ LastAttempt
    <3>1. pc' = "screen" /\ view' = [fresh EXCEPT !.investable = Forecast(fresh.investable, best', before + released')]
      BY <2>1, <2>11
    <3>2. view'.investable = Forecast(fresh.investable, best', before + released')
      BY <3>1 DEF Portfolio
    <3> HIDE DEF fresh
    <3>3. 0 + view'.investable <= Funds
      <4>1. Forecast(fresh.investable, best', before + released') \in Int
        <5>1. Larger(fresh.investable, best') \in Int /\ before + released' \in Int
          BY <2>4, <2>5, <2>6, <2>8 DEF Larger
        <5> QED BY <5>1, Extremes DEF Forecast
      <4> QED BY <2>9, <3>2, <4>1
    <3> QED BY <2>10, <3>1, <3>3 DEF Funding
  <2>12. CASE ~(fresh.investable > before \/ LastAttempt)
    <3>1. pc' = "refresh" /\ before' = before
      BY <2>1, <2>12
    <3> QED BY <2>2, <2>8, <2>10, <3>1 DEF Funding
  <2> QED BY <2>11, <2>12
<1>9. CASE Buy
  <2>0. PICK s \in Symbol, answer \in Answer, q \in Nat, e \in Nat :
           /\ e \in {0, q} /\ todo \in Seq(Symbol) /\ todo # <<>> /\ s = Head(todo) /\ todo' = Tail(todo)
           /\ pc = "buy" /\ WantsBuy(s) /\ q <= Planned(s) /\ q > 0
           /\ Adds(Order(s, "buy", e, "buy", answer)) /\ (answer = "rejected" => e = 0)
           /\ ~halted /\ halted' = Halts(answer)
           /\ view' = IF Submitted(answer)
                      THEN [view EXCEPT !.investable = Larger(0, @ - q * Price[s])] ELSE view
           /\ UNCHANGED <<pc, local, risk, sold, loop, negative>>
    BY <1>9, BuySends
  <2>1. /\ e \in {0, q} /\ pc = "buy" /\ q <= Planned(s) /\ q > 0
        /\ Adds(Order(s, "buy", e, "buy", answer)) /\ (answer = "rejected" => e = 0)
        /\ ~halted /\ halted' = Halts(answer)
        /\ view' = IF Submitted(answer)
                   THEN [view EXCEPT !.investable = Larger(0, @ - q * Price[s])] ELSE view
        /\ pc' = pc
    BY <2>0
  <2> DEFINE o == Order(s, "buy", e, "buy", answer)
  <2>2. o.side = "buy" /\ o.symbol = s /\ o.quantity = e /\ o.executed = 0 /\ Adds(o)
    BY <2>1 DEF Order
  <2> HIDE DEF o
  <2>3. q * Price[s] <= view.investable
    <3> DEFINE planned == Planned(s)
    <3>1. planned \in Int /\ planned * Price[s] <= view.investable /\ Price[s] \in Nat
      BY PlannedIsPaid, QuantitiesTyped DEF CycleAssumption
    <3>2. q \in Int /\ q <= planned
      BY <2>1
    <3> HIDE DEF planned
    <3>3. q * Price[s] \in Int /\ planned * Price[s] \in Int /\ q * Price[s] <= planned * Price[s]
      BY <3>1, <3>2, Costs
    <3>4. \A a, b, c \in Int : a <= b /\ b <= c => a <= c
      OBVIOUS
    <3>5. view.investable \in Int
      BY <1>0
    <3> QED BY <3>1, <3>3, <3>4, <3>5
  <2>4. Bought + view.investable <= Funds
    BY <2>1 DEF Funding
  <2>5. /\ Funds' = Funds /\ (FundedBuys' <=> Bought' <= Funds) /\ Bought' <= Funds
        /\ Bought' \in Nat /\ q * Price[s] \in Nat
        /\ Bought' + (view.investable - q * Price[s]) <= Funds
        /\ (o.quantity = 0 => Bought' = Bought)
    BY <2>1, <2>2, <2>3, <2>4, BuyIsPaid
  <2>6. CASE Submitted(answer)
    <3> DEFINE cost == q * Price[s]
    <3>1. cost \in Nat /\ cost <= view.investable /\ view.investable \in Nat
      BY <1>0, <2>3, <2>5
    <3> HIDE DEF cost
    <3>2. view.investable - cost \in Nat
      BY <3>1
    <3>3. Larger(0, view.investable - cost) = view.investable - cost
      BY <3>2 DEF Larger
    <3>4. view'.investable = view.investable - cost
      BY <2>1, <2>6, <3>3 DEF TypeOK, View, cost
    <3>5. Bought' + view'.investable <= Funds
      BY <2>5, <3>4 DEF cost
    <3> QED BY <2>1, <2>5, <3>5 DEF Funding
  <2>7. CASE ~Submitted(answer)
    <3>1. view' = view /\ (~halted' => answer = "rejected")
      BY <2>1, <2>7 DEF Submitted, Halts, Answer
    <3> QED BY <2>1, <2>2, <2>4, <2>5, <3>1 DEF Funding
  <2> QED BY <2>6, <2>7
<1>10. CASE Rebuy
  <2>1. PICK answer \in Answer, q \in Nat, e \in Nat :
           /\ e \in {0, q} /\ pc = "rebuy" /\ pc' = "done" /\ q <= view.investable \div Price[Sweep]
           /\ Adds(Order(Sweep, "buy", e, "rebuy", answer)) /\ ~halted
    BY <1>10, RebuySends
  <2> DEFINE o == Order(Sweep, "buy", e, "rebuy", answer)
  <2>2. o.side = "buy" /\ o.symbol = Sweep /\ o.quantity = e /\ o.executed = 0 /\ Adds(o)
    BY <2>1 DEF Order
  <2> HIDE DEF o
  <2>3. q * Price[Sweep] <= view.investable
    <3>1. Price[Sweep] \in Nat \ {0} /\ view.investable \in Int /\ q \in Int
      BY <1>0 DEF CycleAssumption
    <3> DEFINE shares == view.investable \div Price[Sweep]
    <3>2. shares \in Int /\ shares * Price[Sweep] <= view.investable
      BY <3>1, Shares
    <3> HIDE DEF shares
    <3>3. q <= shares
      BY <2>1 DEF shares
    <3>4. q * Price[Sweep] \in Int /\ shares * Price[Sweep] \in Int /\ q * Price[Sweep] <= shares * Price[Sweep]
      BY <3>1, <3>2, <3>3, Costs
    <3>5. \A a, b, c \in Int : a <= b /\ b <= c => a <= c
      OBVIOUS
    <3> QED BY <3>1, <3>2, <3>4, <3>5
  <2>4. Bought + view.investable <= Funds
    BY <2>1 DEF Funding
  <2>5. FundedBuys'
    BY <2>1, <2>2, <2>3, <2>4, BuyIsPaid
  <2> QED BY <2>1, <2>5 DEF Funding
<1>11. CASE SkipSell \/ SellsDone \/ Screen \/ SkipBuy \/ BuysDone \/ NoRebuy \/ UNCHANGED vars
  <2>1. /\ UNCHANGED <<sent, view, halted, loop>>
        /\ \/ pc' = pc
           \/ pc = "sell" /\ pc' = "fund"
           \/ pc = "screen" /\ pc' = "buy"
           \/ pc = "buy" /\ pc' = "rebuy"
           \/ pc' = "done"
    BY <1>11 DEF SkipSell, SellsDone, Screen, SkipBuy, BuysDone, NoRebuy, vars
  <2>2. Sides("buy")' = Sides("buy") /\ Bought' = Bought /\ Funds' = Funds /\ FundedBuys'
    BY <1>4, <2>1
  <2> QED BY <2>1, <2>2 DEF Funding, loop
<1>12. CASE \E i \in DOMAIN sent : Executes(i) \/ Settles(i)
  <2>1. PICK i \in DOMAIN sent : Executes(i) \/ Settles(i)
    BY <1>12
  <2>2. Sides("buy")' = Sides("buy") /\ Bought' = Bought /\ Release(Sides("sell")) <= Release(Sides("sell"))'
    BY <2>1, Working
  <2>3. UNCHANGED <<pc, view, halted, loop>>
    BY <2>1, BrokerSteps
  <2>4. Release(Sides("sell"))' \in Nat
    <3>1. sent' \in Seq(Sent)
      BY <2>1, BrokerSteps
    <3> DEFINE executed == [j \in DOMAIN sent' |-> sent'[j].executed * Price[sent'[j].symbol]]
    <3>2. /\ IsFiniteSet(Sides("sell")') /\ Sides("sell")' \in SUBSET DOMAIN sent'
      <4>1. Sides("sell")' \in SUBSET DOMAIN sent'
        BY DEF Sides
      <4>2. IsFiniteSet(DOMAIN sent')
        <5>1. DOMAIN sent' = 1 .. Len(sent')
          BY <3>1, LenProperties
        <5>2. Len(sent') \in Nat
          BY <3>1, LenProperties
        <5> QED BY <5>1, <5>2, FS_Interval
      <4> QED BY <4>1, <4>2, FS_Subset
    <3>3. \A j \in DOMAIN sent' : executed[j] \in Nat
      <4> TAKE j \in DOMAIN sent'
      <4>1. sent'[j].executed \in Nat /\ Price[sent'[j].symbol] \in Nat
        <5>1. sent'[j] \in Sent
          BY <3>1, ElementOfSeq, LenProperties
        <5> QED BY <5>1 DEF Sent, CycleAssumption
      <4>2. \A a, b \in Nat : a * b \in Nat
        OBVIOUS
      <4> QED BY <4>1, <4>2
    <3>4. Release(Sides("sell"))' = SumFunctionOnSet(executed, Sides("sell")')
      BY DEF Release, Worth, Executed
    <3> HIDE DEF executed
    <3> QED BY <3>2, <3>3, <3>4, SumNotNegative
  <2>5. Funds' \in Nat /\ Funds <= Funds'
    BY <1>0, <1>1, <2>2, <2>4
  <2>6. FundedBuys'
    BY <1>0, <1>2, <2>2, <2>5
  <2>7. before \in Nat /\ best \in Nat /\ released \in Nat
    BY DEF TypeOK
  <2>8. /\ \A n \in Nat : n <= Funds => n <= Funds'
        /\ before + released \in Nat /\ Bought + view.investable \in Nat
    <3>1. Funds \in Nat /\ Bought \in Nat /\ view.investable \in Nat
      BY <1>0 DEF TypeOK, View
    <3> DEFINE now == Funds
               then == Funds'
               bought == Bought
    <3>2. now \in Nat /\ then \in Nat /\ now <= then /\ bought \in Nat
      BY <2>5, <3>1
    <3> HIDE DEF now, then, bought
    <3>3. \A n \in Nat : n <= now => n <= then
      BY <3>2
    <3>4. before + released \in Nat /\ bought + view.investable \in Nat
      BY <2>7, <3>1, <3>2
    <3> QED BY <3>3, <3>4 DEF now, then, bought
  <2>9. (pc = "refresh" => before = Larger(0, InitCash) /\ best <= Funds /\ before + released <= Funds)'
    BY <2>3, <2>7, <2>8 DEF Funding, loop
  <2>10. (pc \in {"screen", "buy", "rebuy"} /\ ~halted => Bought + view.investable <= Funds)'
    BY <2>2, <2>3, <2>8 DEF Funding
  <2> QED BY <2>2, <2>3, <2>6, <2>9, <2>10 DEF Funding
<1> QED BY <1>5, <1>6, <1>7, <1>8, <1>9, <1>10, <1>11, <1>12 DEF Next, Cycle

-----------------------------------------------------------------------------
(* Scaling is monotonic, in the plan and in the scale.                     *)
LEMMA Scaling ==
  /\ \A p \in Nat, a, b \in 0 .. 2 : a <= b => (p * a) \div 2 <= (p * b) \div 2
  /\ \A p, r \in Nat, a \in 0 .. 2 : p <= r => (p * a) \div 2 <= (r * a) \div 2
  /\ \A p \in Nat, a \in 0 .. 2 : (p * a) \div 2 \in Nat
<1>1. ASSUME NEW p \in Nat PROVE /\ p * 0 = 0 /\ p * 1 = p /\ p * 2 = p + p
                                 /\ 0 \div 2 = 0 /\ (p + p) \div 2 = p /\ p \div 2 \in Nat /\ p \div 2 <= p
  OBVIOUS
<1>2. \A a \in 0 .. 2 : a = 0 \/ a = 1 \/ a = 2
  OBVIOUS
<1>3. ASSUME NEW p \in Nat PROVE (p * 0) \div 2 = 0 /\ (p * 1) \div 2 = p \div 2 /\ (p * 2) \div 2 = p
  BY <1>1
<1>4. ASSUME NEW p \in Nat, NEW a \in 0 .. 2, NEW b \in 0 .. 2, a <= b PROVE (p * a) \div 2 <= (p * b) \div 2
  <2>1. 0 <= p /\ p <= p /\ p \div 2 \in Nat /\ p \div 2 <= p
    BY <1>1
  <2>2. CASE a = 0
    BY <1>2, <1>3, <2>1, <2>2
  <2>3. CASE a = 1
    BY <1>2, <1>3, <1>4, <2>1, <2>3
  <2>4. CASE a = 2
    BY <1>2, <1>3, <1>4, <2>1, <2>4
  <2> QED BY <1>2, <2>2, <2>3, <2>4
<1>5. ASSUME NEW p \in Nat, NEW r \in Nat, NEW a \in 0 .. 2, p <= r PROVE (p * a) \div 2 <= (r * a) \div 2
  <2>1. p \div 2 <= r \div 2
    BY <1>5
  <2>2. CASE a = 0
    BY <1>3, <2>2
  <2>3. CASE a = 1
    BY <1>3, <2>1, <2>3
  <2>4. CASE a = 2
    BY <1>3, <1>5, <2>4
  <2> QED BY <1>2, <2>2, <2>3, <2>4
<1>6. ASSUME NEW p \in Nat, NEW a \in 0 .. 2 PROVE (p * a) \div 2 \in Nat
  BY <1>1, <1>2, <1>3
<1> QED BY <1>4, <1>5, <1>6

(* While nothing is bought, what is sold of a symbol is its one order.     *)
LEMMA HeldAfterSale ==
  ASSUME CycleAssumption, TypeOK, Selling, Sides("buy") = {},
         NEW s \in Symbol \ {Sweep}, NEW i \in OfSymbol(s, "sell")
  PROVE  Held(s) \in Int /\ InitHold[s] - sent[i].quantity <= Held(s)
<1>1. OfSymbol(s, "sell") = {i}
  BY DEF Selling
<1>2. i \in DOMAIN sent /\ sent[i].settled \in Nat /\ sent[i].quantity \in Nat /\ sent[i].settled <= sent[i].quantity
  <2>1. i \in DOMAIN sent
    BY SidesTyped
  <2>2. sent[i] \in Sent /\ sent[i].settled <= sent[i].executed /\ sent[i].executed <= sent[i].quantity
    BY <2>1, SentIndices DEF TypeOK
  <2> QED BY <2>1, <2>2 DEF Sent
<1>3. SumFunctionOnSet(Settled, {i}) = sent[i].settled
  <2>1. IsFiniteSet({i}) /\ Settled[i] = sent[i].settled /\ {i} \ {i} = {}
    BY <1>2, FS_Singleton DEF Settled
  <2>2. \A j \in {i} : Settled[j] \in Int
    BY <1>2, <2>1
  <2>3. SumFunctionOnSet(Settled, {i}) = Settled[i] + SumFunctionOnSet(Settled, {i} \ {i})
    BY <2>1, <2>2, SumTakes
  <2>4. SumFunctionOnSet(Settled, {i} \ {i}) = 0
    BY <2>1, SumEmpty
  <2>5. SumFunctionOnSet(Settled, {i}) = sent[i].settled + 0
    BY <2>1, <2>3, <2>4
  <2> QED BY <1>2, <2>5
<1>4. SumFunctionOnSet(Settled, OfSymbol(s, "buy")) = 0
  <2>1. OfSymbol(s, "buy") = {}
    BY SidesTyped
  <2> QED BY <2>1, SumEmpty
<1>5. InitHold[s] \in Nat
  BY DEF CycleAssumption
<1>6. Held(s) = InitHold[s] - sent[i].settled + 0
  BY <1>1, <1>3, <1>4 DEF Held
<1> DEFINE held == InitHold[s]
           settled == sent[i].settled
           quantity == sent[i].quantity
<1>7. held \in Nat /\ settled \in Nat /\ quantity \in Nat /\ settled <= quantity /\ Held(s) = held - settled + 0
  BY <1>2, <1>5, <1>6
<1> HIDE DEF held, settled, quantity
<1>8. Held(s) \in Int /\ held - quantity <= Held(s)
  BY <1>7
<1> QED BY <1>8 DEF held, quantity

(* A symbol sold to reach its target keeps what the target is worth.       *)
LEMMA SaleKeepsTarget ==
  ASSUME CycleAssumption, TypeOK, NEW s \in Symbol, NEW e \in Nat, NeedsSell(s), e <= SellQuantity(s),
         view.held = InitHold, view.sellable = InitHold
  PROVE  view.target[s] <= (InitHold[s] - e) * Price[s]
<1>1. InitHold[s] \in Nat /\ Price[s] \in Nat \ {0} /\ view.target[s] \in Nat /\ HeldValue(s) = InitHold[s] * Price[s]
      /\ SellQuantity(s) \in Int
  <2>1. SellQuantity(s) \in Int
    BY QuantitiesTyped
  <2> QED BY <2>1 DEF CycleAssumption, TypeOK, View, HeldValue
<1>2. CASE view.target[s] = 0
  <2>1. SellQuantity(s) = InitHold[s]
    BY <1>2 DEF SellQuantity
  <2>2. InitHold[s] - e \in Nat
    BY <1>1, <2>1
  <2>3. \A a, b \in Nat : a * b \in Nat /\ 0 <= a * b
    OBVIOUS
  <2> QED BY <1>1, <1>2, <2>2, <2>3
<1>3. CASE view.target[s] # 0
  <2> DEFINE rest == HeldValue(s) - view.target[s]
             shares == rest \div Price[s]
  <2>1. rest \in Int
    <3>1. InitHold[s] * Price[s] \in Int
      BY <1>1
    <3> QED BY <1>1, <3>1
  <2>2. SellQuantity(s) = Smaller(shares, view.sellable[s])
    BY <1>3 DEF SellQuantity
  <2>3. rest = InitHold[s] * Price[s] - view.target[s]
    BY <1>1
  <2> HIDE DEF rest
  <2>4. shares \in Int /\ shares * Price[s] <= rest
    BY <1>1, <2>1, Shares
  <2> HIDE DEF shares
  <2>5. e <= shares
    <3>1. Smaller(shares, view.sellable[s]) <= shares
      BY <1>1, <2>4, Extremes
    <3> QED BY <1>1, <2>2, <2>4, <3>1
  <2>6. e * Price[s] \in Int /\ shares * Price[s] \in Int /\ e * Price[s] <= shares * Price[s]
    <3>1. e \in Int
      OBVIOUS
    <3> QED BY <1>1, <2>4, <2>5, <3>1, Costs
  <2>7. (InitHold[s] - e) * Price[s] = InitHold[s] * Price[s] - e * Price[s] /\ InitHold[s] * Price[s] \in Int
    BY <1>1
  <2> DEFINE a == e * Price[s]
             b == shares * Price[s]
             c == InitHold[s] * Price[s]
  <2>8. a \in Int /\ b \in Int /\ c \in Int /\ a <= b /\ b <= c - view.target[s] /\ view.target[s] \in Int
    <3>1. a \in Int /\ b \in Int /\ c \in Int /\ a <= b
      BY <2>6, <2>7
    <3>2. b <= c - view.target[s]
      BY <2>3, <2>4
    <3>3. view.target[s] \in Int
      BY <1>1
    <3> HIDE DEF a, b, c
    <3> QED BY <3>1, <3>2, <3>3
  <2>9. (InitHold[s] - e) * Price[s] = c - a
    BY <2>7
  <2> HIDE DEF a, b, c
  <2>10. view.target[s] <= c - a
    BY <2>8
  <2> QED BY <2>9, <2>10
<1> QED BY <1>2, <1>3

(* What Trading says of one sale.                                          *)
Sale(o) == o.side = "sell" /\ o.symbol # Sweep /\ o.quantity > 0
Keeps(o, now, held, factor) ==
    /\ (o.plan * factor) \div 2 <= (InitHold[o.symbol] - o.quantity) * Price[o.symbol]
    /\ now \in {"sell", "fund", "screen", "buy", "rebuy"} => held[o.symbol] >= InitHold[o.symbol] - o.quantity
OnTarget(v, factor) == \A s \in Symbol \ {Sweep} : v.target[s] = (v.plan[s] * factor) \div 2
Trades(orders, now, v, factor) ==
    /\ now \notin {"plan", "refresh", "done"} => OnTarget(v, factor)
    /\ \A i \in DOMAIN orders : Sale(orders[i]) => Keeps(orders[i], now, v.held, factor)
RoundTripless(orders) ==
    \A i, j \in DOMAIN orders :
        /\ Sale(orders[i]) /\ orders[i].symbol \in Symbol
        /\ orders[j].side = "buy" /\ orders[j].symbol = orders[i].symbol /\ orders[j].quantity > 0
        => orders[j].plan > orders[i].plan

(* Trading and NoRoundTrip, of explicit orders, view and scale.            *)
LEMMA TradingIs ==
  /\ Trading <=> Trades(sent, pc, view, scale)
  /\ NoRoundTrip <=> RoundTripless(sent)
<1>1. Trading <=> Trades(sent, pc, view, scale)
  <2> DEFINE K(o) == Keeps(o, pc, view.held, scale)
             T == pc \notin {"plan", "refresh", "done"} => OnTarget(view, scale)
  <2>1. Trading <=> T /\ \A i \in Sides("sell") : sent[i].symbol # Sweep /\ sent[i].quantity > 0 => K(sent[i])
    BY DEF Trading, Keeps, OnTarget, Scaled
  <2>2. Trades(sent, pc, view, scale) <=> T /\ \A i \in DOMAIN sent : Sale(sent[i]) => K(sent[i])
    BY DEF Trades
  <2> HIDE DEF K, T
  <2>3. (\A i \in Sides("sell") : sent[i].symbol # Sweep /\ sent[i].quantity > 0 => K(sent[i]))
           <=> \A i \in DOMAIN sent : Sale(sent[i]) => K(sent[i])
    BY DEF Sides, Sale
  <2> QED BY <2>1, <2>2, <2>3
<1>2. NoRoundTrip <=> RoundTripless(sent)
  BY DEF NoRoundTrip, RoundTripless, OfSymbol, Sides, Sale
<1> QED BY <1>1, <1>2

LEMMA TradingIsNext ==
  /\ Trading' <=> Trades(sent', pc', view', scale')
  /\ NoRoundTrip' <=> RoundTripless(sent')
<1>1. Trading' <=> Trades(sent', pc', view', scale')
  <2> DEFINE K(o) == Keeps(o, pc', view'.held, scale')
             T == pc' \notin {"plan", "refresh", "done"} => OnTarget(view', scale')
  <2>1. Trading' <=> T /\ \A i \in Sides("sell")' : sent'[i].symbol # Sweep /\ sent'[i].quantity > 0 => K(sent'[i])
    BY DEF Trading, Keeps, OnTarget, Scaled
  <2>2. Trades(sent', pc', view', scale') <=> T /\ \A i \in DOMAIN sent' : Sale(sent'[i]) => K(sent'[i])
    BY DEF Trades
  <2> HIDE DEF K, T
  <2>3. (\A i \in Sides("sell")' : sent'[i].symbol # Sweep /\ sent'[i].quantity > 0 => K(sent'[i]))
           <=> \A i \in DOMAIN sent' : Sale(sent'[i]) => K(sent'[i])
    BY DEF Sides, Sale
  <2> QED BY <2>1, <2>2, <2>3
<1>2. NoRoundTrip' <=> RoundTripless(sent')
  BY DEF NoRoundTrip, RoundTripless, OfSymbol, Sides, Sale
<1> QED BY <1>1, <1>2

(* A scale that is not raised, and a view that shows no less, keep it.     *)
LEMMA KeepsOn ==
  ASSUME CycleAssumption, NEW o \in Sent, NEW factor \in 0 .. 2, NEW lower \in 0 .. 2, lower <= factor,
         NEW now, NEW next, NEW held, NEW after, Keeps(o, now, held, factor),
         \/ next \in {"plan", "refresh", "done"}
         \/ now \in {"sell", "fund", "screen", "buy", "rebuy"} /\ after = held
         \/ after[o.symbol] >= InitHold[o.symbol] - o.quantity
  PROVE  Keeps(o, next, after, lower)
<1>1. o.plan \in Nat /\ o.quantity \in Nat /\ o.symbol \in Symbol
  BY DEF Sent
<1> DEFINE a == (o.plan * lower) \div 2
           b == (o.plan * factor) \div 2
           c == (InitHold[o.symbol] - o.quantity) * Price[o.symbol]
<1>2. a \in Nat /\ b \in Nat /\ a <= b
  BY <1>1, Scaling
<1>3. c \in Int
  <2>1. InitHold[o.symbol] - o.quantity \in Int /\ Price[o.symbol] \in Int
    BY <1>1 DEF CycleAssumption
  <2>2. \A x, y \in Int : x * y \in Int
    OBVIOUS
  <2> QED BY <2>1, <2>2
<1>4. b <= c
  BY DEF Keeps
<1>5. a <= c
  <2> HIDE DEF a, b, c
  <2> QED BY <1>2, <1>3, <1>4
<1>6. next \in {"sell", "fund", "screen", "buy", "rebuy"} => after[o.symbol] >= InitHold[o.symbol] - o.quantity
  BY DEF Keeps
<1> QED BY <1>5, <1>6 DEF Keeps

(* A step that sends nothing, and does not raise the scale.                *)
LEMMA TradingRests ==
  ASSUME CycleAssumption, TypeOK, Trading, NoRoundTrip, sent' = sent, scale' \in 0 .. 2, scale' <= scale,
         \/ pc' \in {"plan", "refresh", "done"}
         \/ pc \in {"sell", "fund", "screen", "buy", "rebuy"} /\ view'.held = view.held
         \/ \A i \in DOMAIN sent : Sale(sent[i]) =>
               view'.held[sent[i].symbol] >= InitHold[sent[i].symbol] - sent[i].quantity,
         pc' \notin {"plan", "refresh", "done"} => OnTarget(view', scale')
  PROVE  Trading' /\ NoRoundTrip'
<1>1. Trades(sent, pc, view, scale) /\ RoundTripless(sent)
  BY TradingIs
<1>2. scale \in 0 .. 2 /\ \A i \in DOMAIN sent : sent[i] \in Sent
  BY SentIndices DEF TypeOK
<1>3. ASSUME NEW i \in DOMAIN sent, Sale(sent[i])
      PROVE  Keeps(sent[i], pc', view'.held, scale')
  <2>1. Keeps(sent[i], pc, view.held, scale)
    BY <1>1, <1>3 DEF Trades
  <2> QED BY <1>2, <1>3, <2>1, KeepsOn
<1>4. Trades(sent', pc', view', scale')
  BY <1>3 DEF Trades
<1> QED BY <1>1, <1>4, TradingIsNext

LEMMA TradingSell ==
  ASSUME CycleAssumption, TypeOK, Selling, Funding, Trading, NoRoundTrip, Sell
  PROVE  Trading' /\ NoRoundTrip'
<1>1. PICK s \in Symbol, answer \in Answer, e \in Nat :
           /\ pc = "sell" /\ NeedsSell(s) /\ e <= SellQuantity(s)
           /\ Adds(Order(s, "sell", e, "sell", answer)) /\ pc' = pc /\ view' = view
  BY SellSends
<1> DEFINE o == Order(s, "sell", e, "sell", answer)
           n == Len(sent) + 1
<1>2. o.symbol = s /\ o.side = "sell" /\ o.quantity = e /\ o.plan = view.plan[s] /\ Adds(o)
  BY <1>1 DEF Order
<1> HIDE DEF o
<1>3. /\ DOMAIN sent' = DOMAIN sent \cup {n} /\ n \notin DOMAIN sent
      /\ \A i \in DOMAIN sent : sent'[i] = sent[i]
      /\ sent'[n] = o
  BY <1>2, Appended DEF Adds
<1> HIDE DEF n
<1>4. scale' = scale
  BY DEF Sell, risk
<1>5. Trades(sent, pc, view, scale) /\ RoundTripless(sent)
  BY TradingIs
<1>6. view.held = InitHold /\ view.sellable = InitHold
  BY <1>1 DEF Selling
<1>7. Sale(o) => Keeps(o, pc, view.held, scale)
  <2> SUFFICES ASSUME Sale(o) PROVE Keeps(o, pc, view.held, scale)
    OBVIOUS
  <2>1. view.target[s] = (view.plan[s] * scale) \div 2
    BY <1>1, <1>2, <1>5 DEF Trades, OnTarget, Sale
  <2>2. view.target[s] <= (InitHold[s] - e) * Price[s]
    BY <1>1, <1>6, SaleKeepsTarget
  <2>3. InitHold[s] >= InitHold[s] - e
    <3>1. InitHold[s] \in Nat
      BY DEF CycleAssumption
    <3> QED BY <3>1
  <2> QED BY <1>2, <1>6, <2>1, <2>2, <2>3 DEF Keeps
<1>8. Trades(sent', pc', view', scale')
  BY <1>1, <1>3, <1>4, <1>5, <1>7 DEF Trades
<1>9. RoundTripless(sent')
  <2>1. Sides("buy") = {}
    BY <1>1 DEF Funding
  <2>2. \A j \in DOMAIN sent' : sent'[j].side # "buy"
    BY <1>2, <1>3, <2>1 DEF Sides
  <2> QED BY <2>2 DEF RoundTripless
<1> QED BY <1>8, <1>9, TradingIsNext

LEMMA TradingFund ==
  ASSUME CycleAssumption, TypeOK, Selling, Funding, Trading, NoRoundTrip, Fund
  PROVE  Trading' /\ NoRoundTrip'
<1>1. PICK answer \in Answer, e \in Nat :
           /\ pc = "fund" /\ Adds(Order(Sweep, "sell", e, "fund", answer)) /\ view' = view
           /\ AfterFunding(Submitted(answer), halted')
  BY FundSends
<1> DEFINE o == Order(Sweep, "sell", e, "fund", answer)
           n == Len(sent) + 1
<1>2. o.symbol = Sweep /\ o.side = "sell" /\ Adds(o)
  BY <1>1 DEF Order
<1> HIDE DEF o
<1>3. /\ DOMAIN sent' = DOMAIN sent \cup {n} /\ n \notin DOMAIN sent
      /\ \A i \in DOMAIN sent : sent'[i] = sent[i] /\ sent[i] \in Sent
      /\ sent'[n] = o
  BY <1>2, Appended, SentIndices DEF Adds
<1> HIDE DEF n
<1>4. scale' = scale /\ scale \in 0 .. 2 /\ scale <= scale
  BY DEF Fund, risk, TypeOK
<1>5. Trades(sent, pc, view, scale) /\ RoundTripless(sent)
  BY TradingIs
<1>6. OnTarget(view', scale')
  BY <1>1, <1>4, <1>5 DEF Trades
<1>7. ASSUME NEW i \in DOMAIN sent, Sale(sent[i])
      PROVE  Keeps(sent[i], pc', view'.held, scale')
  <2>1. Keeps(sent[i], pc, view.held, scale)
    BY <1>5, <1>7 DEF Trades
  <2> QED BY <1>1, <1>3, <1>4, <2>1, KeepsOn
<1>8. Trades(sent', pc', view', scale')
  BY <1>2, <1>3, <1>6, <1>7 DEF Trades, Sale
<1>9. RoundTripless(sent')
  <2>1. Sides("buy") = {}
    BY <1>1 DEF Funding
  <2>2. \A j \in DOMAIN sent' : sent'[j].side # "buy"
    BY <1>2, <1>3, <2>1 DEF Sides
  <2> QED BY <2>2 DEF RoundTripless
<1> QED BY <1>8, <1>9, TradingIsNext

(* A wanted buy was planned to more than any earlier sale of the symbol.   *)
LEMMA WantedIsPlanned ==
  ASSUME CycleAssumption, TypeOK, Trading, pc = "buy", NEW i \in DOMAIN sent, Sale(sent[i]),
         WantsBuy(sent[i].symbol)
  PROVE  view.plan[sent[i].symbol] > sent[i].plan
<1> DEFINE s == sent[i].symbol
<1>1. s \in Symbol \ {Sweep} /\ sent[i].plan \in Nat /\ sent[i].quantity \in Nat /\ scale \in 0 .. 2
  <2>1. sent[i] \in Sent
    BY SentIndices
  <2> QED BY <2>1 DEF Sent, Sale, TypeOK
<1>2. Trades(sent, pc, view, scale)
  BY TradingIs
<1>3. view.target[s] = (view.plan[s] * scale) \div 2
  BY <1>1, <1>2 DEF Trades, OnTarget
<1>4. /\ (sent[i].plan * scale) \div 2 <= (InitHold[s] - sent[i].quantity) * Price[s]
      /\ view.held[s] >= InitHold[s] - sent[i].quantity
  BY <1>2 DEF Trades, Keeps
<1>5. /\ view.plan[s] \in Nat /\ view.held[s] \in Int /\ view.target[s] \in Nat /\ InitHold[s] \in Nat
      /\ Price[s] \in Nat /\ Threshold \in Nat
  BY <1>1 DEF TypeOK, View, CycleAssumption
<1> HIDE DEF s
<1>6. /\ (InitHold[s] - sent[i].quantity) * Price[s] \in Int /\ view.held[s] * Price[s] \in Int
      /\ (InitHold[s] - sent[i].quantity) * Price[s] <= view.held[s] * Price[s]
  <2>1. InitHold[s] - sent[i].quantity \in Int /\ InitHold[s] - sent[i].quantity <= view.held[s]
    BY <1>1, <1>4, <1>5
  <2> QED BY <1>5, <2>1, Costs
<1>7. view.held[s] * Price[s] < view.target[s]
  <2>1. view.target[s] - HeldValue(s) > Threshold /\ HeldValue(s) = view.held[s] * Price[s]
    BY DEF WantsBuy, HeldValue, s
  <2> QED BY <1>5, <1>6, <2>1
<1> DEFINE a == (sent[i].plan * scale) \div 2
           b == (InitHold[s] - sent[i].quantity) * Price[s]
           c == view.held[s] * Price[s]
<1>8. a \in Nat /\ b \in Int /\ c \in Int /\ a <= b /\ b <= c /\ c < view.target[s]
  BY <1>1, <1>4, <1>6, <1>7, Scaling
<1>9. a < view.target[s]
  <2> HIDE DEF a, b, c
  <2> QED BY <1>5, <1>8
<1>10. ~(view.plan[s] <= sent[i].plan)
  <2> SUFFICES ASSUME view.plan[s] <= sent[i].plan PROVE FALSE
    OBVIOUS
  <2>1. view.target[s] <= a
    <3>1. (view.plan[s] * scale) \div 2 <= (sent[i].plan * scale) \div 2
      BY <1>1, <1>5, Scaling
    <3> QED BY <1>3, <3>1
  <2> HIDE DEF a
  <2> QED BY <1>5, <1>8, <1>9, <2>1
<1> QED BY <1>1, <1>5, <1>10 DEF s

LEMMA TradingBuy ==
  ASSUME CycleAssumption, TypeOK, Trading, NoRoundTrip, Buy \/ Rebuy
  PROVE  Trading' /\ NoRoundTrip'
<1>0. \A s, e, phase, answer :
        LET o == Order(s, "buy", e, phase, answer) IN o.symbol = s /\ o.side = "buy" /\ o.plan = view.plan[s]
  BY DEF Order
<1>1. PICK o : /\ Adds(o) /\ o.side = "buy"
               /\ \/ pc = "buy" /\ pc' = "buy" /\ WantsBuy(o.symbol) /\ o.plan = view.plan[o.symbol]
                  \/ o.symbol = Sweep /\ pc' = "done"
  <2>1. CASE Buy
    <3>1. PICK s, e, answer : Adds(Order(s, "buy", e, "buy", answer)) /\ pc = "buy" /\ WantsBuy(s) /\ pc' = pc
      BY <2>1, BuySends
    <3> DEFINE o == Order(s, "buy", e, "buy", answer)
    <3>2. Adds(o) /\ o.symbol = s /\ o.side = "buy" /\ o.plan = view.plan[s]
      BY <1>0, <3>1
    <3> HIDE DEF o
    <3> QED BY <3>1, <3>2
  <2>2. CASE Rebuy
    <3>1. PICK e, answer : Adds(Order(Sweep, "buy", e, "rebuy", answer)) /\ pc' = "done"
      BY <2>2, RebuySends
    <3> DEFINE o == Order(Sweep, "buy", e, "rebuy", answer)
    <3>2. Adds(o) /\ o.symbol = Sweep /\ o.side = "buy"
      BY <1>0, <3>1
    <3> HIDE DEF o
    <3> QED BY <3>1, <3>2
  <2> QED BY <2>1, <2>2
<1> DEFINE n == Len(sent) + 1
<1>3. /\ DOMAIN sent' = DOMAIN sent \cup {n} /\ n \notin DOMAIN sent
      /\ \A i \in DOMAIN sent : sent'[i] = sent[i] /\ sent[i] \in Sent
      /\ sent'[n] = o
  BY <1>1, Appended, SentIndices DEF Adds
<1> HIDE DEF n
<1>4. scale' = scale /\ scale \in 0 .. 2 /\ scale <= scale
  <2>1. scale' = scale
    BY DEF Buy, Rebuy, risk
  <2>2. scale \in 0 .. 2
    BY DEF TypeOK
  <2> QED BY <2>1, <2>2
<1>5. Trades(sent, pc, view, scale) /\ RoundTripless(sent)
  BY TradingIs
<1>6. view'.held = view.held /\ view'.target = view.target /\ view'.plan = view.plan
  BY DEF Buy, Rebuy, TypeOK, View
<1>7. ASSUME NEW i \in DOMAIN sent, Sale(sent[i])
      PROVE  Keeps(sent[i], pc', view'.held, scale')
  <2>1. Keeps(sent[i], pc, view.held, scale)
    BY <1>5, <1>7 DEF Trades
  <2> QED BY <1>1, <1>3, <1>4, <1>6, <2>1, KeepsOn
<1>8. pc' \notin {"plan", "refresh", "done"} => OnTarget(view', scale')
  BY <1>1, <1>4, <1>5, <1>6 DEF Trades, OnTarget
<1>9. ~Sale(o)
  BY <1>1 DEF Sale
<1>10. Trades(sent', pc', view', scale')
  BY <1>3, <1>7, <1>8, <1>9 DEF Trades
<1>11. RoundTripless(sent')
  <2> SUFFICES ASSUME NEW i \in DOMAIN sent', NEW j \in DOMAIN sent',
                      Sale(sent'[i]), sent'[i].symbol \in Symbol,
                      sent'[j].side = "buy", sent'[j].symbol = sent'[i].symbol, sent'[j].quantity > 0
               PROVE  sent'[j].plan > sent'[i].plan
    BY DEF RoundTripless
  <2>1. i \in DOMAIN sent /\ sent'[i] = sent[i]
    BY <1>3, <1>9
  <2>2. CASE j = n
    <3>1. o.symbol = sent[i].symbol /\ o.symbol # Sweep
      BY <1>3, <2>1, <2>2 DEF Sale
    <3>2. pc = "buy" /\ WantsBuy(sent[i].symbol) /\ o.plan = view.plan[sent[i].symbol]
      BY <1>1, <3>1
    <3>3. view.plan[sent[i].symbol] > sent[i].plan
      BY <2>1, <3>2, WantedIsPlanned
    <3> QED BY <1>3, <2>1, <2>2, <3>2, <3>3
  <2>3. CASE j # n
    <3>1. j \in DOMAIN sent /\ sent'[j] = sent[j]
      BY <1>3, <2>3
    <3> QED BY <1>5, <2>1, <3>1 DEF RoundTripless
  <2> QED BY <2>2, <2>3
<1> QED BY <1>10, <1>11, TradingIsNext

(* A fresh view is on target for the scale it was made with.               *)
LEMMA FreshOnTarget ==
  ASSUME NEW t, NEW factor, NEW sub PROVE OnTarget(Portfolio(t, factor, sub), factor)
  BY DEF OnTarget, Portfolio, Target

LEMMA TradingRefresh ==
  ASSUME CycleAssumption, TypeOK, Selling, Funding, Trading, NoRoundTrip, Refresh
  PROVE  Trading' /\ NoRoundTrip'
<1>1. PICK t \in Targets, gate \in Gate, blocked \in BOOLEAN, factor \in Scales, sub \in Substitutes :
           LET fresh == Portfolio(t, ScaleLatch(factor), sub)
           IN /\ pc = "refresh" /\ sent' = sent /\ Observe(gate, blocked, factor)
              /\ IF fresh.investable > before \/ LastAttempt
                 THEN /\ pc' = "screen"
                      /\ view' = [fresh EXCEPT !.investable = Forecast(@, best', before + released')]
                 ELSE UNCHANGED <<pc, view>>
  BY DEF Refresh
<1> DEFINE fresh == Portfolio(t, ScaleLatch(factor), sub)
<1>2. scale' = ScaleLatch(factor) /\ scale' \in 0 .. 2 /\ scale' <= scale
  <2>1. scale \in 0 .. 2 /\ factor \in 0 .. 2
    BY DEF TypeOK, CycleAssumption
  <2>2. scale' = ScaleLatch(factor)
    BY <1>1 DEF Observe
  <2> QED BY <2>1, <2>2 DEF ScaleLatch, Smaller
<1>3. CASE fresh.investable > before \/ LastAttempt
  <2>1. pc' = "screen" /\ view' = [fresh EXCEPT !.investable = Forecast(fresh.investable, best', before + released')]
    BY <1>1, <1>3
  <2>2. view'.held = fresh.held /\ view'.target = fresh.target /\ view'.plan = fresh.plan
    BY <2>1 DEF Portfolio
  <2>3. OnTarget(fresh, scale')
    BY <1>2, FreshOnTarget
  <2>4. OnTarget(view', scale')
    <3> HIDE DEF fresh
    <3> QED BY <2>2, <2>3 DEF OnTarget
  <2>5. \A i \in DOMAIN sent : Sale(sent[i]) =>
           view'.held[sent[i].symbol] >= InitHold[sent[i].symbol] - sent[i].quantity
    <3> SUFFICES ASSUME NEW i \in DOMAIN sent, Sale(sent[i])
                 PROVE  view'.held[sent[i].symbol] >= InitHold[sent[i].symbol] - sent[i].quantity
      OBVIOUS
    <3> DEFINE s == sent[i].symbol
    <3>1. sent[i] \in Sent
      BY SentIndices
    <3>2. s \in Symbol \ {Sweep} /\ i \in OfSymbol(s, "sell") /\ sent[i].quantity \in Nat /\ InitHold[s] \in Nat
      BY <3>1 DEF Sent, Sale, OfSymbol, Sides, CycleAssumption
    <3> HIDE DEF s
    <3>3. Sides("buy") = {}
      BY <1>1 DEF Funding
    <3>4. Held(s) \in Int /\ InitHold[s] - sent[i].quantity <= Held(s)
      BY <3>2, <3>3, HeldAfterSale
    <3>5. view'.held[s] = Held(s)
      BY <2>2, <3>2 DEF Portfolio
    <3>6. view'.held[s] >= InitHold[s] - sent[i].quantity
      BY <3>2, <3>4, <3>5
    <3> QED BY <3>6 DEF s
  <2> QED BY <1>1, <1>2, <2>4, <2>5, TradingRests
<1>4. CASE ~(fresh.investable > before \/ LastAttempt)
  <2>1. pc' = "refresh"
    BY <1>1, <1>4
  <2> QED BY <1>1, <1>2, <2>1, TradingRests
<1> QED BY <1>3, <1>4

LEMMA TradingStep ==
  ASSUME CycleAssumption, TypeOK, Selling, Funding, Trading, NoRoundTrip, [Next]_vars
  PROVE  Trading' /\ NoRoundTrip'
<1>1. CASE Plan
  <2>1. PICK t \in Targets, gate \in Gate, blocked \in BOOLEAN, factor \in Scales, sub \in Substitutes :
          /\ view' = Portfolio(t, factor, sub) /\ sent' = sent /\ Observe(gate, blocked, factor)
    BY <1>1 DEF Plan
  <2>2. sent = <<>> /\ scale = 2
    BY <1>1 DEF Plan, Selling
  <2>3. scale' = factor /\ scale' \in 0 .. 2 /\ scale' <= scale
    <3>1. factor \in 0 .. 2
      BY DEF CycleAssumption
    <3> QED BY <2>1, <2>2, <3>1 DEF Observe, ScaleLatch, Smaller
  <2>4. OnTarget(view', scale')
    BY <2>1, <2>3, FreshOnTarget
  <2>5. DOMAIN sent = {}
    BY <2>2
  <2> QED BY <2>1, <2>3, <2>4, <2>5, TradingRests
<1>2. CASE Sell
  BY <1>2, TradingSell
<1>3. CASE Fund
  BY <1>3, TradingFund
<1>4. CASE Refresh
  BY <1>4, TradingRefresh
<1>5. CASE Buy \/ Rebuy
  BY <1>5, TradingBuy
<1>6. CASE SkipSell \/ SellsDone \/ NoFund \/ Screen \/ SkipBuy \/ BuysDone \/ NoRebuy \/ UNCHANGED vars
  <2>1. /\ UNCHANGED <<sent, view, scale>>
        /\ pc' = pc \/ (pc \in {"sell", "fund", "screen", "buy", "rebuy"})
    BY <1>6 DEF SkipSell, SellsDone, NoFund, Screen, SkipBuy, BuysDone, NoRebuy, vars, risk
  <2>2. pc \in Pc
    BY DEF TypeOK
  <2>3. scale' \in 0 .. 2 /\ scale' <= scale
    <3>1. scale \in 0 .. 2
      BY DEF TypeOK
    <3> QED BY <2>1, <3>1
  <2>4. \/ pc' \in {"plan", "refresh", "done"}
        \/ pc \in {"sell", "fund", "screen", "buy", "rebuy"} /\ view'.held = view.held
    BY <2>1, <2>2 DEF Pc
  <2>5. pc' \notin {"plan", "refresh", "done"} => OnTarget(view', scale')
    <3>1. pc' \notin {"plan", "refresh", "done"} => pc \notin {"plan", "refresh", "done"}
      BY <2>1
    <3>2. pc \notin {"plan", "refresh", "done"} => OnTarget(view, scale)
      BY TradingIs DEF Trades
    <3> QED BY <2>1, <3>1, <3>2
  <2> QED BY <2>1, <2>3, <2>4, <2>5, TradingRests
<1>7. CASE \E i \in DOMAIN sent : Executes(i) \/ Settles(i)
  <2>1. /\ DOMAIN sent' = DOMAIN sent
        /\ \A j \in DOMAIN sent :
               /\ sent'[j].symbol = sent[j].symbol /\ sent'[j].side = sent[j].side
               /\ sent'[j].quantity = sent[j].quantity /\ sent'[j].plan = sent[j].plan
    BY <1>7, BrokerSteps
  <2>2. UNCHANGED <<pc, view, scale>>
    BY <1>7, BrokerSteps DEF risk
  <2>3. Trades(sent, pc, view, scale) /\ RoundTripless(sent)
    BY TradingIs
  <2>4. ASSUME NEW j \in DOMAIN sent, Sale(sent'[j]) PROVE Keeps(sent'[j], pc', view'.held, scale')
    <3>1. Sale(sent[j])
      BY <2>1, <2>4 DEF Sale
    <3>2. Keeps(sent[j], pc, view.held, scale)
      BY <2>3, <3>1 DEF Trades
    <3> QED BY <2>1, <2>2, <3>2 DEF Keeps
  <2>5. Trades(sent', pc', view', scale')
    BY <2>1, <2>2, <2>3, <2>4 DEF Trades
  <2>6. RoundTripless(sent')
    BY <2>1, <2>3 DEF RoundTripless, Sale
  <2> QED BY <2>5, <2>6, TradingIsNext
<1> QED BY <1>1, <1>2, <1>3, <1>4, <1>5, <1>6, <1>7 DEF Next, Cycle

-----------------------------------------------------------------------------
(* CycleInv is the invariant.                                              *)
LEMMA CycleInit == ASSUME CycleAssumption, Init PROVE CycleInv
<1>1. TypeOK
  BY TypeInit
<1>2. pc = "plan" /\ sent = <<>> /\ seen = {} /\ scale = 2 /\ ~riskBlocked /\ ~halted
  BY DEF Init
<1>3. /\ DOMAIN sent = {}
      /\ \A side : Sides(side) = {}
      /\ \A s, side : OfSymbol(s, side) = {}
  <2>1. DOMAIN sent = {}
    BY <1>2
  <2> QED BY <2>1 DEF Sides, OfSymbol
<1>4. Latched /\ Refreshing
  BY <1>2 DEF Latched, Refreshing
<1>5. Halting
  BY <1>3 DEF Halting, UnknownIsLast
<1>6. Sweeping
  BY <1>3 DEF Sweeping, NoRebuyAfterSweepSale
<1>7. Selling
  BY <1>2, <1>3 DEF Selling
<1>8. NoOversell
  <2> SUFFICES ASSUME NEW s \in Symbol PROVE Sellable(s) >= 0
    BY DEF NoOversell
  <2>1. InitHold[s] \in Nat
    BY DEF CycleAssumption
  <2>2. Sellable(s) = InitHold[s] - 0
    BY <1>3, SumEmpty DEF Sellable
  <2> QED BY <2>1, <2>2
<1>9. Funding
  BY <1>2, <1>3 DEF Funding
<1>10. FundedBuys
  <2>1. Bought = 0
    BY <1>3, SumEmpty DEF Bought
  <2> QED BY <1>1, <2>1, FundsTyped
<1>11. Trading /\ NoRoundTrip
  <2>1. Trades(sent, pc, view, scale) /\ RoundTripless(sent)
    BY <1>2, <1>3 DEF Trades, RoundTripless
  <2> QED BY <2>1, TradingIs
<1> QED BY <1>1, <1>4, <1>5, <1>6, <1>7, <1>8, <1>9, <1>10, <1>11 DEF CycleInv

LEMMA CycleStep == ASSUME CycleAssumption, CycleInv, [Next]_vars PROVE CycleInv'
<1>1. /\ TypeOK /\ Refreshing /\ Latched /\ Halting /\ Sweeping /\ Selling /\ NoOversell /\ Funding
      /\ FundedBuys /\ Trading /\ NoRoundTrip
  BY DEF CycleInv
<1>2. TypeOK' /\ Refreshing'
  BY <1>1, TypeStep
<1>3. Latched'
  BY <1>1, LatchedStep
<1>4. Halting'
  BY <1>1, HaltingStep
<1>5. Sweeping'
  BY <1>1, SweepingStep
<1>6. Selling' /\ NoOversell'
  BY <1>1, SellingStep
<1>7. Funding' /\ FundedBuys'
  BY <1>1, FundingStep
<1>8. Trading' /\ NoRoundTrip'
  BY <1>1, TradingStep
<1> QED BY <1>2, <1>3, <1>4, <1>5, <1>6, <1>7, <1>8 DEF CycleInv

(* The invariant of the cycle, which the properties below follow from.     *)
THEOREM CycleInvHolds == Spec => []CycleInv
<1>1. Init => CycleInv
  BY CycleAssumption, CycleInit
<1>2. CycleInv /\ [Next]_vars => CycleInv'
  BY CycleAssumption, CycleStep
<1> QED BY <1>1, <1>2, PTL DEF Spec

\* The locals of execute_rebalance_cycle and the broker's orders have their
\* types; no order executes more than it is for.
THEOREM TypeOKHolds == Spec => []TypeOK
<1>1. CycleInv => TypeOK
  BY DEF CycleInv
<1> QED BY <1>1, CycleInvHolds, PTL

\* submission_halted: an order whose outcome is not known is the last one.
THEOREM UnknownIsLastHolds == Spec => []UnknownIsLast
<1>1. CycleInv => UnknownIsLast
  BY DEF CycleInv, Halting
<1> QED BY <1>1, CycleInvHolds, PTL

\* Sells are covered by the holding, buys by the cash and the executed sells,
\* whatever the refresh loop forecast.
THEOREM OrdersAreCoveredHolds == Spec => []OrdersAreCovered
<1>1. CycleInv => OrdersAreCovered
  BY DEF CycleInv, OrdersAreCovered
<1> QED BY <1>1, CycleInvHolds, PTL

\* The cycle does not trade against itself.
THEOREM NoSelfTradeHolds == Spec => []NoSelfTrade
<1>1. CycleInv => NoSelfTrade
  BY DEF CycleInv, Sweeping, NoSelfTrade
<1> QED BY <1>1, CycleInvHolds, PTL

(* A step that is not one of the four submissions adds no order.           *)
LEMMA NothingNew ==
  ASSUME CycleAssumption, TypeOK, [Next]_vars, ~Sell, ~Fund, ~Buy, ~Rebuy
  PROVE  Len(sent') = Len(sent)
<1>1. ASSUME NEW i \in DOMAIN sent, Executes(i) \/ Settles(i) PROVE Len(sent') = Len(sent)
  BY <1>1, BrokerSteps
<1>2. ASSUME \/ Plan \/ SkipSell \/ SellsDone \/ NoFund \/ Refresh \/ Screen \/ SkipBuy \/ BuysDone \/ NoRebuy
             \/ UNCHANGED vars
      PROVE  Len(sent') = Len(sent)
  BY <1>2, OtherSteps
<1> QED BY <1>1, <1>2 DEF Next, Cycle

(* The order a submission adds is the last one sent.                       *)
LEMMA TheNewOrder ==
  ASSUME CycleAssumption, TypeOK, NEW o, Adds(o), NEW new, NewOrder(new)
  PROVE  new = o
<1>1. Len(sent) \in Nat /\ sent \in Seq(Sent)
  BY SentIndices DEF TypeOK
<1>2. sent'[Len(sent) + 1] = o
  BY Appended DEF Adds
<1> QED BY <1>1, <1>2 DEF NewOrder

(* A buy stays within half a share of the target.                          *)
LEMMA PlannedIsWithin ==
  ASSUME CycleAssumption, TypeOK, NEW s \in Symbol, NEW q \in Nat, q > 0, q <= Planned(s)
  PROVE  2 * (view.held[s] + q) * Price[s] <= 2 * view.target[s] + Price[s]
<1> DEFINE h == view.held[s]
           p == Price[s]
           t == view.target[s]
           most == Smaller(t - HeldValue(s), view.investable)
           budget == most \div p
<1>1. h \in Int /\ p \in Nat \ {0} /\ t \in Nat /\ view.investable \in Nat
  BY DEF CycleAssumption, TypeOK, View
<1>2. HeldValue(s) = h * p /\ h * p \in Int
  BY <1>1 DEF HeldValue
<1>3. most \in Int /\ most <= t - h * p
  <2> HIDE DEF h, p, t
  <2>1. t - HeldValue(s) \in Int /\ view.investable \in Int
    BY <1>1, <1>2
  <2> DEFINE gap == t - HeldValue(s)
             cash == view.investable
  <2>2. most <= gap /\ most \in Int
    <3>1. gap \in Int /\ cash \in Int /\ most = Smaller(gap, cash)
      BY <2>1
    <3> HIDE DEF gap, cash, most
    <3> QED BY <3>1, Extremes
  <2> QED BY <1>2, <2>2
<1>4. Planned(s) = IF budget > 0 THEN budget ELSE IF TopsUp(s) THEN 1 ELSE 0
  BY DEF Planned
<1>5. TopsUp(s) => 2 * t >= (2 * h + 1) * p
  BY DEF TopsUp
<1> HIDE DEF h, p, t, most, budget
<1>6. budget \in Int /\ budget * p <= most
  BY <1>1, <1>3, Shares DEF budget
<1>7. CASE budget > 0
  <2>1. q <= budget
    BY <1>4, <1>7
  <2>2. q * p <= budget * p /\ q * p \in Int /\ budget * p \in Int
    BY <1>1, <1>6, <2>1, Costs
  <2>3. h * p + q * p <= t
    <3> DEFINE worth == h * p
               cost == q * p
               mostCost == budget * p
    <3>1. worth \in Int /\ cost \in Int /\ mostCost \in Int /\ t \in Int /\ most \in Int
      BY <1>1, <1>2, <1>3, <2>2
    <3>2. cost <= mostCost /\ mostCost <= most /\ most <= t - worth
      BY <1>3, <1>6, <2>2
    <3> HIDE DEF worth, cost, mostCost
    <3>3. worth + cost <= t
      BY <3>1, <3>2
    <3> QED BY <3>3 DEF worth, cost
  <2>4. 2 * (h + q) * p = 2 * (h * p + q * p)
    BY <1>1
  <2>5. 2 * (h * p + q * p) <= 2 * t + p
    BY <1>1, <1>2, <2>2, <2>3
  <2> QED BY <2>4, <2>5 DEF h, p, t
<1>8. CASE ~(budget > 0)
  <2>1. q = 1 /\ TopsUp(s)
    BY <1>4, <1>8
  <2>2. 2 * t >= (2 * h + 1) * p
    BY <1>5, <2>1
  <2>3. 2 * (h + 1) * p = (2 * h + 1) * p + p /\ (2 * h + 1) * p \in Int
    BY <1>1
  <2>4. 2 * (h + 1) * p <= 2 * t + p
    BY <1>1, <2>2, <2>3
  <2> QED BY <2>1, <2>4 DEF h, p, t
<1> QED BY <1>7, <1>8

(* A symbol that is wanted is short of its target.                         *)
LEMMA WantedIsShort ==
  ASSUME CycleAssumption, TypeOK, NEW s \in Symbol, WantsBuy(s)
  PROVE  2 * (view.held[s] + 0) * Price[s] <= 2 * view.target[s] + Price[s]
<1> DEFINE h == view.held[s]
           p == Price[s]
           t == view.target[s]
<1>1. h \in Int /\ p \in Nat /\ t \in Nat /\ Threshold \in Nat
  BY DEF CycleAssumption, TypeOK, View
<1>2. t - h * p > Threshold
  BY DEF WantsBuy, HeldValue
<1> HIDE DEF h, p, t
<1>3. h * p \in Int /\ 2 * (h + 0) * p = 2 * (h * p)
  BY <1>1
<1>4. 2 * (h + 0) * p <= 2 * t + p
  BY <1>1, <1>2, <1>3
<1> QED BY <1>4 DEF h, p, t

(* What the gate has said by the time an order is sent.                    *)
LEMMA GateAtOrder ==
  ASSUME CycleAssumption, TypeOK, Latched, ~halted, pc \notin {"plan", "done"}
  PROVE  "blocked" \notin seen /\ (~riskBlocked => seen = {"admitted"})
<1>1. "blocked" \notin seen /\ seen # {} /\ seen \subseteq {"admitted", "prohibited", "blocked"}
  BY DEF Latched, TypeOK, Gate
<1>2. ~riskBlocked => "prohibited" \notin seen
  BY DEF Latched
<1> QED BY <1>1, <1>2

\* account_new_risk_buy_blocked and the whole-share top-up: a regular buy, and
\* a sale that funds one, follow no prohibited or blocked observation, and a
\* buy ends within half a share of the target.
THEOREM BuysAreBoundedHolds == Spec => BuysAreBounded
<1> DEFINE RiskOf(o) == /\ o.phase \in {"fund", "buy"} => seen = {"admitted"}
                        /\ o.side = "buy" => "blocked" \notin seen
           TargetOf(o) == o.phase = "buy" =>
                            2 * (view.held[o.symbol] + o.quantity) * Price[o.symbol]
                               <= 2 * view.target[o.symbol] + Price[o.symbol]
<1>1. ASSUME CycleInv, [Next]_vars, NEW o, NewOrder(o) PROVE RiskOf(o) /\ TargetOf(o)
  <2> USE CycleAssumption
  <2>1. TypeOK /\ Latched /\ Len(sent) \in Nat
    BY <1>1, SentIndices DEF CycleInv
  <2>2. CASE Sell
    <3>1. PICK s \in Symbol, answer \in Answer, e \in Nat : Adds(Order(s, "sell", e, "sell", answer))
      BY <2>1, <2>2, SellSends
    <3>2. o = Order(s, "sell", e, "sell", answer)
      BY <1>1, <2>1, <3>1, TheNewOrder
    <3>3. o.phase = "sell" /\ o.side = "sell"
      BY <3>2 DEF Order
    <3> QED BY <3>3
  <2>3. CASE Fund
    <3>1. PICK answer \in Answer, e \in Nat :
             pc = "fund" /\ MayFund /\ ~halted /\ Adds(Order(Sweep, "sell", e, "fund", answer))
      BY <2>1, <2>3, FundSends
    <3>2. o = Order(Sweep, "sell", e, "fund", answer)
      BY <1>1, <2>1, <3>1, TheNewOrder
    <3>3. o.phase = "fund" /\ o.side = "sell"
      BY <3>2 DEF Order
    <3>4. seen = {"admitted"}
      BY <2>1, <3>1, GateAtOrder DEF MayFund
    <3> QED BY <3>3, <3>4
  <2>4. CASE Buy
    <3>1. PICK s \in Symbol, answer \in Answer, q \in Nat, e \in Nat :
             /\ e \in {0, q} /\ todo # <<>> /\ pc = "buy" /\ q <= Planned(s) /\ q > 0 /\ WantsBuy(s)
             /\ ~halted /\ Adds(Order(s, "buy", e, "buy", answer))
      BY <2>1, <2>4, BuySends
    <3>2. o = Order(s, "buy", e, "buy", answer)
      BY <1>1, <2>1, <3>1, TheNewOrder
    <3>3. o.phase = "buy" /\ o.side = "buy" /\ o.symbol = s /\ o.quantity = e
      BY <3>2 DEF Order
    <3>4. ~riskBlocked
      BY <2>1, <3>1 DEF Latched
    <3>5. seen = {"admitted"} /\ "blocked" \notin seen
      BY <2>1, <3>1, <3>4, GateAtOrder
    <3>6. 2 * (view.held[s] + q) * Price[s] <= 2 * view.target[s] + Price[s]
      BY <2>1, <3>1, PlannedIsWithin
    <3>7. 2 * (view.held[s] + 0) * Price[s] <= 2 * view.target[s] + Price[s]
      BY <2>1, <3>1, WantedIsShort
    <3>8. 2 * (view.held[s] + e) * Price[s] <= 2 * view.target[s] + Price[s]
      BY <3>1, <3>6, <3>7
    <3> QED BY <3>3, <3>5, <3>8
  <2>5. CASE Rebuy
    <3>1. PICK answer \in Answer, q \in Nat, e \in Nat :
             pc = "rebuy" /\ ~halted /\ Adds(Order(Sweep, "buy", e, "rebuy", answer))
      BY <2>1, <2>5, RebuySends
    <3>2. o = Order(Sweep, "buy", e, "rebuy", answer)
      BY <1>1, <2>1, <3>1, TheNewOrder
    <3>3. o.phase = "rebuy" /\ o.side = "buy"
      BY <3>2 DEF Order
    <3>4. "blocked" \notin seen
      BY <2>1, <3>1, GateAtOrder
    <3> QED BY <3>3, <3>4
  <2>6. CASE ~Sell /\ ~Fund /\ ~Buy /\ ~Rebuy
    <3>1. Len(sent') = Len(sent)
      BY <1>1, <2>1, <2>6, NothingNew
    <3> QED BY <1>1, <2>1, <3>1 DEF NewOrder
  <2> QED BY <2>2, <2>3, <2>4, <2>5, <2>6
<1>2. CycleInv /\ [Next]_vars =>
        /\ \A o \in {sent'[i] : i \in DOMAIN sent'} : NewOrder(o) => RiskOf(o)
        /\ \A o \in {sent'[i] : i \in DOMAIN sent'} : NewOrder(o) /\ o.phase = "buy" =>
              2 * (view.held[o.symbol] + o.quantity) * Price[o.symbol]
                 <= 2 * view.target[o.symbol] + Price[o.symbol]
  BY <1>1
<1> QED BY <1>2, CycleInvHolds, PTL DEF Spec, BuysAreBounded, RiskLatches, BuyWithinTarget
=============================================================================
