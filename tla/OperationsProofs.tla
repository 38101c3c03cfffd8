--------------------------- MODULE OperationsProofs ---------------------------
(***************************************************************************)
(* The properties of the operations side, for every value of its           *)
(* constants.  A behaviour is one of a single component, so an invariant   *)
(* of that component is one of the whole; each section has the invariant   *)
(* that is inductive and the steps that keep it.                           *)
(***************************************************************************)
EXTENDS MCOperations, IncidentAlertsProofs, Integers, Sequences, TLAPS

Numbers == INSTANCE Sums

-----------------------------------------------------------------------------
(* The order monitor.                                                      *)

\* A behaviour of the monitor begins and goes on as one.
LEMMA OrderSteps ==
  /\ OperationsInit /\ Is("order") => Order!Init
  /\ [OperationsNext]_operations /\ Is("order")' => Is("order") /\ [Order!Next]_<<v1, v2>>
<1>1. OperationsInit /\ Is("order") => Order!Init
  BY DEF OperationsInit, Is
<1>2. [OperationsNext]_operations /\ Is("order")' => Is("order") /\ [Order!Next]_<<v1, v2>>
  BY DEF OperationsNext, operations, componentVars, Is
<1> QED BY <1>1, <1>2

\* What is told last is what was appended.
LEMMA ToldLast ==
  ASSUME NEW S, NEW told \in Seq(S), NEW x \in S
  PROVE  /\ Append(told, x) \in Seq(S) /\ Append(told, x) # <<>>
         /\ Append(told, x)[Len(Append(told, x))] = x
  OBVIOUS

\* Every step of the broker and of the monitor keeps the invariant.
LEMMA MonitorStep == ASSUME Order!MonitorInv, Order!Next PROVE Order!MonitorInv'
<1>0. MaxPolls \in Nat
  BY OperationsAssumption
<1> USE <1>0
<1>1. /\ v1 \in Order!Status /\ v2 \in Order!Monitor
      /\ v1 = "none" => v2 = Order!Idle
      /\ v2.pc = "polling" => v2.seen \notin Order!Final
      /\ v2.published => v2.told # <<>>
      /\ Order!EndsWithMessage /\ Order!FinalSeenIsTold
  BY DEF Order!MonitorInv
<1>a. /\ v2.pc \in {"idle", "polling", "ended"} /\ v2.polls \in 0..MaxPolls /\ v2.seen \in Order!Status
      /\ v2.published \in BOOLEAN /\ v2.told \in Seq(Order!Status \cup {"timeout"}) /\ v2.issue \in BOOLEAN
  BY <1>1 DEF Order!Monitor
<1>2. CASE Order!Accept
  <2>1. v2' = [Order!Idle EXCEPT !.pc = "polling"] /\ v1' = "working"
    BY <1>1, <1>2 DEF Order!Accept
  <2>2. v2' = [pc |-> "polling", polls |-> 0, seen |-> "none", published |-> FALSE, told |-> <<>>, issue |-> FALSE]
    BY <2>1 DEF Order!Idle
  <2>3. <<>> \in Seq(Order!Status \cup {"timeout"}) /\ 0 \in 0..MaxPolls /\ "none" \in Order!Status
    BY DEF Order!Status
  <2>4. v2' \in Order!Monitor
    BY <2>2, <2>3 DEF Order!Monitor
  <2> QED BY <2>1, <2>2, <2>4 DEF Order!MonitorInv, Order!Status, Order!Final,
       Order!EndsWithMessage, Order!FinalSeenIsTold
<1>3. CASE Order!Progress
  BY <1>1, <1>3 DEF Order!Progress, Order!MonitorInv, Order!Status, Order!Final,
     Order!EndsWithMessage, Order!FinalSeenIsTold
<1>4. CASE Order!NoAnswer \/ Order!Raise
  <2>1. v2' \in Order!Monitor
    <3>1. CASE Order!NoAnswer
      <4>1. v2' = [v2 EXCEPT !.polls = v2.polls + 1]
        BY <3>1 DEF Order!NoAnswer
      <4>2. v2.polls < MaxPolls
        BY <3>1 DEF Order!NoAnswer, Order!Polling
      <4>3. v2.polls + 1 \in 0..MaxPolls
        BY <1>a, <4>2
      <4> QED BY <1>1, <4>1, <4>3 DEF Order!Monitor
    <3>2. CASE Order!Raise
      BY <1>1, <3>2 DEF Order!Raise, Order!Monitor
    <3> QED BY <1>4, <3>1, <3>2
  <2>2. v1' = v1 /\ v2.pc = "polling" /\ v1 # "none"
    BY <1>1, <1>4 DEF Order!NoAnswer, Order!Raise, Order!Polling, Order!Idle
  <2>3. /\ v2'.seen = v2.seen /\ v2'.published = v2.published /\ v2'.told = v2.told
        /\ v2'.pc = "polling" \/ v2'.issue
    BY <1>4, <1>1 DEF Order!NoAnswer, Order!Raise, Order!Polling, Order!Monitor
  <2> QED BY <1>1, <2>1, <2>2, <2>3 DEF Order!MonitorInv, Order!EndsWithMessage, Order!FinalSeenIsTold
<1>5. CASE Order!Poll
  <2>1. v1' = v1 /\ v2.pc = "polling" /\ v2.polls < MaxPolls /\ v1 # "none"
    BY <1>1, <1>5 DEF Order!Poll, Order!Polling, Order!Idle
  <2>2. /\ v2'.polls = v2.polls + 1 /\ v2'.seen = v1 /\ v2'.issue = v2.issue
        /\ v2'.published = (v2.published \/ v1 = "partial")
        /\ v2'.told = (IF v1 \in Order!Final \/ v1 = "partial" THEN Append(v2.told, v1) ELSE v2.told)
        /\ v2'.pc = (IF v1 \in Order!Final THEN "ended" ELSE v2.pc)
    BY <1>1, <1>5 DEF Order!Poll, Order!Ends, Order!Published, Order!Monitor
  <2>3. v1 \in Order!Status \cup {"timeout"}
    BY <1>1
  <2>4. /\ Append(v2.told, v1) \in Seq(Order!Status \cup {"timeout"}) /\ Append(v2.told, v1) # <<>>
        /\ Append(v2.told, v1)[Len(Append(v2.told, v1))] = v1
    BY <1>a, <2>3, ToldLast
  <2>5. v2' \in Order!Monitor
    <3>1. /\ v2'.pc \in {"idle", "polling", "ended"} /\ v2'.polls \in 0..MaxPolls /\ v2'.seen \in Order!Status
          /\ v2'.published \in BOOLEAN /\ v2'.told \in Seq(Order!Status \cup {"timeout"}) /\ v2'.issue \in BOOLEAN
      BY <1>1, <1>a, <2>1, <2>2, <2>4
    <3>2. v2' = [pc |-> v2'.pc, polls |-> v2'.polls, seen |-> v2'.seen, published |-> v2'.published,
                 told |-> v2'.told, issue |-> v2'.issue]
      BY <1>1, <1>5 DEF Order!Poll, Order!Monitor
    <3> QED BY <3>1, <3>2 DEF Order!Monitor
  <2> QED BY <1>1, <2>1, <2>2, <2>4, <2>5 DEF Order!MonitorInv, Order!EndsWithMessage, Order!FinalSeenIsTold
<1>6. CASE Order!PollFails
  <2>1. v1' = v1 /\ v2.pc = "polling" /\ v2.polls < MaxPolls /\ v1 # "none"
    BY <1>1, <1>6 DEF Order!PollFails, Order!Polling, Order!Idle
  <2>2. v2' \in Order!Monitor
    <3>1. v2' = [v2 EXCEPT !.polls = v2.polls + 1, !.seen = v1, !.pc = "ended", !.issue = TRUE]
      BY <1>6 DEF Order!PollFails
    <3>2. v2.polls + 1 \in 0..MaxPolls
      BY <1>a, <2>1
    <3> QED BY <1>1, <3>1, <3>2 DEF Order!Monitor
  <2>3. v2'.pc = "ended" /\ v2'.issue /\ v2'.published = v2.published /\ v2'.told = v2.told
    BY <1>1, <1>6 DEF Order!PollFails, Order!Monitor
  <2> QED BY <1>1, <2>1, <2>2, <2>3 DEF Order!MonitorInv, Order!EndsWithMessage, Order!FinalSeenIsTold
<1>7. CASE Order!RunOut
  <2>1. v1' = v1 /\ v2.pc = "polling" /\ v1 # "none"
    BY <1>1, <1>7 DEF Order!RunOut, Order!Idle
  <2>2. /\ v2'.pc = "ended" /\ v2'.seen = v2.seen /\ v2'.published = v2.published
        /\ v2'.polls = v2.polls /\ v2'.issue = v2.issue
        /\ v2'.told = (IF v2.published THEN v2.told ELSE Append(v2.told, "timeout"))
    BY <1>1, <1>7 DEF Order!RunOut, Order!Monitor
  <2>3. /\ Append(v2.told, "timeout") \in Seq(Order!Status \cup {"timeout"})
        /\ Append(v2.told, "timeout") # <<>>
    BY <1>a, ToldLast
  <2>4. v2' \in Order!Monitor
    <3>1. v2' = [pc |-> v2'.pc, polls |-> v2'.polls, seen |-> v2'.seen, published |-> v2'.published,
                 told |-> v2'.told, issue |-> v2'.issue]
      BY <1>1, <1>7 DEF Order!RunOut, Order!Monitor
    <3> QED BY <1>a, <2>2, <2>3, <3>1 DEF Order!Monitor
  <2> QED BY <1>1, <2>1, <2>2, <2>3, <2>4 DEF Order!MonitorInv, Order!EndsWithMessage, Order!FinalSeenIsTold
<1> QED BY <1>2, <1>3, <1>4, <1>5, <1>6, <1>7 DEF Order!Next

\* The invariant of the monitor holds in every behaviour.
LEMMA MonitorInvariant == OperationsSpec => [](Is("order") => Order!MonitorInv)
<1> DEFINE Inv == Is("order") => Order!MonitorInv
<1>1. OperationsInit => Inv
  <2>1. Order!Init => Order!MonitorInv
    BY OperationsAssumption DEF Order!Init, Order!MonitorInv, Order!Monitor, Order!Status,
       Order!Final, Order!Idle, Order!EndsWithMessage, Order!FinalSeenIsTold
  <2> QED BY <2>1, OrderSteps
<1>2. Inv /\ [OperationsNext]_operations => Inv'
  <2> SUFFICES ASSUME Inv, [OperationsNext]_operations, Is("order")' PROVE Order!MonitorInv'
    OBVIOUS
  <2>1. Order!MonitorInv /\ [Order!Next]_<<v1, v2>>
    BY OrderSteps
  <2>2. CASE UNCHANGED <<v1, v2>>
    BY <2>1, <2>2 DEF Order!MonitorInv, Order!EndsWithMessage, Order!FinalSeenIsTold
  <2> QED BY <2>1, <2>2, MonitorStep
<1> QED BY <1>1, <1>2, PTL DEF OperationsSpec

\* Every submitted order ends in a message or an issue, and a final status
\* that was seen is told last (monitor_submitted_order_status), however often
\* it polls.
THEOREM OrderIsToldHolds == OperationsSpec => []OrderIsTold
<1> DEFINE Inv == Is("order") => Order!MonitorInv
<1>1. OperationsSpec => []Inv
  BY MonitorInvariant
<1>2. Inv => OrderIsTold
  BY DEF OrderIsTold, Order!MonitorInv
<1> QED BY <1>1, <1>2, PTL DEF OperationsSpec
-----------------------------------------------------------------------------
(* The access token: v1 is issued, v2 stored, v3 life, v4 portal, v5 run,  *)
(* v6 lost and v7 caught.  A token that never was in the secret was read   *)
(* by no run, so only the run that brings it can be the next to write, but *)
(* for those that a reset overtook (TokenInv).                             *)

\* A behaviour of the token begins and goes on as one.
LEMMA SecretSteps ==
  /\ OperationsInit /\ Is("secret") => Secret!Init
  /\ [OperationsNext]_operations /\ Is("secret")' =>
       Is("secret") /\ [Secret!Next]_<<v1, v2, v3, v4, v5, v6, v7>>
<1>1. OperationsInit /\ Is("secret") => Secret!Init
  BY DEF OperationsInit, Is
<1>2. [OperationsNext]_operations /\ Is("secret")' =>
        Is("secret") /\ [Secret!Next]_<<v1, v2, v3, v4, v5, v6, v7>>
  BY DEF OperationsNext, operations, componentVars, varsFrom3, Is
<1> QED BY <1>1, <1>2

\* At first the one token is the stored one.
LEMMA SecretInit == ASSUME Secret!Init PROVE Secret!TokenInv
  BY OperationsAssumption DEF Secret!Init, Secret!TokenInv, Secret!TypeOK, Secret!OnTheWay, Secret!ReadsAreOld,
     Secret!LatestWorks, Secret!Unread, Secret!Brings, Secret!Token, Secret!Life, Secret!Idle, Secret!None,
     Secret!Valid

\* Time passing for a token moves none.
LEMMA SecretAge == ASSUME Secret!TokenInv, Secret!Age PROVE Secret!TokenInv'
  BY DEF Secret!Age, Secret!TokenInv, Secret!TypeOK, Secret!OnTheWay, Secret!ReadsAreOld,
     Secret!LatestWorks, Secret!AboutToWrite, Secret!Unread, Secret!Brings, Secret!Token, Secret!Life,
     Secret!None, Secret!Valid

(* A granted exchange: the valid token was read, so nothing brings it any  *)
(* more, and the new token is newer than all that was read.                *)
LEMMA SecretGrantedAlone ==
  ASSUME Secret!TokenInv, NEW r \in Secret!Runs, Secret!Granted(r)
  PROVE  /\ v1 \in Nat /\ v1' = v1 + 1 /\ v1' \in Secret!Token /\ v4 = Secret!None
         /\ v2 \in Nat /\ v2 <= v1
         /\ \A s \in Secret!Runs : ~Secret!Brings(s)
         /\ v3' \in [Secret!Token -> Secret!Life]
<1>1. v1 \in Nat /\ v1' = v1 + 1 /\ v1' \in Secret!Token /\ v2 \in Nat /\ v2 <= v1
  BY OperationsAssumption DEF Secret!Granted, Secret!Issue, Secret!TokenInv, Secret!TypeOK, Secret!Token,
     Secret!ReadsAreOld
<1>2. v5[r].pc = "exchange" /\ v5[r].read = v1
  BY DEF Secret!Granted, Secret!Exchangeable, Secret!Valid
<1>3. ~Secret!Unread
  BY <1>2 DEF Secret!Unread, Secret!Valid
<1>4. v4 = Secret!None /\ \A s \in Secret!Runs : ~Secret!Brings(s)
  BY <1>3 DEF Secret!TokenInv, Secret!OnTheWay
<1>5. v3' \in [Secret!Token -> Secret!Life]
  BY <1>1 DEF Secret!Granted, Secret!TokenInv, Secret!TypeOK, Secret!Life
<1> QED BY <1>1, <1>4, <1>5

\* What was read, lost and caught is of the tokens issued before.
LEMMA SecretIssued ==
  ASSUME Secret!TokenInv
  PROVE  /\ v1 \in Nat /\ v2 \in 1..v1 /\ v6 \subseteq 1..v1
         /\ \A t \in v7 : t \in 1..v1 /\ t < v1
         /\ \A s \in Secret!Runs : v5[s].pc = "exchange" => v5[s].read \in 1..v1
         /\ \A s \in Secret!Runs : v5[s].pc = "write" => v5[s].new = v1 \/ v5[s].new \in v7
<1>1. /\ v1 \in Nat /\ v2 \in 1..v1 /\ v6 \subseteq 1..v1
      /\ \A t \in v7 : t \in 1..v1 /\ t < v1
      /\ \A s \in Secret!Runs : v5[s].pc = "exchange" => v5[s].read \in 1..v1
  BY OperationsAssumption DEF Secret!TokenInv, Secret!TypeOK, Secret!Token, Secret!ReadsAreOld
<1>2. \A s \in Secret!Runs : v5[s].pc = "write" => v5[s].new = v1 \/ v5[s].new \in v7
  BY DEF Secret!TokenInv, Secret!OnTheWay, Secret!Brings, Secret!Valid
<1> QED BY <1>1, <1>2

\* The run that was granted the new token is the only one to bring it.
LEMMA SecretExchange ==
  ASSUME Secret!TokenInv, NEW r \in Secret!Runs, Secret!Exchange(r) PROVE Secret!TokenInv'
<1>1. Secret!Granted(r)
  BY DEF Secret!Exchange
<1>2. /\ v1 \in Nat /\ v1' = v1 + 1 /\ v1' \in Secret!Token /\ v4 = Secret!None
      /\ v2 \in Nat /\ v2 <= v1
      /\ \A s \in Secret!Runs : ~Secret!Brings(s)
      /\ v3' \in [Secret!Token -> Secret!Life]
  BY <1>1, SecretGrantedAlone
<1>3. v5[r] \in [pc : {"idle", "exchange", "write"}, read : Secret!Token \cup {Secret!None}, new : Secret!Token \cup {Secret!None}]
  BY DEF Secret!TokenInv, Secret!TypeOK
<1>4. v5'[r] = [v5[r] EXCEPT !.pc = "write", !.new = v1']
  BY DEF Secret!Exchange, Secret!TokenInv, Secret!TypeOK
<1>5. v5'[r].pc = "write" /\ v5'[r].new = v1'
  BY <1>3, <1>4
<1>6. (\A s \in Secret!Runs \ {r} : v5'[s] = v5[s]) /\ UNCHANGED <<v2, v4, v6, v7>>
  BY DEF Secret!Exchange, Secret!TokenInv, Secret!TypeOK
<1>7. Secret!TypeOK'
  BY <1>2, <1>3 DEF Secret!Exchange, Secret!TokenInv, Secret!TypeOK
<1>8. Secret!Unread'
  BY <1>2, <1>5, <1>6, SecretIssued DEF Secret!Unread, Secret!Valid
<1>9. \A s \in Secret!Runs : Secret!Brings(s)' => s = r
  BY <1>2, <1>6 DEF Secret!Brings
<1>10. Secret!OnTheWay'
  BY <1>2, <1>5, <1>6, <1>8, <1>9 DEF Secret!OnTheWay, Secret!Valid
<1>11. Secret!ReadsAreOld'
  BY <1>2, <1>5, <1>6, <1>8, SecretIssued DEF Secret!ReadsAreOld
<1>12. Secret!LatestWorks'
  BY <1>5 DEF Secret!LatestWorks, Secret!AboutToWrite, Secret!Valid
<1> QED BY <1>7, <1>10, <1>11, <1>12 DEF Secret!TokenInv

\* A grant without an answer loses the token.
LEMMA SecretNoAnswer ==
  ASSUME Secret!TokenInv, NEW r \in Secret!Runs, Secret!NoAnswer(r) PROVE Secret!TokenInv'
<1>1. Secret!Granted(r)
  BY DEF Secret!NoAnswer
<1>2. /\ v1 \in Nat /\ v1' = v1 + 1 /\ v1' \in Secret!Token /\ v4 = Secret!None
      /\ v2 \in Nat /\ v2 <= v1
      /\ \A s \in Secret!Runs : ~Secret!Brings(s)
      /\ v3' \in [Secret!Token -> Secret!Life]
  BY <1>1, SecretGrantedAlone
<1>3. /\ \A s \in Secret!Runs : v5'[s] = IF s = r THEN Secret!Idle ELSE v5[s]
      /\ UNCHANGED <<v2, v4, v7>> /\ v6' = v6 \cup {v1'}
  BY DEF Secret!NoAnswer, Secret!TokenInv, Secret!TypeOK
<1>4. Secret!Idle.pc = "idle"
  BY DEF Secret!Idle
<1>5. Secret!TypeOK'
  BY <1>2 DEF Secret!NoAnswer, Secret!TokenInv, Secret!TypeOK, Secret!Idle
<1>6. Secret!Unread'
  BY <1>2, <1>3, <1>4, SecretIssued DEF Secret!Unread, Secret!Valid
<1>7. Secret!OnTheWay'
  BY <1>2, <1>3, <1>4 DEF Secret!OnTheWay, Secret!Brings
<1>8. Secret!ReadsAreOld'
  BY <1>2, <1>3, <1>4, <1>6, SecretIssued DEF Secret!ReadsAreOld
<1>9. Secret!LatestWorks'
  BY <1>3 DEF Secret!LatestWorks, Secret!Valid
<1> QED BY <1>5, <1>7, <1>8, <1>9 DEF Secret!TokenInv

\* A run that ends, with its token on record as lost if it brought one.
LEMMA SecretEnds ==
  ASSUME Secret!TokenInv, NEW r \in Secret!Runs, Secret!Gives(r) \/ Secret!Drops(r) PROVE Secret!TokenInv'
<1>1. /\ \A s \in Secret!Runs : v5'[s] = IF s = r THEN Secret!Idle ELSE v5[s]
      /\ UNCHANGED <<v1, v2, v3, v4, v7>>
      /\ \/ v5[r].pc = "exchange" /\ v6' = v6
         \/ v5[r].pc = "write" /\ v6' = v6 \cup {v5[r].new}
  BY DEF Secret!Gives, Secret!Drops, Secret!TokenInv, Secret!TypeOK
<1>2. Secret!Idle.pc = "idle"
  BY DEF Secret!Idle
<1>3. v5[r].pc = "write" => v5[r].new \in 1..v1
  BY SecretIssued
<1>4. Secret!TypeOK'
  <2>1. v1 <= MaxTokens /\ MaxTokens \in Nat
    BY OperationsAssumption DEF Secret!TokenInv, Secret!TypeOK, Secret!Token
  <2>2. v6' \subseteq Secret!Token
    BY <1>1, <1>3, <2>1, SecretIssued DEF Secret!Token
  <2>3. v5' \in [Secret!Runs -> [pc : {"idle", "exchange", "write"},
                 read : Secret!Token \cup {Secret!None}, new : Secret!Token \cup {Secret!None}]]
    BY DEF Secret!Gives, Secret!Drops, Secret!TokenInv, Secret!TypeOK, Secret!Idle
  <2> QED BY <1>1, <2>2, <2>3 DEF Secret!TokenInv, Secret!TypeOK
<1>5. \A s \in Secret!Runs : Secret!Brings(s)' => Secret!Brings(s)
  BY <1>1, <1>2 DEF Secret!Brings
<1>6. Secret!Unread => Secret!Unread'
  BY <1>1, <1>2 DEF Secret!Unread, Secret!Valid
<1>7. Secret!OnTheWay'
  <2>1. \A s \in Secret!Runs : Secret!Brings(s)' => s # r
    BY <1>1, <1>2 DEF Secret!Brings
  <2> QED BY <1>1, <1>5, <1>6, <2>1 DEF Secret!TokenInv, Secret!OnTheWay, Secret!Valid
<1>8. Secret!ReadsAreOld'
  BY <1>1, <1>2, <1>3, <1>6, SecretIssued DEF Secret!TokenInv, Secret!ReadsAreOld, Secret!Valid
<1>9. Secret!LatestWorks'
  <2>1. ASSUME NEW s \in Secret!Runs, v5[s].pc = "write", v5[s].new = v1 PROVE Secret!LatestWorks'
    <3>1. CASE s = r
      BY <1>1, <2>1, <3>1 DEF Secret!LatestWorks, Secret!Valid
    <3>2. CASE s # r
      BY <1>1, <2>1, <3>2 DEF Secret!LatestWorks, Secret!AboutToWrite, Secret!Valid
    <3> QED BY <3>1, <3>2
  <2> QED BY <1>1, <2>1 DEF Secret!TokenInv, Secret!LatestWorks, Secret!AboutToWrite, Secret!Valid
<1> QED BY <1>4, <1>7, <1>8, <1>9 DEF Secret!TokenInv

\* A write stores the valid token, or one that a reset overtook.
LEMMA SecretWrite ==
  ASSUME Secret!TokenInv, NEW r \in Secret!Runs, Secret!Write(r) PROVE Secret!TokenInv'
<1>1. /\ \A s \in Secret!Runs : v5'[s] = IF s = r THEN Secret!Idle ELSE v5[s]
      /\ UNCHANGED <<v1, v3, v4, v6, v7>> /\ v5[r].pc = "write" /\ v2' = v5[r].new
  BY DEF Secret!Write, Secret!Writes, Secret!TokenInv, Secret!TypeOK
<1>2. Secret!Idle.pc = "idle"
  BY DEF Secret!Idle
<1>3. v2' \in 1..v1 /\ (v2' = v1 \/ v2' \in v7) /\ (v2' \in v7 => v2' # v1)
  BY <1>1, SecretIssued DEF Secret!TokenInv, Secret!TypeOK, Secret!Token
<1>4. Secret!TypeOK'
  <2>1. v1 <= MaxTokens /\ MaxTokens \in Nat
    BY OperationsAssumption DEF Secret!TokenInv, Secret!TypeOK, Secret!Token
  <2>2. v2' \in Secret!Token
    BY <1>3, <2>1, SecretIssued DEF Secret!Token
  <2>3. v5' \in [Secret!Runs -> [pc : {"idle", "exchange", "write"},
                 read : Secret!Token \cup {Secret!None}, new : Secret!Token \cup {Secret!None}]]
    BY DEF Secret!Write, Secret!TokenInv, Secret!TypeOK, Secret!Idle
  <2> QED BY <1>1, <2>2, <2>3 DEF Secret!TokenInv, Secret!TypeOK
<1>5. \A s \in Secret!Runs : Secret!Brings(s)' => Secret!Brings(s) /\ s # r
  BY <1>1, <1>2 DEF Secret!Brings
<1>6. Secret!Unread => Secret!Unread'
  BY <1>1, <1>2 DEF Secret!Unread, Secret!Valid
<1>7. v2' = v1 => v4 = Secret!None /\ \A s \in Secret!Runs : ~Secret!Brings(s)'
  <2> SUFFICES ASSUME v2' = v1 PROVE v4 = Secret!None /\ \A s \in Secret!Runs : ~Secret!Brings(s)'
    OBVIOUS
  <2>1. Secret!Brings(r)
    BY <1>1, <1>3 DEF Secret!Brings
  <2> QED BY <1>5, <2>1 DEF Secret!TokenInv, Secret!OnTheWay
<1>8. Secret!OnTheWay'
  BY <1>1, <1>3, <1>5, <1>6, <1>7 DEF Secret!TokenInv, Secret!OnTheWay, Secret!Valid
<1>9. Secret!ReadsAreOld'
  BY <1>1, <1>2, <1>3, SecretIssued DEF Secret!TokenInv, Secret!ReadsAreOld, Secret!Valid
<1>10. Secret!LatestWorks'
  BY <1>1, <1>3 DEF Secret!LatestWorks, Secret!Valid
<1> QED BY <1>4, <1>8, <1>9, <1>10 DEF Secret!TokenInv

\* Every step of a run keeps the invariant.
LEMMA SecretStep ==
  ASSUME Secret!TokenInv, NEW r \in Secret!Runs, Secret!Step(r) PROVE Secret!TokenInv'
<1>1. CASE Secret!Start(r)
  <2>1. /\ \A s \in Secret!Runs : v5'[s] = IF s = r THEN [pc |-> "exchange", read |-> v2, new |-> Secret!None] ELSE v5[s]
        /\ UNCHANGED <<v1, v2, v3, v4, v6, v7>> /\ v5[r].pc = "idle"
    BY <1>1 DEF Secret!Start, Secret!TokenInv, Secret!TypeOK
  <2>2. Secret!TypeOK'
    BY <1>1 DEF Secret!Start, Secret!TokenInv, Secret!TypeOK
  <2>3. \A s \in Secret!Runs : Secret!Brings(s)' <=> Secret!Brings(s)
    BY <2>1 DEF Secret!Brings
  <2>4. v2 # v1 /\ Secret!Unread => Secret!Unread'
    BY <2>1 DEF Secret!Unread, Secret!Valid
  <2>5. Secret!OnTheWay'
    <3>1. CASE v2 = v1
      <4>1. v4 = Secret!None /\ \A s \in Secret!Runs : ~Secret!Brings(s)
        BY <3>1 DEF Secret!TokenInv, Secret!OnTheWay, Secret!Valid
      <4>2. v4' = Secret!None /\ \A s \in Secret!Runs : ~Secret!Brings(s)'
        BY <2>1, <2>3, <4>1
      <4> QED BY <4>2 DEF Secret!OnTheWay, Secret!Valid
    <3>2. CASE v2 # v1
      <4>1. /\ \A s \in Secret!Runs : Secret!Brings(s) => v5[s].new = v1 /\ v4 = Secret!None /\ v2 # v1 /\ Secret!Unread
            /\ \A s, t \in Secret!Runs : Secret!Brings(s) /\ Secret!Brings(t) => s = t
            /\ v4 # Secret!None => v4 = v1 /\ v2 # v1 /\ Secret!Unread
        BY DEF Secret!TokenInv, Secret!OnTheWay, Secret!Valid
      <4>2. \A s \in Secret!Runs : Secret!Brings(s) => v5'[s].new = v5[s].new
        BY <2>1 DEF Secret!Brings
      <4> QED BY <2>1, <2>3, <2>4, <3>2, <4>1, <4>2 DEF Secret!OnTheWay, Secret!Valid
    <3> QED BY <3>1, <3>2
  <2>6. Secret!LatestWorks'
    BY <2>1 DEF Secret!TokenInv, Secret!LatestWorks, Secret!AboutToWrite, Secret!Valid
  <2>7. Secret!ReadsAreOld'
    BY <2>1, <2>4, SecretIssued DEF Secret!TokenInv, Secret!ReadsAreOld, Secret!Valid
  <2> QED BY <2>2, <2>5, <2>6, <2>7 DEF Secret!TokenInv
<1> QED BY <1>1, SecretExchange, SecretNoAnswer, SecretEnds, SecretWrite DEF Secret!Step

\* A reset overtakes every run that is about to write.
LEMMA SecretReset == ASSUME Secret!TokenInv, Secret!Reset PROVE Secret!TokenInv'
<1>1. v1' = v1 + 1 /\ v1' \in Secret!Token /\ v4' = v1' /\ v2' = v2 /\ v5' = v5 /\ v6' = v6
  BY OperationsAssumption DEF Secret!Reset, Secret!Issue, Secret!TokenInv, Secret!TypeOK, Secret!Token
<1>2. v7 \subseteq v7' /\ \A t \in v7' : t \in v7 \/ \E r \in Secret!Runs : v5[r].pc = "write" /\ t = v5[r].new
  BY DEF Secret!Reset, Secret!AboutToWrite
<1>3. \A t \in v7' : t \in 1..v1
  BY <1>2, SecretIssued DEF Secret!TokenInv, Secret!TypeOK, Secret!Token
<1>4. Secret!TypeOK'
  <2>1. v3' \in [Secret!Token -> Secret!Life]
    BY <1>1 DEF Secret!Reset, Secret!TokenInv, Secret!TypeOK, Secret!Life
  <2>2. v7' \subseteq Secret!Token
    BY <1>1, <1>3, OperationsAssumption, SecretIssued DEF Secret!Token
  <2> QED BY <1>1, <2>1, <2>2 DEF Secret!TokenInv, Secret!TypeOK
<1>5. \A r \in Secret!Runs : ~Secret!Brings(r)'
  BY <1>1 DEF Secret!Reset, Secret!AboutToWrite, Secret!Brings
<1>6. Secret!Unread' /\ v2' # v1'
  BY <1>1, SecretIssued DEF Secret!Unread, Secret!Valid
<1>7. Secret!OnTheWay' /\ Secret!LatestWorks'
  BY <1>1, <1>5, <1>6 DEF Secret!OnTheWay, Secret!LatestWorks, Secret!Valid
<1>8. Secret!ReadsAreOld'
  BY <1>1, <1>3, <1>6, SecretIssued DEF Secret!ReadsAreOld
<1> QED BY <1>4, <1>7, <1>8 DEF Secret!TokenInv

\* A rotation stores the valid token, which no run had read.
LEMMA SecretRotate == ASSUME Secret!TokenInv, Secret!Rotate PROVE Secret!TokenInv'
<1>1. v2' = v1 /\ v4' = Secret!None /\ UNCHANGED <<v1, v3, v5, v6, v7>> /\ v4 # Secret!None
  BY DEF Secret!Rotate, Secret!TokenInv, Secret!OnTheWay, Secret!Valid
<1>2. Secret!TypeOK'
  BY <1>1 DEF Secret!TokenInv, Secret!TypeOK
<1>3. \A r \in Secret!Runs : ~Secret!Brings(r)'
  BY <1>1 DEF Secret!TokenInv, Secret!OnTheWay, Secret!Brings
<1>4. Secret!OnTheWay' /\ Secret!LatestWorks'
  BY <1>1, <1>3 DEF Secret!OnTheWay, Secret!LatestWorks, Secret!Valid
<1>5. Secret!ReadsAreOld'
  BY <1>1, SecretIssued DEF Secret!ReadsAreOld, Secret!Valid
<1> QED BY <1>2, <1>4, <1>5 DEF Secret!TokenInv

\* The invariant of the token holds in every behaviour.
LEMMA TokenInvariant == OperationsSpec => [](Is("secret") => Secret!TokenInv)
<1> DEFINE Inv == Is("secret") => Secret!TokenInv
<1>1. OperationsInit => Inv
  BY SecretSteps, SecretInit
<1>2. Inv /\ [OperationsNext]_operations => Inv'
  <2> SUFFICES ASSUME Inv, [OperationsNext]_operations, Is("secret")' PROVE Secret!TokenInv'
    OBVIOUS
  <2>1. Secret!TokenInv /\ [Secret!Next]_<<v1, v2, v3, v4, v5, v6, v7>>
    BY SecretSteps
  <2>2. CASE UNCHANGED <<v1, v2, v3, v4, v5, v6, v7>>
    BY <2>1, <2>2 DEF Secret!TokenInv, Secret!TypeOK, Secret!OnTheWay, Secret!ReadsAreOld,
       Secret!Unread, Secret!Brings, Secret!LatestWorks, Secret!AboutToWrite, Secret!Valid
  <2>3. CASE Secret!Next
    BY <2>1, <2>3, SecretAge, SecretReset, SecretRotate, SecretStep DEF Secret!Next
  <2> QED BY <2>1, <2>2, <2>3
<1> QED BY <1>1, <1>2, PTL DEF OperationsSpec

\* The latest version of the secret is the valid token, unless that token is
\* on its way or was lost with its run, or the version is one that a run was
\* about to write as the operator reset the token (run_refresh, the service's
\* bootstrap and rotate-longport-secrets.yml, without a common lock), whatever
\* runs, resets and rotations overlap.
THEOREM LatestWorksHolds == OperationsSpec => []LatestWorks
<1> DEFINE Inv == Is("secret") => Secret!TokenInv
<1>1. OperationsSpec => []Inv
  BY TokenInvariant
<1>2. Inv => LatestWorks
  BY DEF LatestWorks, Secret!TokenInv
<1> QED BY <1>1, <1>2, PTL DEF OperationsSpec

-----------------------------------------------------------------------------
(* The incident of a cycle: v1 is reports and v2 item.  A proof that was   *)
(* accepted has its attempts on record, so one that is accepted now is not *)
(* the one that resolved any earlier attempt (IncidentInv).                *)

\* A behaviour of the incident begins and goes on as one.
LEMMA IncidentSteps ==
  /\ OperationsInit /\ Is("incidents") => Incidents!Init
  /\ [OperationsNext]_operations /\ Is("incidents")' => Is("incidents") /\ [Incidents!Next]_<<v1, v2>>
<1>1. OperationsInit /\ Is("incidents") => Incidents!Init
  BY DEF OperationsInit, Is
<1>2. [OperationsNext]_operations /\ Is("incidents")' => Is("incidents") /\ [Incidents!Next]_<<v1, v2>>
  BY DEF OperationsNext, operations, componentVars, Is
<1> QED BY <1>1, <1>2

\* At first nothing is reported or retained.
LEMMA IncidentInit == ASSUME Incidents!Init PROVE Incidents!IncidentInv
  BY DEF Incidents!Init, Incidents!IncidentInv, Incidents!TypeOK, Incidents!RetainedAreFaults,
     Incidents!ResolvedAreRetained, Incidents!CoversWhatItSaw, Incidents!ProofReachesFault,
     Incidents!RetrySettlesNoOrders, Incidents!NoProof, Incidents!NoReport

\* A report that appears is of a run that was neither retained nor resolved.
LEMMA IncidentAppear ==
  ASSUME Incidents!IncidentInv, NEW b \in CycleAttempts, NEW outcome \in Incidents!Outcome,
         NEW at \in Incidents!Times, Incidents!Appear(b, outcome, at)
  PROVE  Incidents!IncidentInv' /\ Incidents!NothingForgotten
<1>1. /\ v2' = v2 /\ b \notin v2.attempts
      /\ \A a \in CycleAttempts : v1'[a] = IF a = b THEN [outcome |-> outcome, at |-> at] ELSE v1[a]
  BY DEF Incidents!IncidentInv, Incidents!TypeOK, Incidents!RetainedAreFaults, Incidents!Appear
<1>2. Incidents!TypeOK'
  BY DEF Incidents!IncidentInv, Incidents!TypeOK, Incidents!Appear
<1>3. v2.attempts \subseteq CycleAttempts
  BY DEF Incidents!IncidentInv, Incidents!TypeOK
<1>4. Incidents!RetainedAreFaults'
  BY <1>1, <1>3 DEF Incidents!IncidentInv, Incidents!RetainedAreFaults, Incidents!Reported, Incidents!Fault
<1>5. Incidents!ResolvedAreRetained' /\ Incidents!CoversWhatItSaw'
  BY <1>1 DEF Incidents!IncidentInv, Incidents!ResolvedAreRetained, Incidents!CoversWhatItSaw
<1>6. Incidents!ProofReachesFault'
  BY <1>1 DEF Incidents!IncidentInv, Incidents!ResolvedAreRetained, Incidents!ProofReachesFault
<1>7. Incidents!RetrySettlesNoOrders'
  BY <1>1 DEF Incidents!IncidentInv, Incidents!ResolvedAreRetained, Incidents!RetrySettlesNoOrders,
     Incidents!NoProof
<1> QED BY <1>1, <1>2, <1>4, <1>5, <1>6, <1>7 DEF Incidents!IncidentInv, Incidents!NothingForgotten

\* What a scan found joins what is retained; what is resolved stays so.
LEMMA IncidentScan ==
  ASSUME Incidents!IncidentInv, NEW found \in SUBSET CycleAttempts, found \subseteq Incidents!Reported,
         v1' = v1, v2' = [v2 EXCEPT !.attempts = Incidents!With(found)]
  PROVE  Incidents!IncidentInv' /\ Incidents!NothingForgotten
<1>1. /\ v2'.attempts = v2.attempts \cup {a \in found : Incidents!Fault(a)}
      /\ v2'.resolution = v2.resolution /\ v2'.accepted = v2.accepted
  BY DEF Incidents!IncidentInv, Incidents!TypeOK, Incidents!With
<1>2. Incidents!TypeOK'
  <2>1. Incidents!With(found) \in SUBSET CycleAttempts
    BY DEF Incidents!IncidentInv, Incidents!TypeOK, Incidents!With
  <2> QED BY <2>1 DEF Incidents!IncidentInv, Incidents!TypeOK
<1>3. Incidents!RetainedAreFaults'
  BY <1>1 DEF Incidents!IncidentInv, Incidents!RetainedAreFaults, Incidents!Reported, Incidents!Fault
<1>4. Incidents!ResolvedAreRetained' /\ Incidents!CoversWhatItSaw'
  BY <1>1 DEF Incidents!IncidentInv, Incidents!ResolvedAreRetained, Incidents!CoversWhatItSaw
<1>5. Incidents!ProofReachesFault' /\ Incidents!RetrySettlesNoOrders'
  BY <1>1 DEF Incidents!IncidentInv, Incidents!ProofReachesFault, Incidents!RetrySettlesNoOrders
<1> QED BY <1>1, <1>2, <1>3, <1>4, <1>5 DEF Incidents!IncidentInv, Incidents!NothingForgotten

\* A proof that was not accepted before resolves only what is active.
LEMMA IncidentProof ==
  ASSUME Incidents!IncidentInv, NEW found \in SUBSET CycleAttempts, found \subseteq Incidents!Reported,
         NEW p \in Incidents!Proof, ~Incidents!Prior(p), Incidents!Resolve(found, p)
  PROVE  Incidents!IncidentInv' /\ Incidents!NothingForgotten
<1> DEFINE W == Incidents!With(found)
<1>1. /\ v1' = v1 /\ W = v2.attempts \cup {a \in found : Incidents!Fault(a)}
      /\ v2.accepted[p] = {} /\ Incidents!Reaches(p, W) /\ Incidents!Settles(p, found, W)
      /\ v2' = [attempts |-> W, resolution |-> Incidents!Resolved(W, p),
                accepted |-> [v2.accepted EXCEPT ![p] = W]]
  BY DEF Incidents!Resolve, Incidents!Prior, Incidents!With
<1>2. /\ v2.attempts \in SUBSET CycleAttempts
      /\ v2.resolution \in [CycleAttempts -> Incidents!Proof \cup {Incidents!NoProof}]
      /\ v2.accepted \in [Incidents!Proof -> SUBSET CycleAttempts]
  BY DEF Incidents!IncidentInv, Incidents!TypeOK
<1>3. W \in SUBSET CycleAttempts
  BY <1>1, <1>2
<1>4. p # Incidents!NoProof
  BY DEF Incidents!Proof, Incidents!NoProof
<1>5. /\ v2'.attempts = W
      /\ \A a \in CycleAttempts : v2'.resolution[a] =
           IF a \in W /\ v2.resolution[a] = Incidents!NoProof THEN p ELSE v2.resolution[a]
      /\ \A q \in Incidents!Proof : v2'.accepted[q] = IF q = p THEN W ELSE v2.accepted[q]
  BY <1>1, <1>2 DEF Incidents!Resolved, Incidents!Active
<1>6. \A a \in CycleAttempts : v2.resolution[a] # Incidents!NoProof => v2.resolution[a] \in Incidents!Proof /\ v2.resolution[a] # p
  BY <1>1, <1>2 DEF Incidents!IncidentInv, Incidents!CoversWhatItSaw
<1>7. Incidents!TypeOK'
  <2>1. Incidents!Resolved(W, p) \in [CycleAttempts -> Incidents!Proof \cup {Incidents!NoProof}]
    BY <1>2 DEF Incidents!Resolved
  <2>2. [v2.accepted EXCEPT ![p] = W] \in [Incidents!Proof -> SUBSET CycleAttempts]
    BY <1>2, <1>3
  <2> QED BY <1>1, <1>3, <2>1, <2>2 DEF Incidents!IncidentInv, Incidents!TypeOK
<1>8. Incidents!RetainedAreFaults'
  BY <1>1, <1>5 DEF Incidents!IncidentInv, Incidents!RetainedAreFaults, Incidents!Reported, Incidents!Fault
<1>9. Incidents!ResolvedAreRetained' /\ Incidents!CoversWhatItSaw'
  BY <1>1, <1>5, <1>6 DEF Incidents!IncidentInv, Incidents!ResolvedAreRetained, Incidents!CoversWhatItSaw
<1>10. Incidents!ProofReachesFault'
  BY <1>1, <1>5, <1>6 DEF Incidents!IncidentInv, Incidents!ProofReachesFault, Incidents!Reaches
<1>11. Incidents!RetrySettlesNoOrders'
  BY <1>1, <1>5 DEF Incidents!IncidentInv, Incidents!RetrySettlesNoOrders, Incidents!Settles, Incidents!Active
<1>12. Incidents!NothingForgotten
  BY <1>1, <1>5 DEF Incidents!NothingForgotten
<1> QED BY <1>7, <1>8, <1>9, <1>10, <1>11, <1>12 DEF Incidents!IncidentInv

\* Every step of the reducer keeps the invariant and forgets nothing.
LEMMA IncidentStep ==
  ASSUME Incidents!IncidentInv, Incidents!Next
  PROVE  Incidents!IncidentInv' /\ Incidents!NothingForgotten
<1>1. CASE \E a \in CycleAttempts, outcome \in Incidents!Outcome, at \in Incidents!Times :
             Incidents!Appear(a, outcome, at)
  BY <1>1, IncidentAppear
<1>2. CASE \E found \in SUBSET CycleAttempts : Incidents!Scan(found)
  BY <1>2, IncidentScan DEF Incidents!Scan
<1>3. ASSUME NEW found \in SUBSET CycleAttempts, NEW p \in Incidents!Proof, Incidents!Resolve(found, p)
      PROVE  Incidents!IncidentInv' /\ Incidents!NothingForgotten
  <2>1. found \subseteq Incidents!Reported
    BY <1>3 DEF Incidents!Resolve
  <2>2. CASE Incidents!Prior(p)
    BY <1>3, <2>1, <2>2, IncidentScan DEF Incidents!Resolve
  <2>3. CASE ~Incidents!Prior(p)
    BY <1>3, <2>1, <2>3, IncidentProof
  <2> QED BY <2>2, <2>3
<1> QED BY <1>1, <1>2, <1>3 DEF Incidents!Next

\* The invariant of the cycle's incidents holds in every behaviour.
LEMMA IncidentInvariant == OperationsSpec => [](Is("incidents") => Incidents!IncidentInv)
<1> DEFINE Inv == Is("incidents") => Incidents!IncidentInv
<1>1. OperationsInit => Inv
  BY IncidentSteps, IncidentInit
<1>2. Inv /\ [OperationsNext]_operations => Inv'
  <2> SUFFICES ASSUME Inv, [OperationsNext]_operations, Is("incidents")' PROVE Incidents!IncidentInv'
    OBVIOUS
  <2>1. Incidents!IncidentInv /\ [Incidents!Next]_<<v1, v2>>
    BY IncidentSteps
  <2>2. CASE UNCHANGED <<v1, v2>>
    BY <2>1, <2>2 DEF Incidents!IncidentInv, Incidents!TypeOK, Incidents!RetainedAreFaults,
       Incidents!Reported, Incidents!Fault, Incidents!ResolvedAreRetained, Incidents!CoversWhatItSaw,
       Incidents!ProofReachesFault, Incidents!RetrySettlesNoOrders
  <2> QED BY <2>1, <2>2, IncidentStep
<1> QED BY <1>1, <1>2, PTL DEF OperationsSpec

\* A proof covers what was retained when it was accepted, reaches past what it
\* resolves and, a retry, settles no uncertain order; what is resolved stays so
\* (reduce_incidents), for any attempts of a cycle and any order of reports.
THEOREM ProofsResolveTheirOwnHolds == OperationsSpec => ProofsResolveTheirOwn
<1> DEFINE Inv == Is("incidents") => Incidents!IncidentInv
           Keeps == Is("incidents") => Incidents!NothingForgotten
<1>1. OperationsSpec => []Inv
  BY IncidentInvariant
<1>2. Inv /\ [OperationsNext]_operations => [Keeps]_componentVars
  <2> SUFFICES ASSUME Inv, OperationsNext, Is("incidents") PROVE Incidents!NothingForgotten
    BY DEF operations, componentVars
  <2>1. Incidents!Next
    BY DEF OperationsNext, Is
  <2> QED BY <2>1, IncidentStep
<1>3. Inv => (Is("incidents") => Incidents!CoversWhatItSaw /\ Incidents!ProofReachesFault /\ Incidents!RetrySettlesNoOrders)
  BY DEF Incidents!IncidentInv
<1> QED BY <1>1, <1>2, <1>3, PTL DEF OperationsSpec, ProofsResolveTheirOwn

-----------------------------------------------------------------------------
(* The paper commands: v1 is today, v2 transitions, v3 commands, v4 cycle  *)
(* and v5 consumer.  A command that left the queue is held by one call at  *)
(* most, with the account that call read (PaperInv).                       *)

\* A behaviour of the commands begins and goes on as one.
LEMMA PaperSteps ==
  /\ OperationsInit /\ Is("commands") => Paperwork!Init
  /\ [OperationsNext]_operations /\ Is("commands")' => Is("commands") /\ [Paperwork!Next]_<<v1, v2, v3, v4, v5>>
<1>1. OperationsInit /\ Is("commands") => Paperwork!Init
  BY DEF OperationsInit, Is
<1>2. [OperationsNext]_operations /\ Is("commands")' => Is("commands") /\ [Paperwork!Next]_<<v1, v2, v3, v4, v5>>
  BY DEF OperationsNext, operations, componentVars, varsFrom3, Is
<1> QED BY <1>1, <1>2

\* At first no command is stored and no call is under way.
LEMMA PaperInit == ASSUME Paperwork!Init PROVE Paperwork!PaperInv
<1>1. Paperwork!IdleConsumer \in Paperwork!Call
  BY OperationsAssumption DEF Paperwork!IdleConsumer, Paperwork!Call, Paperwork!NoAccount, Paperwork!Account
<1> QED BY <1>1, OperationsAssumption DEF Paperwork!Init, Paperwork!PaperInv, Paperwork!CommandsTyped,
     Paperwork!RecordedIsStored, Paperwork!ClaimsAreUnderWay, Paperwork!TransitionFirst,
     Paperwork!FilledIsReconciled, Paperwork!Sessions, Paperwork!IdleConsumer

\* Steps that leave the command store, and release or leave every claim.
LEMMA PaperCallStep ==
  ASSUME Paperwork!PaperInv, v3' = v3, v5' \in [Consumers -> Paperwork!Call],
         v1' \in Paperwork!Sessions, v2 \subseteq v2',
         v4' # Paperwork!IdleCycle => v4'.command \in Paperwork!Command /\ v4'.command.session \in v2',
         \A w \in Consumers : v5'[w].pc = "claimed" => v5'[w] = v5[w]
  PROVE  Paperwork!PaperInv' /\ Paperwork!StartedOnce
<1>1. Paperwork!CommandsTyped'
  BY DEF Paperwork!PaperInv, Paperwork!CommandsTyped
<1>2. Paperwork!RecordedIsStored'
  BY DEF Paperwork!RecordedIsStored
<1>3. Paperwork!ClaimsAreUnderWay'
  BY DEF Paperwork!PaperInv, Paperwork!ClaimsAreUnderWay
<1>4. Paperwork!TransitionFirst' /\ Paperwork!FilledIsReconciled'
  BY DEF Paperwork!PaperInv, Paperwork!TransitionFirst, Paperwork!FilledIsReconciled
<1>5. Paperwork!StartedOnce
  BY DEF Paperwork!StartedOnce
<1> QED BY <1>1, <1>2, <1>3, <1>4, <1>5 DEF Paperwork!PaperInv

\* The cycle records its transition before its command, and a command that is
\* stored already is left as it is.
LEMMA PaperCycleStep ==
  ASSUME Paperwork!PaperInv,
         Paperwork!RecordTransition \/ Paperwork!Enqueue \/ Paperwork!CycleEnds \/ Paperwork!NextSession
  PROVE  Paperwork!PaperInv' /\ Paperwork!StartedOnce
<1>0. /\ v1 \in Paperwork!Sessions /\ v5 \in [Consumers -> Paperwork!Call]
      /\ Paperwork!RecordedIsStored
  BY DEF Paperwork!PaperInv, Paperwork!CommandsTyped
<1>1. CASE Paperwork!RecordTransition
  <2>1. PICK c \in Paperwork!Command : v2' = Paperwork!Stored(c) /\ v4' = [pc |-> "recorded", command |-> c]
    BY <1>1 DEF Paperwork!RecordTransition
  <2>2. v2 \subseteq v2' /\ v4'.command = c /\ c.session \in v2'
    BY <2>1 DEF Paperwork!Stored
  <2> QED BY <1>0, <1>1, <2>1, <2>2, PaperCallStep DEF Paperwork!RecordTransition
<1>2. CASE Paperwork!CycleEnds
  BY <1>0, <1>2, PaperCallStep DEF Paperwork!CycleEnds
<1>3. CASE Paperwork!NextSession
  <2>1. v1' \in Paperwork!Sessions
    BY <1>0, <1>3, OperationsAssumption DEF Paperwork!NextSession, Paperwork!Sessions
  <2> QED BY <1>0, <1>3, <2>1, PaperCallStep DEF Paperwork!NextSession, Paperwork!RecordedIsStored
<1>4. CASE Paperwork!Enqueue
  <2> DEFINE c == v4.command
             fresh == [state |-> "queued", seen |-> Paperwork!NoAccount]
  <2>1. v4 # Paperwork!IdleCycle
    BY <1>4 DEF Paperwork!Enqueue, Paperwork!IdleCycle
  <2>2. c \in Paperwork!Command /\ c.session \in v2
    BY <1>0, <2>1 DEF Paperwork!RecordedIsStored
  <2>3. /\ DOMAIN v3' = DOMAIN v3 \cup {c}
        /\ \A d \in DOMAIN v3 : v3'[d] = v3[d]
        /\ c \notin DOMAIN v3 => v3'[c] = fresh
        /\ v1' = v1 /\ v2' = v2 /\ v4' = Paperwork!IdleCycle /\ v5' = v5
    BY <1>4 DEF Paperwork!Enqueue, Paperwork!New
  <2>4. fresh \in Paperwork!Entry
    BY DEF Paperwork!Entry, Paperwork!State, Paperwork!NoAccount, Paperwork!Account
  <2>5. Paperwork!CommandsTyped'
    BY <2>2, <2>3, <2>4 DEF Paperwork!PaperInv, Paperwork!CommandsTyped
  <2>6. Paperwork!RecordedIsStored' /\ Paperwork!TransitionFirst'
    BY <2>2, <2>3 DEF Paperwork!PaperInv, Paperwork!RecordedIsStored, Paperwork!TransitionFirst
  <2>7. Paperwork!ClaimsAreUnderWay'
    BY <2>3 DEF Paperwork!PaperInv, Paperwork!ClaimsAreUnderWay
  <2>8. Paperwork!FilledIsReconciled'
    BY <2>3 DEF Paperwork!PaperInv, Paperwork!FilledIsReconciled
  <2>9. Paperwork!StartedOnce
    BY <2>3 DEF Paperwork!StartedOnce
  <2> QED BY <2>5, <2>6, <2>7, <2>8, <2>9 DEF Paperwork!PaperInv
<1> QED BY <1>1, <1>2, <1>3, <1>4

\* A claim takes a queued command, which no other call holds.
LEMMA PaperClaim ==
  ASSUME Paperwork!PaperInv, NEW w \in Consumers, Paperwork!Claim(w)
  PROVE  Paperwork!PaperInv' /\ Paperwork!StartedOnce
<1>1. PICK c \in Paperwork!Due(w) :
        /\ v3' = [v3 EXCEPT ![c] = [state |-> "claimed", seen |-> v5[w].seen]]
        /\ v5' = [v5 EXCEPT ![w].pc = "claimed", ![w].command = c]
  BY DEF Paperwork!Claim
<1>2. c \in DOMAIN v3 /\ v3[c].state = "queued" /\ c \in Paperwork!Command
  BY DEF Paperwork!Due, Paperwork!PaperInv, Paperwork!CommandsTyped
<1>3. v5[w] \in Paperwork!Call /\ v5 \in [Consumers -> Paperwork!Call]
  BY DEF Paperwork!PaperInv, Paperwork!CommandsTyped
<1>4. /\ v1' = v1 /\ v2' = v2 /\ v4' = v4 /\ DOMAIN v3' = DOMAIN v3
      /\ v3'[c] = [state |-> "claimed", seen |-> v5[w].seen]
      /\ \A d \in DOMAIN v3 \ {c} : v3'[d] = v3[d]
      /\ v5'[w] = [v5[w] EXCEPT !.pc = "claimed", !.command = c]
      /\ \A u \in Consumers \ {w} : v5'[u] = v5[u]
  BY <1>1, <1>2, <1>3 DEF Paperwork!Claim
<1>5. v5'[w] \in Paperwork!Call /\ v5'[w].pc = "claimed" /\ v5'[w].command = c /\ v5'[w].seen = v5[w].seen
  BY <1>2, <1>3, <1>4 DEF Paperwork!Call
<1>6. [state |-> "claimed", seen |-> v5[w].seen] \in Paperwork!Entry
  BY <1>3 DEF Paperwork!Call, Paperwork!Entry, Paperwork!State, Paperwork!Claimed
<1>7. v5' \in [Consumers -> Paperwork!Call]
  BY <1>1, <1>3, <1>4, <1>5
<1>8. Paperwork!CommandsTyped'
  BY <1>4, <1>6, <1>7 DEF Paperwork!PaperInv, Paperwork!CommandsTyped
<1>9. Paperwork!RecordedIsStored' /\ Paperwork!TransitionFirst'
  BY <1>4 DEF Paperwork!PaperInv, Paperwork!RecordedIsStored, Paperwork!TransitionFirst
<1>10. \A u \in Consumers \ {w} : v5[u].pc = "claimed" => v5[u].command # c
  BY <1>2 DEF Paperwork!PaperInv, Paperwork!ClaimsAreUnderWay, Paperwork!Claimed
<1>11. Paperwork!ClaimsAreUnderWay'
  <2>1. ASSUME NEW u \in Consumers, v5'[u].pc = "claimed"
        PROVE  /\ v5'[u].command \in DOMAIN v3' /\ v3'[v5'[u].command].state \in Paperwork!Claimed
               /\ v3'[v5'[u].command].seen = v5'[u].seen
    <3>1. CASE u = w
      <4>1. v5'[u].command = c /\ v5'[u].seen = v5[w].seen
        BY <1>5, <3>1
      <4>2. c \in DOMAIN v3' /\ v3'[c].state = "claimed" /\ v3'[c].seen = v5[w].seen
        BY <1>2, <1>4
      <4> QED BY <4>1, <4>2 DEF Paperwork!Claimed
    <3>2. CASE u # w
      BY <1>4, <1>10, <2>1, <3>2 DEF Paperwork!PaperInv, Paperwork!ClaimsAreUnderWay
    <3> QED BY <3>1, <3>2
  <2>2. ASSUME NEW u \in Consumers, NEW t \in Consumers, v5'[u].pc = "claimed", v5'[t].pc = "claimed",
               v5'[u].command = v5'[t].command
        PROVE  u = t
    <3>0. \A q \in Consumers \ {w} : v5'[q].pc = "claimed" => v5'[q].command # v5'[w].command
      BY <1>4, <1>5, <1>10
    <3>1. CASE u = w \/ t = w
      BY <2>2, <3>0, <3>1
    <3>2. CASE u # w /\ t # w
      BY <1>4, <2>2, <3>2 DEF Paperwork!PaperInv, Paperwork!ClaimsAreUnderWay
    <3> QED BY <3>1, <3>2
  <2> QED BY <2>1, <2>2 DEF Paperwork!ClaimsAreUnderWay
<1>12. Paperwork!FilledIsReconciled'
  BY <1>4 DEF Paperwork!PaperInv, Paperwork!FilledIsReconciled
<1>13. Paperwork!StartedOnce
  BY <1>2, <1>4 DEF Paperwork!StartedOnce
<1> QED BY <1>8, <1>9, <1>11, <1>12, <1>13 DEF Paperwork!PaperInv

\* A call writes the next state of the command it claimed; it keeps its claim
\* of a command that is still under way.
LEMMA PaperWrite ==
  ASSUME Paperwork!PaperInv, NEW w \in Consumers, NEW state \in Paperwork!State \ {"queued"},
         v5[w].pc = "claimed", Paperwork!Write(w, state),
         \/ Paperwork!Done(w)
         \/ v5' = v5 /\ state \in Paperwork!Claimed,
         state \in {"submitted", "accepted", "filled"} =>
           \/ Paperwork!Admitted(v5[w].command, v5[w].seen)
           \/ v3[v5[w].command].state \in {"submitted", "accepted"}
  PROVE  Paperwork!PaperInv' /\ Paperwork!StartedOnce
<1> DEFINE c == v5[w].command
<1>1. c \in DOMAIN v3 /\ v3[c].state \in Paperwork!Claimed /\ v3[c].seen = v5[w].seen
  BY DEF Paperwork!PaperInv, Paperwork!ClaimsAreUnderWay
<1>2. /\ v5 \in [Consumers -> Paperwork!Call] /\ v5[w] \in Paperwork!Call
      /\ v3[c] \in Paperwork!Entry /\ c \in Paperwork!Command
  BY <1>1 DEF Paperwork!PaperInv, Paperwork!CommandsTyped
<1>3. /\ v1' = v1 /\ v2' = v2 /\ v4' = v4 /\ DOMAIN v3' = DOMAIN v3
      /\ v3'[c] = [v3[c] EXCEPT !.state = state]
      /\ \A d \in DOMAIN v3 \ {c} : v3'[d] = v3[d]
  BY <1>1 DEF Paperwork!Write
<1>4. v3'[c] \in Paperwork!Entry /\ v3'[c].state = state /\ v3'[c].seen = v3[c].seen
  BY <1>2, <1>3 DEF Paperwork!Entry
<1>5. /\ v5' \in [Consumers -> Paperwork!Call]
      /\ \A u \in Consumers : v5'[u].pc = "claimed" => v5'[u] = v5[u] /\ (u = w => state \in Paperwork!Claimed)
  <2>1. CASE Paperwork!Done(w)
    <3>1. v5'[w] = [v5[w] EXCEPT !.pc = "consuming", !.command = Paperwork!NoCommand]
      BY <1>2, <2>1 DEF Paperwork!Done
    <3>2. v5'[w] \in Paperwork!Call /\ v5'[w].pc = "consuming"
      BY <1>2, <3>1 DEF Paperwork!Call
    <3>3. \A u \in Consumers \ {w} : v5'[u] = v5[u]
      BY <1>2, <2>1 DEF Paperwork!Done
    <3>4. v5' \in [Consumers -> Paperwork!Call]
      BY <1>2, <2>1, <3>2, <3>3 DEF Paperwork!Done
    <3> QED BY <3>2, <3>3, <3>4
  <2>2. CASE v5' = v5 /\ state \in Paperwork!Claimed
    BY <1>2, <2>2
  <2> QED BY <2>1, <2>2
<1>6. Paperwork!CommandsTyped'
  BY <1>3, <1>4, <1>5 DEF Paperwork!PaperInv, Paperwork!CommandsTyped
<1>7. Paperwork!RecordedIsStored' /\ Paperwork!TransitionFirst'
  BY <1>3 DEF Paperwork!PaperInv, Paperwork!RecordedIsStored, Paperwork!TransitionFirst
<1>8. \A u \in Consumers \ {w} : v5[u].pc = "claimed" => v5[u].command # c
  BY DEF Paperwork!PaperInv, Paperwork!ClaimsAreUnderWay
<1>9. Paperwork!ClaimsAreUnderWay'
  <2>1. ASSUME NEW u \in Consumers, v5'[u].pc = "claimed"
        PROVE  /\ v5'[u].command \in DOMAIN v3' /\ v3'[v5'[u].command].state \in Paperwork!Claimed
               /\ v3'[v5'[u].command].seen = v5'[u].seen
    <3>1. CASE u = w
      BY <1>1, <1>3, <1>4, <1>5, <2>1, <3>1
    <3>2. CASE u # w
      BY <1>3, <1>5, <1>8, <2>1, <3>2 DEF Paperwork!PaperInv, Paperwork!ClaimsAreUnderWay
    <3> QED BY <3>1, <3>2
  <2>2. ASSUME NEW u \in Consumers, NEW t \in Consumers, v5'[u].pc = "claimed", v5'[t].pc = "claimed",
               v5'[u].command = v5'[t].command
        PROVE  u = t
    BY <1>5, <2>2 DEF Paperwork!PaperInv, Paperwork!ClaimsAreUnderWay
  <2> QED BY <2>1, <2>2 DEF Paperwork!ClaimsAreUnderWay
<1>10. Paperwork!FilledIsReconciled'
  <2>1. state \in {"submitted", "accepted", "filled"} =>
          /\ ~v3[c].seen.foreign /\ c.receipt # "other"
          /\ Paperwork!Abs(c.target) > Paperwork!Abs(v3[c].seen.managed) => c.receipt = "allows"
    <3>1. CASE Paperwork!Admitted(c, v5[w].seen)
      <4>1. Paperwork!Abs(c.target) = c.target
        BY <1>2 DEF Paperwork!Command, Paperwork!Target, Paperwork!Abs
      <4> QED BY <1>1, <3>1, <4>1 DEF Paperwork!Admitted, Paperwork!Finding, Paperwork!Grows
    <3>2. CASE v3[c].state \in {"submitted", "accepted"}
      BY <1>1, <3>2 DEF Paperwork!PaperInv, Paperwork!FilledIsReconciled
    <3> QED BY <3>1, <3>2
  <2> QED BY <1>1, <1>3, <1>4, <2>1 DEF Paperwork!PaperInv, Paperwork!FilledIsReconciled
<1>11. Paperwork!StartedOnce
  BY <1>1, <1>3, <1>4 DEF Paperwork!StartedOnce, Paperwork!Claimed
<1> QED BY <1>6, <1>7, <1>9, <1>10, <1>11 DEF Paperwork!PaperInv

\* Every step of a call keeps the invariant and starts no command over.
LEMMA PaperConsumerStep ==
  ASSUME Paperwork!PaperInv, NEW w \in Consumers,
         \/ Paperwork!ReadAccount(w) \/ Paperwork!Consume(w) \/ Paperwork!Claim(w) \/ Paperwork!Simulate(w)
         \/ Paperwork!Reject(w) \/ Paperwork!Fault(w) \/ Paperwork!Return(w)
  PROVE  Paperwork!PaperInv' /\ Paperwork!StartedOnce
<1>1. /\ v5 \in [Consumers -> Paperwork!Call] /\ v5[w] \in Paperwork!Call /\ v1 \in Paperwork!Sessions
      /\ v4 # Paperwork!IdleCycle => v4.command \in Paperwork!Command /\ v4.command.session \in v2
  BY DEF Paperwork!PaperInv, Paperwork!CommandsTyped, Paperwork!RecordedIsStored
<1>2. CASE Paperwork!ReadAccount(w)
  <2>1. PICK account \in Paperwork!Account : v5' = [v5 EXCEPT ![w].pc = "read", ![w].seen = account]
    BY <1>2 DEF Paperwork!ReadAccount
  <2>2. v5'[w] \in Paperwork!Call /\ v5'[w].pc = "read" /\ \A u \in Consumers \ {w} : v5'[u] = v5[u]
    BY <1>1, <2>1 DEF Paperwork!Call
  <2>3. v5' \in [Consumers -> Paperwork!Call]
    BY <1>1, <2>1, <2>2
  <2> QED BY <1>1, <1>2, <2>2, <2>3, PaperCallStep DEF Paperwork!ReadAccount
<1>3. CASE Paperwork!Consume(w)
  <2>1. v5' = [v5 EXCEPT ![w].pc = "consuming", ![w].asOf = v1] /\ v1 \in 0..LastSession
    BY <1>1, <1>3, OperationsAssumption DEF Paperwork!Consume, Paperwork!Sessions
  <2>2. v5'[w] \in Paperwork!Call /\ v5'[w].pc = "consuming" /\ \A u \in Consumers \ {w} : v5'[u] = v5[u]
    BY <1>1, <2>1 DEF Paperwork!Call
  <2>3. v5' \in [Consumers -> Paperwork!Call]
    BY <1>1, <2>1, <2>2
  <2> QED BY <1>1, <1>3, <2>2, <2>3, PaperCallStep DEF Paperwork!Consume
<1>4. CASE Paperwork!Claim(w)
  BY <1>4, PaperClaim
<1>5. CASE Paperwork!Simulate(w)
  <2>1. CASE /\ Paperwork!StateOf(w) = "claimed" /\ Paperwork!Admitted(v5[w].command, v5[w].seen)
             /\ Paperwork!Write(w, "submitted") /\ v5' = v5
    BY <1>5, <2>1, PaperWrite DEF Paperwork!Simulate, Paperwork!State, Paperwork!Claimed
  <2>2. CASE Paperwork!StateOf(w) = "submitted" /\ Paperwork!Write(w, "accepted") /\ v5' = v5
    BY <1>5, <2>2, PaperWrite DEF Paperwork!Simulate, Paperwork!State, Paperwork!Claimed, Paperwork!StateOf
  <2>3. CASE Paperwork!StateOf(w) = "accepted" /\ Paperwork!Write(w, "filled") /\ Paperwork!Done(w)
    BY <1>5, <2>3, PaperWrite DEF Paperwork!Simulate, Paperwork!State, Paperwork!StateOf
  <2> QED BY <1>5, <2>1, <2>2, <2>3 DEF Paperwork!Simulate
<1>6. CASE Paperwork!Reject(w)
  BY <1>6, PaperWrite DEF Paperwork!Reject, Paperwork!State
<1>7. CASE Paperwork!Fault(w)
  BY <1>7, PaperWrite DEF Paperwork!Fault, Paperwork!State
<1>8. CASE Paperwork!Return(w)
  <2>1. Paperwork!IdleConsumer \in Paperwork!Call /\ Paperwork!IdleConsumer.pc = "idle"
    BY OperationsAssumption DEF Paperwork!IdleConsumer, Paperwork!Call, Paperwork!NoAccount, Paperwork!Account
  <2>2. /\ v5' \in [Consumers -> Paperwork!Call] /\ v5'[w].pc = "idle"
        /\ \A u \in Consumers \ {w} : v5'[u] = v5[u]
    BY <1>1, <1>8, <2>1 DEF Paperwork!Return
  <2> QED BY <1>1, <1>8, <2>2, PaperCallStep DEF Paperwork!Return
<1> QED BY <1>2, <1>3, <1>4, <1>5, <1>6, <1>7, <1>8

\* The invariant of the paper commands holds in every behaviour.
LEMMA PaperInvariant == OperationsSpec => [](Is("commands") => Paperwork!PaperInv)
<1> DEFINE Inv == Is("commands") => Paperwork!PaperInv
<1>1. OperationsInit => Inv
  BY PaperSteps, PaperInit
<1>2. Inv /\ [OperationsNext]_operations => Inv'
  <2> SUFFICES ASSUME Inv, [OperationsNext]_operations, Is("commands")' PROVE Paperwork!PaperInv'
    OBVIOUS
  <2>1. Paperwork!PaperInv /\ [Paperwork!Next]_<<v1, v2, v3, v4, v5>>
    BY PaperSteps
  <2>2. CASE UNCHANGED <<v1, v2, v3, v4, v5>>
    BY <2>1, <2>2, PaperCallStep DEF Paperwork!PaperInv, Paperwork!CommandsTyped, Paperwork!RecordedIsStored
  <2> QED BY <2>1, <2>2, PaperCycleStep, PaperConsumerStep DEF Paperwork!Next
<1> QED BY <1>1, <1>2, PTL DEF OperationsSpec

\* The risk transition precedes the command, a fill was reconciled against the
\* account, and a command starts once (run_strategy, _reconcile_command,
\* consume_due_paper_execution_commands), however many calls overlap.
THEOREM PaperFillsAreReconciledHolds == OperationsSpec => PaperFillsAreReconciled
<1> DEFINE Inv == Is("commands") => Paperwork!PaperInv
           Keeps == Is("commands") => Paperwork!StartedOnce
<1>1. OperationsSpec => []Inv
  BY PaperInvariant
<1>2. Inv /\ [OperationsNext]_operations => [Keeps]_componentVars
  <2> SUFFICES ASSUME Inv, OperationsNext, Is("commands") PROVE Paperwork!StartedOnce
    BY DEF operations, componentVars
  <2>1. Paperwork!Next
    BY DEF OperationsNext, Is
  <2> QED BY <2>1, PaperCycleStep, PaperConsumerStep DEF Paperwork!Next
<1>3. Inv => (Is("commands") => Paperwork!TransitionFirst /\ Paperwork!FilledIsReconciled)
  BY DEF Paperwork!PaperInv
<1> QED BY <1>1, <1>2, <1>3, PTL DEF OperationsSpec, PaperFillsAreReconciled

-----------------------------------------------------------------------------
(* The heartbeat: v1 is now, v2 reports, v3 incident, v4 passed and v5     *)
(* cleared.  An uploaded report no longer changes, so what a slot passed   *)
(* on stays, and a recovery carries the earliest of its proofs (BeatInv).  *)

\* A behaviour of the heartbeat begins and goes on as one.
LEMMA BeatSteps ==
  /\ OperationsInit /\ Is("beat") => Beat!Init
  /\ [OperationsNext]_operations /\ Is("beat")' => Is("beat") /\ [Beat!Next]_<<v1, v2, v3, v4, v5>>
<1>1. OperationsInit /\ Is("beat") => Beat!Init
  BY DEF OperationsInit, Is
<1>2. [OperationsNext]_operations /\ Is("beat")' => Is("beat") /\ [Beat!Next]_<<v1, v2, v3, v4, v5>>
  BY DEF OperationsNext, operations, componentVars, varsFrom3, Is
<1> QED BY <1>1, <1>2

\* At first nothing ran, nothing passed and nothing was raised.
LEMMA BeatInit == ASSUME Beat!Init PROVE Beat!BeatInv
  BY OperationsAssumption DEF Beat!Init, Beat!BeatInv, Beat!HeartbeatTyped, Beat!Times, Beat!NoRecovery,
     Beat!PassedWasReported, Beat!ClearedByAll

\* A report that is uploaded changes no more.
LEMMA BeatReports ==
  ASSUME Beat!BeatInv, v1' \in Beat!Times, v2' \in [Executions -> Beat!Report \cup {Beat!NoReport}],
         v3' = v3, v4' = v4, v5' = v5,
         \A e \in Executions : v2[e].updated # Beat!Never => v2'[e] = v2[e]
  PROVE  Beat!BeatInv'
<1>1. Beat!HeartbeatTyped'
  BY DEF Beat!BeatInv, Beat!HeartbeatTyped
<1>2. Beat!PassedWasReported'
  <2> SUFFICES ASSUME NEW p \in v4
               PROVE  \E e \in Executions : /\ v2'[e].target = p[1] /\ v2'[e].status # "failed"
                                            /\ p[2] <= v2'[e].updated /\ v2'[e].updated # Beat!Never
    BY DEF Beat!PassedWasReported, Beat!Never
  <2>1. PICK e \in Executions : /\ v2[e].target = p[1] /\ v2[e].status # "failed"
                                /\ p[2] <= v2[e].updated /\ v2[e].updated # Beat!Never
    BY DEF Beat!BeatInv, Beat!PassedWasReported
  <2> QED BY <2>1
<1>3. Beat!ClearedByAll'
  BY DEF Beat!BeatInv, Beat!ClearedByAll
<1> QED BY <1>1, <1>2, <1>3 DEF Beat!BeatInv

\* Runs finish, upload once, and time passes.
LEMMA BeatRuns ==
  ASSUME Beat!BeatInv,
         \/ \E e \in Executions, t \in BeatTargets, status \in Beat!Status : Beat!Finish(e, t, status)
         \/ \E e \in Executions : Beat!Upload(e)
         \/ Beat!Tick
  PROVE  Beat!BeatInv'
<1>1. /\ v1 \in Beat!Times /\ v2 \in [Executions -> Beat!Report \cup {Beat!NoReport}]
      /\ BeatEnd \in Nat /\ Beat!Never \notin Beat!Times /\ Beat!Never \in 0..Beat!Never
      /\ \A x \in Beat!Times : x \in 0..Beat!Never
  BY OperationsAssumption DEF Beat!BeatInv, Beat!HeartbeatTyped, Beat!Times, Beat!Never
<1>2. ASSUME NEW e \in Executions, NEW t \in BeatTargets, NEW status \in Beat!Status, Beat!Finish(e, t, status)
      PROVE  Beat!BeatInv'
  <2> DEFINE r == [target |-> t, status |-> status, finished |-> v1, updated |-> Beat!Never]
  <2>1. r \in Beat!Report
    BY <1>1 DEF Beat!Report
  <2>2. v2' = [v2 EXCEPT ![e] = r] /\ v2[e].updated = Beat!Never
    BY <1>2 DEF Beat!Finish, Beat!NoReport
  <2>3. /\ v2' \in [Executions -> Beat!Report \cup {Beat!NoReport}]
        /\ \A f \in Executions : v2[f].updated # Beat!Never => v2'[f] = v2[f]
    BY <1>1, <2>1, <2>2
  <2> QED BY <1>1, <1>2, <2>3, BeatReports DEF Beat!Finish
<1>3. ASSUME NEW e \in Executions, Beat!Upload(e) PROVE Beat!BeatInv'
  <2>1. v2[e] \in Beat!Report /\ v2[e].updated = Beat!Never
    BY <1>1, <1>3 DEF Beat!Upload
  <2>2. [v2[e] EXCEPT !.updated = v1] \in Beat!Report
    BY <1>1, <2>1 DEF Beat!Report
  <2>3. /\ v2' \in [Executions -> Beat!Report \cup {Beat!NoReport}]
        /\ \A f \in Executions : v2[f].updated # Beat!Never => v2'[f] = v2[f]
    BY <1>1, <1>3, <2>1, <2>2 DEF Beat!Upload
  <2> QED BY <1>1, <1>3, <2>3, BeatReports DEF Beat!Upload
<1>4. CASE Beat!Tick
  <2>1. v1' \in Beat!Times
    BY <1>1, <1>4 DEF Beat!Tick, Beat!Times
  <2> QED BY <1>1, <1>4, <2>1, BeatReports DEF Beat!Tick
<1> QED BY <1>2, <1>3, <1>4

\* The proof that a recovery carries is the earliest of those it found.
LEMMA EarliestProof ==
  ASSUME Beat!BeatInv, NEW read \in SUBSET Beat!Recent, NEW found \in Beat!Evidence(read), found # {}
  PROVE  /\ Beat!Proof(found) \in Beat!Times
         /\ \A e \in found : v2[e].finished \in Beat!Times /\ Beat!Proof(found) <= v2[e].finished
<1>1. \A e \in Beat!Recent : v2[e] \in Beat!Report
  BY DEF Beat!BeatInv, Beat!HeartbeatTyped, Beat!Recent, Beat!NoReport
<1>2. found \subseteq Beat!Recent
  BY DEF Beat!Evidence, Beat!Kept, Beat!Accepted
<1> DEFINE T == {v2[e].finished : e \in found}
<1>3. /\ T \in SUBSET Nat /\ T # {} /\ T \subseteq Beat!Times
      /\ \A e \in found : v2[e].finished \in Beat!Times
  BY <1>1, <1>2 DEF Beat!Report, Beat!Times
<1>4. \E m \in T : \A n \in T : m <= n
  <2> HIDE DEF T
  <2> QED BY <1>3, Numbers!LeastNatural
<1>5. \E p \in T : \A e \in found : p <= v2[e].finished
  BY <1>4
<1>6. Beat!Proof(found) \in T /\ \A e \in found : Beat!Proof(found) <= v2[e].finished
  BY <1>5 DEF Beat!Proof
<1> QED BY <1>3, <1>6

\* A check passes a slot on a report of its target and clears no incident
\* that was observed after one of the proofs.
LEMMA BeatAllReported ==
  ASSUME Beat!BeatInv, NEW read \in SUBSET Beat!Recent, Beat!AllReported(read), v1' = v1, v2' = v2
  PROVE  Beat!BeatInv'
<1>1. Beat!PassedWasReported'
  <2>1. ASSUME NEW t \in Beat!Due
        PROVE  \E e \in Executions : /\ v2[e].target = t /\ v2[e].status # "failed"
                                     /\ Beat!LatestDue(t) <= v2[e].updated /\ v2[e].updated # Beat!Never
    <3>1. PICK e \in Beat!Accepted(t, read) : TRUE
      BY <2>1 DEF Beat!AllReported
    <3> QED BY <3>1 DEF Beat!Accepted, Beat!UploadedSinceDue, Beat!Recent
  <2>2. v4' = v4 \cup {<<t, Beat!LatestDue(t)>> : t \in Beat!Due}
    BY DEF Beat!AllReported
  <2> SUFFICES ASSUME NEW p \in v4'
               PROVE  \E e \in Executions : /\ v2[e].target = p[1] /\ v2[e].status # "failed"
                                            /\ p[2] <= v2[e].updated /\ v2[e].updated # Beat!Never
    BY DEF Beat!PassedWasReported, Beat!Never
  <2>3. CASE p \in v4
    BY <2>3 DEF Beat!BeatInv, Beat!PassedWasReported
  <2>4. CASE p \notin v4
    <3>1. PICK t \in Beat!Due : p = <<t, Beat!LatestDue(t)>>
      BY <2>2, <2>4
    <3> QED BY <2>1, <3>1
  <2> QED BY <2>3, <2>4
<1>2. PICK found \in Beat!Evidence(read) : Beat!Recovered(found)
  BY DEF Beat!AllReported
<1>3. CASE ~Beat!Recovers(found)
  BY <1>1, <1>2, <1>3 DEF Beat!Recovered, Beat!BeatInv, Beat!HeartbeatTyped, Beat!ClearedByAll
<1>4. CASE Beat!Recovers(found)
  <2>1. found # {} /\ v3.observed <= Beat!Proof(found)
    BY <1>4 DEF Beat!Recovers
  <2>2. /\ Beat!Proof(found) \in Beat!Times
        /\ \A e \in found : v2[e].finished \in Beat!Times /\ Beat!Proof(found) <= v2[e].finished
    BY <2>1, EarliestProof
  <2>3. /\ v3' = [active |-> FALSE, observed |-> Beat!Proof(found)]
        /\ v5' = IF v3.active THEN [raised |-> v3.observed, by |-> {v2[e] : e \in found}] ELSE v5
    BY <1>2, <1>4 DEF Beat!Recovered
  <2>4. Beat!HeartbeatTyped'
    BY <2>2, <2>3 DEF Beat!BeatInv, Beat!HeartbeatTyped
  <2>5. v3.observed \in Beat!Times
    BY DEF Beat!BeatInv, Beat!HeartbeatTyped
  <2>6. \A e \in found : v3.observed <= v2[e].finished
    BY <2>1, <2>2, <2>5, OperationsAssumption DEF Beat!Times
  <2>7. Beat!ClearedByAll'
    BY <2>3, <2>6 DEF Beat!BeatInv, Beat!ClearedByAll
  <2> QED BY <1>1, <2>4, <2>7 DEF Beat!BeatInv
<1> QED BY <1>3, <1>4

\* The invariant of the heartbeat holds in every behaviour.
LEMMA BeatInvariant == OperationsSpec => [](Is("beat") => Beat!BeatInv)
<1> DEFINE Inv == Is("beat") => Beat!BeatInv
<1>1. OperationsInit => Inv
  BY BeatSteps, BeatInit
<1>2. Inv /\ [OperationsNext]_operations => Inv'
  <2> SUFFICES ASSUME Inv, [OperationsNext]_operations, Is("beat")' PROVE Beat!BeatInv'
    OBVIOUS
  <2>1. Beat!BeatInv /\ [Beat!Next]_<<v1, v2, v3, v4, v5>>
    BY BeatSteps
  <2>2. CASE UNCHANGED <<v1, v2, v3, v4, v5>>
    BY <2>1, <2>2, BeatReports DEF Beat!BeatInv, Beat!HeartbeatTyped
  <2>3. CASE Beat!Check
    <3>1. PICK read \in SUBSET Beat!Recent : Beat!Skip \/ Beat!AllReported(read) \/ Beat!Alert(read)
      BY <2>3 DEF Beat!Check
    <3>2. CASE Beat!Skip
      BY <2>1, <2>3, <3>2, BeatReports DEF Beat!Check, Beat!Skip, Beat!BeatInv, Beat!HeartbeatTyped
    <3>3. CASE Beat!AllReported(read)
      BY <2>1, <2>3, <3>1, <3>3, BeatAllReported DEF Beat!Check
    <3>4. CASE Beat!Alert(read)
      BY <2>1, <2>3, <3>4 DEF Beat!Check, Beat!Alert, Beat!BeatInv, Beat!HeartbeatTyped,
         Beat!PassedWasReported, Beat!ClearedByAll
    <3> QED BY <3>1, <3>2, <3>3, <3>4
  <2> QED BY <2>1, <2>2, <2>3, BeatRuns DEF Beat!Next
<1> QED BY <1>1, <1>2, PTL DEF OperationsSpec

\* A slot passes on a report of that target since it was due, and the incident
\* is cleared by executions that all finished after it was raised
\* (execution_report_heartbeat.main, heartbeat_observation), for any targets,
\* slots, executions and hours.
THEOREM HeartbeatIsTrueHolds == OperationsSpec => []HeartbeatIsTrue
<1> DEFINE Inv == Is("beat") => Beat!BeatInv
<1>1. OperationsSpec => []Inv
  BY BeatInvariant
<1>2. Inv => HeartbeatIsTrue
  BY DEF HeartbeatIsTrue, Beat!BeatInv
<1> QED BY <1>1, <1>2, PTL DEF OperationsSpec

-----------------------------------------------------------------------------
(* The runtime guard: v1 is now, v2 ran, v3 log, v4 revision, v5 mode, v6  *)
(* store, v7 last and v8 tried.  What was sent is forgotten only when the  *)
(* lookback no longer reaches it (SentIsHeld), and the state knows of no   *)
(* alert that was not sent (HeldWasSent).                                  *)

\* A behaviour of the guard begins and goes on as one.
LEMMA GuardSteps ==
  /\ OperationsInit /\ Is("guard") => Guard!Init
  /\ [OperationsNext]_operations /\ Is("guard")' =>
       Is("guard") /\ [Guard!Next]_<<v1, v2, v3, v4, v5, v6, v7, v8>>
<1>1. OperationsInit /\ Is("guard") => Guard!Init
  BY DEF OperationsInit, Is
<1>2. [OperationsNext]_operations /\ Is("guard")' =>
        Is("guard") /\ [Guard!Next]_<<v1, v2, v3, v4, v5, v6, v7, v8>>
  BY DEF OperationsNext, operations, componentVars, varsFrom3, Is
<1> QED BY <1>1, <1>2

\* At first nothing was logged, sent or remembered.
LEMMA GuardInit == ASSUME Guard!Init PROVE Guard!GuardInv
<1>0. Guard!Never = -1 /\ -1 \in Guard!Times /\ 0 \in 0..GuardEnd
  BY OperationsAssumption DEF Guard!Times, Guard!Never
<1>1. Guard!NoStore \in Guard!Memory /\ \A e \in Guard!Entries : Guard!NoStore.events[e] = -1
  BY <1>0 DEF Guard!NoStore, Guard!Memory, Guard!NoEvents, Guard!NoIssues
<1>2. v3 \in [Guard!Entries -> Guard!Times] /\ \A e \in Guard!Entries : v3[e] = -1
  BY <1>0 DEF Guard!Init, Guard!NoEvents
<1>3. Guard!LoggedBefore
  BY <1>2 DEF Guard!Init, Guard!LoggedBefore
<1>4. Guard!GuardTyped
  BY <1>0, <1>1, <1>2, <1>3 DEF Guard!Init, Guard!GuardTyped
<1>5. Guard!Remembers
  BY <1>0, <1>1 DEF Guard!Init, Guard!Remembers, Guard!SentIsHeld, Guard!HeldWasSent
<1>6. Guard!HealthyMeansQuiet /\ Guard!SuppressedWasAlerted
  BY DEF Guard!Init, Guard!HealthyMeansQuiet, Guard!SuppressedWasAlerted
<1> QED BY <1>4, <1>5, <1>6 DEF Guard!GuardInv

\* The instants of the guard are integers, and Never is before them.
LEMMA GuardNumbers ==
  ASSUME Guard!GuardInv
  PROVE  /\ v1 \in Nat /\ v4 \in Int /\ GuardLookback \in Nat /\ Reminder \in Nat /\ Retention \in Nat
         /\ \A e \in Guard!Entries : /\ v3[e] \in Int /\ (v3[e] # -1 => v3[e] \in Nat)
                                     /\ v6.events[e] \in Int /\ v8.events[e] \in Int
  BY OperationsAssumption DEF Guard!GuardInv, Guard!GuardTyped, Guard!Times, Guard!Never, Guard!Memory

\* What a run observes was logged within the lookback, and no issue means that
\* every failure is older than what it read or than the latest revision.
GuardReads(o, target, oldest) ==
  /\ o.seen \in SUBSET Guard!Entries /\ o.issues \in SUBSET Guard!IssueTypes
  /\ \A e \in o.seen : v3[e] # Guard!Never /\ v3[e] >= Guard!Window
  /\ o.issues = {} /\ target # "disabled" =>
       \A e \in Guard!Entries : v3[e] # Guard!Never => v3[e] < oldest \/ v3[e] < v4

\* Every observation is such a one, whatever could be read.
LEMMA GuardObserves ==
  ASSUME Guard!GuardInv, NEW target \in Guard!Targets, NEW oldest \in {Guard!Window, v1},
         NEW known \in BOOLEAN, NEW runOk \in BOOLEAN, NEW jobsOk \in BOOLEAN, NEW idle \in BOOLEAN,
         NEW o, o = Guard!Observed(target, known, oldest, runOk, jobsOk, idle)
  PROVE  GuardReads(o, target, oldest)
<1> DEFINE since == IF Guard!Since(known) > oldest THEN Guard!Since(known) ELSE oldest
           runs == IF target = "one" /\ runOk THEN Guard!Logged(RunEntries, since) ELSE {}
           jobs == IF target = "one" /\ jobsOk
                   THEN {e \in Guard!Logged(JobEntries, since) : ~Guard!Duplicate(e, runs)} ELSE {}
<1>1. /\ o.seen = runs \cup jobs
      /\ o.issues = Guard!When(Guard!Unread(target, runOk, jobsOk), "unread")
                    \cup Guard!When(target = "one" /\ runOk /\ idle, "noSuccess")
                    \cup Guard!When(runs \cup jobs # {}, "failures")
  BY DEF Guard!Observed
<1>2. since \in Int /\ since >= Guard!Window /\ (since = oldest \/ since = v4) /\ Guard!Window \in Int
  BY GuardNumbers DEF Guard!Since, Guard!Window
<1>3. \A e \in runs \cup jobs : e \in Guard!Entries /\ v3[e] # Guard!Never /\ v3[e] >= since
  BY DEF Guard!Logged, Guard!Entries
<1>4. o.issues \in SUBSET Guard!IssueTypes
  BY <1>1 DEF Guard!When, Guard!IssueTypes
<1>5. \A e \in o.seen : v3[e] # Guard!Never /\ v3[e] >= Guard!Window
  <2> HIDE DEF since, runs, jobs
  <2> QED BY <1>1, <1>2, <1>3, GuardNumbers
<1>6. ASSUME o.issues = {}, target # "disabled", NEW e \in Guard!Entries, v3[e] # Guard!Never
      PROVE  v3[e] < oldest \/ v3[e] < v4
  <2>1. runs \cup jobs = {} /\ ~Guard!Unread(target, runOk, jobsOk)
    <3> HIDE DEF runs, jobs
    <3> QED BY <1>1, <1>6 DEF Guard!When
  <2>2. target = "one" /\ runOk /\ jobsOk
    BY <1>6, <2>1 DEF Guard!Unread, Guard!Targets
  <2>3. Guard!Logged(RunEntries, since) = {} /\ Guard!Logged(JobEntries, since) = {}
    BY <2>1, <2>2 DEF Guard!Duplicate
  <2>4. ~(v3[e] >= since)
    BY <1>6, <2>3 DEF Guard!Logged, Guard!Entries
  <2> HIDE DEF since, runs, jobs
  <2> QED BY <1>2, <2>4, GuardNumbers
<1> HIDE DEF runs, jobs
<1> QED BY <1>1, <1>3, <1>4, <1>5, <1>6 DEF GuardReads

\* A repeat was alerted before; what is not a repeat has a failure that was not
\* sent, or a kind of alert that was not sent within the reminder.
LEMMA GuardRepeats ==
  ASSUME Guard!GuardInv, v5 = "on", NEW o, o.seen \in SUBSET Guard!Entries, o.issues \in SUBSET Guard!IssueTypes,
         \A e \in o.seen : v3[e] # Guard!Never /\ v3[e] >= Guard!Window
  PROVE  /\ Guard!Repeat(Guard!Restored, o) =>
              /\ \A e \in o.seen : v8.events[e] # Guard!Never
              /\ v8.issues[o.issues] # Guard!Never /\ v1 - v8.issues[o.issues] < Reminder
         /\ ~Guard!Repeat(Guard!Restored, o) =>
              \/ \E e \in o.seen : v8.events[e] = Guard!Never
              \/ v8.issues[o.issues] = Guard!Never
              \/ v1 - v8.issues[o.issues] >= Reminder
<1>1. v8.issues = v6.issues /\ \A e \in Guard!Entries : v6.events[e] # Guard!Never => v8.events[e] # Guard!Never
  BY DEF Guard!GuardInv, Guard!Remembers, Guard!HeldWasSent
<1>2. /\ Guard!Restored.issues = v6.issues
      /\ \A e \in Guard!Entries : Guard!Restored.events[e] =
           IF v6.events[e] >= v1 - Retention THEN v6.events[e] ELSE Guard!Never
  BY DEF Guard!Restored, Guard!Pruned, Guard!GuardInv, Guard!GuardTyped, Guard!Memory
<1>3. ASSUME NEW e \in o.seen, v8.events[e] # Guard!Never PROVE Guard!Restored.events[e] # Guard!Never
  <2>1. (v6.events[e] # Guard!Never /\ v3[e] <= v6.events[e]) \/ v3[e] < v1 - Retention
    BY <1>3 DEF Guard!GuardInv, Guard!Remembers, Guard!SentIsHeld
  <2>2. v3[e] >= v1 - Retention
    BY LookbackIsRetained, GuardNumbers DEF Guard!Window
  <2>3. v6.events[e] # Guard!Never /\ v6.events[e] >= v1 - Retention
    BY <2>1, <2>2, GuardNumbers
  <2> QED BY <1>2, <2>3
<1>4. v1 \in Int /\ Reminder \in Int /\ v8.issues[o.issues] \in Int
  BY GuardNumbers, OperationsAssumption DEF Guard!GuardInv, Guard!GuardTyped, Guard!Memory, Guard!Times, Guard!Never
<1>5. ~(v1 - v8.issues[o.issues] < Reminder) => v1 - v8.issues[o.issues] >= Reminder
  BY <1>4
<1>6. Guard!Repeat(Guard!Restored, o) =>
              /\ \A e \in o.seen : v8.events[e] # Guard!Never
              /\ v8.issues[o.issues] # Guard!Never /\ v1 - v8.issues[o.issues] < Reminder
  BY <1>1, <1>2 DEF Guard!Repeat, Guard!NewEntries
<1>7. ~Guard!Repeat(Guard!Restored, o) =>
              \/ \E e \in o.seen : v8.events[e] = Guard!Never
              \/ v8.issues[o.issues] = Guard!Never
              \/ v1 - v8.issues[o.issues] >= Reminder
  BY <1>1, <1>2, <1>3, <1>5 DEF Guard!Repeat, Guard!NewEntries
<1> QED BY <1>6, <1>7

\* What a run saves and what it sent keep to each other.
LEMMA GuardSaves ==
  ASSUME Guard!GuardInv, NEW o, o.seen \in SUBSET Guard!Entries, o.issues \in SUBSET Guard!IssueTypes,
         \A e \in o.seen : v3[e] # Guard!Never /\ v3[e] >= Guard!Window,
         v1' = v1, v3' = v3, v5' = v5, v6' = Guard!Saved(o), v8' = Guard!History(o)
  PROVE  v6' \in Guard!Memory /\ v8' \in Guard!Memory /\ Guard!Remembers'
<1>0. /\ v1 \in Guard!Times /\ Guard!Never \in Guard!Times /\ Guard!Never = -1
      /\ v6 \in Guard!Memory /\ v8 \in Guard!Memory
  BY OperationsAssumption DEF Guard!GuardInv, Guard!GuardTyped, Guard!Times, Guard!Never
<1> DEFINE R == Guard!Restored
<1>1. /\ R \in Guard!Memory /\ R.issues = v6.issues
      /\ \A e \in Guard!Entries : R.events[e] = IF v6.events[e] >= v1 - Retention THEN v6.events[e] ELSE Guard!Never
  BY <1>0 DEF Guard!Restored, Guard!Pruned, Guard!Memory
<1>2. Guard!NoIssues \in [SUBSET Guard!IssueTypes -> Guard!Times]
  BY <1>0 DEF Guard!NoIssues
<1>3. /\ Guard!Cleared(R) \in Guard!Memory /\ Guard!Cleared(R).issues = Guard!NoIssues
      /\ Guard!Cleared(R).events = R.events
  <2> HIDE DEF R
  <2> QED BY <1>1, <1>2 DEF Guard!Cleared, Guard!Memory
<1>4. /\ Guard!Recorded(R, o) \in Guard!Memory
      /\ \A e \in Guard!Entries : Guard!Recorded(R, o).events[e] =
           IF e \in o.seen /\ R.events[e] = Guard!Never THEN v1 ELSE R.events[e]
      /\ Guard!Recorded(R, o).issues = IF Guard!Repeat(R, o) THEN R.issues ELSE [R.issues EXCEPT ![o.issues] = v1]
  <2> HIDE DEF R
  <2>1. R.issues \in [SUBSET Guard!IssueTypes -> Guard!Times] /\ R.events \in [Guard!Entries -> Guard!Times]
    BY <1>1 DEF Guard!Memory
  <2>2. [R.issues EXCEPT ![o.issues] = v1] \in [SUBSET Guard!IssueTypes -> Guard!Times]
    BY <1>0, <2>1
  <2>3. [e \in Guard!Entries |-> IF e \in Guard!NewEntries(R, o.seen) THEN v1 ELSE R.events[e]]
          \in [Guard!Entries -> Guard!Times]
    BY <1>0, <2>1
  <2>4. Guard!Recorded(R, o) \in Guard!Memory
    BY <2>1, <2>2, <2>3 DEF Guard!Recorded, Guard!Memory
  <2> QED BY <2>4 DEF Guard!Recorded, Guard!NewEntries
<1>5. v8' \in Guard!Memory
  <2>1. v8.issues \in [SUBSET Guard!IssueTypes -> Guard!Times] /\ v8.events \in [Guard!Entries -> Guard!Times]
    BY <1>0 DEF Guard!Memory
  <2>2. [v8.issues EXCEPT ![o.issues] = v1] \in [SUBSET Guard!IssueTypes -> Guard!Times]
    BY <1>0, <2>1
  <2>3. [e \in Guard!Entries |-> IF e \in o.seen THEN v1 ELSE v8.events[e]] \in [Guard!Entries -> Guard!Times]
    BY <1>0, <2>1
  <2>4. [v8 EXCEPT !.issues = Guard!NoIssues] \in Guard!Memory
    BY <1>0, <1>2 DEF Guard!Memory
  <2>5. [events |-> [e \in Guard!Entries |-> IF e \in o.seen THEN v1 ELSE v8.events[e]],
         issues |-> [v8.issues EXCEPT ![o.issues] = v1]] \in Guard!Memory
    BY <2>2, <2>3 DEF Guard!Memory
  <2> QED BY <1>0, <2>4, <2>5 DEF Guard!History
<1>6. v6' \in Guard!Memory
  BY <1>0, <1>3, <1>4 DEF Guard!Saved
<1>7. ASSUME v5 = "on" PROVE Guard!SentIsHeld' /\ Guard!HeldWasSent'
  <2>0. /\ v8.issues = v6.issues
        /\ \A e \in Guard!Entries : v6.events[e] # Guard!Never => v8.events[e] # Guard!Never
        /\ \A e \in Guard!Entries : v8.events[e] # Guard!Never =>
             /\ v3[e] # Guard!Never
             /\ (v6.events[e] # Guard!Never /\ v3[e] <= v6.events[e]) \/ v3[e] < v1 - Retention
    BY <1>7 DEF Guard!GuardInv, Guard!Remembers, Guard!HeldWasSent, Guard!SentIsHeld
  \* What is restored was sent, and what was sent is restored or out of reach.
  <2>1. \A e \in Guard!Entries : R.events[e] # Guard!Never => v8.events[e] # Guard!Never
    BY <1>1, <2>0
  <2>2. \A e \in Guard!Entries : v8.events[e] # Guard!Never =>
          v3[e] # Guard!Never /\ ((R.events[e] # Guard!Never /\ v3[e] <= R.events[e]) \/ v3[e] < v1 - Retention)
    BY <1>1, <2>0, GuardNumbers
  <2>3. CASE Guard!Outcome(o) = "healthy"
    <3>1. /\ v6'.events = R.events /\ v6'.issues = Guard!NoIssues
          /\ v8'.events = v8.events /\ v8'.issues = Guard!NoIssues
      <4>1. v6' = Guard!Cleared(R) /\ v8' = [v8 EXCEPT !.issues = Guard!NoIssues]
        BY <1>7, <2>3 DEF Guard!Saved, Guard!History
      <4> HIDE DEF R
      <4> QED BY <1>0, <1>3, <4>1 DEF Guard!Memory
    <3> HIDE DEF R
    <3> QED BY <2>1, <2>2, <3>1 DEF Guard!SentIsHeld, Guard!HeldWasSent, Guard!Never
  <2>4. CASE Guard!Outcome(o) = "suppresses"
    <3>1. Guard!Repeat(R, o) /\ v6' = Guard!Recorded(R, o) /\ v8' = v8
      BY <1>7, <2>4 DEF Guard!Saved, Guard!History, Guard!Outcome
    <3>2. \A e \in o.seen : R.events[e] # Guard!Never
      BY <3>1 DEF Guard!Repeat, Guard!NewEntries
    <3>3. v6'.issues = v6.issues /\ \A e \in Guard!Entries : v6'.events[e] = R.events[e]
      <4> HIDE DEF R
      <4> QED BY <1>1, <1>4, <3>1, <3>2
    <3> HIDE DEF R
    <3> QED BY <2>0, <2>1, <2>2, <3>1, <3>3 DEF Guard!SentIsHeld, Guard!HeldWasSent, Guard!Never
  <2>5. CASE Guard!Outcome(o) = "alerts"
    <3>1. ~Guard!Repeat(R, o) /\ v6' = Guard!Recorded(R, o)
      BY <1>7, <2>5 DEF Guard!Saved, Guard!Outcome
    <3>2. v8' = [events |-> [e \in Guard!Entries |-> IF e \in o.seen THEN v1 ELSE v8.events[e]],
                 issues |-> [v8.issues EXCEPT ![o.issues] = v1]]
      BY <2>5 DEF Guard!History
    <3> HIDE DEF R
    <3>3. v6'.issues = v8'.issues
      BY <1>1, <1>4, <2>0, <3>1, <3>2
    <3>4. \A e \in Guard!Entries : /\ v6'.events[e] = IF e \in o.seen /\ R.events[e] = Guard!Never THEN v1 ELSE R.events[e]
                                   /\ v8'.events[e] = IF e \in o.seen THEN v1 ELSE v8.events[e]
      BY <1>4, <3>1, <3>2
    <3>5. v1 # Guard!Never /\ \A e \in Guard!Entries : v3[e] <= v1
      BY GuardNumbers, <1>0 DEF Guard!GuardInv, Guard!GuardTyped, Guard!LoggedBefore
    <3>6. Guard!HeldWasSent'
      BY <2>1, <3>3, <3>4, <3>5 DEF Guard!HeldWasSent, Guard!Never
    <3>7. Guard!SentIsHeld'
      <4> SUFFICES ASSUME NEW e \in Guard!Entries, v8'.events[e] # Guard!Never
                   PROVE  /\ v3[e] # Guard!Never
                          /\ (v6'.events[e] # Guard!Never /\ v3[e] <= v6'.events[e]) \/ v3[e] < v1 - Retention
        BY DEF Guard!SentIsHeld, Guard!Never
      <4>1. CASE e \in o.seen /\ R.events[e] = Guard!Never
        BY <3>4, <3>5, <4>1
      <4>2. CASE e \in o.seen /\ R.events[e] # Guard!Never
        BY <2>1, <2>2, <3>4, <4>2
      <4>3. CASE e \notin o.seen
        BY <2>2, <3>4, <4>3
      <4> QED BY <4>1, <4>2, <4>3
    <3> QED BY <3>6, <3>7
  <2> QED BY <2>3, <2>4, <2>5 DEF Guard!Outcome
<1> QED BY <1>5, <1>6, <1>7 DEF Guard!Remembers

\* One run of the guard, whatever it could read and whether the cache is saved.
LEMMA GuardRuns ==
  ASSUME Guard!GuardInv, Guard!GuardRun
  PROVE  Guard!GuardInv' /\ Guard!RepeatHasReason
<1>1. PICK target \in Guard!Targets, oldest \in {Guard!Window, v1}, known \in BOOLEAN, runOk \in BOOLEAN,
           jobsOk \in BOOLEAN, idle \in BOOLEAN, saves \in BOOLEAN :
        LET o == Guard!Observed(target, known, oldest, runOk, jobsOk, idle) IN
        /\ v7' = [target |-> target, issues |-> o.issues, seen |-> o.seen, oldest |-> oldest, does |-> Guard!Outcome(o)]
        /\ v6' = IF saves THEN Guard!Saved(o) ELSE v6
        /\ v8' = IF saves THEN Guard!History(o) ELSE v8
  BY DEF Guard!GuardRun
<1> DEFINE o == Guard!Observed(target, known, oldest, runOk, jobsOk, idle)
<1>2. o = Guard!Observed(target, known, oldest, runOk, jobsOk, idle)
  OBVIOUS
<1>3. /\ v7' = [target |-> target, issues |-> o.issues, seen |-> o.seen, oldest |-> oldest, does |-> Guard!Outcome(o)]
      /\ v6' = IF saves THEN Guard!Saved(o) ELSE v6
      /\ v8' = IF saves THEN Guard!History(o) ELSE v8
  BY <1>1
<1> HIDE DEF o
<1>a. /\ o.seen \in SUBSET Guard!Entries /\ o.issues \in SUBSET Guard!IssueTypes
      /\ \A e \in o.seen : v3[e] # Guard!Never /\ v3[e] >= Guard!Window
      /\ o.issues = {} /\ target # "disabled" =>
           \A e \in Guard!Entries : v3[e] # Guard!Never => v3[e] < oldest \/ v3[e] < v4
  <2>1. /\ target \in Guard!Targets /\ oldest \in {Guard!Window, v1} /\ known \in BOOLEAN /\ runOk \in BOOLEAN
        /\ jobsOk \in BOOLEAN /\ idle \in BOOLEAN
    BY <1>1
  <2>2. GuardReads(o, target, oldest)
    BY <1>2, <2>1, GuardObserves
  <2> QED BY <2>2 DEF GuardReads
<1>4. v1' = v1 /\ v2' = TRUE /\ v3' = v3 /\ v4' = v4 /\ v5' = v5 /\ ~v2
  BY DEF Guard!GuardRun
<1>5. v6' \in Guard!Memory /\ v8' \in Guard!Memory /\ Guard!Remembers'
  <2>1. CASE saves
    BY <1>a, <1>3, <1>4, <2>1, GuardSaves
  <2>2. CASE ~saves
    BY <1>3, <1>4, <2>2 DEF Guard!GuardInv, Guard!GuardTyped, Guard!Remembers, Guard!SentIsHeld, Guard!HeldWasSent,
       Guard!Never
  <2> QED BY <2>1, <2>2
<1>6. Guard!GuardTyped'
  BY <1>4, <1>5 DEF Guard!GuardInv, Guard!GuardTyped, Guard!LoggedBefore
<1>7. Guard!HealthyMeansQuiet'
  BY <1>a, <1>3, <1>4 DEF Guard!HealthyMeansQuiet, Guard!Outcome, Guard!Never
<1>8. Guard!SuppressedWasAlerted'
  <2> SUFFICES ASSUME Guard!Outcome(o) = "suppresses"
               PROVE  /\ \A e \in o.seen : v8'.events[e] # Guard!Never
                      /\ v8'.issues[o.issues] # Guard!Never /\ v1 - v8'.issues[o.issues] < Reminder
    BY <1>3, <1>4 DEF Guard!SuppressedWasAlerted, Guard!Never
  <2>1. v5 = "on" /\ Guard!Repeat(Guard!Restored, o) /\ v8' = v8
    BY <1>3 DEF Guard!Outcome, Guard!History
  <2> QED BY <1>a, <2>1, GuardRepeats
<1>9. Guard!RepeatHasReason
  <2> SUFFICES ASSUME v5 = "on", Guard!Outcome(o) = "alerts"
               PROVE  \/ \E e \in o.seen : v8.events[e] = Guard!Never
                      \/ v8.issues[o.issues] = Guard!Never
                      \/ v1 - v8.issues[o.issues] >= Reminder
    BY <1>3 DEF Guard!RepeatHasReason
  <2>1. ~Guard!Repeat(Guard!Restored, o)
    BY DEF Guard!Outcome
  <2> QED BY <1>a, <2>1, GuardRepeats
<1> QED BY <1>5, <1>6, <1>7, <1>8, <1>9 DEF Guard!GuardInv

\* The steps around the guard: the cache goes, a failure is logged, a revision
\* becomes Ready and the interval passes.
LEMMA GuardAround ==
  ASSUME Guard!GuardInv, Guard!CacheGone \/ Guard!LogEntry \/ Guard!NewRevision \/ Guard!Tick
  PROVE  Guard!GuardInv' /\ Guard!RepeatHasReason
<1>0. /\ v1 \in 0..GuardEnd /\ v1 \in Guard!Times /\ Guard!Never \in Guard!Times /\ Guard!Never = -1
      /\ v3 \in [Guard!Entries -> Guard!Times] /\ Guard!LoggedBefore
  BY OperationsAssumption DEF Guard!GuardInv, Guard!GuardTyped, Guard!Times, Guard!Never
<1>1. ~v2'
  BY DEF Guard!CacheGone, Guard!LogEntry, Guard!NewRevision, Guard!Tick
<1>2. Guard!HealthyMeansQuiet' /\ Guard!SuppressedWasAlerted' /\ Guard!RepeatHasReason
  BY <1>1 DEF Guard!HealthyMeansQuiet, Guard!SuppressedWasAlerted, Guard!RepeatHasReason
<1>3. CASE Guard!CacheGone
  <2>1. Guard!NoStore \in Guard!Memory /\ \A e \in Guard!Entries : Guard!NoStore.events[e] = Guard!Never
    BY <1>0 DEF Guard!NoStore, Guard!Memory, Guard!NoEvents, Guard!NoIssues
  <2>2. Guard!GuardTyped'
    BY <1>3, <2>1 DEF Guard!CacheGone, Guard!GuardInv, Guard!GuardTyped, Guard!LoggedBefore
  <2>3. Guard!Remembers'
    BY <1>3, <2>1 DEF Guard!CacheGone, Guard!Remembers, Guard!SentIsHeld, Guard!HeldWasSent, Guard!Never
  <2> QED BY <1>2, <2>2, <2>3 DEF Guard!GuardInv
<1>4. CASE Guard!LogEntry
  <2>1. PICK x \in Guard!Entries : v3[x] = Guard!Never /\ v3' = [v3 EXCEPT ![x] = v1]
    BY <1>4 DEF Guard!LogEntry
  <2>2. v3' \in [Guard!Entries -> Guard!Times] /\ \A e \in Guard!Entries : v3'[e] = IF e = x THEN v1 ELSE v3[e]
    BY <1>0, <2>1
  <2>3. v1' = v1 /\ v2' = v2 /\ v4' = v4 /\ v5' = v5 /\ v6' = v6 /\ v8' = v8
    BY <1>4 DEF Guard!LogEntry
  <2>4. Guard!GuardTyped'
    BY <1>0, <2>2, <2>3 DEF Guard!GuardInv, Guard!GuardTyped, Guard!LoggedBefore
  <2>5. Guard!Remembers'
    BY <2>1, <2>2, <2>3 DEF Guard!GuardInv, Guard!Remembers, Guard!SentIsHeld, Guard!HeldWasSent, Guard!Never
  <2> QED BY <1>2, <2>4, <2>5 DEF Guard!GuardInv
<1>5. CASE Guard!NewRevision
  BY <1>0, <1>2, <1>5 DEF Guard!NewRevision, Guard!GuardInv, Guard!GuardTyped, Guard!LoggedBefore, Guard!Remembers,
     Guard!SentIsHeld, Guard!HeldWasSent, Guard!Never
<1>6. CASE Guard!Tick
  <2>1. v1' = v1 + 1 /\ v1' \in 0..GuardEnd
    BY <1>0, <1>6, OperationsAssumption DEF Guard!Tick
  <2>2. v3' = v3 /\ v4' = v4 /\ v5' = v5 /\ v6' = v6 /\ v8' = v8 /\ v2' = FALSE
    BY <1>6 DEF Guard!Tick
  <2>a. \A e \in Guard!Entries : v3[e] <= v1'
    BY <1>0, <2>1, GuardNumbers DEF Guard!LoggedBefore
  <2>3. Guard!GuardTyped'
    BY <2>1, <2>2, <2>a DEF Guard!GuardInv, Guard!GuardTyped, Guard!LoggedBefore
  <2>4. \A e \in Guard!Entries : v3[e] < v1 - Retention => v3[e] < v1' - Retention
    BY <2>1, GuardNumbers
  <2>5. Guard!Remembers'
    BY <2>2, <2>4 DEF Guard!GuardInv, Guard!Remembers, Guard!SentIsHeld, Guard!HeldWasSent, Guard!Never
  <2> QED BY <1>2, <2>3, <2>5 DEF Guard!GuardInv
<1> QED BY <1>3, <1>4, <1>5, <1>6

\* The invariant of the guard holds in every behaviour.
LEMMA GuardInvariant == OperationsSpec => [](Is("guard") => Guard!GuardInv)
<1> DEFINE Inv == Is("guard") => Guard!GuardInv
<1>1. OperationsInit => Inv
  BY GuardSteps, GuardInit
<1>2. Inv /\ [OperationsNext]_operations => Inv'
  <2> SUFFICES ASSUME Inv, [OperationsNext]_operations, Is("guard")' PROVE Guard!GuardInv'
    OBVIOUS
  <2>1. Guard!GuardInv /\ [Guard!Next]_<<v1, v2, v3, v4, v5, v6, v7, v8>>
    BY GuardSteps
  <2>2. CASE UNCHANGED <<v1, v2, v3, v4, v5, v6, v7, v8>>
    BY <2>1, <2>2 DEF Guard!GuardInv, Guard!GuardTyped, Guard!LoggedBefore, Guard!Remembers, Guard!SentIsHeld,
       Guard!HeldWasSent, Guard!HealthyMeansQuiet, Guard!SuppressedWasAlerted, Guard!Never
  <2> QED BY <2>1, <2>2, GuardRuns, GuardAround DEF Guard!Next
<1> QED BY <1>1, <1>2, PTL DEF OperationsSpec

\* "Healthy" is said only when no failure was there to be read, what decide()
\* suppresses was alerted within the reminder, and an alert repeats only for a
\* reason (cloud_run_runtime_guard.main, runtime_guard_alert_dedupe.decide), for
\* any failures and any lookback that the retention covers.
THEOREM GuardSaysItOnceHolds == OperationsSpec => GuardSaysItOnce
<1> DEFINE Inv == Is("guard") => Guard!GuardInv
           Reasoned == Is("guard") => Guard!RepeatHasReason
<1>1. OperationsSpec => []Inv
  BY GuardInvariant
<1>2. Inv /\ [OperationsNext]_operations => [Reasoned]_componentVars
  <2> SUFFICES ASSUME Inv, OperationsNext, Is("guard") PROVE Guard!RepeatHasReason
    BY DEF operations, componentVars
  <2>1. Guard!Next
    BY DEF OperationsNext, Is
  <2> QED BY <2>1, GuardRuns, GuardAround DEF Guard!Next
<1>3. Inv => (Is("guard") => Guard!HealthyMeansQuiet /\ Guard!SuppressedWasAlerted)
  BY DEF Guard!GuardInv
<1> QED BY <1>1, <1>2, <1>3, PTL DEF OperationsSpec, GuardSaysItOnce

-----------------------------------------------------------------------------
(* The paper application: v1 is record, v2 revisions, v3 serving, v4 jobs, *)
(* v5 receipts, v6 run, v7 unsettled and v8 unheld.  Revisions are only    *)
(* added, so a receipt stays one of a bound revision (ReceiptsAreBound),   *)
(* and a run posts the application of the receipt it found                 *)
(* (PostsAfterReceipt).  What is bound was claimed before (UnheldInv).     *)

\* A behaviour of the application begins and goes on as one.
LEMMA CandidateSteps ==
  /\ OperationsInit /\ Is("candidate") => Candidate!Init
  /\ [OperationsNext]_operations /\ Is("candidate")' =>
       Is("candidate") /\ [Candidate!Next]_<<v1, v2, v3, v4, v5, v6, v7, v8>>
<1>1. OperationsInit /\ Is("candidate") => Candidate!Init
  BY DEF OperationsInit, Is
<1>2. [OperationsNext]_operations /\ Is("candidate")' =>
        Is("candidate") /\ [Candidate!Next]_<<v1, v2, v3, v4, v5, v6, v7, v8>>
  BY DEF OperationsNext, operations, componentVars, varsFrom3, Is
<1> QED BY <1>1, <1>2

\* At first every application is approved and none is bound.
LEMMA CandidateInit == ASSUME Candidate!Init PROVE Candidate!CandidateInv
<1>1. v2 \in Seq(Candidate!Template) /\ Len(v2) = 1
  BY DEF Candidate!Init, Candidate!Template, Candidate!Template0
<1>2. v6 = [pc |-> "idle", app |-> Candidate!NoApp, revision |-> 0]
  BY DEF Candidate!Init, Candidate!Idle
<1>3. v1 \in [Apps -> Candidate!Record] /\ \A a \in Apps : v1[a].status = "approved"
  BY DEF Candidate!Init, Candidate!Record
<1>4. Candidate!CandidateTyped
  BY <1>1, <1>2, <1>3 DEF Candidate!CandidateTyped
<1>5. Candidate!RunHasApp /\ Candidate!PostsAfterReceipt
  BY <1>2 DEF Candidate!RunHasApp, Candidate!PostsAfterReceipt
<1>6. Candidate!ReceiptsAreBound /\ Candidate!AppliedWasLoaded /\ Candidate!ClaimIsSettled
  BY <1>3 DEF Candidate!Init, Candidate!ReceiptsAreBound, Candidate!AppliedWasLoaded, Candidate!ClaimIsSettled
<1> QED BY <1>4, <1>5, <1>6 DEF Candidate!CandidateInv

\* At first no claim was made and nothing is bound.
LEMMA UnheldInit == ASSUME Candidate!Init PROVE Candidate!UnheldInv
  BY DEF Candidate!Init, Candidate!Idle, Candidate!Template0, Candidate!UnheldInv, Candidate!BoundAreClaimed,
     Candidate!UnheldDeploysNothing

\* A template that is added is the last one and leaves the others.
LEMMA CandidateCreates ==
  ASSUME Candidate!CandidateTyped, NEW template \in Candidate!Template, Candidate!Create(template)
  PROVE  /\ v2' \in Seq(Candidate!Template) /\ Len(v2') = Len(v2) + 1 /\ v2'[Len(v2')] = template
         /\ \A r \in DOMAIN v2 : r \in DOMAIN v2' /\ v2'[r] = v2[r]
<1>1. v2 \in Seq(Candidate!Template) /\ v2' = Append(v2, template)
  BY DEF Candidate!CandidateTyped, Candidate!Create
<1> QED BY <1>1

\* What the service and the run may do to what is settled: revisions and
\* receipts stay, and a claim that is left is settled by its run.
LEMMA CandidateKeeps ==
  ASSUME Candidate!CandidateInv, Candidate!CandidateTyped', Candidate!RunHasApp', Candidate!PostsAfterReceipt',
         \A r \in DOMAIN v2 : r \in DOMAIN v2' /\ v2'[r] = v2[r],
         v5' = v5,
         \A a \in Apps : v1'[a].status = "applied_paused" =>
           v1[a].status = "applied_paused" \/ \E e \in v5 : e.app = a,
         \A a \in Apps : v1'[a].status = "claimed" /\ v6'.app # a => a \in v7' \cup v8'
  PROVE  Candidate!CandidateInv'
<1>1. Candidate!ReceiptsAreBound'
  BY DEF Candidate!CandidateInv, Candidate!ReceiptsAreBound
<1>2. Candidate!AppliedWasLoaded'
  <2> SUFFICES ASSUME NEW a \in Apps, v1'[a].status = "applied_paused"
               PROVE  \E e \in v5 : e.app = a /\ v2'[e.revision] = [bound |-> a, enabled |-> FALSE]
    BY DEF Candidate!AppliedWasLoaded
  <2>1. \A e \in v5 : e.revision \in DOMAIN v2 /\ v2'[e.revision] = v2[e.revision]
                      /\ v2[e.revision] = [bound |-> e.app, enabled |-> FALSE]
    BY DEF Candidate!CandidateInv, Candidate!ReceiptsAreBound
  <2>2. CASE v1[a].status = "applied_paused"
    BY <2>1, <2>2 DEF Candidate!CandidateInv, Candidate!AppliedWasLoaded
  <2>3. CASE \E e \in v5 : e.app = a
    BY <2>1, <2>3
  <2> QED BY <2>2, <2>3
<1>3. Candidate!ClaimIsSettled'
  BY DEF Candidate!ClaimIsSettled
<1> QED BY <1>1, <1>2, <1>3 DEF Candidate!CandidateInv

\* A step of the run that leaves the records and goes on with its application,
\* or ends with it unsettled.
LEMMA CandidateGoesOn ==
  ASSUME Candidate!CandidateInv, v1' = v1, v5' = v5, v2' \in Seq(Candidate!Template), Len(v2') >= 1,
         \A r \in DOMAIN v2 : r \in DOMAIN v2' /\ v2'[r] = v2[r],
         v6' \in [pc : {"idle", "build", "pause", "shift", "verify", "post", "failed", "sync"},
                  app : Apps \cup {Candidate!NoApp}, revision : Nat],
         Candidate!RunHasApp', Candidate!PostsAfterReceipt',
         v7 \subseteq v7', v8' = v8, v6'.app = v6.app \/ v6.app \in v7' \/ v6.app = Candidate!NoApp
  PROVE  Candidate!CandidateInv'
<1>1. Candidate!CandidateTyped'
  BY DEF Candidate!CandidateInv, Candidate!CandidateTyped
<1>2. \A a \in Apps : v1'[a].status = "claimed" /\ v6'.app # a => a \in v7' \cup v8'
  BY OperationsAssumption DEF Candidate!CandidateInv, Candidate!ClaimIsSettled
<1> QED BY <1>1, <1>2, CandidateKeeps

\* A claim that is accepted begins a run, or no run holds it.
LEMMA CandidateClaim ==
  ASSUME Candidate!CandidateInv, NEW a \in Apps, Candidate!Claim(a) PROVE Candidate!CandidateInv'
<1> DEFINE claimed == [v1[a] EXCEPT !.status = "claimed"]
<1>1. v1 \in [Apps -> Candidate!Record] /\ v1[a] \in Candidate!Record
  BY DEF Candidate!CandidateInv, Candidate!CandidateTyped
<1>2. claimed \in Candidate!Record /\ claimed.status = "claimed"
  BY <1>1 DEF Candidate!Record
<1>3. v1' \in [Apps -> Candidate!Record] /\ \A b \in Apps : v1'[b] = IF b = a THEN claimed ELSE v1[b]
  BY <1>1, <1>2 DEF Candidate!Claim
<1> HIDE DEF claimed
<1>4. /\ v2' = v2 /\ v5' = v5 /\ v7' = v7 /\ v6 = Candidate!Idle
      /\ \/ v6' = [Candidate!Idle EXCEPT !.pc = "build", !.app = a] /\ v8' = v8
         \/ v6' = Candidate!Idle /\ v8' = v8 \cup {a}
  BY DEF Candidate!Claim
<1>5. /\ v6' = [pc |-> "idle", app |-> Candidate!NoApp, revision |-> 0] \/ v6' = [pc |-> "build", app |-> a, revision |-> 0]
      /\ v6'.app = a \/ a \in v8'
      /\ v8 \subseteq v8'
      /\ v6.app = Candidate!NoApp
  BY <1>4 DEF Candidate!Idle
<1>6. Candidate!RunHasApp' /\ Candidate!PostsAfterReceipt'
  BY <1>5 DEF Candidate!RunHasApp, Candidate!PostsAfterReceipt, Candidate!NoApp
<1>7. Candidate!CandidateTyped'
  BY <1>3, <1>4, <1>5 DEF Candidate!CandidateInv, Candidate!CandidateTyped
<1>8. \A b \in Apps : v1'[b].status = "claimed" /\ v6'.app # b => b \in v7' \cup v8'
  <2> SUFFICES ASSUME NEW b \in Apps, v1'[b].status = "claimed", v6'.app # b PROVE b \in v7' \cup v8'
    OBVIOUS
  <2>1. CASE b = a
    BY <1>2, <1>3, <1>5, <2>1
  <2>2. CASE b # a
    BY <1>3, <1>4, <1>5, <2>2, OperationsAssumption DEF Candidate!CandidateInv, Candidate!ClaimIsSettled
  <2> QED BY <2>1, <2>2
<1>9. \A b \in Apps : v1'[b].status = "applied_paused" => v1[b].status = "applied_paused"
  BY <1>2, <1>3
<1> QED BY <1>4, <1>6, <1>7, <1>8, <1>9, CandidateKeeps

\* What a run is like after a step that sets where it stands.
LEMMA CandidateMoves ==
  ASSUME Candidate!CandidateTyped,
         NEW place \in {"idle", "build", "pause", "shift", "verify", "post", "failed", "sync"}, NEW n \in Nat,
         v6' = [v6 EXCEPT !.pc = place] \/ v6' = [v6 EXCEPT !.pc = place, !.revision = n]
  PROVE  /\ v6' \in [pc : {"idle", "build", "pause", "shift", "verify", "post", "failed", "sync"},
                     app : Apps \cup {Candidate!NoApp}, revision : Nat]
         /\ v6'.pc = place /\ v6'.app = v6.app
         /\ v6' = [v6 EXCEPT !.pc = place] => v6'.revision = v6.revision
  BY DEF Candidate!CandidateTyped

\* The steps of a run up to its result.
LEMMA CandidateRun ==
  ASSUME Candidate!CandidateInv,
         \/ Candidate!Build \/ Candidate!Update \/ Candidate!Shift \/ Candidate!Verify
         \/ \E j \in Candidate!Jobs : Candidate!PauseJob(j)
  PROVE  Candidate!CandidateInv' /\ Candidate!BoundIsNotSyncedAway
<1>0. /\ Candidate!CandidateTyped /\ v2 \in Seq(Candidate!Template) /\ Len(v2) >= 1
      /\ v6.pc \in {"build", "pause", "shift", "verify"} => v6.app \in Apps
      /\ v6 \in [pc : {"idle", "build", "pause", "shift", "verify", "post", "failed", "sync"},
                 app : Apps \cup {Candidate!NoApp}, revision : Nat]
  BY DEF Candidate!CandidateInv, Candidate!CandidateTyped, Candidate!RunHasApp
<1>1. CASE Candidate!Build \/ Candidate!Shift \/ Candidate!Verify
  <2>1. PICK place \in {"pause", "verify", "post"} :
          /\ v6' = [v6 EXCEPT !.pc = place] /\ v6.pc \in {"build", "shift", "verify"}
          /\ place = "post" => Candidate!Found # {}
    BY <1>1 DEF Candidate!Build, Candidate!Shift, Candidate!Verify
  <2>2. /\ v6' \in [pc : {"idle", "build", "pause", "shift", "verify", "post", "failed", "sync"},
                    app : Apps \cup {Candidate!NoApp}, revision : Nat]
        /\ v6'.pc = place /\ v6'.app = v6.app /\ v6'.revision = v6.revision
    BY <1>0, <2>1, CandidateMoves
  <2>3. v1' = v1 /\ v2' = v2 /\ v5' = v5 /\ v7' = v7 /\ v8' = v8
    BY <1>1 DEF Candidate!Build, Candidate!Shift, Candidate!Verify
  <2>4. Candidate!RunHasApp'
    BY <1>0, <2>1, <2>2 DEF Candidate!RunHasApp
  <2>5. Candidate!PostsAfterReceipt'
    BY <2>1, <2>2, <2>3 DEF Candidate!PostsAfterReceipt, Candidate!Found
  <2>6. Candidate!CandidateInv'
    BY <1>0, <2>2, <2>3, <2>4, <2>5, CandidateGoesOn
  <2> QED BY <2>3, <2>6 DEF Candidate!BoundIsNotSyncedAway
<1>2. CASE Candidate!Update
  <2> DEFINE template == [bound |-> v6.app, enabled |-> FALSE]
  <2>1. v6.pc = "pause" /\ v6.app \in Apps /\ template \in Candidate!Template /\ Candidate!Create(template)
    BY <1>0, <1>2 DEF Candidate!Update, Candidate!Template
  <2>2. /\ v2' \in Seq(Candidate!Template) /\ Len(v2') = Len(v2) + 1 /\ v2'[Len(v2')] = template
        /\ \A r \in DOMAIN v2 : r \in DOMAIN v2' /\ v2'[r] = v2[r]
    BY <1>0, <2>1, CandidateCreates
  <2>3. v6' = [v6 EXCEPT !.pc = "shift", !.revision = Len(v2')] /\ Len(v2') \in Nat /\ Len(v2') >= 1
    BY <1>0, <1>2, <2>2 DEF Candidate!Update
  <2>4. /\ v6' \in [pc : {"idle", "build", "pause", "shift", "verify", "post", "failed", "sync"},
                    app : Apps \cup {Candidate!NoApp}, revision : Nat]
        /\ v6'.pc = "shift" /\ v6'.app = v6.app
    BY <1>0, <2>3, CandidateMoves
  <2>5. Candidate!RunHasApp' /\ Candidate!PostsAfterReceipt'
    BY <2>1, <2>4 DEF Candidate!RunHasApp, Candidate!PostsAfterReceipt
  <2>6. v1' = v1 /\ v5' = v5 /\ v7' = v7 /\ v8' = v8
    BY <1>2 DEF Candidate!Update
  <2>7. Candidate!CandidateInv'
    BY <2>2, <2>3, <2>4, <2>5, <2>6, CandidateGoesOn
  <2>8. Candidate!BoundIsNotSyncedAway
    BY <2>1, <2>2, OperationsAssumption DEF Candidate!BoundIsNotSyncedAway
  <2> QED BY <2>7, <2>8
<1>3. ASSUME NEW j \in Candidate!Jobs, Candidate!PauseJob(j)
      PROVE  Candidate!CandidateInv' /\ Candidate!BoundIsNotSyncedAway
  <2>1. v1' = v1 /\ v2' = v2 /\ v5' = v5 /\ v6' = v6 /\ v7' = v7 /\ v8' = v8
    BY <1>3 DEF Candidate!PauseJob
  <2>2. Candidate!RunHasApp' /\ Candidate!PostsAfterReceipt'
    BY <2>1 DEF Candidate!CandidateInv, Candidate!RunHasApp, Candidate!PostsAfterReceipt, Candidate!Found
  <2> QED BY <1>0, <2>1, <2>2, CandidateGoesOn DEF Candidate!BoundIsNotSyncedAway
<1> QED BY <1>1, <1>2, <1>3

\* A process of a bound revision says that it loaded it.
LEMMA CandidateStart ==
  ASSUME Candidate!CandidateInv, NEW r \in 1..MaxRevisions, Candidate!Start(r)
  PROVE  Candidate!CandidateInv' /\ Candidate!BoundIsNotSyncedAway
<1>1. /\ v1' = v1 /\ v2' = v2 /\ v6' = v6 /\ v7' = v7 /\ v8' = v8 /\ v5 \subseteq v5'
      /\ v5' = v5 \cup {[app |-> v2[r].bound, revision |-> r]} /\ r \in DOMAIN v2 /\ ~v2[r].enabled
  BY DEF Candidate!Start, Candidate!Loads
<1>2. v2[r] \in Candidate!Template
  BY <1>1 DEF Candidate!CandidateInv, Candidate!CandidateTyped
<1>3. v2[r] = [bound |-> v2[r].bound, enabled |-> FALSE]
  BY <1>1, <1>2 DEF Candidate!Template
<1>4. Candidate!ReceiptsAreBound'
  <2> DEFINE new == [app |-> v2[r].bound, revision |-> r]
  <2>1. new.app = v2[r].bound /\ new.revision = r
    OBVIOUS
  <2> SUFFICES ASSUME NEW e \in v5'
               PROVE  e.revision \in DOMAIN v2 /\ v2[e.revision] = [bound |-> e.app, enabled |-> FALSE]
    BY <1>1 DEF Candidate!ReceiptsAreBound
  <2>2. CASE e \in v5
    BY <2>2 DEF Candidate!CandidateInv, Candidate!ReceiptsAreBound
  <2>3. CASE e = new
    BY <1>1, <1>3, <2>1, <2>3
  <2> HIDE DEF new
  <2> QED BY <1>1, <2>2, <2>3 DEF new
<1>5. Candidate!CandidateTyped' /\ Candidate!RunHasApp' /\ Candidate!ClaimIsSettled'
  BY <1>1 DEF Candidate!CandidateInv, Candidate!CandidateTyped, Candidate!RunHasApp, Candidate!ClaimIsSettled
<1>6. Candidate!PostsAfterReceipt'
  BY <1>1 DEF Candidate!CandidateInv, Candidate!PostsAfterReceipt, Candidate!Found
<1>7. Candidate!AppliedWasLoaded'
  BY <1>1 DEF Candidate!CandidateInv, Candidate!AppliedWasLoaded
<1> QED BY <1>1, <1>4, <1>5, <1>6, <1>7 DEF Candidate!CandidateInv, Candidate!BoundIsNotSyncedAway

\* The results of a run: applied, failed and uncertain, or cancelled.
LEMMA CandidateEnds ==
  ASSUME Candidate!CandidateInv, Candidate!Post \/ Candidate!PostUncertain \/ Candidate!Cancel
  PROVE  Candidate!CandidateInv' /\ Candidate!BoundIsNotSyncedAway
<1> DEFINE a == v6.app
           Runs == [pc : {"idle", "build", "pause", "shift", "verify", "post", "failed", "sync"},
                    app : Apps \cup {Candidate!NoApp}, revision : Nat]
<1>0. /\ v2' = v2 /\ v5' = v5 /\ v8' = v8 /\ Candidate!CandidateTyped
      /\ v1 \in [Apps -> Candidate!Record] /\ v2 \in Seq(Candidate!Template) /\ Len(v2) >= 1
      /\ v6 \in Runs
      /\ v6.pc \in {"post", "failed"} => a \in Apps
  BY DEF Candidate!Post, Candidate!PostUncertain, Candidate!Cancel, Candidate!CandidateInv,
     Candidate!CandidateTyped, Candidate!RunHasApp
<1>1. Candidate!BoundIsNotSyncedAway
  BY <1>0 DEF Candidate!BoundIsNotSyncedAway
<1>2. /\ Candidate!Idle \in Runs /\ Candidate!Idle.pc = "idle" /\ Candidate!Idle.app = Candidate!NoApp
  BY DEF Candidate!Idle
<1>3. /\ v6' = Candidate!Idle \/ (v6' = [v6 EXCEPT !.pc = "failed"] /\ v6.pc = "post")
      /\ v6' \in Runs /\ (v6' = Candidate!Idle \/ (v6'.pc = "failed" /\ v6'.app = a /\ a \in Apps))
  <2>1. v6' = Candidate!Idle \/ (v6' = [v6 EXCEPT !.pc = "failed"] /\ v6.pc = "post")
    BY DEF Candidate!Post, Candidate!PostUncertain, Candidate!Cancel
  <2>2. CASE v6' = [v6 EXCEPT !.pc = "failed"] /\ v6.pc = "post"
    <3>1. v6' \in Runs /\ v6'.pc = "failed" /\ v6'.app = a
      BY <1>0, <2>2, CandidateMoves
    <3> QED BY <1>0, <2>1, <2>2, <3>1
  <2> QED BY <1>2, <2>1, <2>2
<1>4. Candidate!RunHasApp' /\ Candidate!PostsAfterReceipt'
  BY <1>2, <1>3 DEF Candidate!RunHasApp, Candidate!PostsAfterReceipt
<1>5. ASSUME NEW status \in {"applied_paused", "uncertain"}, a \in Apps,
             v1' = [v1 EXCEPT ![a].status = status], v7' = v7,
             status = "applied_paused" => v6.pc = "post"
      PROVE  Candidate!CandidateInv'
  <2>1. v1[a] \in Candidate!Record
    BY <1>0, <1>5
  <2>2. [v1[a] EXCEPT !.status = status] \in Candidate!Record /\ [v1[a] EXCEPT !.status = status].status = status
    BY <2>1 DEF Candidate!Record
  <2>3. v1' \in [Apps -> Candidate!Record] /\ \A b \in Apps : v1'[b] = IF b = a THEN [v1[a] EXCEPT !.status = status] ELSE v1[b]
    BY <1>0, <1>5, <2>2
  <2>4. Candidate!CandidateTyped'
    BY <1>0, <1>3, <2>3 DEF Candidate!CandidateTyped
  <2>5. \A b \in Apps : v1'[b].status = "applied_paused" =>
          v1[b].status = "applied_paused" \/ \E e \in v5 : e.app = b
    BY <1>5, <2>2, <2>3 DEF Candidate!CandidateInv, Candidate!PostsAfterReceipt, Candidate!Found
  <2>6. \A b \in Apps : v1'[b].status = "claimed" /\ v6'.app # b => b \in v7' \cup v8'
    BY <1>0, <1>5, <2>2, <2>3 DEF Candidate!CandidateInv, Candidate!ClaimIsSettled
  <2> QED BY <1>0, <1>4, <2>4, <2>5, <2>6, CandidateKeeps
<1>6. CASE Candidate!Post
  <2>1. v6.pc = "post" /\ v1' = [v1 EXCEPT ![a].status = "applied_paused"] /\ v7' = v7
    BY <1>6 DEF Candidate!Post
  <2> QED BY <1>0, <1>1, <1>5, <2>1
<1>7. ASSUME v1' = v1, v7' = v7 \cup {a}, v6' = Candidate!Idle PROVE Candidate!CandidateInv'
  BY <1>0, <1>2, <1>4, <1>7, CandidateGoesOn
<1>8. CASE Candidate!Cancel
  BY <1>1, <1>7, <1>8 DEF Candidate!Cancel
<1>9. CASE Candidate!PostUncertain
  <2>1. v6.pc = "failed" /\ v6' = Candidate!Idle
        /\ \/ v1' = [v1 EXCEPT ![a].status = "uncertain"] /\ v7' = v7
           \/ v1' = v1 /\ v7' = v7 \cup {a}
    BY <1>9 DEF Candidate!PostUncertain
  <2> QED BY <1>0, <1>1, <1>5, <1>7, <2>1
<1> QED BY <1>6, <1>8, <1>9

\* A step that fails, before or after its effect on the service.
LEMMA CandidateFails ==
  ASSUME Candidate!CandidateInv, Candidate!Fail
  PROVE  Candidate!CandidateInv' /\ Candidate!BoundIsNotSyncedAway
<1>0. /\ Candidate!CandidateTyped /\ v2 \in Seq(Candidate!Template) /\ Len(v2) >= 1 /\ v6.app \in Apps
      /\ v1' = v1 /\ v5' = v5 /\ v7' = v7 /\ v8' = v8
  BY DEF Candidate!Fail, Candidate!CandidateInv, Candidate!CandidateTyped, Candidate!RunHasApp
<1>1. v6' = [v6 EXCEPT !.pc = "failed"]
  BY <1>0, OperationsAssumption DEF Candidate!Fail, Candidate!Tells
<1>2. /\ v6' \in [pc : {"idle", "build", "pause", "shift", "verify", "post", "failed", "sync"},
                  app : Apps \cup {Candidate!NoApp}, revision : Nat]
      /\ v6'.pc = "failed" /\ v6'.app = v6.app
  BY <1>0, <1>1, CandidateMoves
<1>3. Candidate!RunHasApp' /\ Candidate!PostsAfterReceipt'
  BY <1>0, <1>2 DEF Candidate!RunHasApp, Candidate!PostsAfterReceipt
<1> DEFINE template == [bound |-> v6.app, enabled |-> FALSE]
<1>4. v2' = v2 \/ Candidate!Create(template)
  BY DEF Candidate!Fail
<1>5. CASE v2' = v2
  <2>1. Candidate!CandidateInv'
    BY <1>0, <1>2, <1>3, <1>5, CandidateGoesOn
  <2> QED BY <1>5, <2>1 DEF Candidate!BoundIsNotSyncedAway
<1>6. CASE Candidate!Create(template)
  <2>1. template \in Candidate!Template
    BY <1>0 DEF Candidate!Template
  <2>2. /\ v2' \in Seq(Candidate!Template) /\ Len(v2') = Len(v2) + 1 /\ v2'[Len(v2')] = template
        /\ \A r \in DOMAIN v2 : r \in DOMAIN v2' /\ v2'[r] = v2[r]
    BY <1>0, <1>6, <2>1, CandidateCreates
  <2>3. Len(v2') >= 1
    BY <1>0, <2>2
  <2>4. Candidate!CandidateInv'
    BY <1>0, <1>2, <1>3, <2>2, <2>3, CandidateGoesOn
  <2>5. Candidate!BoundIsNotSyncedAway
    BY <1>0, <2>2, OperationsAssumption DEF Candidate!BoundIsNotSyncedAway
  <2> QED BY <2>4, <2>5
<1> QED BY <1>4, <1>5, <1>6

\* The legacy sync adds no revision over a bound one.
LEMMA CandidateSyncs ==
  ASSUME Candidate!CandidateInv, Candidate!Sync \/ Candidate!SyncShift \/ Candidate!SyncJobs
  PROVE  Candidate!CandidateInv' /\ Candidate!BoundIsNotSyncedAway
<1>0. /\ Candidate!CandidateTyped /\ v2 \in Seq(Candidate!Template) /\ Len(v2) >= 1
      /\ v1' = v1 /\ v5' = v5 /\ v7' = v7 /\ v8' = v8
      /\ v6.pc \in {"idle", "sync"} => v6.app = Candidate!NoApp
      /\ v6 \in [pc : {"idle", "build", "pause", "shift", "verify", "post", "failed", "sync"},
                 app : Apps \cup {Candidate!NoApp}, revision : Nat]
  BY DEF Candidate!Sync, Candidate!SyncShift, Candidate!SyncJobs, Candidate!CandidateInv,
     Candidate!CandidateTyped, Candidate!RunHasApp
<1>1. CASE Candidate!Sync
  <2>1. Candidate!Template0 \in Candidate!Template /\ Candidate!Create(Candidate!Template0)
    BY <1>1 DEF Candidate!Sync, Candidate!Template, Candidate!Template0
  <2>2. /\ v2' \in Seq(Candidate!Template) /\ Len(v2') = Len(v2) + 1
        /\ \A r \in DOMAIN v2 : r \in DOMAIN v2' /\ v2'[r] = v2[r]
    BY <1>0, <2>1, CandidateCreates
  <2>a. v6' = [pc |-> "sync", app |-> Candidate!NoApp, revision |-> Len(v2')]
    BY <1>1 DEF Candidate!Sync, Candidate!Idle
  <2>3. v6' = [pc |-> "sync", app |-> Candidate!NoApp, revision |-> Len(v2')] /\ Len(v2') \in Nat /\ Len(v2') >= 1
    BY <1>0, <2>2, <2>a
  <2>4. v6.app = Candidate!NoApp
    BY <1>1 DEF Candidate!Sync, Candidate!Idle
  <2>5. Candidate!RunHasApp' /\ Candidate!PostsAfterReceipt'
    BY <2>3 DEF Candidate!RunHasApp, Candidate!PostsAfterReceipt
  <2>6. Candidate!CandidateInv'
    BY <1>0, <2>2, <2>3, <2>4, <2>5, CandidateGoesOn
  <2>7. Candidate!BoundIsNotSyncedAway
    BY <1>1 DEF Candidate!Sync, Candidate!Bound, Candidate!BoundIsNotSyncedAway
  <2> QED BY <2>6, <2>7
<1>2. CASE Candidate!SyncShift \/ Candidate!SyncJobs
  <2>1. v2' = v2 /\ (v6' = v6 \/ v6' = Candidate!Idle) /\ v6.app = Candidate!NoApp /\ v6.pc # "post"
    BY <1>0, <1>2 DEF Candidate!SyncShift, Candidate!SyncJobs, Candidate!Idle
  <2>2. /\ Candidate!RunHasApp' /\ Candidate!PostsAfterReceipt'
        /\ v6' \in [pc : {"idle", "build", "pause", "shift", "verify", "post", "failed", "sync"},
                    app : Apps \cup {Candidate!NoApp}, revision : Nat]
    BY <1>0, <2>1 DEF Candidate!CandidateInv, Candidate!RunHasApp, Candidate!PostsAfterReceipt, Candidate!Idle
  <2>3. Candidate!CandidateInv'
    BY <1>0, <2>1, <2>2, CandidateGoesOn
  <2> QED BY <2>1, <2>3 DEF Candidate!BoundIsNotSyncedAway
<1> QED BY <1>1, <1>2

\* Every step keeps the invariant, and no binding is synced away.
LEMMA CandidateStep ==
  ASSUME Candidate!CandidateInv, Candidate!Next
  PROVE  Candidate!CandidateInv' /\ Candidate!BoundIsNotSyncedAway
<1>1. ASSUME NEW a \in Apps, Candidate!Claim(a) PROVE Candidate!CandidateInv' /\ Candidate!BoundIsNotSyncedAway
  BY <1>1, CandidateClaim DEF Candidate!Claim, Candidate!BoundIsNotSyncedAway
<1> QED BY <1>1, CandidateRun, CandidateStart, CandidateEnds, CandidateFails, CandidateSyncs DEF Candidate!Next

\* A claim leaves what is bound, and finds nothing bound to its application.
LEMMA UnheldClaim ==
  ASSUME Candidate!CandidateInv, Candidate!UnheldInv, NEW a \in Apps, Candidate!Claim(a)
  PROVE  Candidate!UnheldInv'
<1>1. v1 \in [Apps -> Candidate!Record] /\ v1[a].status = "approved" /\ v8 \subseteq Apps
  BY DEF Candidate!CandidateInv, Candidate!CandidateTyped, Candidate!UnheldInv, Candidate!Claim
<1>2. v1'[a].status = "claimed" /\ \A b \in Apps \ {a} : v1'[b] = v1[b]
  BY <1>1 DEF Candidate!Claim, Candidate!Record
<1>3. /\ v2' = v2
      /\ \/ v6'.app = a /\ v8' = v8
         \/ v6'.app = Candidate!NoApp /\ v8' = v8 \cup {a}
  <2>1. Candidate!Idle.app = Candidate!NoApp /\ [Candidate!Idle EXCEPT !.pc = "build", !.app = a].app = a
    BY DEF Candidate!Idle
  <2> QED BY <2>1 DEF Candidate!Claim
<1>4. a \notin v8 /\ \A r \in DOMAIN v2 : v2[r].bound # a
  <2>1. a \notin v8
    BY <1>1 DEF Candidate!UnheldInv, Candidate!UnheldDeploysNothing
  <2>2. a # Candidate!NoApp
    BY OperationsAssumption
  <2>3. ASSUME NEW r \in DOMAIN v2, v2[r].bound = a PROVE FALSE
    <3>1. v1[v2[r].bound].status # "approved"
      BY <2>2, <2>3 DEF Candidate!UnheldInv, Candidate!BoundAreClaimed
    <3> QED BY <1>1, <2>3, <3>1
  <2> QED BY <2>1, <2>3
<1>5. \A r \in DOMAIN v2 : v2[r].bound # Candidate!NoApp => v2[r].bound \in Apps
  <2>1. v2 \in Seq(Candidate!Template)
    BY DEF Candidate!CandidateInv, Candidate!CandidateTyped
  <2>2. \A r \in DOMAIN v2 : v2[r] \in Candidate!Template
    BY <2>1
  <2> QED BY <2>2 DEF Candidate!Template
<1>6. v8' \subseteq Apps /\ Candidate!BoundAreClaimed'
  BY <1>1, <1>2, <1>3, <1>4, <1>5 DEF Candidate!UnheldInv, Candidate!BoundAreClaimed
<1>7. Candidate!UnheldDeploysNothing'
  BY <1>1, <1>2, <1>3, <1>4, OperationsAssumption DEF Candidate!UnheldInv, Candidate!UnheldDeploysNothing
<1> QED BY <1>6, <1>7 DEF Candidate!UnheldInv

\* The other steps touch the record and the bindings of the run's own
\* application only, which is not one of an unheld claim.
LEMMA UnheldKeeps ==
  ASSUME Candidate!CandidateInv, Candidate!UnheldInv,
         v8' = v8, v6'.app \in {v6.app, Candidate!NoApp},
         \A b \in Apps : b # v6.app => v1'[b] = v1[b],
         \A b \in Apps : v1'[b].status = "approved" => v1[b].status = "approved",
         \A r \in DOMAIN v2' : \/ v2'[r].bound \in {v6.app, Candidate!NoApp}
                               \/ r \in DOMAIN v2 /\ v2'[r] = v2[r]
  PROVE  Candidate!UnheldInv'
<1>1. /\ v8 \subseteq Apps /\ v6.app \in Apps \cup {Candidate!NoApp}
      /\ \A r \in DOMAIN v2 : v2[r].bound \in Apps \cup {Candidate!NoApp}
  <2>1. v8 \subseteq Apps /\ v2 \in Seq(Candidate!Template)
    BY DEF Candidate!CandidateInv, Candidate!CandidateTyped, Candidate!UnheldInv
  <2>2. v6.app \in Apps \cup {Candidate!NoApp}
    BY DEF Candidate!CandidateInv, Candidate!CandidateTyped
  <2>3. \A r \in DOMAIN v2 : v2[r] \in Candidate!Template
    BY <2>1
  <2> QED BY <2>1, <2>2, <2>3 DEF Candidate!Template
<1>2. Candidate!BoundAreClaimed'
  BY <1>1 DEF Candidate!UnheldInv, Candidate!BoundAreClaimed
<1>3. Candidate!UnheldDeploysNothing'
  BY <1>1, OperationsAssumption DEF Candidate!UnheldInv, Candidate!UnheldDeploysNothing
<1> QED BY <1>1, <1>2, <1>3 DEF Candidate!UnheldInv

\* A revision that is created is of the template it is created from.
LEMMA UnheldCreates ==
  ASSUME Candidate!CandidateTyped, NEW template \in Candidate!Template, Candidate!Create(template)
  PROVE  \A r \in DOMAIN v2' : v2'[r] = template \/ (r \in DOMAIN v2 /\ v2'[r] = v2[r])
<1>1. v2 \in Seq(Candidate!Template) /\ v2' = Append(v2, template)
  BY DEF Candidate!CandidateTyped, Candidate!Create
<1> QED BY <1>1

\* A claim that no run holds deploys nothing: every step keeps it so.
LEMMA UnheldStep ==
  ASSUME Candidate!CandidateInv, Candidate!UnheldInv, Candidate!Next
  PROVE  Candidate!UnheldInv'
<1> DEFINE bound == [bound |-> v6.app, enabled |-> FALSE]
<1>0. /\ Candidate!CandidateTyped /\ v1 \in [Apps -> Candidate!Record] /\ v2 \in Seq(Candidate!Template)
      /\ v6 \in [pc : {"idle", "build", "pause", "shift", "verify", "post", "failed", "sync"},
                 app : Apps \cup {Candidate!NoApp}, revision : Nat]
      /\ v6.pc \in {"build", "pause", "shift", "verify", "post", "failed"} => v6.app \in Apps
      /\ Candidate!Idle.app = Candidate!NoApp
  BY DEF Candidate!CandidateInv, Candidate!CandidateTyped, Candidate!RunHasApp, Candidate!Idle
<1>1. ASSUME NEW a \in Apps, Candidate!Claim(a) PROVE Candidate!UnheldInv'
  BY <1>1, UnheldClaim
<1>2. CASE \/ Candidate!Build \/ Candidate!Shift \/ Candidate!Verify \/ Candidate!SyncJobs \/ Candidate!SyncShift
           \/ Candidate!Cancel \/ \E j \in Candidate!Jobs : Candidate!PauseJob(j)
           \/ \E r \in 1..MaxRevisions : Candidate!Start(r)
  <2>1. v8' = v8 /\ v1' = v1 /\ v2' = v2
    BY <1>2 DEF Candidate!Build, Candidate!Shift, Candidate!Verify, Candidate!SyncJobs, Candidate!SyncShift,
       Candidate!Cancel, Candidate!PauseJob, Candidate!Start
  <2>2. v6'.app \in {v6.app, Candidate!NoApp}
    BY <1>0, <1>2 DEF Candidate!Build, Candidate!Shift, Candidate!Verify, Candidate!SyncJobs, Candidate!SyncShift,
       Candidate!Cancel, Candidate!PauseJob, Candidate!Start
  <2> QED BY <2>1, <2>2, UnheldKeeps
<1>3. CASE Candidate!Update \/ Candidate!Fail
  <2>1. v6.app \in Apps /\ bound \in Candidate!Template
    BY <1>0, <1>3 DEF Candidate!Update, Candidate!Fail, Candidate!Template
  <2>2. v8' = v8 /\ v1' = v1 /\ (v2' = v2 \/ Candidate!Create(bound))
    BY <1>3 DEF Candidate!Update, Candidate!Fail
  <2>3. v6'.app \in {v6.app, Candidate!NoApp}
    BY <1>0, <1>3 DEF Candidate!Update, Candidate!Fail
  <2>4. \A r \in DOMAIN v2' : v2'[r] = bound \/ (r \in DOMAIN v2 /\ v2'[r] = v2[r])
    BY <1>0, <2>1, <2>2, UnheldCreates
  <2>5. bound.bound = v6.app
    OBVIOUS
  <2> HIDE DEF bound
  <2> QED BY <2>2, <2>3, <2>4, <2>5, UnheldKeeps
<1>4. CASE Candidate!Sync
  <2>1. Candidate!Template0 \in Candidate!Template /\ Candidate!Template0.bound = Candidate!NoApp
    BY DEF Candidate!Template, Candidate!Template0
  <2>2. \A r \in DOMAIN v2' : v2'[r] = Candidate!Template0 \/ (r \in DOMAIN v2 /\ v2'[r] = v2[r])
    BY <1>0, <1>4, <2>1, UnheldCreates DEF Candidate!Sync
  <2>3. v8' = v8 /\ v1' = v1 /\ v6'.app = Candidate!NoApp
    BY <1>0, <1>4 DEF Candidate!Sync, Candidate!Idle
  <2> QED BY <2>1, <2>2, <2>3, UnheldKeeps
<1>5. CASE Candidate!Post \/ Candidate!PostUncertain
  <2>1. /\ v8' = v8 /\ v2' = v2 /\ v6.app \in Apps
        /\ v1' = v1 \/ \E status \in {"applied_paused", "uncertain"} : v1' = [v1 EXCEPT ![v6.app].status = status]
    BY <1>0, <1>5 DEF Candidate!Post, Candidate!PostUncertain
  <2>2. v6'.app \in {v6.app, Candidate!NoApp}
    BY <1>0, <1>5 DEF Candidate!Post, Candidate!PostUncertain
  <2>3. \A b \in Apps : b # v6.app => v1'[b] = v1[b]
    BY <1>0, <2>1
  <2>4. \A b \in Apps : v1'[b].status = "approved" => v1[b].status = "approved"
    BY <1>0, <2>1 DEF Candidate!Record
  <2> QED BY <2>1, <2>2, <2>3, <2>4, UnheldKeeps
<1> QED BY <1>1, <1>2, <1>3, <1>4, <1>5 DEF Candidate!Next

\* The invariant of the application holds in every behaviour.
LEMMA CandidateInvariant ==
  OperationsSpec => [](Is("candidate") => Candidate!CandidateInv /\ Candidate!UnheldInv)
<1> DEFINE Inv == Is("candidate") => Candidate!CandidateInv /\ Candidate!UnheldInv
<1>1. OperationsInit => Inv
  BY CandidateSteps, CandidateInit, UnheldInit
<1>2. Inv /\ [OperationsNext]_operations => Inv'
  <2> SUFFICES ASSUME Inv, [OperationsNext]_operations, Is("candidate")'
               PROVE  Candidate!CandidateInv' /\ Candidate!UnheldInv'
    OBVIOUS
  <2>1. Candidate!CandidateInv /\ Candidate!UnheldInv /\ [Candidate!Next]_<<v1, v2, v3, v4, v5, v6, v7, v8>>
    BY CandidateSteps
  <2>2. CASE UNCHANGED <<v1, v2, v3, v4, v5, v6, v7, v8>>
    <3>1. Candidate!CandidateInv'
      BY <2>1, <2>2 DEF Candidate!CandidateInv, Candidate!CandidateTyped, Candidate!RunHasApp,
         Candidate!ReceiptsAreBound, Candidate!PostsAfterReceipt, Candidate!Found,
         Candidate!AppliedWasLoaded, Candidate!ClaimIsSettled
    <3>2. Candidate!UnheldInv'
      BY <2>1, <2>2 DEF Candidate!UnheldInv, Candidate!BoundAreClaimed, Candidate!UnheldDeploysNothing
    <3> QED BY <3>1, <3>2
  <2> QED BY <2>1, <2>2, CandidateStep, UnheldStep
<1> QED BY <1>1, <1>2, PTL DEF OperationsSpec

\* "Applied" was said of what a start had loaded; a claim that a run holds ends in
\* a result or in a run that could not tell, and one that no run holds deploys and
\* publishes nothing; a sync leaves a bound service (apply-paper-candidate.yml,
\* sync-cloud-run-env), for any applications.
THEOREM ApplicationIsTrueHolds == OperationsSpec => ApplicationIsTrue
<1> DEFINE Inv == Is("candidate") => Candidate!CandidateInv /\ Candidate!UnheldInv
           Stays == Is("candidate") => Candidate!BoundIsNotSyncedAway
<1>1. OperationsSpec => []Inv
  BY CandidateInvariant
<1>2. Inv /\ [OperationsNext]_operations => [Stays]_componentVars
  <2> SUFFICES ASSUME Inv, OperationsNext, Is("candidate") PROVE Candidate!BoundIsNotSyncedAway
    BY DEF operations, componentVars
  <2>1. Candidate!Next
    BY DEF OperationsNext, Is
  <2> QED BY <2>1, CandidateStep
<1>3. Inv => (Is("candidate") => /\ Candidate!AppliedWasLoaded /\ Candidate!ClaimIsSettled
                                 /\ Candidate!UnheldDeploysNothing)
  BY DEF Candidate!CandidateInv, Candidate!UnheldInv
<1> QED BY <1>1, <1>2, <1>3, PTL DEF OperationsSpec, ApplicationIsTrue

-----------------------------------------------------------------------------
(* The daily projection: v1 is now, v2 reports, v3 pub, v4 objects, v5     *)
(* handoff, v6 qrs and v7 acked.  A record that is created is what was     *)
(* judged, and what is sent or handed off was created (DailyInv).          *)

\* A behaviour of the daily projection begins and goes on as one.
LEMMA DailySteps ==
  /\ OperationsInit /\ Is("daily") => Daily!Init
  /\ [OperationsNext]_operations /\ Is("daily")' =>
       Is("daily") /\ [Daily!Next]_<<v1, v2, v3, v4, v5, v6, v7>>
<1>1. OperationsInit /\ Is("daily") => Daily!Init
  BY DEF OperationsInit, Is
<1>2. [OperationsNext]_operations /\ Is("daily")' =>
        Is("daily") /\ [Daily!Next]_<<v1, v2, v3, v4, v5, v6, v7>>
  BY DEF OperationsNext, operations, componentVars, varsFrom3, Is
<1> QED BY <1>1, <1>2

\* A day has one number: an instant between its first and its last is of it.
LEMMA DayBounds ==
  ASSUME NEW t \in Nat
  PROVE  Daily!DayOf(t) \in Nat /\ Daily!DayOf(t) * DayLength <= t /\ t < Daily!DayOf(t) * DayLength + DayLength
  BY DailyAssumption DEF Daily!DayOf

LEMMA LaterDay ==
  ASSUME NEW d \in Nat, NEW e \in Nat, NEW n \in Nat, d < e
  PROVE  d * n + n <= e * n
  OBVIOUS

LEMMA SameDay ==
  ASSUME NEW t \in Nat, NEW d \in Nat, d * DayLength <= t, t < d * DayLength + DayLength
  PROVE  Daily!DayOf(t) = d
<1> DEFINE e == Daily!DayOf(t)
<1>1. e \in Nat /\ e * DayLength <= t /\ t < e * DayLength + DayLength
  BY DayBounds
<1>2. DayLength \in Nat
  BY DailyAssumption
<1>3. ~(d < e)
  <2> HIDE DEF e
  <2>1. d < e => d * DayLength + DayLength <= e * DayLength
    BY <1>1, <1>2, LaterDay
  <2>2. d * DayLength \in Nat /\ e * DayLength \in Nat
    BY <1>1, <1>2
  <2> QED BY <1>1, <1>2, <2>1, <2>2
<1>4. ~(e < d)
  <2> HIDE DEF e
  <2>1. e < d => e * DayLength + DayLength <= d * DayLength
    BY <1>1, <1>2, LaterDay
  <2>2. d * DayLength \in Nat /\ e * DayLength \in Nat
    BY <1>1, <1>2
  <2> QED BY <1>1, <1>2, <2>1, <2>2
<1> QED BY <1>1, <1>3, <1>4

\* The worst of the anomalies that are there is one of them, and the order
\* whose fate is unknown is the worst (_judge).
LEMMA WorstIsWorst ==
  ASSUME NEW runs, Daily!Activities(runs) \cap Daily!Anomalies # {}
  PROVE  /\ Daily!Worst(runs) \in Daily!Anomalies
         /\ "unknown" \in Daily!Activities(runs) => Daily!Worst(runs) = "unknown"
<1> DEFINE acts == Daily!Activities(runs)
           First(i) == Daily!Anomaly[i] \in acts /\ \A j \in 1..(i - 1) : Daily!Anomaly[j] \notin acts
           i0 == CHOOSE i \in DOMAIN Daily!Anomaly : First(i)
<1>1. /\ DOMAIN Daily!Anomaly = {1, 2} /\ Daily!Anomaly[1] = "unknown" /\ Daily!Anomaly[2] = "failed"
      /\ Daily!Anomalies = {"unknown", "failed"}
  BY DEF Daily!Anomaly, Daily!Anomalies
<1>2. \E i \in {1, 2} : First(i)
  <2>1. CASE "unknown" \in acts
    BY <1>1, <2>1
  <2>2. CASE "unknown" \notin acts
    <3>1. "failed" \in acts
      BY <1>1, <2>2
    <3>2. \A j \in 1..(2 - 1) : j = 1
      OBVIOUS
    <3> QED BY <1>1, <2>2, <3>1, <3>2
  <2> QED BY <2>1, <2>2
<1>3. i0 \in {1, 2} /\ First(i0)
  BY <1>1, <1>2
<1>4. Daily!Worst(runs) = Daily!Anomaly[i0]
  BY DEF Daily!Worst
<1>5. i0 = 2 => "unknown" \notin acts
  <2>1. 1 \in 1..(2 - 1)
    OBVIOUS
  <2> QED BY <1>1, <1>3, <2>1
<1> QED BY <1>1, <1>3, <1>4, <1>5

\* The cases of _judge, the first that applies.
LEMMA JudgeCases ==
  ASSUME NEW observed \in SUBSET Daily!Report, NEW at, NEW mode, NEW failed
  PROVE  LET runs == Daily!Dated(observed, at) \cup Daily!Carried(observed, at)
             covering == Daily!Activities(Daily!Covering(observed, at, mode))
             judged == Daily!Judge(observed, at, mode, failed)
         IN \/ Daily!Activities(runs) \cap Daily!Anomalies # {} /\ judged = Daily!Worst(runs)
            \/ /\ Daily!Activities(runs) \cap Daily!Anomalies = {}
               /\ \/ judged = "conflict"
                  \/ judged = "submitted"
                  \/ judged = "no_signal"
                  \/ covering = {} /\ judged = Daily!Otherwise(observed, at, mode, failed)
<1> DEFINE runs == Daily!Dated(observed, at) \cup Daily!Carried(observed, at)
           covering == Daily!Activities(Daily!Covering(observed, at, mode))
           judged == Daily!Judge(observed, at, mode, failed)
<1>1. CASE Daily!Activities(runs) \cap Daily!Anomalies # {}
  BY <1>1 DEF Daily!Judge
<1>2. CASE Daily!Activities(runs) \cap Daily!Anomalies = {} /\ Daily!Conflicts(runs)
  BY <1>2 DEF Daily!Judge
<1>3. CASE Daily!Activities(runs) \cap Daily!Anomalies = {} /\ ~Daily!Conflicts(runs)
  <2>1. covering \subseteq Daily!Activities(runs)
    BY DEF Daily!Activities, Daily!Covering
  <2>2. Daily!Activities(runs) \subseteq Activity
    BY DEF Daily!Activities, Daily!Dated, Daily!Carried, Daily!Report
  <2>3. covering \subseteq {"submitted", "no_signal"}
    BY <1>3, <2>1, <2>2, DailyAssumption DEF Daily!Order, Daily!Quiet
  <2>4. CASE "submitted" \in covering
    <3>1. covering \cap Daily!Order = {"submitted"}
      BY <2>4 DEF Daily!Order
    <3>2. judged = CHOOSE a \in covering \cap Daily!Order : TRUE
      BY <1>3, <3>1 DEF Daily!Judge
    <3> QED BY <1>3, <3>1, <3>2
  <2>5. CASE "submitted" \notin covering /\ covering # {}
    <3>1. covering = {"no_signal"} /\ covering \cap Daily!Order = {}
      BY <2>3, <2>5 DEF Daily!Order
    <3>2. \E a \in covering : covering = {a}
      BY <3>1
    <3>3. judged = CHOOSE a \in covering : TRUE
      BY <1>3, <3>1, <3>2 DEF Daily!Judge
    <3> QED BY <1>3, <3>1, <3>3
  <2>6. CASE covering = {}
    <3>1. judged = Daily!Otherwise(observed, at, mode, failed)
      BY <1>3, <2>6 DEF Daily!Judge
    <3> QED BY <1>3, <2>6, <3>1
  <2> QED BY <2>4, <2>5, <2>6
<1> QED BY <1>1, <1>2, <1>3

\* A judgement is one of the statuses.
LEMMA JudgeTyped ==
  ASSUME NEW observed \in SUBSET Daily!Report, NEW at, NEW mode, NEW failed
  PROVE  Daily!Judge(observed, at, mode, failed) \in Daily!Status
<1> DEFINE judged == Daily!Judge(observed, at, mode, failed)
<1>1. \/ judged \in Daily!Anomalies \/ judged \in {"conflict", "submitted", "no_signal"}
      \/ judged = Daily!Otherwise(observed, at, mode, failed)
  BY JudgeCases, WorstIsWorst
<1>2. Daily!Otherwise(observed, at, mode, failed) \in Daily!State \cup {"missing_report", "read_incomplete"}
  BY DEF Daily!Otherwise, Daily!Schedule, Daily!State
<1> QED BY <1>1, <1>2 DEF Daily!Status, Daily!Order, Daily!Quiet

\* An order whose fate is unknown is what is judged, of whichever day it is.
LEMMA JudgeUnresolved ==
  ASSUME NEW observed \in SUBSET Daily!Report, NEW at, NEW mode, NEW failed,
         NEW r \in observed, r.at <= at, r.activity \in Daily!Unresolved
  PROVE  Daily!Judge(observed, at, mode, failed) \in Daily!Unresolved
<1> DEFINE runs == Daily!Dated(observed, at) \cup Daily!Carried(observed, at)
<1>1. r \in runs /\ r.activity = "unknown"
  BY DEF Daily!Dated, Daily!Carried, Daily!Unresolved
<1>2. "unknown" \in Daily!Activities(runs) /\ "unknown" \in Daily!Anomalies
  <2>1. "unknown" \in Daily!Activities(runs)
    BY <1>1 DEF Daily!Activities
  <2>2. Daily!Anomaly[1] = "unknown" /\ 1 \in DOMAIN Daily!Anomaly
    BY DEF Daily!Anomaly
  <2> QED BY <2>1, <2>2 DEF Daily!Anomalies
<1>3. Daily!Judge(observed, at, mode, failed) = Daily!Worst(runs)
  BY <1>2 DEF Daily!Judge
<1> QED BY <1>2, <1>3, WorstIsWorst DEF Daily!Unresolved

\* A report is called missing when everything was read, after the grace, and
\* no run had reported since the slot.
LEMMA JudgeMissing ==
  ASSUME NEW observed \in SUBSET Daily!Report, NEW at \in Daily!Times, NEW mode, NEW failed,
         Daily!Judge(observed, at, mode, failed) = "missing_report"
  PROVE  LET day == Daily!DayOf(at)
         IN /\ ~failed /\ Daily!Due(day) + DailyGrace <= at
            /\ ~\E r \in observed : Daily!Due(day) <= r.at /\ r.at <= at
<1> DEFINE day == Daily!DayOf(at)
           runs == Daily!Dated(observed, at) \cup Daily!Carried(observed, at)
           covering == Daily!Activities(Daily!Covering(observed, at, mode))
<1>1. "missing_report" \notin Daily!Anomalies
  BY DEF Daily!Anomalies, Daily!Anomaly
<1>2. Daily!Otherwise(observed, at, mode, failed) = "missing_report" /\ covering = {}
  BY <1>1, JudgeCases, WorstIsWorst
<1>3. ~failed /\ mode # "oneShot" /\ Daily!Schedule(at, mode) = "due"
  BY <1>2 DEF Daily!Otherwise, Daily!Schedule
<1>4. /\ at \in Nat /\ day \in Nat /\ day * DayLength <= at /\ at < day * DayLength + DayLength
      /\ DayLength \in Nat /\ DueAt \in Nat /\ DailyGrace \in Nat /\ day * DayLength \in Nat
  BY DailyAssumption, DayBounds DEF Daily!Times
<1>5. Daily!Due(day) = day * DayLength + DueAt
  BY DEF Daily!Due
<1>6. Daily!Due(day) + DailyGrace <= at
  <2>1. ~(at < Daily!Due(day) + DailyGrace)
    BY <1>3 DEF Daily!Schedule
  <2> HIDE DEF day
  <2> QED BY <1>4, <1>5, <2>1
<1>7. ASSUME NEW r \in observed, Daily!Due(day) <= r.at, r.at <= at
      PROVE  FALSE
  <2>1. r.at \in Nat
    BY DailyAssumption DEF Daily!Report, Daily!Times
  <2>2. day * DayLength <= r.at /\ r.at < day * DayLength + DayLength
    <3> HIDE DEF day
    <3> QED BY <1>4, <1>5, <1>7, <2>1
  <2>3. Daily!DayOf(r.at) = day
    BY <1>4, <2>1, <2>2, SameDay
  <2>4. r \in Daily!Covering(observed, at, mode)
    BY <1>3, <1>7, <2>3 DEF Daily!Covering, Daily!Dated
  <2> QED BY <1>2, <2>4 DEF Daily!Activities
<1> QED BY <1>3, <1>6, <1>7

\* Nothing is recorded at first.
LEMMA DailyInit == ASSUME Daily!Init PROVE Daily!DailyInv
<1>1. 0 \in Daily!Times
  BY DailyAssumption DEF Daily!Times
<1>2. Daily!Ready \in Daily!Post
  BY DEF Daily!Ready, Daily!Post
<1> QED BY <1>1, <1>2 DEF Daily!Init, Daily!DailyInv, Daily!PublishersInv, Daily!AckedIsStored,
     Daily!HandoffIsRecorded, Daily!Ready

\* What a step of one publisher leaves to show of the invariant.
LEMMA DailyKeeps ==
  ASSUME Daily!DailyInv, NEW p \in Publishers, v1' = v1, v2' = v2,
         v3'[p] \in Daily!Post, v3' = [v3 EXCEPT ![p] = v3'[p]],
         v3'[p].pc \notin {"ready", "over"} => v3'[p].at \in Daily!Times /\ v3'[p].mode \in {"daily", "oneShot"},
         v3'[p].pc \in {"upload", "sync", "handoff"} => Daily!Judged(v3'[p].record),
         v3'[p].pc \in {"sync", "handoff"} => v3'[p].record \in v4',
         v4 \subseteq v4', \A o \in v4' : Daily!Judged(o),
         Daily!AckedIsStored', Daily!HandoffIsRecorded',
         v5' \in [Daily!Days -> Daily!Times \cup {Daily!NoHandoff}]
  PROVE  Daily!DailyInv'
<1>1. v3' \in [Publishers -> Daily!Post] /\ \A q \in Publishers \ {p} : v3'[q] = v3[q]
  BY DEF Daily!DailyInv
<1>2. Daily!PublishersInv'
  BY <1>1 DEF Daily!DailyInv, Daily!PublishersInv, Daily!Judged
<1> QED BY <1>1, <1>2 DEF Daily!DailyInv, Daily!Judged

\* Time passes and runs report; the publishers are not disturbed.
LEMMA DailyAround ==
  ASSUME Daily!DailyInv, Daily!Tick \/ \E run \in DailyRuns, activity \in Activity : Daily!Write(run, activity)
  PROVE  Daily!DailyInv' /\ Daily!CreatedStays
<1>1. UNCHANGED <<v3, v4, v5, v6, v7>>
  BY DEF Daily!Tick, Daily!Write
<1>2. v1' \in Daily!Times
  <2>1. v1 \in Daily!Times /\ DailyEnd \in Nat
    BY DailyAssumption DEF Daily!DailyInv
  <2>2. CASE Daily!Tick
    BY <2>1, <2>2 DEF Daily!Tick, Daily!Times
  <2>3. CASE ~Daily!Tick
    <3>1. v1' = v1
      BY <2>3 DEF Daily!Write
    <3> QED BY <2>1, <3>1
  <2> QED BY <2>2, <2>3
<1>3. v2' \subseteq Daily!Report
  <2>1. CASE Daily!Tick
    BY <2>1 DEF Daily!Tick, Daily!DailyInv
  <2>2. ASSUME NEW run \in DailyRuns, NEW activity \in Activity, Daily!Write(run, activity)
        PROVE  v2' \subseteq Daily!Report
    <3> DEFINE at == IF \E r \in v2 : r.run = run THEN (CHOOSE r \in v2 : r.run = run).at ELSE v1
    <3>1. v2' = v2 \cup {[run |-> run, activity |-> activity, at |-> at]}
      BY <2>2 DEF Daily!Write
    <3>2. at \in Daily!Times
      <4>1. CASE \E r \in v2 : r.run = run
        <5>1. (CHOOSE r \in v2 : r.run = run) \in Daily!Report
          BY <4>1 DEF Daily!DailyInv
        <5> QED BY <4>1, <5>1 DEF Daily!Report
      <4>2. CASE ~\E r \in v2 : r.run = run
        BY <4>2 DEF Daily!DailyInv
      <4> QED BY <4>1, <4>2
    <3> HIDE DEF at
    <3> QED BY <3>1, <3>2 DEF Daily!Report, Daily!DailyInv
  <2> QED BY <2>1, <2>2
<1>4. Daily!DailyInv'
  BY <1>1, <1>2, <1>3 DEF Daily!DailyInv, Daily!PublishersInv, Daily!Judged, Daily!AckedIsStored,
     Daily!HandoffIsRecorded
<1> QED BY <1>1, <1>4 DEF Daily!CreatedStays

\* A publisher begins, observes and ends without writing.
LEMMA DailyReads ==
  ASSUME Daily!DailyInv, NEW p \in Publishers,
         \/ \E mode \in {"daily", "oneShot"} : Daily!Begin(p, mode)
         \/ \E observed \in SUBSET Daily!Listed(p) : Daily!Observe(p, observed)
         \/ Daily!Fail(p)
  PROVE  Daily!DailyInv' /\ Daily!CreatedStays
<1>1. UNCHANGED <<v1, v2, v4, v5, v6, v7>>
  BY DEF Daily!Begin, Daily!Observe, Daily!Fail
<1>2. /\ Daily!AckedIsStored' /\ Daily!HandoffIsRecorded' /\ \A o \in v4' : Daily!Judged(o)
      /\ v5' \in [Daily!Days -> Daily!Times \cup {Daily!NoHandoff}] /\ v4 \subseteq v4' /\ Daily!CreatedStays
  BY <1>1 DEF Daily!DailyInv, Daily!AckedIsStored, Daily!HandoffIsRecorded, Daily!CreatedStays
<1>3. v3 \in [Publishers -> Daily!Post] /\ v3[p] \in Daily!Post
  BY DEF Daily!DailyInv
<1>4. ASSUME NEW mode \in {"daily", "oneShot"}, Daily!Begin(p, mode)
      PROVE  Daily!DailyInv'
  <2>1. /\ v3' = [v3 EXCEPT ![p] = [Daily!Ready EXCEPT !.pc = "list", !.at = v1, !.mode = mode]]
        /\ v1 \in Daily!Times
    BY <1>4 DEF Daily!Begin, Daily!DailyInv
  <2>2. v3'[p] = [pc |-> "list", at |-> v1, mode |-> mode, record |-> Daily!NoRecord]
    <3>1. v3'[p] = [Daily!Ready EXCEPT !.pc = "list", !.at = v1, !.mode = mode]
      BY <1>3, <2>1
    <3> QED BY <3>1 DEF Daily!Ready
  <2>3. v3'[p].pc = "list" /\ v3'[p].at = v1 /\ v3'[p].mode = mode
    BY <2>2
  <2>4. v3'[p] \in Daily!Post
    <3>1. v1 \in Daily!Times \cup {-1} /\ mode \in {"none", "daily", "oneShot"}
      BY <2>1
    <3>2. Daily!NoRecord \in Daily!Record \cup {Daily!NoRecord}
      OBVIOUS
    <3>3. [pc |-> "list", at |-> v1, mode |-> mode, record |-> Daily!NoRecord] \in Daily!Post
      BY <3>1, <3>2 DEF Daily!Post
    <3> QED BY <2>2, <3>3
  <2>5. v3' = [v3 EXCEPT ![p] = v3'[p]]
    BY <1>3, <2>1
  <2> QED BY <1>1, <1>2, <2>1, <2>3, <2>4, <2>5, DailyKeeps
<1>5. ASSUME NEW observed \in SUBSET Daily!Listed(p), Daily!Observe(p, observed)
      PROVE  Daily!DailyInv'
  <2> DEFINE at == v3[p].at
             mode == v3[p].mode
             failed == observed # Daily!Listed(p)
             record == [day |-> Daily!DayOf(at), at |-> at, seen |-> observed, failed |-> failed,
                        status |-> Daily!Judge(observed, at, mode, failed)]
  <2>1. v3[p].pc = "list" /\ at \in Daily!Times /\ mode \in {"daily", "oneShot"}
    BY <1>5 DEF Daily!Observe, Daily!At, Daily!DailyInv, Daily!PublishersInv
  <2>2. v3' = [v3 EXCEPT ![p].pc = "upload", ![p].record = record]
    BY <1>5 DEF Daily!Observe
  <2>3. observed \in SUBSET Daily!Report /\ failed \in BOOLEAN
    BY DEF Daily!Listed, Daily!DailyInv
  <2>4. Daily!Judge(observed, at, mode, failed) \in Daily!Status
    BY <2>3, JudgeTyped
  <2>5. Daily!DayOf(at) \in Daily!Days
    BY <2>1 DEF Daily!Days
  <2>6. record \in Daily!Record
    BY <2>1, <2>3, <2>4, <2>5 DEF Daily!Record
  <2>7. /\ record.day = Daily!DayOf(record.at)
        /\ record.status = Daily!Judge(record.seen, record.at, mode, record.failed)
    OBVIOUS
  <2>8. Daily!Judged(record)
    BY <2>1, <2>6, <2>7 DEF Daily!Judged
  <2> HIDE DEF record
  <2>9. /\ v3'[p] = [v3[p] EXCEPT !.pc = "upload", !.record = record]
        /\ v3' = [v3 EXCEPT ![p] = v3'[p]]
    BY <1>3, <2>2
  <2>10. /\ v3'[p] \in Daily!Post /\ v3'[p].pc = "upload" /\ v3'[p].record = record
         /\ v3'[p].at = at /\ v3'[p].mode = mode
    BY <1>3, <2>6, <2>9 DEF Daily!Post
  <2> QED BY <1>1, <1>2, <2>1, <2>8, <2>9, <2>10, DailyKeeps
<1>6. CASE Daily!Fail(p)
  <2>1. v3' = [v3 EXCEPT ![p] = [Daily!Ready EXCEPT !.pc = "over"]]
    BY <1>6 DEF Daily!Fail, Daily!Ends
  <2>2. v3'[p] \in Daily!Post /\ v3'[p].pc = "over" /\ v3' = [v3 EXCEPT ![p] = v3'[p]]
    BY <1>3, <2>1 DEF Daily!Ready, Daily!Post
  <2> QED BY <1>1, <1>2, <2>2, DailyKeeps
<1> QED BY <1>2, <1>4, <1>5, <1>6

\* A record is created only where there is none (_upload).
LEMMA DailyUploads ==
  ASSUME Daily!DailyInv, NEW p \in Publishers, Daily!Upload(p)
  PROVE  Daily!DailyInv' /\ Daily!CreatedStays
<1> DEFINE record == v3[p].record
<1>1. UNCHANGED <<v1, v2, v5, v6, v7>> /\ v3[p].pc = "upload"
  BY DEF Daily!Upload, Daily!At
<1>2. /\ v3 \in [Publishers -> Daily!Post] /\ v3[p] \in Daily!Post
      /\ v3[p].at \in Daily!Times /\ v3[p].mode \in {"daily", "oneShot"} /\ Daily!Judged(record)
  BY <1>1 DEF Daily!DailyInv, Daily!PublishersInv
<1>3. v4' = v4 \/ v4' = v4 \cup {record}
  <2>1. CASE Daily!Taken(p)
    BY <2>1 DEF Daily!Upload
  <2>2. CASE ~Daily!Taken(p)
    <3>1. Daily!Kept(p) = v4
      BY <2>2 DEF Daily!Taken, Daily!Kept
    <3> QED BY <2>2, <3>1 DEF Daily!Upload, Daily!Creates
  <2> QED BY <2>1, <2>2
<1>4. \/ v3' = [v3 EXCEPT ![p].pc = "sync"] /\ record \in v4'
      \/ v3' = [v3 EXCEPT ![p] = [Daily!Ready EXCEPT !.pc = "over"]]
  BY DEF Daily!Upload, Daily!Creates, Daily!Goes, Daily!Ends
<1>5. /\ v4 \subseteq v4' /\ (\A o \in v4' : Daily!Judged(o)) /\ Daily!CreatedStays
      /\ v5' \in [Daily!Days -> Daily!Times \cup {Daily!NoHandoff}]
  BY <1>1, <1>2, <1>3 DEF Daily!DailyInv, Daily!CreatedStays
<1>6. Daily!AckedIsStored' /\ Daily!HandoffIsRecorded'
  BY <1>1, <1>5 DEF Daily!DailyInv, Daily!AckedIsStored, Daily!HandoffIsRecorded
<1>7. CASE v3' = [v3 EXCEPT ![p].pc = "sync"] /\ record \in v4'
  <2>1. v3'[p] = [v3[p] EXCEPT !.pc = "sync"] /\ v3' = [v3 EXCEPT ![p] = v3'[p]]
    BY <1>2, <1>7
  <2>2. /\ v3'[p] \in Daily!Post /\ v3'[p].pc = "sync" /\ v3'[p].record = record
        /\ v3'[p].at = v3[p].at /\ v3'[p].mode = v3[p].mode
    BY <1>2, <2>1 DEF Daily!Post
  <2> QED BY <1>1, <1>2, <1>5, <1>6, <1>7, <2>1, <2>2, DailyKeeps
<1>8. CASE v3' = [v3 EXCEPT ![p] = [Daily!Ready EXCEPT !.pc = "over"]]
  <2>1. v3'[p] \in Daily!Post /\ v3'[p].pc = "over" /\ v3' = [v3 EXCEPT ![p] = v3'[p]]
    BY <1>2, <1>8 DEF Daily!Ready, Daily!Post
  <2> QED BY <1>1, <1>5, <1>6, <2>1, DailyKeeps
<1> QED BY <1>4, <1>5, <1>7, <1>8

\* What is sent or handed off is the record that was created.
LEMMA DailySends ==
  ASSUME Daily!DailyInv, NEW p \in Publishers,
         (\E answer \in {"recorded", "unknown", "lost"} : Daily!Sync(p, answer)) \/ Daily!Handoff(p)
  PROVE  Daily!DailyInv' /\ Daily!CreatedStays
<1> DEFINE record == v3[p].record
<1>1. UNCHANGED <<v1, v2, v4>> /\ v3[p].pc \in {"sync", "handoff"}
  BY DEF Daily!Sync, Daily!Handoff, Daily!At
<1>2. /\ v3 \in [Publishers -> Daily!Post] /\ v3[p] \in Daily!Post /\ Daily!Judged(record) /\ record \in v4
      /\ v3[p].at \in Daily!Times /\ v3[p].mode \in {"daily", "oneShot"}
  BY <1>1 DEF Daily!DailyInv, Daily!PublishersInv
<1>3. v4 \subseteq v4' /\ \A o \in v4' : Daily!Judged(o)
  BY <1>1 DEF Daily!DailyInv
<1>4. ASSUME NEW answer \in {"recorded", "unknown", "lost"}, Daily!Sync(p, answer)
      PROVE  Daily!DailyInv' /\ Daily!CreatedStays
  <2>1. v3' = [v3 EXCEPT ![p].pc = "handoff"] /\ v5' = v5
    BY <1>4 DEF Daily!Sync, Daily!Goes
  <2>2. /\ v6' = IF answer = "lost" THEN v6 ELSE v6 \cup {record}
        /\ v7' = IF answer = "recorded" THEN v7 \cup {record} ELSE v7
    BY <1>4 DEF Daily!Sync, Daily!Acknowledges
  <2>3. Daily!AckedIsStored'
    BY <1>1, <1>2, <2>2 DEF Daily!DailyInv, Daily!AckedIsStored
  <2>4. v3'[p] = [v3[p] EXCEPT !.pc = "handoff"] /\ v3' = [v3 EXCEPT ![p] = v3'[p]]
    BY <1>2, <2>1
  <2>5. /\ v3'[p] \in Daily!Post /\ v3'[p].pc = "handoff" /\ v3'[p].record = record
        /\ v3'[p].at = v3[p].at /\ v3'[p].mode = v3[p].mode
    BY <1>2, <2>4 DEF Daily!Post
  <2>6. /\ Daily!HandoffIsRecorded' /\ Daily!CreatedStays
        /\ v5' \in [Daily!Days -> Daily!Times \cup {Daily!NoHandoff}]
    BY <1>1, <2>1 DEF Daily!DailyInv, Daily!HandoffIsRecorded, Daily!CreatedStays
  <2> QED BY <1>1, <1>2, <1>3, <2>3, <2>4, <2>5, <2>6, DailyKeeps
<1>5. CASE Daily!Handoff(p)
  <2>1. UNCHANGED <<v6, v7>> /\ v3' = [v3 EXCEPT ![p] = [Daily!Ready EXCEPT !.pc = "over"]]
    BY <1>5 DEF Daily!Handoff, Daily!Ends
  <2>2. \/ v5' = v5
        \/ v5[record.day] = Daily!NoHandoff /\ v5' = [v5 EXCEPT ![record.day] = record.at]
    BY <1>5 DEF Daily!Handoff, Daily!HandsOff
  <2>3. record.day \in Daily!Days /\ record.at \in Daily!Times
    BY <1>2 DEF Daily!Judged, Daily!Record
  <2>4. v5 \in [Daily!Days -> Daily!Times \cup {Daily!NoHandoff}]
    BY DEF Daily!DailyInv
  <2>5. v5' \in [Daily!Days -> Daily!Times \cup {Daily!NoHandoff}]
    BY <2>2, <2>3, <2>4
  <2>6. Daily!HandoffIsRecorded'
    BY <1>1, <1>2, <2>2, <2>3, <2>4 DEF Daily!DailyInv, Daily!HandoffIsRecorded
  <2>7. Daily!CreatedStays
    BY <1>1, <2>2, <2>3, <2>4 DEF Daily!CreatedStays
  <2>8. Daily!AckedIsStored'
    BY <1>1, <2>1 DEF Daily!DailyInv, Daily!AckedIsStored
  <2>9. v3'[p] \in Daily!Post /\ v3'[p].pc = "over" /\ v3' = [v3 EXCEPT ![p] = v3'[p]]
    BY <1>2, <2>1 DEF Daily!Ready, Daily!Post
  <2> QED BY <1>1, <1>3, <2>5, <2>6, <2>7, <2>8, <2>9, DailyKeeps
<1> QED BY <1>4, <1>5

\* The invariant of the projection holds in every behaviour, and what is created
\* stays.
LEMMA DailyInvariant ==
  OperationsSpec => /\ [](Is("daily") => Daily!DailyInv)
                    /\ [][Is("daily") => Daily!CreatedStays]_componentVars
<1> DEFINE Inv == Is("daily") => Daily!DailyInv
           Keeps == Is("daily") => Daily!CreatedStays
<1>1. OperationsInit => Inv
  BY DailySteps, DailyInit
<1>2. Inv /\ [OperationsNext]_operations => Inv' /\ [Keeps]_componentVars
  <2> SUFFICES ASSUME Inv, [OperationsNext]_operations
               PROVE  Inv' /\ [Keeps]_componentVars
    OBVIOUS
  <2>1. CASE Is("daily")'
    <3>1. Daily!DailyInv /\ [Daily!Next]_<<v1, v2, v3, v4, v5, v6, v7>>
      BY <2>1, DailySteps
    <3>2. CASE UNCHANGED <<v1, v2, v3, v4, v5, v6, v7>>
      BY <3>1, <3>2 DEF Daily!DailyInv, Daily!PublishersInv, Daily!Judged, Daily!AckedIsStored,
         Daily!HandoffIsRecorded, Daily!CreatedStays
    <3>3. CASE Daily!Next
      BY <3>1, <3>3, DailyAround, DailyReads, DailyUploads, DailySends DEF Daily!Next
    <3> QED BY <3>1, <3>2, <3>3
  <2>2. CASE ~Is("daily")'
    <3>1. ~Is("daily") \/ UNCHANGED componentVars
      BY <2>2 DEF OperationsNext, operations, componentVars, Is
    <3> QED BY <2>2, <3>1
  <2> QED BY <2>1, <2>2
<1> QED BY <1>1, <1>2, PTL DEF OperationsSpec

\* What a record says of its day is so, of every record that is created:
\* unresolved runs stay visible, and a report is called missing only when it
\* is; what the receiver and the handoff have is stored, and stays.
THEOREM DailyRecordIsTrueHolds == OperationsSpec => DailyRecordIsTrue
<1> DEFINE Inv == Is("daily") => Daily!DailyInv
           Keeps == Is("daily") => Daily!CreatedStays
<1>1. OperationsSpec => []Inv /\ [][Keeps]_componentVars
  BY DailyInvariant
<1>2. Inv => (Is("daily") => /\ Daily!UnresolvedStaysVisible /\ Daily!MissingIsTrue
                             /\ Daily!AckedIsStored /\ Daily!HandoffIsRecorded)
  <2> SUFFICES ASSUME Daily!DailyInv
               PROVE  Daily!UnresolvedStaysVisible /\ Daily!MissingIsTrue
    BY DEF Daily!DailyInv
  <2>1. ASSUME NEW o \in v4
        PROVE  /\ (\E r \in o.seen : r.at <= o.at /\ r.activity \in Daily!Unresolved) => o.status \in Daily!Unresolved
               /\ o.status = "missing_report" =>
                    /\ ~o.failed /\ Daily!Due(o.day) + DailyGrace <= o.at
                    /\ ~\E r \in o.seen : Daily!Due(o.day) <= r.at /\ r.at <= o.at
    <3>1. o \in Daily!Record /\ o.day = Daily!DayOf(o.at) /\ o.seen \in SUBSET Daily!Report /\ o.at \in Daily!Times
      BY DEF Daily!DailyInv, Daily!Judged, Daily!Record
    <3>2. PICK mode \in {"daily", "oneShot"} : o.status = Daily!Judge(o.seen, o.at, mode, o.failed)
      BY DEF Daily!DailyInv, Daily!Judged
    <3> QED BY <3>1, <3>2, JudgeUnresolved, JudgeMissing
  <2> QED BY <2>1 DEF Daily!UnresolvedStaysVisible, Daily!MissingIsTrue
<1> QED BY <1>1, <1>2, PTL DEF OperationsSpec, DailyRecordIsTrue

-----------------------------------------------------------------------------
(* Cycle health: v1 is now, v2 reports, v3 pub, v4 post and v5 source.     *)
(* What a complete stretch says of the slots that are a grace before its   *)
(* end changes no more, and the next one begins a grace before the cursor  *)
(* (HealthInv).                                                            *)

\* A behaviour of the cycle-health source begins and goes on as one.
LEMMA HealthSteps ==
  /\ OperationsInit /\ Is("cycles") => Cycles!Init
  /\ [OperationsNext]_operations /\ Is("cycles")' => Is("cycles") /\ [Cycles!Next]_<<v1, v2, v3, v4, v5>>
<1>1. OperationsInit /\ Is("cycles") => Cycles!Init
  BY DEF OperationsInit, Is
<1>2. [OperationsNext]_operations /\ Is("cycles")' => Is("cycles") /\ [Cycles!Next]_<<v1, v2, v3, v4, v5>>
  BY DEF OperationsNext, operations, componentVars, varsFrom3, Is
<1> QED BY <1>1, <1>2

\* At first nothing is covered.
LEMMA HealthInit == ASSUME Cycles!Init PROVE Cycles!HealthInv
<1>1. 0 \in Cycles!Times /\ Cycles!Never \in Int /\ Cycles!Never \in 0..Cycles!Never
  BY HealthAssumption DEF Cycles!Times, Cycles!Never
<1>2. Cycles!HealthTyped
  BY <1>1 DEF Cycles!Init, Cycles!HealthTyped, Cycles!Idle, Cycles!NoPost
<1>3. Cycles!InOrder
  BY DEF Cycles!Init, Cycles!InOrder, Cycles!Started, Cycles!Appeared
<1>4. Cycles!StretchInv /\ Cycles!PostInv
  BY DEF Cycles!Init, Cycles!StretchInv, Cycles!PostInv, Cycles!Idle
<1>5. v5.covered = Cycles!Never /\ v5.cycles = {}
  BY DEF Cycles!Init
<1>6. Cycles!CallsMissing(v5.cycles)
  BY <1>5 DEF Cycles!CallsMissing
<1>7. Cycles!NoSlotSkipped /\ Cycles!TimelyReportKept
  BY <1>5 DEF Cycles!NoSlotSkipped, Cycles!TimelyReportKept, Cycles!CoveredPast
<1> QED BY <1>2, <1>3, <1>4, <1>5, <1>6, <1>7 DEF Cycles!HealthInv

\* The instants and durations of the source.
LEMMA HealthNumbers ==
  ASSUME Cycles!HealthInv
  PROVE  /\ v1 \in Nat /\ HealthGrace \in Nat /\ Cycles!Never \in Nat /\ v1 < Cycles!Never
         /\ \A s \in HealthSlots : s \in Nat
         /\ \A r \in HealthAttempts : v2[r].start \in Nat /\ v2[r].finish \in Nat
         /\ v3.at \in Int /\ v3.from \in Int /\ v3.through \in Int
         /\ v4.from \in Int /\ v4.through \in Int /\ v5.covered \in Int
<1>1. Cycles!Never \in Nat /\ HealthGrace \in Nat /\ \A s \in HealthSlots : s \in Nat
  BY HealthAssumption DEF Cycles!Never
<1>2. v1 \in Nat /\ v1 < Cycles!Never
  BY HealthAssumption DEF Cycles!HealthInv, Cycles!HealthTyped, Cycles!Times, Cycles!Never
<1>3. \A r \in HealthAttempts : v2[r].start \in 0..Cycles!Never /\ v2[r].finish \in 0..Cycles!Never
  BY DEF Cycles!HealthInv, Cycles!HealthTyped
<1>4. \A r \in HealthAttempts : v2[r].start \in Nat /\ v2[r].finish \in Nat
  BY <1>1, <1>3
<1>5. /\ v3.at \in Int /\ v3.from \in Int /\ v3.through \in Int
      /\ v4.from \in Int /\ v4.through \in Int /\ v5.covered \in Int
  BY DEF Cycles!HealthInv, Cycles!HealthTyped
<1> QED BY <1>1, <1>2, <1>4, <1>5

\* A run that begins, a report that appears and time that passes change no
\* slot whose grace is over: what appears, appears now.
LEMMA HealthReports ==
  ASSUME Cycles!HealthInv, Cycles!Tick \/ \E r \in HealthAttempts : Cycles!Start(r) \/ Cycles!Finish(r)
  PROVE  Cycles!HealthInv'
<1>0. /\ v1 \in Nat /\ HealthGrace \in Nat /\ Cycles!Never \in Nat /\ v1 < Cycles!Never
      /\ \A s \in HealthSlots : s \in Nat
      /\ \A r \in HealthAttempts : v2[r].start \in Nat /\ v2[r].finish \in Nat
      /\ v3.at \in Int /\ v3.from \in Int /\ v3.through \in Int
      /\ v4.from \in Int /\ v4.through \in Int /\ v5.covered \in Int
  BY HealthNumbers
<1>1. UNCHANGED <<v3, v4, v5>> /\ v1' \in Cycles!Times /\ v1 <= v1'
  <2>1. v1 \in Cycles!Times
    BY DEF Cycles!HealthInv, Cycles!HealthTyped
  <2>2. CASE Cycles!Tick
    BY <1>0, <2>1, <2>2, HealthAssumption DEF Cycles!Tick, Cycles!Times
  <2>3. ASSUME NEW r \in HealthAttempts, Cycles!Start(r) \/ Cycles!Finish(r)
        PROVE  UNCHANGED <<v3, v4, v5>> /\ v1' = v1
    BY <2>3 DEF Cycles!Start, Cycles!Finish
  <2> QED BY <1>0, <2>1, <2>2, <2>3 DEF Cycles!Tick
<1>2. /\ v2' \in [HealthAttempts -> [start : 0..Cycles!Never, finish : 0..Cycles!Never]]
      /\ \A r \in HealthAttempts :
           \/ v2'[r] = v2[r]
           \/ v2[r].start = Cycles!Never /\ v2'[r].start = v1 /\ v2'[r].finish = v2[r].finish /\ v1' = v1
           \/ /\ v2[r].start # Cycles!Never /\ v2[r].finish = Cycles!Never
              /\ v2'[r].start = v2[r].start /\ v2'[r].finish = v1 /\ v1' = v1
  <2>1. v2 \in [HealthAttempts -> [start : 0..Cycles!Never, finish : 0..Cycles!Never]] /\ v1 \in 0..Cycles!Never
    BY <1>0 DEF Cycles!HealthInv, Cycles!HealthTyped
  <2>2. CASE Cycles!Tick
    BY <2>1, <2>2 DEF Cycles!Tick
  <2>3. ASSUME NEW r \in HealthAttempts, Cycles!Start(r) PROVE <1>2
    <3>1. v2' = [v2 EXCEPT ![r].start = v1] /\ v2[r].start = Cycles!Never /\ v1' = v1
      BY <2>3 DEF Cycles!Start, Cycles!Started
    <3>2. v2'[r] = [v2[r] EXCEPT !.start = v1] /\ \A q \in HealthAttempts \ {r} : v2'[q] = v2[q]
      BY <2>1, <3>1
    <3>3. v2[r] \in [start : 0..Cycles!Never, finish : 0..Cycles!Never]
      BY <2>1
    <3>4. v2'[r].start = v1 /\ v2'[r].finish = v2[r].finish
      BY <3>2, <3>3
    <3>5. v2' \in [HealthAttempts -> [start : 0..Cycles!Never, finish : 0..Cycles!Never]]
      BY <2>1, <3>1
    <3> QED BY <3>1, <3>2, <3>4, <3>5
  <2>4. ASSUME NEW r \in HealthAttempts, Cycles!Finish(r) PROVE <1>2
    <3>1. /\ v2' = [v2 EXCEPT ![r].finish = v1] /\ v1' = v1
          /\ v2[r].start # Cycles!Never /\ v2[r].finish = Cycles!Never
      BY <2>4 DEF Cycles!Finish, Cycles!Started, Cycles!Appeared
    <3>2. v2'[r] = [v2[r] EXCEPT !.finish = v1] /\ \A q \in HealthAttempts \ {r} : v2'[q] = v2[q]
      BY <2>1, <3>1
    <3>3. v2[r] \in [start : 0..Cycles!Never, finish : 0..Cycles!Never]
      BY <2>1
    <3>4. v2'[r].start = v2[r].start /\ v2'[r].finish = v1
      BY <3>2, <3>3
    <3>5. v2' \in [HealthAttempts -> [start : 0..Cycles!Never, finish : 0..Cycles!Never]]
      BY <2>1, <3>1
    <3> QED BY <3>1, <3>2, <3>4, <3>5
  <2> QED BY <2>2, <2>3, <2>4
<1>3. Cycles!HealthTyped'
  BY <1>1, <1>2 DEF Cycles!HealthInv, Cycles!HealthTyped
<1>4. v1' \in Nat /\ v1' < Cycles!Never
  BY <1>0, <1>1, HealthAssumption DEF Cycles!Times, Cycles!Never
<1>5. Cycles!InOrder'
  <2> SUFFICES ASSUME NEW r \in HealthAttempts
               PROVE  /\ v2'[r].start # Cycles!Never => v2'[r].start <= v1'
                      /\ v2'[r].finish # Cycles!Never =>
                           v2'[r].start # Cycles!Never /\ v2'[r].start <= v2'[r].finish /\ v2'[r].finish <= v1'
    BY DEF Cycles!InOrder, Cycles!Started, Cycles!Appeared, Cycles!Never
  <2>1. /\ v2[r].start # Cycles!Never => v2[r].start <= v1
        /\ v2[r].finish # Cycles!Never =>
             v2[r].start # Cycles!Never /\ v2[r].start <= v2[r].finish /\ v2[r].finish <= v1
    BY DEF Cycles!HealthInv, Cycles!InOrder, Cycles!Started, Cycles!Appeared
  <2>2. v2[r].start \in Nat /\ v2[r].finish \in Nat
    BY <1>0
  <2> QED BY <1>0, <1>1, <1>2, <1>4, <2>1, <2>2
<1>6. ASSUME NEW s \in HealthSlots, NEW r \in Cycles!RunsOf(s)'
      PROVE  /\ r \in HealthAttempts
             /\ \/ r \in Cycles!RunsOf(s) /\ v2'[r] = v2[r]
                \/ v2'[r].finish = v1
  <2>1. /\ r \in HealthAttempts /\ v2'[r].finish # Cycles!Never /\ s <= v2'[r].start
        /\ \A t \in HealthSlots : s < t => v2'[r].finish < t
    BY DEF Cycles!RunsOf, Cycles!Appeared, Cycles!Answers, Cycles!Never
  <2>2. v2[r].start = Cycles!Never => v2[r].finish = Cycles!Never
    BY <2>1 DEF Cycles!HealthInv, Cycles!InOrder, Cycles!Started, Cycles!Appeared
  <2>3. v2'[r] = v2[r] \/ v2'[r].finish = v1
    BY <1>2, <2>1, <2>2
  <2> QED BY <2>1, <2>3 DEF Cycles!RunsOf, Cycles!Appeared, Cycles!Answers
<1>7. ASSUME NEW cycles, NEW s \in HealthSlots, Cycles!CallsMissing(cycles),
             [slot |-> s, by |-> Cycles!Missing] \in cycles
      PROVE  s + HealthGrace <= v1' /\ \A r \in Cycles!RunsOf(s)' : v2'[r].finish >= s + HealthGrace
  <2>1. s + HealthGrace <= v1 /\ \A r \in Cycles!RunsOf(s) : v2[r].finish >= s + HealthGrace
    BY <1>7 DEF Cycles!CallsMissing
  <2> QED BY <1>0, <1>1, <1>4, <1>6, <2>1
<1>8. Cycles!CallsMissing(v4.cycles) => Cycles!CallsMissing(v4.cycles)'
  BY <1>1, <1>7 DEF Cycles!CallsMissing, Cycles!Missing
<1>9. Cycles!CallsMissing(v5.cycles)'
  BY <1>1, <1>7 DEF Cycles!CallsMissing, Cycles!HealthInv, Cycles!Missing
<1>10. ASSUME NEW s \in HealthSlots, NEW r \in Cycles!RunsOf(s)', v2'[r].finish < s + HealthGrace,
              s + HealthGrace <= v1
       PROVE  r \in Cycles!RunsOf(s) /\ v2[r].finish < s + HealthGrace
  BY <1>0, <1>6, <1>10
<1>11. Cycles!StretchInv'
  <2>1. Cycles!From' = Cycles!From
    BY <1>1 DEF Cycles!From, Cycles!Never, Cycles!RequiredFrom
  <2>2. v3.pc = "reads" => v4 = Cycles!NoPost /\ v3.from = Cycles!From /\ v3.through <= v3.at /\ v3.at <= v1
    BY DEF Cycles!HealthInv, Cycles!StretchInv
  <2> QED BY <1>0, <1>1, <1>4, <2>1, <2>2 DEF Cycles!StretchInv, Cycles!NoPost, Cycles!Never
<1>12. Cycles!PostInv'
  <2>1. CASE v4 = Cycles!NoPost
    BY <1>1, <2>1 DEF Cycles!PostInv, Cycles!NoPost, Cycles!Never
  <2>2. CASE v4 # Cycles!NoPost
    <3>1. /\ v4.from = Cycles!From /\ v4.through <= v1 /\ Cycles!CallsMissing(v4.cycles)
          /\ v4.complete => Cycles!HoldsAll(v4.cycles, v4.from, v4.through)
      BY <2>2 DEF Cycles!HealthInv, Cycles!PostInv
    <3>2. Cycles!From' = Cycles!From
      BY <1>1 DEF Cycles!From, Cycles!Never, Cycles!RequiredFrom
    <3>3. v4.through <= v1'
      BY <1>0, <1>1, <1>4, <3>1
    <3>4. ASSUME v4.complete, NEW s \in HealthSlots, v4.from <= s, s + HealthGrace <= v4.through
          PROVE  /\ \E c \in v4.cycles : c.slot = s
                 /\ \A r \in Cycles!RunsOf(s)' : v2'[r].finish < s + HealthGrace => [slot |-> s, by |-> r] \in v4.cycles
      <4>1. s + HealthGrace <= v1
        BY <1>0, <3>1, <3>4
      <4> QED BY <1>10, <3>1, <3>4, <4>1 DEF Cycles!HoldsAll
    <3>5. v4.complete => Cycles!HoldsAll(v4.cycles, v4.from, v4.through)'
      BY <1>1, <3>4 DEF Cycles!HoldsAll
    <3> QED BY <1>1, <1>8, <3>1, <3>2, <3>3, <3>5 DEF Cycles!PostInv
  <2> QED BY <2>1, <2>2
<1>13. (v5.covered # Cycles!Never => v5.covered <= v1) /\ (v5'.covered # Cycles!Never => v5'.covered <= v1')
  <2>1. v5.covered # Cycles!Never => v5.covered <= v1
    BY DEF Cycles!HealthInv
  <2> QED BY <1>0, <1>1, <1>4, <2>1
<1>14. Cycles!NoSlotSkipped'
  BY <1>1 DEF Cycles!HealthInv, Cycles!NoSlotSkipped, Cycles!CoveredPast, Cycles!Never
<1>15. Cycles!TimelyReportKept'
  <2> SUFFICES ASSUME NEW s \in HealthSlots, NEW r \in Cycles!RunsOf(s)',
                      v5.covered # Cycles!Never, v5.covered >= s + HealthGrace, v2'[r].finish < s + HealthGrace
               PROVE  [slot |-> s, by |-> r] \in v5.cycles
    BY <1>1 DEF Cycles!TimelyReportKept, Cycles!CoveredPast, Cycles!Archived, Cycles!Never
  <2>1. s + HealthGrace <= v1
    BY <1>0, <1>13
  <2>2. r \in Cycles!RunsOf(s) /\ v2[r].finish < s + HealthGrace
    BY <1>10, <2>1
  <2> QED BY <2>2 DEF Cycles!HealthInv, Cycles!TimelyReportKept, Cycles!CoveredPast, Cycles!Archived
<1> QED BY <1>3, <1>5, <1>9, <1>11, <1>12, <1>13, <1>14, <1>15 DEF Cycles!HealthInv, Cycles!Never

\* A stretch ends now, or before the slot that would be one too many.
LEMMA ThroughIsPast ==
  ASSUME NEW from \in Int, NEW t \in Nat, v1 = t
  PROVE  Cycles!Through(from) \in Int /\ Cycles!Through(from) <= t
<1>1. CASE Cycles!Overflow(from, v1) = {}
  BY <1>1 DEF Cycles!Through
<1>2. CASE Cycles!Overflow(from, v1) # {}
  <2> DEFINE over == CHOOSE s \in Cycles!Overflow(from, v1) : TRUE
  <2>1. over \in Cycles!Overflow(from, v1)
    BY <1>2
  <2>2. over \in HealthSlots /\ over <= v1
    BY <2>1 DEF Cycles!Overflow, Cycles!Within
  <2>3. over \in Nat
    BY <2>2, HealthAssumption
  <2>4. Cycles!Through(from) = over - 1
    BY <1>2 DEF Cycles!Through
  <2> HIDE DEF over
  <2> QED BY <2>2, <2>3, <2>4
<1> QED BY <1>1, <1>2

\* The publisher begins at the cursor, gives up, or its post is lost.
LEMMA HealthBegins ==
  ASSUME Cycles!HealthInv, Cycles!Begin \/ Cycles!GiveUp \/ Cycles!Lose
  PROVE  Cycles!HealthInv'
<1>1. UNCHANGED <<v1, v2, v5>>
  BY DEF Cycles!Begin, Cycles!GiveUp, Cycles!Lose
<1>2. /\ v1 \in Nat /\ v5.covered \in Int /\ Cycles!Never \in Nat /\ HealthGrace \in Nat
      /\ v1 < Cycles!Never
  BY HealthNumbers
<1>3. Cycles!From \in Int /\ Cycles!From' = Cycles!From
  BY <1>1, <1>2 DEF Cycles!From, Cycles!RequiredFrom, Cycles!Never
<1>4. /\ v3' \in [pc : {"idle", "reads"}, at : Int, from : Int, through : Int]
      /\ v4' \in [from : Int, through : Int, complete : BOOLEAN, cycles : SUBSET Cycles!Cycle]
      /\ v4' = v4 \/ v4' = Cycles!NoPost
      /\ \/ v3'.pc = "idle"
         \/ v3' = v3 /\ v4' = Cycles!NoPost
         \/ v4' = Cycles!NoPost /\ v3'.from = Cycles!From /\ v3'.through <= v3'.at /\ v3'.at <= v1
  <2>1. /\ v3 \in [pc : {"idle", "reads"}, at : Int, from : Int, through : Int]
        /\ v4 \in [from : Int, through : Int, complete : BOOLEAN, cycles : SUBSET Cycles!Cycle]
    BY DEF Cycles!HealthInv, Cycles!HealthTyped
  <2>2. CASE Cycles!Begin
    <3>1. /\ v3' = [pc |-> "reads", at |-> v1, from |-> Cycles!From, through |-> Cycles!Through(Cycles!From)]
          /\ v4' = v4 /\ v4 = Cycles!NoPost
      BY <2>2 DEF Cycles!Begin
    <3>2. Cycles!Through(Cycles!From) \in Int /\ Cycles!Through(Cycles!From) <= v1
      BY <1>2, <1>3, ThroughIsPast
    <3> QED BY <1>2, <1>3, <2>1, <3>1, <3>2
  <2>3. CASE Cycles!GiveUp
    <3>1. v3' = Cycles!Idle /\ v4' = v4
      BY <2>3 DEF Cycles!GiveUp
    <3>2. v3' = [pc |-> "idle", at |-> Cycles!Never, from |-> Cycles!Never, through |-> Cycles!Never]
      BY <3>1 DEF Cycles!Idle
    <3>3. v3'.pc = "idle" /\ v3' \in [pc : {"idle", "reads"}, at : Int, from : Int, through : Int]
      BY <1>2, <3>2
    <3> QED BY <2>1, <3>1, <3>3
  <2>4. CASE Cycles!Lose
    <3>1. v4' = Cycles!NoPost /\ v3' = v3
      BY <2>4 DEF Cycles!Lose
    <3>2. v4' \in [from : Int, through : Int, complete : BOOLEAN, cycles : SUBSET Cycles!Cycle]
      BY <1>2, <3>1 DEF Cycles!NoPost
    <3> QED BY <2>1, <3>1, <3>2
  <2> QED BY <2>2, <2>3, <2>4
<1>5. Cycles!NoPost' = Cycles!NoPost
  BY DEF Cycles!NoPost, Cycles!Never
<1>6. Cycles!HealthTyped'
  BY <1>1, <1>4 DEF Cycles!HealthInv, Cycles!HealthTyped
<1>7. Cycles!StretchInv'
  <2>1. v3'.pc = "reads" /\ v3' = v3 =>
          v3'.from = Cycles!From /\ v3'.through <= v3'.at /\ v3'.at <= v1
    BY DEF Cycles!HealthInv, Cycles!StretchInv
  <2> QED BY <1>1, <1>3, <1>4, <1>5, <2>1 DEF Cycles!StretchInv
<1>8. Cycles!PostInv'
  <2>1. CASE v4' = Cycles!NoPost
    BY <1>5, <2>1 DEF Cycles!PostInv
  <2>2. CASE v4' = v4
    BY <1>1, <1>3, <1>5, <2>2 DEF Cycles!HealthInv, Cycles!PostInv, Cycles!HoldsAll, Cycles!CallsMissing,
       Cycles!RunsOf, Cycles!Appeared, Cycles!Answers, Cycles!Never
  <2> QED BY <1>4, <2>1, <2>2
<1>9. /\ Cycles!InOrder' /\ (v5'.covered # Cycles!Never => v5'.covered <= v1')
      /\ Cycles!CallsMissing(v5.cycles)' /\ Cycles!NoSlotSkipped' /\ Cycles!TimelyReportKept'
  BY <1>1 DEF Cycles!HealthInv, Cycles!InOrder, Cycles!Started, Cycles!CallsMissing, Cycles!NoSlotSkipped,
     Cycles!TimelyReportKept, Cycles!CoveredPast, Cycles!Archived, Cycles!RunsOf, Cycles!Appeared,
     Cycles!Answers, Cycles!Never
<1> QED BY <1>6, <1>7, <1>8, <1>9 DEF Cycles!HealthInv, Cycles!Never

\* A report that is timely for a slot had appeared, is listed and answers it.
LEMMA TimelyIsListed ==
  ASSUME Cycles!HealthInv, v3.pc = "reads", NEW s \in HealthSlots, NEW r \in Cycles!RunsOf(s),
         v3.from <= s, s + HealthGrace <= v3.through, v2[r].finish < s + HealthGrace,
         \A q \in Cycles!Listed : Cycles!Valid(q)
  PROVE  [slot |-> s, by |-> r] \in Cycles!Observations(Cycles!Listed)
<1>1. /\ v1 \in Nat /\ s \in Nat /\ HealthGrace \in Nat /\ v3.from \in Int /\ v3.through \in Int
  BY HealthNumbers
<1>2. r \in HealthAttempts /\ Cycles!Appeared(r) /\ s <= v2[r].start /\ Cycles!Answers(r, s)
  BY DEF Cycles!RunsOf, Cycles!Answers
<1>3. v2[r].start \in Nat /\ v2[r].finish \in Nat /\ v2[r].start <= v2[r].finish
  BY <1>2, HealthNumbers DEF Cycles!HealthInv, Cycles!InOrder
<1>4. v3.from <= v2[r].start /\ v2[r].start <= v3.through /\ s <= v3.through
  BY <1>1, <1>2, <1>3
<1>5. r \in Cycles!Listed /\ s \in Cycles!Within(v3.from, v3.through)
  BY <1>2, <1>4 DEF Cycles!Listed, Cycles!Within
<1>6. v2[r].finish <= v3.at
  <2>1. v2[r].finish <= v3.through
    BY <1>5 DEF Cycles!Valid
  <2>2. v3.through <= v3.at /\ v3.at \in Int
    BY HealthNumbers DEF Cycles!HealthInv, Cycles!StretchInv
  <2> QED BY <1>1, <1>3, <2>1, <2>2
<1> QED BY <1>2, <1>5, <1>6 DEF Cycles!Observations

\* What is observed is of a report, and what is called missing of none.
LEMMA ObservedByReports ==
  ASSUME NEW found \in SUBSET HealthAttempts, NEW complete, NEW s,
         [slot |-> s, by |-> Cycles!Missing] \in Cycles!Cycles(found, complete)
  PROVE  s \in Cycles!Unanswered(found) /\ Cycles!Due(s, complete)
<1> DEFINE c == [slot |-> s, by |-> Cycles!Missing]
<1>1. c \notin Cycles!Observations(found)
  <2> SUFFICES ASSUME c \in Cycles!Observations(found) PROVE FALSE
    OBVIOUS
  <2>1. c.by \in found
    BY DEF Cycles!Observations
  <2> QED BY <2>1, HealthAssumption
<1>2. PICK u \in Cycles!Unanswered(found) : Cycles!Due(u, complete) /\ c = [slot |-> u, by |-> Cycles!Missing]
  BY <1>1 DEF Cycles!Cycles
<1>3. c.slot = u /\ c.slot = s
  BY <1>2
<1> QED BY <1>2, <1>3

\* What a complete stretch posts has every slot of it that is a grace before
\* its end, and every report that was timely; what it calls missing had none.
LEMMA HealthCollects ==
  ASSUME Cycles!HealthInv, NEW found \in SUBSET Cycles!Listed, NEW readAll \in BOOLEAN,
         readAll => found = Cycles!Listed, Cycles!Collect(found, readAll)
  PROVE  Cycles!HealthInv'
<1> DEFINE complete == Cycles!Complete(found, readAll)
           cycles == Cycles!Cycles(found, complete)
<1>1. /\ v3.pc = "reads" /\ v3' = Cycles!Idle /\ UNCHANGED <<v1, v2, v5>>
      /\ v4' = [from |-> v3.from, through |-> v3.through, complete |-> complete, cycles |-> cycles]
  BY DEF Cycles!Collect
<1>2. v3.from = Cycles!From /\ v3.through <= v3.at /\ v3.at <= v1
  BY <1>1 DEF Cycles!HealthInv, Cycles!StretchInv
<1>3. /\ v1 \in Nat /\ v5.covered \in Int /\ Cycles!Never \in Nat /\ HealthGrace \in Nat
      /\ v3.from \in Int /\ v3.through \in Int /\ v3.at \in Int /\ \A s \in HealthSlots : s \in Nat
  BY HealthNumbers
<1>4. complete \in BOOLEAN /\ (complete => found = Cycles!Listed /\ \A q \in Cycles!Listed : Cycles!Valid(q))
  BY DEF Cycles!Complete
<1>5. found \in SUBSET HealthAttempts
  BY DEF Cycles!Listed
<1>6. cycles \subseteq Cycles!Cycle
  <2>1. Cycles!Observations(found) \subseteq Cycles!Cycle
    <3> SUFFICES ASSUME NEW c \in Cycles!Observations(found) PROVE c \in Cycles!Cycle
      OBVIOUS
    <3>1. c \in [slot : Cycles!Within(v3.from, v3.through), by : found]
      BY DEF Cycles!Observations
    <3>2. Cycles!Within(v3.from, v3.through) \subseteq HealthSlots
      BY DEF Cycles!Within
    <3> QED BY <1>5, <3>1, <3>2 DEF Cycles!Cycle
  <2>2. ASSUME NEW s \in Cycles!Unanswered(found)
        PROVE  [slot |-> s, by |-> Cycles!Missing] \in Cycles!Cycle
    <3>1. s \in HealthSlots
      BY DEF Cycles!Unanswered, Cycles!Within
    <3> QED BY <3>1 DEF Cycles!Cycle
  <2> QED BY <2>1, <2>2 DEF Cycles!Cycles
<1>7. /\ v4'.from = v3.from /\ v4'.through = v3.through /\ v4'.complete = complete /\ v4'.cycles = cycles
      /\ v4' \in [from : Int, through : Int, complete : BOOLEAN, cycles : SUBSET Cycles!Cycle]
  <2> HIDE DEF complete, cycles
  <2> QED BY <1>1, <1>3, <1>4, <1>6
<1>8. /\ v3'.pc = "idle" /\ v3' \in [pc : {"idle", "reads"}, at : Int, from : Int, through : Int]
  <2>1. v3' = [pc |-> "idle", at |-> Cycles!Never, from |-> Cycles!Never, through |-> Cycles!Never]
    BY <1>1 DEF Cycles!Idle
  <2> QED BY <1>3, <2>1
<1>9. Cycles!HealthTyped' /\ Cycles!StretchInv'
  BY <1>1, <1>7, <1>8 DEF Cycles!HealthInv, Cycles!HealthTyped, Cycles!StretchInv
<1>10. ASSUME complete, NEW s \in HealthSlots, v3.from <= s, s + HealthGrace <= v3.through
       PROVE  /\ \E c \in cycles : c.slot = s
              /\ \A r \in Cycles!RunsOf(s) : v2[r].finish < s + HealthGrace => [slot |-> s, by |-> r] \in cycles
  <2>1. s <= v3.through
    BY <1>3, <1>10
  <2>2. s \in Cycles!Within(v3.from, v3.through)
    BY <1>10, <2>1 DEF Cycles!Within
  <2>3. \E c \in cycles : c.slot = s
    <3>1. CASE s \in Cycles!Unanswered(found)
      <4>1. Cycles!Due(s, complete)
        BY <1>10 DEF Cycles!Due
      <4>2. [slot |-> s, by |-> Cycles!Missing] \in cycles
        BY <3>1, <4>1 DEF Cycles!Cycles
      <4> QED BY <4>2
    <3>2. CASE s \notin Cycles!Unanswered(found)
      BY <2>2, <3>2 DEF Cycles!Unanswered, Cycles!Cycles
    <3> QED BY <3>1, <3>2
  <2>4. ASSUME NEW r \in Cycles!RunsOf(s), v2[r].finish < s + HealthGrace
        PROVE  [slot |-> s, by |-> r] \in cycles
    <3>1. [slot |-> s, by |-> r] \in Cycles!Observations(found)
      BY <1>1, <1>4, <1>10, <2>4, TimelyIsListed
    <3> QED BY <3>1 DEF Cycles!Cycles
  <2> QED BY <2>3, <2>4
<1>11. ASSUME NEW s \in HealthSlots, [slot |-> s, by |-> Cycles!Missing] \in cycles
       PROVE  s + HealthGrace <= v1 /\ \A r \in Cycles!RunsOf(s) : v2[r].finish >= s + HealthGrace
  <2>1. s \in Cycles!Unanswered(found) /\ complete /\ s + HealthGrace <= v3.through
    BY <1>5, <1>11, ObservedByReports DEF Cycles!Due
  <2>2. v3.from <= s
    BY <2>1 DEF Cycles!Unanswered, Cycles!Within
  <2>3. ASSUME NEW r \in Cycles!RunsOf(s) PROVE ~(v2[r].finish < s + HealthGrace)
    <3> SUFFICES ASSUME v2[r].finish < s + HealthGrace PROVE FALSE
      OBVIOUS
    <3>1. [slot |-> s, by |-> r] \in Cycles!Observations(found)
      BY <1>1, <1>4, <2>1, <2>2, TimelyIsListed
    <3> QED BY <2>1, <3>1 DEF Cycles!Unanswered
  <2>4. \A r \in Cycles!RunsOf(s) : v2[r].finish \in Nat
    BY HealthNumbers DEF Cycles!RunsOf
  <2>5. s + HealthGrace <= v1 /\ s \in Nat
    BY <1>2, <1>3, <2>1
  <2> QED BY <1>3, <2>3, <2>4, <2>5
<1>12. Cycles!From' = Cycles!From
  BY <1>1 DEF Cycles!From, Cycles!Never, Cycles!RequiredFrom
<1>13. Cycles!PostInv'
  <2>1. v4'.from = Cycles!From' /\ v4'.through <= v1'
    BY <1>1, <1>2, <1>3, <1>7, <1>12
  <2>2. v4'.complete => Cycles!HoldsAll(v4.cycles, v4.from, v4.through)'
    <3> HIDE DEF complete, cycles
    <3> QED BY <1>1, <1>7, <1>10 DEF Cycles!HoldsAll, Cycles!RunsOf, Cycles!Appeared, Cycles!Answers, Cycles!Never
  <2>3. Cycles!CallsMissing(v4.cycles)'
    <3> HIDE DEF complete, cycles
    <3> QED BY <1>1, <1>7, <1>11 DEF Cycles!CallsMissing, Cycles!RunsOf, Cycles!Appeared, Cycles!Answers,
         Cycles!Never, Cycles!Missing
  <2> QED BY <2>1, <2>2, <2>3 DEF Cycles!PostInv
<1>14. /\ Cycles!InOrder' /\ (v5'.covered # Cycles!Never => v5'.covered <= v1')
       /\ Cycles!CallsMissing(v5.cycles)' /\ Cycles!NoSlotSkipped' /\ Cycles!TimelyReportKept'
  BY <1>1 DEF Cycles!HealthInv, Cycles!InOrder, Cycles!Started, Cycles!CallsMissing, Cycles!NoSlotSkipped,
     Cycles!TimelyReportKept, Cycles!CoveredPast, Cycles!Archived, Cycles!RunsOf, Cycles!Appeared,
     Cycles!Answers, Cycles!Never
<1> QED BY <1>9, <1>13, <1>14 DEF Cycles!HealthInv, Cycles!Never

\* A stretch that moves the cursor met it: what the new cursor is a grace past
\* was past the old one, or is of the stretch.
LEMMA HealthStores ==
  ASSUME Cycles!HealthInv, Cycles!Store
  PROVE  Cycles!HealthInv'
<1>1. /\ v4 # Cycles!NoPost /\ v4' = Cycles!NoPost /\ UNCHANGED <<v1, v2, v3>>
      /\ v5' = [covered |-> IF Cycles!Continuous(v4) THEN v4.through ELSE v5.covered,
                cycles |-> v5.cycles \cup v4.cycles]
  BY DEF Cycles!Store
<1>2. /\ v1 \in Nat /\ v5.covered \in Int /\ Cycles!Never \in Nat /\ HealthGrace \in Nat
      /\ v4.from \in Int /\ v4.through \in Int /\ \A s \in HealthSlots : s \in Nat
  BY HealthNumbers
<1>3. /\ v4.from = Cycles!From /\ v4.through <= v1 /\ Cycles!CallsMissing(v4.cycles)
      /\ v4.complete => Cycles!HoldsAll(v4.cycles, v4.from, v4.through)
  BY <1>1 DEF Cycles!HealthInv, Cycles!PostInv
<1>4. /\ v5' \in [covered : Int, cycles : SUBSET Cycles!Cycle]
      /\ v5'.covered = IF Cycles!Continuous(v4) THEN v4.through ELSE v5.covered
      /\ v5'.cycles = v5.cycles \cup v4.cycles
  <2>1. v5.cycles \subseteq Cycles!Cycle /\ v4.cycles \subseteq Cycles!Cycle
    BY DEF Cycles!HealthInv, Cycles!HealthTyped
  <2> QED BY <1>1, <1>2, <2>1
<1>5. v4' \in [from : Int, through : Int, complete : BOOLEAN, cycles : SUBSET Cycles!Cycle]
  BY <1>1, <1>2 DEF Cycles!NoPost
<1>6. Cycles!HealthTyped'
  BY <1>1, <1>4, <1>5 DEF Cycles!HealthInv, Cycles!HealthTyped
<1>7. v3.pc # "reads"
  BY <1>1 DEF Cycles!HealthInv, Cycles!StretchInv
<1>8. Cycles!StretchInv' /\ Cycles!PostInv' /\ Cycles!InOrder'
  BY <1>1, <1>7 DEF Cycles!HealthInv, Cycles!StretchInv, Cycles!PostInv, Cycles!InOrder, Cycles!Started,
     Cycles!Appeared, Cycles!NoPost, Cycles!Never
<1>9. v5'.covered # Cycles!Never => v5'.covered <= v1'
  BY <1>1, <1>3, <1>4 DEF Cycles!HealthInv
<1>10. Cycles!CallsMissing(v5.cycles)'
  BY <1>1, <1>3, <1>4 DEF Cycles!HealthInv, Cycles!CallsMissing, Cycles!RunsOf, Cycles!Appeared, Cycles!Answers,
     Cycles!Never, Cycles!Missing
<1>11. ASSUME NEW s \in HealthSlots, v5'.covered # Cycles!Never, v5'.covered >= s + HealthGrace
       PROVE  /\ \E c \in v5'.cycles : c.slot = s
              /\ \A r \in Cycles!RunsOf(s) : v2[r].finish < s + HealthGrace => [slot |-> s, by |-> r] \in v5'.cycles
  <2>1. CASE v5.covered # Cycles!Never /\ v5.covered >= s + HealthGrace
    BY <1>4, <2>1 DEF Cycles!HealthInv, Cycles!NoSlotSkipped, Cycles!TimelyReportKept, Cycles!CoveredPast,
       Cycles!Archived
  <2>2. CASE ~(v5.covered # Cycles!Never /\ v5.covered >= s + HealthGrace)
    <3>1. Cycles!Continuous(v4) /\ v5'.covered = v4.through
      BY <1>4, <1>11, <2>2
    <3>2. v4.complete
      BY <3>1 DEF Cycles!Continuous
    <3>3. v4.from <= s
      BY <1>2, <1>3, <2>2 DEF Cycles!From, Cycles!RequiredFrom
    <3> QED BY <1>2, <1>3, <1>4, <1>11, <3>1, <3>2, <3>3 DEF Cycles!HoldsAll
  <2> QED BY <2>1, <2>2
<1>12. Cycles!NoSlotSkipped' /\ Cycles!TimelyReportKept'
  BY <1>1, <1>11 DEF Cycles!NoSlotSkipped, Cycles!TimelyReportKept, Cycles!CoveredPast, Cycles!Archived,
     Cycles!RunsOf, Cycles!Appeared, Cycles!Answers, Cycles!Never
<1> QED BY <1>6, <1>8, <1>9, <1>10, <1>12 DEF Cycles!HealthInv, Cycles!Never

\* The invariant of cycle health holds in every behaviour.
LEMMA HealthInvariant == OperationsSpec => [](Is("cycles") => Cycles!HealthInv)
<1> DEFINE Inv == Is("cycles") => Cycles!HealthInv
<1>1. OperationsInit => Inv
  BY HealthSteps, HealthInit
<1>2. Inv /\ [OperationsNext]_operations => Inv'
  <2> SUFFICES ASSUME Inv, [OperationsNext]_operations, Is("cycles")' PROVE Cycles!HealthInv'
    OBVIOUS
  <2>1. Cycles!HealthInv /\ [Cycles!Next]_<<v1, v2, v3, v4, v5>>
    BY HealthSteps
  <2>2. CASE UNCHANGED <<v1, v2, v3, v4, v5>>
    BY <2>1, <2>2 DEF Cycles!HealthInv, Cycles!HealthTyped, Cycles!InOrder, Cycles!Started, Cycles!Appeared,
       Cycles!StretchInv, Cycles!PostInv, Cycles!HoldsAll, Cycles!CallsMissing, Cycles!NoSlotSkipped,
       Cycles!TimelyReportKept, Cycles!CoveredPast, Cycles!Archived, Cycles!RunsOf, Cycles!Answers, Cycles!From,
       Cycles!NoPost, Cycles!Never, Cycles!Missing, Cycles!RequiredFrom
  <2>3. CASE Cycles!CollectAll \/ Cycles!CollectPart
    BY <2>1, <2>3, HealthCollects DEF Cycles!CollectAll, Cycles!CollectPart
  <2> QED BY <2>1, <2>2, <2>3, HealthReports, HealthBegins, HealthStores DEF Cycles!Next
<1> QED BY <1>1, <1>2, PTL DEF OperationsSpec

\* The cursor passes no slot that is not archived and no timely report, and a
\* slot called missing had none (publish, build_cycle_health), whatever was
\* lost, left incomplete or came late.
THEOREM CyclesAreCompleteHolds == OperationsSpec => []CyclesAreComplete
<1> DEFINE Inv == Is("cycles") => Cycles!HealthInv
<1>1. OperationsSpec => []Inv
  BY HealthInvariant
<1>2. Inv => CyclesAreComplete
  <2> SUFFICES ASSUME Cycles!HealthInv PROVE Cycles!MissingIsTrue
    BY DEF CyclesAreComplete, Cycles!HealthInv
  <2> QED BY DEF Cycles!HealthInv, Cycles!CallsMissing, Cycles!MissingIsTrue, Cycles!Archived
<1> QED BY <1>1, <1>2, PTL DEF OperationsSpec

-----------------------------------------------------------------------------
(* The paper observation: v1 is the clock, v2 the snapshots, v3 the        *)
(* markers, v4 t0, v5 the claims, v6 stops, v7 lost, v8 the collectors, v9 *)
(* the account reads, v10 the days outlasted, v11 the alerts and v12 what  *)
(* the watchdog sends.                                                     *)

\* A behaviour of the collectors begins and goes on as one.
LEMMA ObservationSteps ==
  /\ OperationsInit /\ Is("paper") => Paper!Init
  /\ [OperationsNext]_operations /\ Is("paper")' => Is("paper") /\ [Paper!Next]_componentVars
<1>1. OperationsInit /\ Is("paper") => Paper!Init
  BY DEF OperationsInit, Is
<1>2. [OperationsNext]_operations /\ Is("paper")' => Is("paper") /\ [Paper!Next]_componentVars
  BY DEF OperationsNext, operations, Is
<1> QED BY <1>1, <1>2

\* Days and their instants: a day is the quotient, it has as many instants as
\* its length, and it is due on the day itself.
LEMMA PaperDays ==
  /\ \A t \in Nat : Paper!DayOf(t) \in Nat
  /\ \A t, u \in Nat : t <= u => Paper!DayOf(t) <= Paper!DayOf(u)
  /\ \A d \in Nat : Paper!DueOf(d) \in Nat
  /\ \A d, t \in Nat : Paper!DueOf(d) <= t => d <= Paper!DayOf(t)
  /\ \A d, t \in Nat : d < Paper!DayOf(t) => Paper!DueOf(d) <= t
<1>0. PaperDay \in Nat /\ PaperDue \in Nat /\ PaperDue < PaperDay
  BY PaperAssumption
<1>1. \A t \in Nat : /\ Paper!DayOf(t) \in Nat /\ Paper!DayOf(t) * PaperDay <= t
                     /\ t < Paper!DayOf(t) * PaperDay + PaperDay
  BY <1>0 DEF Paper!DayOf
<1>2. \A d \in Nat : d * PaperDay \in Nat /\ Paper!DueOf(d) = d * PaperDay + PaperDue
  BY <1>0 DEF Paper!DueOf
<1>3. ASSUME NEW d \in Nat, NEW e \in Nat, d < e PROVE d * PaperDay + PaperDay <= e * PaperDay
  BY <1>0, <1>3, LaterDay
<1>4. ASSUME NEW t \in Nat, NEW u \in Nat, t <= u PROVE Paper!DayOf(t) <= Paper!DayOf(u)
  <2>1. ~(Paper!DayOf(u) < Paper!DayOf(t))
    <3> SUFFICES ASSUME Paper!DayOf(u) < Paper!DayOf(t) PROVE FALSE
      OBVIOUS
    <3>1. Paper!DayOf(u) * PaperDay + PaperDay <= Paper!DayOf(t) * PaperDay
      BY <1>1, <1>3
    <3>2. /\ Paper!DayOf(u) * PaperDay \in Nat /\ Paper!DayOf(t) * PaperDay \in Nat
          /\ u < Paper!DayOf(u) * PaperDay + PaperDay /\ Paper!DayOf(t) * PaperDay <= t
      BY <1>1, <1>2
    <3> QED BY <1>0, <1>4, <3>1, <3>2
  <2> QED BY <1>1, <2>1
<1>5. ASSUME NEW d \in Nat, NEW t \in Nat, Paper!DueOf(d) <= t PROVE d <= Paper!DayOf(t)
  <2>1. ~(Paper!DayOf(t) < d)
    <3> SUFFICES ASSUME Paper!DayOf(t) < d PROVE FALSE
      OBVIOUS
    <3>1. Paper!DayOf(t) * PaperDay + PaperDay <= d * PaperDay
      BY <1>1, <1>3
    <3>2. /\ Paper!DayOf(t) * PaperDay \in Nat /\ d * PaperDay \in Nat
          /\ t < Paper!DayOf(t) * PaperDay + PaperDay /\ d * PaperDay <= t
      BY <1>0, <1>1, <1>2, <1>5
    <3> QED BY <1>0, <3>1, <3>2
  <2> QED BY <1>1, <2>1
<1>6. ASSUME NEW d \in Nat, NEW t \in Nat, d < Paper!DayOf(t) PROVE Paper!DueOf(d) <= t
  <2>1. d * PaperDay + PaperDay <= Paper!DayOf(t) * PaperDay
    BY <1>1, <1>3, <1>6
  <2>2. d * PaperDay \in Nat /\ Paper!DayOf(t) * PaperDay \in Nat /\ Paper!DayOf(t) * PaperDay <= t
    BY <1>1, <1>2
  <2> QED BY <1>0, <1>2, <2>1, <2>2
<1>7. \A d \in Nat : Paper!DueOf(d) \in Nat
  <2> TAKE d \in Nat
  <2>1. d * PaperDay \in Nat /\ Paper!DueOf(d) = d * PaperDay + PaperDue
    BY <1>2
  <2> QED BY <1>0, <2>1
<1>8. \A t \in Nat : Paper!DayOf(t) \in Nat
  BY <1>1
<1> QED BY <1>4, <1>5, <1>6, <1>7, <1>8

\* The days up to the last instant, and the marks for none of them.
LEMMA PaperBounds ==
  /\ Paper!Days \subseteq Nat /\ Paper!Times \subseteq Nat
  /\ \A t \in Paper!Times : Paper!DayOf(t) \in Paper!Days
  /\ Paper!NoDay \notin Paper!Days /\ Paper!Never \notin Paper!Times /\ Paper!NoDay \in Nat
<1>0. PaperEnd \in Nat /\ PaperDay \in Nat \ {0}
  BY PaperAssumption
<1>1. Paper!DayOf(PaperEnd) \in Nat /\ Paper!DayOf(PaperEnd) <= PaperEnd
  BY <1>0 DEF Paper!DayOf
<1>2. \A t \in Paper!Times : Paper!DayOf(t) \in Paper!Days
  BY <1>0, PaperDays DEF Paper!Times, Paper!Days
<1> QED BY <1>0, <1>1, <1>2 DEF Paper!Days, Paper!Times, Paper!NoDay, Paper!Never

\* The first of some days is the earliest of them.
LEMMA FirstDay ==
  ASSUME NEW days \in SUBSET Paper!Days, days # {}
  PROVE  Paper!First(days) \in days /\ \A e \in days : Paper!First(days) <= e
<1>1. \E d \in days : \A e \in days : d <= e
  BY PaperBounds, Numbers!LeastNatural
<1> QED BY <1>1 DEF Paper!First

\* A run that is idle.
LEMMA IdleTyped == Paper!Idle \in Paper!OneRun /\ Paper!Idle.pc = "idle"
<1>1. 0 \in Paper!Times /\ Paper!NoClaim \in Paper!Claim
  BY PaperAssumption, PaperBounds DEF Paper!Times, Paper!NoClaim, Paper!Claim
<1> QED BY <1>1 DEF Paper!Idle, Paper!OneRun

\* At first nothing is observed.
LEMMA ObservationInit == ASSUME Paper!Init PROVE Paper!ObservationInv
<1>1. 0 \in Paper!Times
  BY PaperAssumption DEF Paper!Times
<1>2. /\ v8 = [c \in Collectors |-> Paper!Idle] /\ v4 = Paper!NoDay /\ v7 = {} /\ v9 = {} /\ v5 = {}
      /\ v2 = [d \in Paper!Days |-> Paper!Never] /\ v3 = [d \in Paper!Days |-> "none"]
  BY DEF Paper!Init
<1>3. \A c \in Collectors : v8[c].pc = "idle"
  BY <1>2 DEF Paper!Idle
<1>4. Paper!TypeOK
  BY <1>1, <1>2, IdleTyped DEF Paper!Init, Paper!TypeOK
<1> QED
  BY <1>2, <1>3, <1>4 DEF Paper!ObservationInv, Paper!Active, Paper!ClaimsAreHeld, Paper!ObservedOnItsDay,
     Paper!MarkerTellsSnapshot, Paper!T0IsFirst, Paper!LostIsFinal, Paper!OneGetPerClaim

\* What a run holds is typed.
LEMMA RunTypes ==
  ASSUME Paper!ObservationInv, NEW c \in Collectors
  PROVE  /\ v1 \in Paper!Times /\ v1 \in Nat /\ Paper!DayOf(v1) \in Nat
         /\ v8 \in [Collectors -> Paper!OneRun] /\ v8[c] \in Paper!OneRun
         /\ v8[c].at \in Paper!Times /\ v8[c].at \in Nat /\ v8[c].todo \in SUBSET Paper!Days
         /\ v8[c].gaps \in SUBSET Paper!Days
         /\ Paper!Today(c) \in Paper!Days /\ Paper!Today(c) \in Nat
<1>1. v1 \in Paper!Times /\ v8 \in [Collectors -> Paper!OneRun]
  BY DEF Paper!ObservationInv, Paper!TypeOK
<1>2. /\ v8[c] \in Paper!OneRun /\ v8[c].at \in Paper!Times /\ v8[c].todo \in SUBSET Paper!Days
      /\ v8[c].gaps \in SUBSET Paper!Days
  BY <1>1 DEF Paper!OneRun
<1> QED BY <1>1, <1>2, PaperBounds, PaperDays DEF Paper!Today

\* A run that takes no claim and uses none leaves the claims held.
LEMMA ClaimsStay ==
  ASSUME Paper!ObservationInv, NEW c \in Collectors, NEW r \in Paper!OneRun, r.pc # "fetching",
         v8' = [v8 EXCEPT ![c] = r], v5' = v5, v9' = v9
  PROVE  Paper!ClaimsAreHeld' /\ Paper!OneGetPerClaim'
<1>1. /\ \A b \in Collectors : v8'[b] = IF b = c THEN r ELSE v8[b]
      /\ Paper!ClaimsAreHeld /\ Paper!OneGetPerClaim
  BY RunTypes DEF Paper!ObservationInv
<1>2. \A b \in Collectors : v8'[b].pc = "fetching" => v8'[b] = v8[b]
  BY <1>1
<1>3. Paper!ClaimsAreHeld'
  BY <1>1, <1>2 DEF Paper!ClaimsAreHeld
<1> QED BY <1>1, <1>3 DEF Paper!OneGetPerClaim

\* The step of a run that stores nothing keeps what is known of the other runs
\* and of what is stored.
LEMMA RunGoesOn ==
  ASSUME Paper!ObservationInv, NEW c \in Collectors, NEW r \in Paper!OneRun,
         v8' = [v8 EXCEPT ![c] = r], v1' = v1, v2' = v2, v3' = v3, v4' = v4, v10' = v10, v11' = v11, v12' = v12,
         v5' \subseteq Paper!Claim, v6' \subseteq Paper!Days, v7' \subseteq Paper!Days,
         Paper!ClaimsAreHeld', Paper!OneGetPerClaim',
         \A d \in v7' : d < Paper!DayOf(v1) /\ (v2[d] # Paper!Never => d \in v10),
         r.pc # "idle" => Paper!RunIsPast(c)' /\ Paper!PassesInOrder(c)'
  PROVE  Paper!ObservationInv'
<1>1. \A b \in Collectors : v8'[b] = IF b = c THEN r ELSE v8[b]
  BY RunTypes
<1>2. Paper!TypeOK'
  BY RunTypes DEF Paper!ObservationInv, Paper!TypeOK
<1>3. ASSUME NEW b \in Collectors, Paper!Active(b)' PROVE Paper!RunIsPast(b)' /\ Paper!PassesInOrder(b)'
  <2>1. CASE b = c
    BY <1>1, <1>3, <2>1 DEF Paper!Active
  <2>2. CASE b # c
    <3>1. v8'[b] = v8[b] /\ Paper!RunIsPast(b) /\ Paper!PassesInOrder(b)
      BY <1>1, <1>3, <2>2 DEF Paper!Active, Paper!ObservationInv
    <3> QED BY <3>1 DEF Paper!RunIsPast, Paper!PassesInOrder, Paper!Today
  <2> QED BY <2>1, <2>2
<1>4. Paper!ObservedOnItsDay' /\ Paper!MarkerTellsSnapshot' /\ Paper!T0IsFirst'
  BY DEF Paper!ObservationInv, Paper!ObservedOnItsDay, Paper!MarkerTellsSnapshot, Paper!T0IsFirst
<1>5. Paper!LostIsFinal'
  BY DEF Paper!LostIsFinal
<1> QED BY <1>2, <1>3, <1>4, <1>5 DEF Paper!ObservationInv

\* A run that ends, holds nothing any more.
LEMMA RunEnds ==
  ASSUME Paper!ObservationInv, NEW c \in Collectors, v8' = [v8 EXCEPT ![c] = Paper!Idle],
         v1' = v1, v2' = v2, v3' = v3, v4' = v4, v10' = v10, v11' = v11, v12' = v12,
         v5' \subseteq Paper!Claim, v6' \subseteq Paper!Days, v7' \subseteq Paper!Days,
         Paper!ClaimsAreHeld', Paper!OneGetPerClaim',
         \A d \in v7' : d < Paper!DayOf(v1) /\ (v2[d] # Paper!Never => d \in v10)
  PROVE  Paper!ObservationInv'
BY IdleTyped, RunGoesOn

\* A run that begins has all its days before it.
LEMMA RunBegins ==
  ASSUME Paper!ObservationInv, NEW c \in Collectors, Paper!Begin(c) PROVE Paper!ObservationInv'
<1>0. PICK due : due = {d \in Paper!Days : Paper!DueOf(d) <= v1}
  OBVIOUS
<1>r. PICK r : r = [Paper!Idle EXCEPT !.pc = "looking", !.at = v1, !.todo = due]
  OBVIOUS
<1>1. /\ v8' = [v8 EXCEPT ![c] = r] /\ v1' = v1 /\ v2' = v2 /\ v3' = v3 /\ v4' = v4 /\ v5' = v5
      /\ v6' = v6 /\ v7' = v7 /\ v9' = v9 /\ v10' = v10 /\ v11' = v11 /\ v12' = v12
  BY <1>0, <1>r DEF Paper!Begin, Paper!store, Paper!watch
<1>2. r = [pc |-> "looking", at |-> v1, todo |-> due, gaps |-> {}, claim |-> Paper!NoClaim,
           day |-> Paper!NoDay, observed |-> Paper!Never]
  BY <1>r DEF Paper!Idle
<1>3. r \in Paper!OneRun
  <2>1. Paper!NoClaim \in Paper!Claim
    BY PaperBounds DEF Paper!NoClaim, Paper!Claim
  <2> QED BY <1>0, <1>2, <2>1, RunTypes DEF Paper!OneRun
<1>4. v8'[c] = r
  BY <1>1, RunTypes
<1>5. Paper!RunIsPast(c)'
  BY <1>0, <1>1, <1>2, <1>4, RunTypes DEF Paper!RunIsPast, Paper!Today
<1>6. Paper!PassesInOrder(c)'
  <2>1. \A d \in Paper!Days : d < Paper!DayOf(v1) => d \in r.todo
    BY <1>0, <1>2, PaperDays, PaperBounds, RunTypes
  <2> QED BY <1>1, <1>2, <1>4, <2>1 DEF Paper!PassesInOrder, Paper!Today
<1>7. Paper!ClaimsAreHeld' /\ Paper!OneGetPerClaim'
  BY <1>1, <1>2, <1>3, ClaimsStay
<1> QED BY <1>1, <1>3, <1>5, <1>6, <1>7, RunGoesOn DEF Paper!ObservationInv, Paper!TypeOK, Paper!LostIsFinal

\* A run that looks at its first day has that day behind it: marked, to be
\* completed, or a gap.
LEMMA RunLooks ==
  ASSUME Paper!ObservationInv, NEW c \in Collectors, Paper!Look(c) PROVE Paper!ObservationInv'
<1> DEFINE run == v8[c]
           d == Paper!First(run.todo)
<1>1. /\ v1' = v1 /\ v2' = v2 /\ v3' = v3 /\ v4' = v4 /\ v5' = v5 /\ v6' = v6 /\ v7' = v7 /\ v9' = v9
      /\ v10' = v10 /\ v11' = v11 /\ v12' = v12 /\ run.pc = "looking" /\ run.todo # {}
  BY DEF Paper!Look, Paper!store, Paper!watch
<1>2. Paper!RunIsPast(c) /\ Paper!PassesInOrder(c)
  BY <1>1 DEF Paper!ObservationInv, Paper!Active
<1>3. /\ d \in run.todo /\ d \in Paper!Days /\ (\A e \in run.todo : d <= e) /\ run \in Paper!OneRun
      /\ run.todo \in SUBSET Paper!Days /\ run.gaps \in SUBSET Paper!Days
  BY <1>1, RunTypes, FirstDay
<1>4. d <= Paper!Today(c)
  BY <1>2, <1>3, PaperDays, PaperBounds, RunTypes DEF Paper!RunIsPast, Paper!Today
<1>5. PICK r : r = v8'[c]
  OBVIOUS
<1>6. \/ v3[d] # "none" /\ r = [run EXCEPT !.todo = run.todo \ {d}]
      \/ v2[d] # Paper!Never /\ r = [run EXCEPT !.todo = run.todo \ {d}, !.pc = "marking", !.day = d]
      \/ v2[d] = Paper!Never /\ r = [run EXCEPT !.todo = run.todo \ {d}, !.gaps = run.gaps \cup {d}]
  <2>1. v8 \in [Collectors -> Paper!OneRun]
    BY RunTypes
  <2>2. v3[d] # "none" \/ (v3[d] = "none" /\ v2[d] # Paper!Never) \/ (v3[d] = "none" /\ v2[d] = Paper!Never)
    OBVIOUS
  <2> HIDE DEF d
  <2> QED BY <1>5, <2>1, <2>2 DEF Paper!Look, d
<1>7. v8' = [v8 EXCEPT ![c] = r]
  BY <1>5, RunTypes DEF Paper!Look
<1> HIDE DEF d
<1>8. /\ r \in Paper!OneRun /\ r.at = run.at /\ r.todo = run.todo \ {d} /\ r.pc \in {"looking", "marking"}
      /\ r.gaps = run.gaps \/ (r.gaps = run.gaps \cup {d} /\ v2[d] = Paper!Never)
      /\ r.pc = "marking" => r.day = d /\ v2[d] # Paper!Never
      /\ r.pc = "looking" => v3[d] # "none" \/ v2[d] = Paper!Never
  <2>1. run.todo \ {d} \in SUBSET Paper!Days /\ run.gaps \cup {d} \in SUBSET Paper!Days
    BY <1>3
  <2>2. CASE v3[d] # "none" /\ r = [run EXCEPT !.todo = run.todo \ {d}]
    BY <1>1, <1>3, <2>1, <2>2 DEF Paper!OneRun
  <2>3. CASE v2[d] # Paper!Never /\ r = [run EXCEPT !.todo = run.todo \ {d}, !.pc = "marking", !.day = d]
    BY <1>1, <1>3, <2>1, <2>3 DEF Paper!OneRun
  <2>4. CASE v2[d] = Paper!Never /\ r = [run EXCEPT !.todo = run.todo \ {d}, !.gaps = run.gaps \cup {d}]
    BY <1>1, <1>3, <2>1, <2>4 DEF Paper!OneRun
  <2> QED BY <1>6, <2>2, <2>3, <2>4
<1>9. Paper!RunIsPast(c)'
  BY <1>1, <1>2, <1>3, <1>5, <1>8 DEF Paper!RunIsPast, Paper!Today
<1>10. Paper!PassesInOrder(c)'
  <2>1. Paper!Today(c)' = Paper!Today(c)
    BY <1>5, <1>8 DEF Paper!Today
  <2>2. ASSUME NEW e \in Paper!Days \ r.todo, e < Paper!Today(c), v2[e] # Paper!Never,
               ~(r.pc = "marking" /\ r.day = e)
        PROVE  e \in v10 \/ v4 # Paper!NoDay
    <3>1. CASE e = d
      BY <1>3, <1>8, <2>2, <3>1 DEF Paper!ObservationInv
    <3>2. CASE e # d
      BY <1>1, <1>2, <1>8, <2>2, <3>2 DEF Paper!PassesInOrder
    <3> QED BY <3>1, <3>2
  <2>3. \A e \in r.gaps : e < Paper!Today(c) /\ v2[e] # Paper!Never => e \in v10
    BY <1>2, <1>8 DEF Paper!PassesInOrder
  <2>4. \A e \in r.todo : d < e
    <3>1. \A e \in run.todo : e \in Nat /\ d \in Nat
      BY <1>3, PaperBounds
    <3> QED BY <1>3, <1>8, <3>1
  <2> QED BY <1>1, <1>3, <1>4, <1>5, <1>8, <2>1, <2>2, <2>3, <2>4 DEF Paper!PassesInOrder
<1>11. Paper!ClaimsAreHeld' /\ Paper!OneGetPerClaim'
  BY <1>1, <1>7, <1>8, ClaimsStay
<1> QED
  BY <1>1, <1>7, <1>8, <1>9, <1>10, <1>11, RunGoesOn DEF Paper!ObservationInv, Paper!TypeOK, Paper!LostIsFinal

\* A run that rests or crashes.
LEMMA RunRests ==
  ASSUME Paper!ObservationInv, NEW c \in Collectors, Paper!Rest(c) \/ Paper!Crash(c)
  PROVE  Paper!ObservationInv'
<1>1. /\ v8' = [v8 EXCEPT ![c] = Paper!Idle] /\ v1' = v1 /\ v2' = v2 /\ v3' = v3 /\ v4' = v4 /\ v5' = v5
      /\ v6' = v6 /\ v7' = v7 /\ v9' = v9 /\ v10' = v10 /\ v11' = v11 /\ v12' = v12
  BY DEF Paper!Rest, Paper!Crash, Paper!store, Paper!watch
<1>2. Paper!ClaimsAreHeld' /\ Paper!OneGetPerClaim'
  BY <1>1, IdleTyped, ClaimsStay
<1> QED BY <1>1, <1>2, RunEnds DEF Paper!ObservationInv, Paper!TypeOK, Paper!LostIsFinal

\* A run is where it was when another one stores a snapshot of a day that is
\* not over, or of one that was outlasted, and names t0.
LEMMA OthersGoOn ==
  ASSUME Paper!ObservationInv, NEW b \in Collectors, Paper!Active(b), v8'[b] = v8[b], v1' = v1, v10' = v10,
         v4 # Paper!NoDay => v4' # Paper!NoDay,
         \A d \in Paper!Days : \/ v2'[d] = v2[d]
                               \/ /\ v2[d] = Paper!Never /\ v2'[d] # Paper!Never
                                  /\ d < Paper!DayOf(v1) => d \in v10
  PROVE  Paper!RunIsPast(b)' /\ Paper!PassesInOrder(b)'
<1>1. Paper!RunIsPast(b) /\ Paper!PassesInOrder(b)
  BY DEF Paper!ObservationInv
<1>2. Paper!Today(b)' = Paper!Today(b) /\ Paper!Today(b) <= Paper!DayOf(v1)
  BY <1>1, RunTypes, PaperDays DEF Paper!RunIsPast, Paper!Today
<1>3. Paper!RunIsPast(b)'
  BY <1>1, <1>2 DEF Paper!RunIsPast
<1>4. \A d \in Paper!Days : d < Paper!Today(b) => d < Paper!DayOf(v1)
  <2>1. Paper!Today(b) \in Nat /\ Paper!DayOf(v1) \in Nat
    BY RunTypes
  <2>2. Paper!Today(b) <= Paper!DayOf(v1)
    BY <1>2
  <2>3. ASSUME NEW d \in Paper!Days, d < Paper!Today(b) PROVE d < Paper!DayOf(v1)
    <3>1. d \in Nat
      BY PaperBounds
    <3> QED BY <2>1, <2>2, <2>3, <3>1
  <2> QED BY <2>3
<1>5. v8[b].gaps \in SUBSET Paper!Days
  BY RunTypes
<1>6. \A d \in Paper!Days : d < Paper!Today(b) /\ v2'[d] # Paper!Never => v2[d] # Paper!Never \/ d \in v10
  BY <1>4
<1>7. \A d \in Paper!Days \ v8[b].todo :
         /\ d < Paper!Today(b) /\ v2'[d] # Paper!Never /\ ~(v8[b].pc = "marking" /\ v8[b].day = d)
         => d \in v10 \/ v4' # Paper!NoDay
  BY <1>1, <1>6 DEF Paper!PassesInOrder
<1>8. \A d \in v8[b].gaps : d < Paper!Today(b) /\ v2'[d] # Paper!Never => d \in v10
  BY <1>1, <1>5, <1>6 DEF Paper!PassesInOrder
<1>9. v8[b].pc \in {"marking", "marked"} =>
        /\ v8[b].day \in Paper!Days /\ v8[b].day <= Paper!Today(b) /\ v2'[v8[b].day] # Paper!Never
        /\ \A d \in v8[b].todo : v8[b].day < d
  BY <1>1 DEF Paper!PassesInOrder
<1>10. /\ v8[b].pc \in {"fetching", "storing"} => v8[b].todo = {}
       /\ v8[b].pc = "marked" => v4' # Paper!NoDay
  BY <1>1 DEF Paper!PassesInOrder
<1>11. Paper!PassesInOrder(b)'
  BY <1>2, <1>7, <1>8, <1>9, <1>10 DEF Paper!PassesInOrder
<1> QED BY <1>3, <1>11

\* t0.json gets the day of the run, before which no day was observed in time,
\* or keeps the one it names.
LEMMA RunMarksT0 ==
  ASSUME Paper!ObservationInv, NEW c \in Collectors, Paper!MarkT0(c) PROVE Paper!ObservationInv'
<1> DEFINE run == v8[c]
<1>1. PICK r : r = [run EXCEPT !.pc = "marked"]
  OBVIOUS
<1>2. /\ v1' = v1 /\ v2' = v2 /\ v3' = v3 /\ v5' = v5 /\ v6' = v6 /\ v7' = v7 /\ v9' = v9
      /\ v10' = v10 /\ v11' = v11 /\ v12' = v12 /\ run.pc = "marking" /\ v8' = [v8 EXCEPT ![c] = r]
      /\ v4' = IF v4 = Paper!NoDay THEN run.day ELSE v4
  BY <1>1 DEF Paper!MarkT0, Paper!Named, Paper!watch
<1>3. Paper!RunIsPast(c) /\ Paper!PassesInOrder(c)
  BY <1>2 DEF Paper!ObservationInv, Paper!Active
<1>4. /\ run.day \in Paper!Days /\ run.day <= Paper!Today(c) /\ v2[run.day] # Paper!Never
      /\ \A d \in run.todo : run.day < d
  BY <1>2, <1>3 DEF Paper!PassesInOrder
<1>5. v4' # Paper!NoDay /\ v4' \in Paper!Days \cup {Paper!NoDay}
  BY <1>2, <1>4, PaperBounds DEF Paper!ObservationInv, Paper!TypeOK
<1>6. r \in Paper!OneRun /\ r.pc = "marked" /\ r.at = run.at /\ r.todo = run.todo /\ r.gaps = run.gaps /\ r.day = run.day
  BY <1>1, RunTypes DEF Paper!OneRun
<1>7. \A b \in Collectors : v8'[b] = IF b = c THEN r ELSE v8[b]
  BY <1>2, RunTypes
<1>8. Paper!T0IsFirst'
  <2>1. CASE v4 = Paper!NoDay
    <3> SUFFICES ASSUME NEW d \in Paper!Days, d < run.day, v2[d] # Paper!Never PROVE d \in v10
      BY <1>2, <1>4, <2>1 DEF Paper!T0IsFirst
    <3>0. d \in Nat /\ run.day \in Nat /\ Paper!Today(c) \in Nat
      BY <1>4, PaperBounds, RunTypes
    <3>1. d \notin run.todo /\ d # run.day /\ d < Paper!Today(c)
      BY <1>4, <3>0
    <3> QED BY <1>3, <2>1, <3>1 DEF Paper!PassesInOrder
  <2>2. CASE v4 # Paper!NoDay
    BY <1>2, <2>2 DEF Paper!ObservationInv, Paper!T0IsFirst
  <2> QED BY <2>1, <2>2
<1>9. ASSUME NEW b \in Collectors, Paper!Active(b)' PROVE Paper!RunIsPast(b)' /\ Paper!PassesInOrder(b)'
  <2>1. CASE b = c
    <3>1. Paper!RunIsPast(c)'
      BY <1>2, <1>3, <1>6, <1>7 DEF Paper!RunIsPast, Paper!Today
    <3>2. Paper!PassesInOrder(c)'
      BY <1>2, <1>3, <1>4, <1>5, <1>6, <1>7 DEF Paper!PassesInOrder, Paper!Today
    <3> QED BY <2>1, <3>1, <3>2
  <2>2. CASE b # c
    <3>1. v8'[b] = v8[b] /\ Paper!Active(b)
      BY <1>7, <1>9, <2>2 DEF Paper!Active
    <3> QED BY <1>2, <1>5, <3>1, OthersGoOn
  <2> QED BY <2>1, <2>2
<1>10. Paper!ClaimsAreHeld' /\ Paper!OneGetPerClaim'
  BY <1>2, <1>6, ClaimsStay
<1>11. Paper!TypeOK'
  BY <1>2, <1>5, <1>6 DEF Paper!ObservationInv, Paper!TypeOK
<1>12. Paper!ObservedOnItsDay' /\ Paper!MarkerTellsSnapshot' /\ Paper!LostIsFinal'
  BY <1>2 DEF Paper!ObservationInv, Paper!ObservedOnItsDay, Paper!MarkerTellsSnapshot, Paper!LostIsFinal
<1> QED BY <1>2, <1>5, <1>8, <1>9, <1>10, <1>11, <1>12 DEF Paper!ObservationInv

\* The marker of a day is written once, from the stored snapshot.
LEMMA RunMarksDay ==
  ASSUME Paper!ObservationInv, NEW c \in Collectors, Paper!MarkDay(c) PROVE Paper!ObservationInv'
<1> DEFINE run == v8[c]
<1>1. PICK r : r = IF run.claim = Paper!NoClaim THEN [run EXCEPT !.pc = "looking", !.day = Paper!NoDay] ELSE Paper!Idle
  OBVIOUS
<1>2. /\ v1' = v1 /\ v2' = v2 /\ v4' = v4 /\ v5' = v5 /\ v6' = v6 /\ v7' = v7 /\ v9' = v9
      /\ v10' = v10 /\ v11' = v11 /\ v12' = v12 /\ run.pc = "marked"
      /\ v3' = [v3 EXCEPT ![run.day] = IF @ = "none" THEN Paper!Timing(run.day, v2[run.day]) ELSE @]
      /\ v8' = [v8 EXCEPT ![c] = r]
  BY <1>1 DEF Paper!MarkDay, Paper!Observed, Paper!watch
<1>3. /\ Paper!RunIsPast(c) /\ Paper!PassesInOrder(c) /\ v4 # Paper!NoDay
      /\ run.day \in Paper!Days /\ v2[run.day] # Paper!Never
  <2>1. Paper!RunIsPast(c) /\ Paper!PassesInOrder(c)
    BY <1>2 DEF Paper!ObservationInv, Paper!Active
  <2> QED BY <1>2, <2>1 DEF Paper!PassesInOrder
<1>4. /\ r \in Paper!OneRun /\ r.pc \in {"looking", "idle"}
      /\ r.pc # "idle" => r.at = run.at /\ r.todo = run.todo /\ r.gaps = run.gaps
  <2>1. CASE r = Paper!Idle
    BY <2>1, IdleTyped
  <2>2. CASE r = [run EXCEPT !.pc = "looking", !.day = Paper!NoDay]
    BY <2>2, RunTypes DEF Paper!OneRun
  <2> QED BY <1>1, <2>1, <2>2
<1>5. \A b \in Collectors : v8'[b] = IF b = c THEN r ELSE v8[b]
  BY <1>2, RunTypes
<1>6. v3 \in [Paper!Days -> {"none", "on_time", "late"}]
  BY DEF Paper!ObservationInv, Paper!TypeOK
<1>7. \A d \in Paper!Days : v3'[d] = v3[d] \/ (d = run.day /\ v3'[d] = Paper!Timing(d, v2[d]))
  BY <1>2, <1>3, <1>6
<1>8. v3' \in [Paper!Days -> {"none", "on_time", "late"}]
  BY <1>2, <1>3, <1>6 DEF Paper!Timing
<1>9. Paper!MarkerTellsSnapshot'
  BY <1>2, <1>3, <1>7 DEF Paper!ObservationInv, Paper!MarkerTellsSnapshot, Paper!Timing
<1>10. ASSUME NEW b \in Collectors, Paper!Active(b)' PROVE Paper!RunIsPast(b)' /\ Paper!PassesInOrder(b)'
  <2>1. CASE b = c
    <3>0. r.pc = "looking" /\ r.at = run.at /\ r.todo = run.todo /\ r.gaps = run.gaps /\ v8'[c] = r
      BY <1>4, <1>5, <1>10, <2>1 DEF Paper!Active
    <3>1. Paper!RunIsPast(c)'
      BY <1>2, <1>3, <3>0 DEF Paper!RunIsPast, Paper!Today
    <3>2. Paper!PassesInOrder(c)'
      BY <1>2, <1>3, <3>0 DEF Paper!PassesInOrder, Paper!Today
    <3> QED BY <2>1, <3>1, <3>2
  <2>2. CASE b # c
    <3>1. v8'[b] = v8[b] /\ Paper!Active(b)
      BY <1>5, <1>10, <2>2 DEF Paper!Active
    <3> QED BY <1>2, <3>1, OthersGoOn
  <2> QED BY <2>1, <2>2
<1>11. Paper!ClaimsAreHeld' /\ Paper!OneGetPerClaim'
  BY <1>2, <1>4, ClaimsStay
<1>12. Paper!TypeOK'
  BY <1>2, <1>4, <1>8 DEF Paper!ObservationInv, Paper!TypeOK
<1>13. Paper!ObservedOnItsDay' /\ Paper!T0IsFirst' /\ Paper!LostIsFinal'
  BY <1>2 DEF Paper!ObservationInv, Paper!ObservedOnItsDay, Paper!T0IsFirst, Paper!LostIsFinal
<1> QED BY <1>2, <1>3, <1>9, <1>10, <1>11, <1>12, <1>13 DEF Paper!ObservationInv

\* A snapshot is stored once, on the day of the run: when that is over, the
\* run has outlasted it.
LEMMA RunStores ==
  ASSUME Paper!ObservationInv, NEW c \in Collectors, Paper!Store(c) PROVE Paper!ObservationInv'
<1> DEFINE run == v8[c]
           day == Paper!Today(c)
<1>1. /\ v1' = v1 /\ v3' = v3 /\ v4' = v4 /\ v5' = v5 /\ v6' = v6 /\ v7' = v7 /\ v9' = v9
      /\ v10' = v10 /\ v11' = v11 /\ v12' = v12 /\ run.pc = "storing"
  BY DEF Paper!Store, Paper!watch
<1>2. Paper!RunIsPast(c) /\ Paper!PassesInOrder(c)
  BY <1>1 DEF Paper!ObservationInv, Paper!Active
<1>3. CASE v2' = v2 /\ v8' = [v8 EXCEPT ![c] = Paper!Idle]
  <2>1. Paper!ClaimsAreHeld' /\ Paper!OneGetPerClaim'
    BY <1>1, <1>3, IdleTyped, ClaimsStay
  <2> QED BY <1>1, <1>3, <2>1, RunEnds DEF Paper!ObservationInv, Paper!TypeOK, Paper!LostIsFinal
<1>4. CASE /\ day \in run.gaps /\ v2' = [v2 EXCEPT ![day] = Paper!Kept(day, run.observed)]
           /\ v8' = [v8 EXCEPT ![c].pc = "marking", ![c].day = day]
  <2>1. PICK r : r = [run EXCEPT !.pc = "marking", !.day = day]
    OBVIOUS
  <2>2. v8' = [v8 EXCEPT ![c] = r]
    BY <1>4, <2>1, RunTypes
  <2>3. \A b \in Collectors : v8'[b] = IF b = c THEN r ELSE v8[b]
    BY <2>2, RunTypes
  <2>4. /\ day \in Paper!Days /\ day \in Nat /\ v2 \in [Paper!Days -> Paper!Times \cup {Paper!Never}]
        /\ v1 \in Nat /\ run.at \in Nat
    BY RunTypes DEF Paper!ObservationInv, Paper!TypeOK
  <2>5. /\ run.observed \in Paper!Times /\ run.observed \in Nat /\ run.at <= run.observed /\ run.observed <= v1
        /\ Paper!DayOf(run.observed) = day /\ Paper!DueOf(day) <= run.at /\ Paper!DueOf(day) \in Nat
        /\ day < Paper!DayOf(v1) => day \in v10
    BY <1>1, <1>2, <1>4, <2>4, PaperBounds, PaperDays DEF Paper!RunIsPast
  <2>6. /\ r \in Paper!OneRun /\ r.pc = "marking" /\ r.at = run.at /\ r.todo = {} /\ r.gaps = run.gaps /\ r.day = day
    <3>1. run.todo = {}
      BY <1>1, <1>2 DEF Paper!PassesInOrder
    <3> QED BY <2>1, <2>4, <3>1, RunTypes DEF Paper!OneRun
  <2>7. \A d \in Paper!Days :
          v2'[d] = v2[d] \/ (d = day /\ v2[d] = Paper!Never /\ v2'[d] = run.observed /\ v2'[d] # Paper!Never)
    BY <1>4, <2>4, <2>5, PaperBounds DEF Paper!Kept
  <2>8. v2' \in [Paper!Days -> Paper!Times \cup {Paper!Never}] /\ v2'[day] # Paper!Never
    BY <1>4, <2>4, <2>5, PaperBounds DEF Paper!Kept
  <2>9. Paper!TypeOK'
    BY <1>1, <2>2, <2>6, <2>8 DEF Paper!ObservationInv, Paper!TypeOK
  <2>10. Paper!ObservedOnItsDay' /\ \A d \in Paper!Days : v2'[d] # Paper!Never => v2'[d] <= v1
    <3> SUFFICES ASSUME NEW d \in Paper!Days, v2'[d] # Paper!Never
                 PROVE  Paper!DayOf(v2'[d]) = d /\ Paper!DueOf(d) <= v2'[d] /\ v2'[d] <= v1
      BY DEF Paper!ObservedOnItsDay
    <3>1. CASE v2'[d] = v2[d]
      BY <3>1 DEF Paper!ObservationInv, Paper!ObservedOnItsDay
    <3>2. CASE d = day /\ v2'[d] = run.observed
      BY <2>4, <2>5, <3>2
    <3> QED BY <2>7, <3>1, <3>2
  <2>11. Paper!MarkerTellsSnapshot'
    BY <1>1, <2>7 DEF Paper!ObservationInv, Paper!MarkerTellsSnapshot
  <2>12. Paper!T0IsFirst'
    <3>1. ASSUME v4 # Paper!NoDay PROVE v2[v4] # Paper!Never /\ v4 \in Paper!Days /\ v4 <= Paper!DayOf(v1)
      <4>1. v4 \in Paper!Days /\ v2[v4] # Paper!Never /\ v2[v4] \in Nat
        BY <3>1, <2>4, PaperBounds DEF Paper!ObservationInv, Paper!T0IsFirst, Paper!TypeOK
      <4>2. v2[v4] <= v1 /\ Paper!DayOf(v2[v4]) = v4
        BY <4>1 DEF Paper!ObservationInv, Paper!ObservedOnItsDay
      <4> QED BY <2>4, <4>1, <4>2, PaperDays
    <3>2. ASSUME v4 # Paper!NoDay, NEW d \in Paper!Days, d < v4, v2'[d] # Paper!Never PROVE d \in v10
      <4>1. CASE v2[d] # Paper!Never
        BY <3>2, <4>1 DEF Paper!ObservationInv, Paper!T0IsFirst
      <4>2. CASE v2[d] = Paper!Never
        <5>1. d = day /\ d \in Nat /\ v4 \in Nat /\ Paper!DayOf(v1) \in Nat
          BY <2>7, <3>1, <3>2, <4>2, PaperBounds, RunTypes
        <5> QED BY <2>5, <3>1, <3>2, <5>1
      <4> QED BY <4>1, <4>2
    <3> QED BY <1>1, <2>7, <3>1, <3>2 DEF Paper!T0IsFirst
  <2>13. Paper!LostIsFinal'
    <3> SUFFICES ASSUME NEW d \in v7, v2'[d] # Paper!Never PROVE d \in v10
      BY <1>1 DEF Paper!LostIsFinal
    <3>1. d \in Paper!Days /\ d < Paper!DayOf(v1)
      BY DEF Paper!ObservationInv, Paper!TypeOK
    <3> QED BY <2>5, <2>7, <3>1 DEF Paper!ObservationInv, Paper!LostIsFinal
  <2>14. ASSUME NEW b \in Collectors, Paper!Active(b)' PROVE Paper!RunIsPast(b)' /\ Paper!PassesInOrder(b)'
    <3>1. CASE b = c
      <4>1. Paper!RunIsPast(c)'
        BY <1>1, <1>2, <2>3, <2>6 DEF Paper!RunIsPast, Paper!Today
      <4>2. Paper!Today(c)' = day
        BY <2>3, <2>6 DEF Paper!Today
      <4>3. \A d \in Paper!Days : d < day => v2'[d] = v2[d]
        BY <2>4, <2>7, PaperBounds
      <4>4. \A d \in Paper!Days : d < day /\ v2'[d] # Paper!Never => d \in v10 \/ v4 # Paper!NoDay
        BY <1>1, <1>2, <2>6, <4>3 DEF Paper!PassesInOrder
      <4>5. \A d \in r.gaps : d < day /\ v2'[d] # Paper!Never => d \in v10
        BY <1>2, <2>6, <4>3, RunTypes DEF Paper!PassesInOrder
      <4>6. Paper!PassesInOrder(c)'
        BY <1>1, <2>3, <2>4, <2>6, <2>8, <4>2, <4>4, <4>5 DEF Paper!PassesInOrder
      <4> QED BY <3>1, <4>1, <4>6
    <3>2. CASE b # c
      <4>1. v8'[b] = v8[b] /\ Paper!Active(b)
        BY <2>3, <2>14, <3>2 DEF Paper!Active
      <4> QED BY <1>1, <2>5, <2>7, <4>1, OthersGoOn
    <3> QED BY <3>1, <3>2
  <2>15. Paper!ClaimsAreHeld' /\ Paper!OneGetPerClaim'
    BY <1>1, <2>2, <2>6, ClaimsStay
  <2> QED BY <1>1, <2>9, <2>10, <2>11, <2>12, <2>13, <2>14, <2>15 DEF Paper!ObservationInv
<1> QED BY <1>3, <1>4 DEF Paper!Store

\* A claim that is created is nobody else's, and under it nothing was read.
LEMMA ClaimTaken ==
  ASSUME Paper!ObservationInv, NEW c \in Collectors, NEW claim \in Paper!Claim, Paper!Take(c, claim), Paper!Looked(c),
         v7' \subseteq Paper!Days, \A d \in v7' : d < Paper!DayOf(v1) /\ (v2[d] # Paper!Never => d \in v10)
  PROVE  Paper!ObservationInv'
<1> DEFINE run == v8[c]
<1>1. PICK r : r = [run EXCEPT !.pc = "fetching", !.claim = claim]
  OBVIOUS
<1>2. /\ v1' = v1 /\ v2' = v2 /\ v3' = v3 /\ v4' = v4 /\ v6' = v6 /\ v9' = v9
      /\ v10' = v10 /\ v11' = v11 /\ v12' = v12 /\ v5' = v5 \cup {claim}
      /\ v8' = [v8 EXCEPT ![c] = IF claim \notin v5 THEN r ELSE Paper!Idle]
  BY <1>1 DEF Paper!Take, Paper!Free, Paper!watch
<1>3. Paper!RunIsPast(c) /\ Paper!PassesInOrder(c) /\ run.pc = "looking" /\ run.todo = {}
  BY DEF Paper!ObservationInv, Paper!Active, Paper!Looked
<1>4. v5' \subseteq Paper!Claim /\ v6' \subseteq Paper!Days
  BY <1>2 DEF Paper!ObservationInv, Paper!TypeOK
<1>5. Paper!ClaimsAreHeld /\ Paper!OneGetPerClaim /\ v8 \in [Collectors -> Paper!OneRun]
  BY RunTypes DEF Paper!ObservationInv
<1>6. Paper!OneGetPerClaim'
  BY <1>2, <1>5 DEF Paper!OneGetPerClaim
<1>7. CASE claim \in v5
  <2>1. \A b \in Collectors : v8'[b].pc = "fetching" => v8'[b] = v8[b]
    BY <1>2, <1>5, <1>7, IdleTyped
  <2>2. Paper!ClaimsAreHeld'
    BY <1>2, <1>5, <2>1 DEF Paper!ClaimsAreHeld
  <2> QED BY <1>2, <1>4, <1>6, <1>7, <2>2, RunEnds
<1>8. CASE claim \notin v5
  <2>1. v8' = [v8 EXCEPT ![c] = r] /\ \A b \in Collectors : v8'[b] = IF b = c THEN r ELSE v8[b]
    BY <1>2, <1>5, <1>8
  <2>2. /\ r \in Paper!OneRun /\ r.pc = "fetching" /\ r.claim = claim /\ r.at = run.at /\ r.todo = run.todo
        /\ r.gaps = run.gaps /\ r.day = run.day
    BY <1>1, RunTypes DEF Paper!OneRun
  <2>3. Paper!ClaimsAreHeld'
    <3>1. \A g \in v9' : g[2] \in v5' /\ g[2] # claim
      BY <1>2, <1>5, <1>8 DEF Paper!ClaimsAreHeld
    <3>2. ASSUME NEW b \in Collectors, v8'[b].pc = "fetching"
          PROVE  /\ v8'[b].claim \in v5' /\ \A g \in v9' : g[2] # v8'[b].claim
                 /\ \A e \in Collectors : v8'[e].pc = "fetching" /\ v8'[e].claim = v8'[b].claim => e = b
      BY <1>2, <1>5, <1>8, <2>1, <2>2, <3>1, <3>2 DEF Paper!ClaimsAreHeld
    <3> QED BY <3>1, <3>2 DEF Paper!ClaimsAreHeld
  <2>4. Paper!RunIsPast(c)'
    BY <1>2, <1>3, <2>1, <2>2 DEF Paper!RunIsPast, Paper!Today
  <2>5. Paper!PassesInOrder(c)'
    BY <1>2, <1>3, <2>1, <2>2 DEF Paper!PassesInOrder, Paper!Today
  <2> QED BY <1>2, <1>4, <1>6, <2>1, <2>2, <2>3, <2>4, <2>5, RunGoesOn
<1> QED BY <1>7, <1>8

\* A run claims an attempt, or a recovery after giving up the older days.
LEMMA RunClaims ==
  ASSUME Paper!ObservationInv, NEW c \in Collectors, Paper!Attempt(c) \/ Paper!Recover(c)
  PROVE  Paper!ObservationInv'
<1> DEFINE run == v8[c]
           day == Paper!Today(c)
<1>1. Paper!Looked(c) /\ Paper!RunIsPast(c) /\ Paper!PassesInOrder(c)
  BY DEF Paper!Attempt, Paper!Recover, Paper!Looked, Paper!ObservationInv, Paper!Active
<1>2. /\ day \in Nat /\ run.at \in Nat /\ v7 \subseteq Paper!Days
      /\ \A d \in v7 : d < Paper!DayOf(v1) /\ (v2[d] # Paper!Never => d \in v10)
  BY RunTypes DEF Paper!ObservationInv, Paper!TypeOK, Paper!LostIsFinal
<1>3. CASE Paper!Attempt(c)
  <2>1. Paper!DueOf(day) <= run.at /\ Paper!DueOf(day) \in Nat
    BY <1>1, <1>2, <1>3, PaperDays DEF Paper!Attempt, Paper!Ordinary, Paper!RunIsPast
  <2>2. <<"attempt", day, run.at - Paper!DueOf(day)>> \in Paper!Claim
    <3>1. run.at - Paper!DueOf(day) \in Nat
      BY <1>2, <2>1
    <3> QED BY <1>2, <3>1 DEF Paper!Claim
  <2> QED BY <1>1, <1>2, <1>3, <2>2, ClaimTaken DEF Paper!Attempt
<1>4. CASE Paper!Recover(c)
  <2>1. v7' = v7 \cup Paper!Older(c)
    BY <1>4 DEF Paper!Recover
  <2>2. day <= Paper!DayOf(v1) /\ Paper!DayOf(v1) \in Nat
    BY <1>1, RunTypes, PaperDays DEF Paper!RunIsPast, Paper!Today
  <2>3. \A d \in Paper!Older(c) : d \in Paper!Days /\ d < Paper!DayOf(v1) /\ (v2[d] # Paper!Never => d \in v10)
    <3> TAKE d \in Paper!Older(c)
    <3>1. d \in run.gaps /\ d < day /\ d \in Paper!Days /\ d \in Nat
      BY RunTypes, PaperBounds DEF Paper!Older
    <3> QED BY <1>1, <1>2, <2>2, <3>1 DEF Paper!PassesInOrder
  <2>4. v7' \subseteq Paper!Days /\ \A d \in v7' : d < Paper!DayOf(v1) /\ (v2[d] # Paper!Never => d \in v10)
    BY <1>2, <2>1, <2>3
  <2>5. CASE Paper!Take(c, <<"recovery", Paper!UtcOf(run.at), 0>>)
    <3>1. Paper!UtcOf(run.at) \in Nat
      BY <1>2, PaperAssumption DEF Paper!UtcOf
    <3>2. <<"recovery", Paper!UtcOf(run.at), 0>> \in Paper!Claim
      BY <3>1 DEF Paper!Claim
    <3> QED BY <1>1, <2>4, <2>5, <3>2, ClaimTaken
  <2>6. CASE v8' = [v8 EXCEPT ![c] = Paper!Idle] /\ UNCHANGED <<v1, v2, v3, v4, v5, v6, v9, v10, v11, v12>>
    <3>1. Paper!ClaimsAreHeld' /\ Paper!OneGetPerClaim'
      BY <2>6, IdleTyped, ClaimsStay
    <3> QED BY <2>4, <2>6, <3>1, RunEnds DEF Paper!ObservationInv, Paper!TypeOK
  <2> QED BY <1>4, <2>5, <2>6 DEF Paper!Recover, Paper!watch
<1> QED BY <1>3, <1>4

\* A read uses up the claim of the run.
LEMMA ClaimUsed ==
  ASSUME Paper!ObservationInv, NEW c \in Collectors, NEW r \in Paper!OneRun, r.pc # "fetching",
         v8[c].pc = "fetching", v8' = [v8 EXCEPT ![c] = r], v5' = v5, v9' = v9 \cup {<<c, v8[c].claim>>}
  PROVE  Paper!ClaimsAreHeld' /\ Paper!OneGetPerClaim'
<1>1. /\ \A b \in Collectors : v8'[b] = IF b = c THEN r ELSE v8[b]
      /\ Paper!ClaimsAreHeld /\ Paper!OneGetPerClaim
  BY RunTypes DEF Paper!ObservationInv
<1>2. \A b \in Collectors : v8'[b].pc = "fetching" => v8'[b] = v8[b] /\ b # c
  BY <1>1
<1>3. \A g \in v9' : g[2] \in v5 /\ (g \in v9 \/ g = <<c, v8[c].claim>>)
  BY <1>1 DEF Paper!ClaimsAreHeld
<1>4. \A b \in Collectors : v8'[b].pc = "fetching" => v8[b].claim # v8[c].claim
  BY <1>1, <1>2 DEF Paper!ClaimsAreHeld
<1>5. Paper!ClaimsAreHeld'
  BY <1>1, <1>2, <1>3, <1>4 DEF Paper!ClaimsAreHeld
<1>6. Paper!OneGetPerClaim'
  BY <1>1, <1>3 DEF Paper!OneGetPerClaim, Paper!ClaimsAreHeld
<1> QED BY <1>5, <1>6

\* The account is read: an observation is of this moment and of the day of
\* the run.
LEMMA RunReads ==
  ASSUME Paper!ObservationInv, NEW c \in Collectors, Paper!Observe(c) \/ Paper!Refuse(c) \/ Paper!Fail(c)
  PROVE  Paper!ObservationInv'
<1> DEFINE run == v8[c]
<1>1. /\ v1' = v1 /\ v2' = v2 /\ v3' = v3 /\ v4' = v4 /\ v5' = v5 /\ v7' = v7 /\ v10' = v10 /\ v11' = v11
      /\ v12' = v12 /\ v9' = v9 \cup {<<c, run.claim>>} /\ run.pc = "fetching"
  BY DEF Paper!Observe, Paper!Refuse, Paper!Fail, Paper!Read, Paper!watch
<1>2. Paper!RunIsPast(c) /\ Paper!PassesInOrder(c)
  BY <1>1 DEF Paper!ObservationInv, Paper!Active
<1>3. /\ v5' \subseteq Paper!Claim /\ v6' \subseteq Paper!Days /\ v7' \subseteq Paper!Days
      /\ \A d \in v7' : d < Paper!DayOf(v1) /\ (v2[d] # Paper!Never => d \in v10)
  BY <1>1, RunTypes DEF Paper!ObservationInv, Paper!TypeOK, Paper!LostIsFinal, Paper!Observe, Paper!Refuse, Paper!Fail
<1>4. CASE v8' = [v8 EXCEPT ![c] = Paper!Idle]
  <2>1. Paper!ClaimsAreHeld' /\ Paper!OneGetPerClaim'
    BY <1>1, <1>4, IdleTyped, ClaimUsed
  <2> QED BY <1>1, <1>3, <1>4, <2>1, RunEnds
<1>5. CASE Paper!Observe(c)
  <2>1. PICK r : r = [run EXCEPT !.pc = "storing", !.observed = v1]
    OBVIOUS
  <2>2. v8' = [v8 EXCEPT ![c] = r] /\ Paper!DayOf(v1) = Paper!Today(c)
    BY <1>5, <2>1, RunTypes DEF Paper!Observe, Paper!OfToday
  <2>3. /\ r \in Paper!OneRun /\ r.pc = "storing" /\ r.observed = v1 /\ r.at = run.at /\ r.todo = run.todo
        /\ r.gaps = run.gaps /\ r.day = run.day
    BY <2>1, RunTypes DEF Paper!OneRun
  <2>4. v8'[c] = r
    BY <2>2, RunTypes
  <2>5. Paper!RunIsPast(c)'
    BY <1>1, <1>2, <2>2, <2>3, <2>4, RunTypes DEF Paper!RunIsPast, Paper!Today
  <2>6. Paper!PassesInOrder(c)'
    BY <1>1, <1>2, <2>3, <2>4 DEF Paper!PassesInOrder, Paper!Today
  <2>7. Paper!ClaimsAreHeld' /\ Paper!OneGetPerClaim'
    BY <1>1, <2>2, <2>3, ClaimUsed
  <2> QED BY <1>1, <1>3, <2>2, <2>3, <2>5, <2>6, <2>7, RunGoesOn
<1> QED BY <1>4, <1>5 DEF Paper!Refuse, Paper!Fail

\* The clock goes on, and a run that is under way outlasts the day that ends.
LEMMA ObservationTick ==
  ASSUME Paper!ObservationInv, Paper!Tick PROVE Paper!ObservationInv'
<1>1. /\ v2' = v2 /\ v3' = v3 /\ v4' = v4 /\ v5' = v5 /\ v6' = v6 /\ v7' = v7 /\ v8' = v8 /\ v9' = v9
      /\ v11' = v11 /\ v12' = v12 /\ v1' = v1 + 1 /\ v1 < PaperEnd
      /\ v10' = v10 \cup {d \in Paper!Days : /\ Paper!DayOf(v1 + 1) # d
                                             /\ \E c \in Collectors : Paper!Active(c) /\ Paper!Today(c) = d}
  BY DEF Paper!Tick, Paper!store, Paper!watch
<1>2. v1 \in Nat /\ v1' \in Nat /\ v1 <= v1' /\ v1' \in Paper!Times /\ v10 \subseteq v10' /\ v10' \subseteq Paper!Days
  BY <1>1, PaperAssumption DEF Paper!ObservationInv, Paper!TypeOK, Paper!Times
<1>3. Paper!DayOf(v1) \in Nat /\ Paper!DayOf(v1') \in Nat /\ Paper!DayOf(v1) <= Paper!DayOf(v1')
  BY <1>2, PaperDays
<1>4. ASSUME NEW b \in Collectors, Paper!Active(b) PROVE Paper!RunIsPast(b)' /\ Paper!PassesInOrder(b)'
  <2>1. Paper!RunIsPast(b) /\ Paper!PassesInOrder(b) /\ v8[b].at \in Nat /\ Paper!Today(b) \in Paper!Days
        /\ Paper!Today(b) \in Nat /\ Paper!Today(b)' = Paper!Today(b)
    BY <1>1, <1>4, RunTypes DEF Paper!ObservationInv, Paper!Today
  <2>2. Paper!Today(b) < Paper!DayOf(v1') => Paper!Today(b) \in v10'
    BY <1>1, <1>3, <1>4, <2>1
  <2>3. v8[b].pc = "storing" => v8[b].observed \in Paper!Times /\ v8[b].observed \in Nat
    BY <2>1, PaperBounds DEF Paper!RunIsPast
  <2>4. Paper!RunIsPast(b)'
    BY <1>1, <1>2, <2>1, <2>2, <2>3 DEF Paper!RunIsPast
  <2>5. Paper!PassesInOrder(b)'
    BY <1>1, <1>2, <2>1 DEF Paper!PassesInOrder
  <2> QED BY <2>4, <2>5
<1>5. \A d \in Paper!Days : v2'[d] # Paper!Never => v2'[d] <= v1'
  <2> SUFFICES ASSUME NEW d \in Paper!Days, v2[d] # Paper!Never PROVE v2[d] <= v1'
    BY <1>1
  <2>1. v2[d] <= v1 /\ v2[d] \in Nat
    BY PaperBounds DEF Paper!ObservationInv, Paper!TypeOK
  <2> QED BY <1>2, <2>1
<1>6. \A d \in v7' : d < Paper!DayOf(v1')
  <2>1. \A d \in v7 : d \in Nat /\ d < Paper!DayOf(v1)
    BY PaperBounds DEF Paper!ObservationInv, Paper!TypeOK
  <2> QED BY <1>1, <1>3, <2>1
<1>7. Paper!TypeOK'
  BY <1>1, <1>2 DEF Paper!ObservationInv, Paper!TypeOK
<1>8. /\ Paper!ClaimsAreHeld' /\ Paper!ObservedOnItsDay' /\ Paper!MarkerTellsSnapshot' /\ Paper!T0IsFirst'
      /\ Paper!LostIsFinal' /\ Paper!OneGetPerClaim'
  BY <1>1, <1>2 DEF Paper!ObservationInv, Paper!ClaimsAreHeld, Paper!ObservedOnItsDay, Paper!MarkerTellsSnapshot,
     Paper!T0IsFirst, Paper!LostIsFinal, Paper!OneGetPerClaim
<1> QED BY <1>1, <1>4, <1>5, <1>6, <1>7, <1>8 DEF Paper!ObservationInv, Paper!Active

\* The watchdog touches the alerts only.
LEMMA ObservationAround ==
  ASSUME Paper!ObservationInv, \/ UNCHANGED componentVars
                               \/ Paper!Acknowledge
                               \/ \E i \in Paper!Incident : Paper!Notify(i)
  PROVE  Paper!ObservationInv'
<1>1. /\ v1' = v1 /\ v2' = v2 /\ v3' = v3 /\ v4' = v4 /\ v5' = v5 /\ v6' = v6 /\ v7' = v7 /\ v8' = v8 /\ v9' = v9
      /\ v10' = v10
  BY DEF Paper!Acknowledge, Paper!Notify, Paper!store, componentVars, varsFrom3
<1>2. /\ v11' \in [Paper!Incident -> {"none", "sent", "acked", "recovered"}]
      /\ v12' \in Paper!Incident \cup {Paper!NoIncident}
  BY DEF Paper!Acknowledge, Paper!Notify, componentVars, varsFrom3, Paper!ObservationInv, Paper!TypeOK
<1>3. Paper!TypeOK'
  BY <1>1, <1>2 DEF Paper!ObservationInv, Paper!TypeOK
<1>4. \A b \in Collectors : Paper!Active(b)' => Paper!RunIsPast(b)' /\ Paper!PassesInOrder(b)'
  BY <1>1 DEF Paper!ObservationInv, Paper!Active, Paper!RunIsPast, Paper!PassesInOrder, Paper!Today
<1>5. /\ Paper!ClaimsAreHeld' /\ Paper!ObservedOnItsDay' /\ Paper!MarkerTellsSnapshot' /\ Paper!T0IsFirst'
      /\ Paper!LostIsFinal' /\ Paper!OneGetPerClaim'
  BY <1>1 DEF Paper!ObservationInv, Paper!ClaimsAreHeld, Paper!ObservedOnItsDay, Paper!MarkerTellsSnapshot,
     Paper!T0IsFirst, Paper!LostIsFinal, Paper!OneGetPerClaim
<1> QED BY <1>1, <1>3, <1>4, <1>5 DEF Paper!ObservationInv

-----------------------------------------------------------------------------
(* The watchdog of the paper observation, over the same variables.         *)

\* A behaviour of the watchdog and its collectors begins and goes on as one.
LEMMA WatchSteps ==
  /\ OperationsInit /\ Is("watch") => Watch!Init
  /\ [OperationsNext]_operations /\ Is("watch")' => Is("watch") /\ [Watch!Next]_componentVars
<1>1. OperationsInit /\ Is("watch") => Watch!Init
  BY DEF OperationsInit, Is
<1>2. [OperationsNext]_operations /\ Is("watch")' => Is("watch") /\ [Watch!Next]_componentVars
  BY DEF OperationsNext, operations, Is
<1> QED BY <1>1, <1>2

\* What an incident is about does not go away: a marker is written once and a
\* day stays stopped.
LEMMA WatchStores ==
  ASSUME Watch!WatchInv, [Watch!Next]_componentVars
  PROVE  /\ v6 \subseteq v6' /\ v3' \in [Watch!Days -> {"none", "on_time", "late"}]
         /\ \A d \in Watch!Days : v3[d] # "none" => v3'[d] = v3[d]
<1>1. v3 \in [Watch!Days -> {"none", "on_time", "late"}]
  BY DEF Watch!WatchInv
<1>2. ASSUME NEW c \in WatchedRuns, Watch!MarkDay(c)
      PROVE  /\ v6' = v6 /\ v3' \in [Watch!Days -> {"none", "on_time", "late"}]
             /\ \A d \in Watch!Days : v3[d] # "none" => v3'[d] = v3[d]
  <2>1. /\ v6' = v6
        /\ v3' = [v3 EXCEPT ![v8[c].day] = IF @ = "none" THEN Watch!Timing(v8[c].day, Watch!Observed(c)) ELSE @]
    BY <1>2 DEF Watch!MarkDay
  <2>2. Watch!Timing(v8[c].day, Watch!Observed(c)) \in {"on_time", "late"}
    BY DEF Watch!Timing
  <2> QED BY <1>1, <2>1, <2>2
<1>3. ASSUME NEW c \in WatchedRuns,
             \/ Watch!Begin(c) \/ Watch!Look(c) \/ Watch!MarkT0(c) \/ Watch!Rest(c) \/ Watch!Attempt(c)
             \/ Watch!Recover(c) \/ Watch!Observe(c) \/ Watch!Refuse(c) \/ Watch!Fail(c) \/ Watch!Store(c)
             \/ Watch!Crash(c)
      PROVE  v3' = v3 /\ v6 \subseteq v6'
  BY <1>3 DEF Watch!Begin, Watch!Look, Watch!MarkT0, Watch!Rest, Watch!Attempt, Watch!Recover, Watch!Observe,
     Watch!Refuse, Watch!Fail, Watch!Store, Watch!Crash, Watch!Take, Watch!Read, Watch!store
<1>4. ASSUME \/ \E i \in Watch!Incident : Watch!Notify(i)
             \/ Watch!Acknowledge \/ Watch!Tick \/ UNCHANGED componentVars
      PROVE  v3' = v3 /\ v6' = v6
  BY <1>4 DEF Watch!Notify, Watch!Acknowledge, Watch!Tick, Watch!store, componentVars, varsFrom3
<1> QED BY <1>1, <1>2, <1>3, <1>4 DEF Watch!Next

\* A step of a collector or of the clock leaves what the watchdog told true.
LEMMA WatchKeeps ==
  ASSUME Watch!WatchInv, v11' = v11, v6 \subseteq v6', v3' \in [Watch!Days -> {"none", "on_time", "late"}],
         \A d \in Watch!Days : v3[d] # "none" => v3'[d] = v3[d],
         v12' = Watch!NoIncident \/ v12' = v12
  PROVE  Watch!WatchInv'
<1>1. ASSUME NEW i \in Watch!Incident
      PROVE  /\ i[2] # "missing" /\ Watch!Holds(i) => Watch!Holds(i)'
             /\ i[2] = "missing" /\ ~Watch!Holds(i) => ~Watch!Holds(i)'
  <2>1. i[1] \in Watch!Days /\ i[2] \in {"missing", "late", "stopped"}
    BY PaperAssumption DEF Watch!Incident
  <2> QED BY <2>1 DEF Watch!Holds
<1>2. ASSUME NEW i \in Watch!Incident
      PROVE  /\ v11[i] = "recovered" => ~Watch!Holds(i)' /\ i[2] = "missing"
             /\ i[2] # "missing" /\ v11[i] # "none" => Watch!Holds(i)'
  BY <1>1 DEF Watch!WatchInv
<1>3. ASSUME v12' # Watch!NoIncident
      PROVE  /\ v12 \in Watch!Incident /\ v11[v12] # "recovered" /\ v12' = v12
             /\ v11[v12] = "acked" => ~Watch!Holds(v12)'
             /\ v12[2] # "missing" => Watch!Holds(v12)'
  <2>1. v12' = v12 /\ v12 \in Watch!Incident
    BY <1>3 DEF Watch!WatchInv
  <2> QED BY <1>1, <1>3, <2>1 DEF Watch!WatchInv
<1> QED BY <1>2, <1>3 DEF Watch!WatchInv, Watch!Holds

\* The watchdog sends what holds, or the end of what does not hold any more.
LEMMA WatchSends ==
  ASSUME Watch!WatchInv, Watch!Acknowledge \/ \E i \in Watch!Incident : Watch!Notify(i)
  PROVE  Watch!WatchInv'
<1>1. v3' = v3 /\ v6' = v6 /\ \A i \in Watch!Incident : Watch!Holds(i)' = Watch!Holds(i)
  BY DEF Watch!Acknowledge, Watch!Notify, Watch!store, Watch!Holds
<1>2. ASSUME NEW i \in Watch!Incident, Watch!Notify(i) PROVE Watch!WatchInv'
  <2>1. v11' = v11 /\ v12' = i /\ (Watch!Opens(i) \/ Watch!Closes(i))
    BY <1>2 DEF Watch!Notify
  <2>2. v11[i] # "recovered" /\ (v11[i] = "acked" => ~Watch!Holds(i)) /\ (i[2] # "missing" => Watch!Holds(i))
    BY <2>1 DEF Watch!Opens, Watch!Closes, Watch!WatchInv
  <2> QED BY <1>1, <2>1, <2>2 DEF Watch!WatchInv
<1>3. CASE Watch!Acknowledge
  <2>1. /\ v12 \in Watch!Incident /\ v11[v12] # "recovered" /\ (v11[v12] = "acked" => ~Watch!Holds(v12))
        /\ v12[2] # "missing" => Watch!Holds(v12)
        /\ v12' = Watch!NoIncident
    BY <1>3 DEF Watch!Acknowledge, Watch!WatchInv
  <2>2. /\ v11' \in [Watch!Incident -> {"none", "sent", "acked", "recovered"}]
        /\ \A i \in Watch!Incident :
             \/ v11'[i] = v11[i]
             \/ i = v12 /\ v11'[i] = "recovered" /\ v11[i] = "acked"
             \/ i = v12 /\ v11'[i] \in {"acked", "sent"}
    BY <1>3, <2>1 DEF Watch!Acknowledge, Watch!WatchInv
  <2>3. ASSUME NEW i \in Watch!Incident
        PROVE  /\ v11'[i] = "recovered" => ~Watch!Holds(i) /\ i[2] = "missing"
               /\ i[2] # "missing" /\ v11'[i] # "none" => Watch!Holds(i)
    <3>1. CASE v11'[i] = v11[i]
      BY <3>1 DEF Watch!WatchInv
    <3>2. CASE i = v12
      BY <2>1, <2>2, <3>2 DEF Watch!WatchInv
    <3> QED BY <2>2, <3>1, <3>2
  <2> QED BY <1>1, <2>1, <2>2, <2>3 DEF Watch!WatchInv
<1> QED BY <1>2, <1>3

\* The invariants of the observation hold in every behaviour.
LEMMA ObservationInvariant ==
  OperationsSpec => [](/\ Is("paper") => Paper!ObservationInv
                       /\ Is("watch") => Watch!WatchInv)
<1> DEFINE Inv == /\ Is("paper") => Paper!ObservationInv
                  /\ Is("watch") => Watch!WatchInv
<1>1. OperationsInit => Inv
  <2> SUFFICES ASSUME OperationsInit, Is("watch") PROVE Watch!WatchInv
    BY ObservationSteps, ObservationInit
  <2>1. Watch!Init
    BY WatchSteps
  <2> QED BY <2>1 DEF Watch!Init, Watch!WatchInv
<1>2. Inv /\ [OperationsNext]_operations => Inv'
  <2>1. ASSUME Inv, [OperationsNext]_operations, Is("paper")' PROVE Paper!ObservationInv'
    <3>1. Paper!ObservationInv /\ [Paper!Next]_componentVars
      BY <2>1, ObservationSteps
    <3> QED BY <3>1, RunBegins, RunLooks, RunMarksT0, RunMarksDay, RunRests, RunClaims, RunReads, RunStores,
             ObservationTick, ObservationAround DEF Paper!Next
  <2>2. ASSUME Inv, [OperationsNext]_operations, Is("watch")' PROVE Watch!WatchInv'
    <3>1. Watch!WatchInv /\ [Watch!Next]_componentVars
      BY <2>2, WatchSteps
    <3>2. CASE Watch!Acknowledge \/ \E i \in Watch!Incident : Watch!Notify(i)
      BY <3>1, <3>2, WatchSends
    <3>3. CASE v11' = v11 /\ v12' = v12
      BY <3>1, <3>3, WatchStores, WatchKeeps
    <3>4. CASE \E c \in WatchedRuns :
                 \/ Watch!Begin(c) \/ Watch!Look(c) \/ Watch!MarkT0(c) \/ Watch!MarkDay(c) \/ Watch!Rest(c)
                 \/ Watch!Attempt(c) \/ Watch!Recover(c) \/ Watch!Observe(c) \/ Watch!Refuse(c) \/ Watch!Fail(c)
                 \/ Watch!Store(c) \/ Watch!Crash(c)
      <4>1. v11' = v11 /\ v12' = v12
        BY <3>4 DEF Watch!Begin, Watch!Look, Watch!MarkT0, Watch!MarkDay, Watch!Rest, Watch!Attempt, Watch!Recover,
           Watch!Observe, Watch!Refuse, Watch!Fail, Watch!Store, Watch!Crash, Watch!Take, Watch!Read, Watch!watch
      <4> QED BY <3>3, <4>1
    <3>5. CASE Watch!Tick \/ UNCHANGED componentVars
      BY <3>3, <3>5 DEF Watch!Tick, Watch!watch, componentVars, varsFrom3
    <3> QED BY <3>1, <3>2, <3>4, <3>5 DEF Watch!Next
  <2> QED BY <2>1, <2>2
<1> QED BY <1>1, <1>2, PTL DEF OperationsSpec

\* A snapshot is of its own day and from one read of the account, the marker,
\* t0.json and a day given up agree with it, and what the watchdog told is so
\* (Collector.run, Collector.complete, Watchdog.notify), for any collectors,
\* days, waits and horizons.
THEOREM ObservationsAreTrueHolds == OperationsSpec => []ObservationsAreTrue
<1> DEFINE Inv == /\ Is("paper") => Paper!ObservationInv
                  /\ Is("watch") => Watch!WatchInv
<1>1. OperationsSpec => []Inv
  BY ObservationInvariant
<1>2. Inv => ObservationsAreTrue
  BY DEF ObservationsAreTrue, Paper!ObservationInv, Watch!WatchInv, Watch!AlertsAreTrue
<1> QED BY <1>1, <1>2, PTL DEF OperationsSpec

-----------------------------------------------------------------------------
(* The account readers: v1 is now, v2 the account, v3 the trades, v4 the   *)
(* ledger and v5 the reader.  Sizes of sets are those that Numbers has     *)
(* theorems about.                                                         *)

\* A behaviour of the account and its reader begins and goes on as one.
LEMMA AccountSteps ==
  /\ OperationsInit /\ Is("account") => Account!Init
  /\ [OperationsNext]_operations /\ Is("account")' => Is("account") /\ [Account!Next]_<<v1, v2, v3, v4, v5>>
<1>1. OperationsInit /\ Is("account") => Account!Init
  BY DEF OperationsInit, Is
<1>2. [OperationsNext]_operations /\ Is("account")' => Is("account") /\ [Account!Next]_<<v1, v2, v3, v4, v5>>
  BY DEF OperationsNext, operations, componentVars, varsFrom3, Is
<1> QED BY <1>1, <1>2

\* The size of a set is the same by either name.
LEMMA SizeOf ==
  ASSUME NEW S
  PROVE  /\ Account!Cardinality(S) = Numbers!Cardinality(S)
         /\ Account!IsFiniteSet(S) = Numbers!IsFiniteSet(S)
  BY DEF Account!Cardinality, Numbers!Cardinality, Account!IsFiniteSet, Numbers!IsFiniteSet

\* A smaller set has no more elements than a finite one, and one more element
\* leaves a set finite.
LEMMA FiniteSizes ==
  /\ Account!IsFiniteSet({})
  /\ \A S, x : Account!IsFiniteSet(S) => Account!IsFiniteSet(S \cup {x})
  /\ \A S : Account!IsFiniteSet(S) =>
       /\ Account!Cardinality(S) \in Nat
       /\ \A T \in SUBSET S : Account!IsFiniteSet(T) /\ Account!Cardinality(T) <= Account!Cardinality(S)
       /\ Account!Cardinality(S) = 1 => \E x : S = {x}
<1>1. Account!IsFiniteSet({})
  BY SizeOf, Numbers!FS_EmptySet
<1>2. ASSUME NEW S, NEW x, Account!IsFiniteSet(S) PROVE Account!IsFiniteSet(S \cup {x})
  BY <1>2, SizeOf, Numbers!FS_AddElement
<1>3. ASSUME NEW S, Account!IsFiniteSet(S)
      PROVE  /\ Account!Cardinality(S) \in Nat
             /\ \A T \in SUBSET S : Account!IsFiniteSet(T) /\ Account!Cardinality(T) <= Account!Cardinality(S)
             /\ Account!Cardinality(S) = 1 => \E x : S = {x}
  <2>1. Numbers!IsFiniteSet(S) /\ Account!Cardinality(S) = Numbers!Cardinality(S)
    BY <1>3, SizeOf
  <2>2. Account!Cardinality(S) \in Nat
    BY <2>1, Numbers!FS_CardinalityType
  <2>3. ASSUME NEW T \in SUBSET S
        PROVE  Account!IsFiniteSet(T) /\ Account!Cardinality(T) <= Account!Cardinality(S)
    <3>1. Numbers!IsFiniteSet(T) /\ Numbers!Cardinality(T) <= Numbers!Cardinality(S)
      BY <2>1, Numbers!FS_Subset
    <3> QED BY <2>1, <3>1, SizeOf
  <2>4. Account!Cardinality(S) = 1 => \E x : S = {x}
    BY <2>1, Numbers!FS_Singleton
  <2> QED BY <2>2, <2>3, <2>4
<1> QED BY <1>1, <1>2, <1>3

\* At first nothing is read.
LEMMA AccountInit == ASSUME Account!Init PROVE Account!ReaderInv
<1>1. v3 = {} /\ v5 = Account!Idle
  BY DEF Account!Init
<1>2. /\ v5.pc = "idle" /\ v5.todo = <<>> /\ v5.seen = Account!Nothing /\ v5.earlier = {} /\ v5.days = {}
      /\ v5.seen.history = {} /\ v5.seen.today = {}
  BY <1>1 DEF Account!Idle, Account!Nothing
<1>3. Account!ReaderTyped
  BY <1>1, <1>2, FiniteSizes DEF Account!ReaderTyped
<1> QED BY <1>1, <1>2, <1>3 DEF Account!ReaderInv

\* The account that moves on adds executions and takes none away.
LEMMA AccountMoves ==
  ASSUME Account!ReaderInv, v5' = v5, v3' = v3 \/ \E t : v3' = v3 \cup {t}
  PROVE  Account!ReaderInv'
<1>1. v3 \subseteq v3' /\ Account!IsFiniteSet(v3')
  BY FiniteSizes DEF Account!ReaderInv, Account!ReaderTyped
<1>2. Account!ReaderTyped'
  BY <1>1 DEF Account!ReaderInv, Account!ReaderTyped
<1>3. /\ Account!HistoryHolds' = Account!HistoryHolds /\ Account!TodayHolds' = Account!TodayHolds
      /\ \A s : Account!Ahead(s)' = Account!Ahead(s)
      /\ Account!Counted(v5.seen)' = Account!Counted(v5.seen)
  BY DEF Account!HistoryHolds, Account!TodayHolds, Account!Ahead, Account!Counted, Account!Due, Account!InWindow
<1> QED BY <1>1, <1>2, <1>3 DEF Account!ReaderInv

\* The first five of six are those five.
LEMMA FirstFive ==
  ASSUME NEW S, NEW s \in Seq(S), Len(s) = 6
  PROVE  /\ SubSeq(s, 1, 5) \in Seq(S) /\ Len(SubSeq(s, 1, 5)) = 5
         /\ SubSeq(s, 1, 5)[4] = s[4] /\ SubSeq(s, 1, 5)[5] = s[5]
<1>1. \A i \in 1..5 : s[i] \in S
  OBVIOUS
<1>2. SubSeq(s, 1, 5) \in Seq(S)
  BY <1>1
<1>3. Len(SubSeq(s, 1, 5)) = 5
  OBVIOUS
<1>4. SubSeq(s, 1, 5)[4] = s[4]
  OBVIOUS
<1>5. SubSeq(s, 1, 5)[5] = s[5]
  OBVIOUS
<1> QED BY <1>2, <1>3, <1>4, <1>5

\* A run begins with everything to read, or is over with nothing.
LEMMA AccountAround ==
  ASSUME Account!ReaderInv, Account!Begin \/ Account!Block PROVE Account!ReaderInv'
<1>1. v3' = v3
  BY DEF Account!Begin, Account!Block
<1>2. CASE Account!Block
  <2>1. v5' = [Account!Idle EXCEPT !.pc = "blocked"]
    BY <1>2 DEF Account!Block
  <2>2. /\ DOMAIN v5' = DOMAIN Account!Idle /\ v5'.pc = "blocked" /\ v5'.todo = <<>> /\ v5'.earlier = {}
        /\ v5'.days = {} /\ v5'.seen = Account!Nothing /\ v5'.seen.history = {} /\ v5'.seen.today = {}
    BY <2>1 DEF Account!Idle, Account!Nothing
  <2>3. Account!ReaderTyped'
    BY <1>1, <2>2, FiniteSizes DEF Account!ReaderInv, Account!ReaderTyped
  <2> QED BY <1>1, <2>2, <2>3 DEF Account!ReaderInv
<1>3. CASE Account!Begin
  <2>1. PICK kind \in {"receipt", "snapshot"}, expected \in BOOLEAN :
          v5' = [Account!Idle EXCEPT !.pc = kind, !.start = v1, !.expected = expected, !.earlier = v3,
                   !.todo = IF kind = "receipt" THEN Account!Surfaces ELSE SubSeq(Account!Surfaces, 1, 5)]
    BY <1>3 DEF Account!Begin
  <2>2. /\ DOMAIN v5' = DOMAIN Account!Idle /\ v5'.pc = kind /\ v5'.earlier = v3 /\ v5'.days = {}
        /\ v5'.seen = Account!Nothing /\ v5'.seen.history = {} /\ v5'.seen.today = {}
        /\ v5'.todo = IF kind = "receipt" THEN Account!Surfaces ELSE SubSeq(Account!Surfaces, 1, 5)
    BY <2>1 DEF Account!Idle, Account!Nothing
  <2>3. v5'.todo \in Seq(DOMAIN Account!Nothing) /\ Len(v5'.todo) \in {5, 6}
        /\ v5'.todo[4] = "history" /\ v5'.todo[5] = "today"
    <3>1. DOMAIN Account!Nothing = {"cash", "shares", "orders", "history", "today", "ledger"}
      BY DEF Account!Nothing
    <3>2. /\ Account!Surfaces \in Seq(DOMAIN Account!Nothing) /\ Len(Account!Surfaces) = 6
          /\ Account!Surfaces[4] = "history" /\ Account!Surfaces[5] = "today"
      BY <3>1 DEF Account!Surfaces
    <3>3. /\ SubSeq(Account!Surfaces, 1, 5) \in Seq(DOMAIN Account!Nothing)
          /\ Len(SubSeq(Account!Surfaces, 1, 5)) = 5
          /\ SubSeq(Account!Surfaces, 1, 5)[4] = Account!Surfaces[4]
          /\ SubSeq(Account!Surfaces, 1, 5)[5] = Account!Surfaces[5]
      BY <3>2, FirstFive
    <3> QED BY <2>2, <3>2, <3>3
  <2>4. Account!Ahead("history")' /\ Account!Ahead("today")'
    BY <2>3 DEF Account!Ahead
  <2>5. Account!ReaderTyped'
    BY <1>1, <2>2, <2>3, FiniteSizes DEF Account!ReaderInv, Account!ReaderTyped
  <2> QED BY <1>1, <2>2, <2>4, <2>5 DEF Account!ReaderInv
<1> QED BY <1>2, <1>3

\* What a list of executions holds of those that are due is known from its
\* answer: the history may leave out the day's, the other list has them all.
LEMMA AccountReads ==
  ASSUME Account!ReaderInv, Account!Read PROVE Account!ReaderInv'
<1> DEFINE name == Head(v5.todo)
<1>1. PICK answer \in Account!Answers(name) :
        v5' = [v5 EXCEPT !.seen[name] = answer, !.todo = Tail(@),
                 !.days = IF name \in {"history", "today"} THEN @ \cup {Account!DayOf(v1)} ELSE @]
  BY DEF Account!Read
<1>2. /\ v3' = v3 /\ v5.todo # <<>> /\ v5.pc \in {"receipt", "snapshot"} /\ v5.todo \in Seq(DOMAIN Account!Nothing)
      /\ DOMAIN v5 = DOMAIN Account!Idle /\ DOMAIN v5.seen = DOMAIN Account!Nothing
  <2>1. v3' = v3 /\ v5.todo # <<>>
    BY DEF Account!Read
  <2>2. v5.todo # <<>> => v5.pc \in {"receipt", "snapshot"}
    BY DEF Account!ReaderInv
  <2>3. Account!ReaderTyped
    BY DEF Account!ReaderInv
  <2>4. v5.todo \in Seq(DOMAIN Account!Nothing)
    BY <2>3 DEF Account!ReaderTyped
  <2>5. DOMAIN v5 = DOMAIN Account!Idle /\ DOMAIN v5.seen = DOMAIN Account!Nothing
    BY <2>3 DEF Account!ReaderTyped
  <2> QED BY <2>1, <2>2, <2>4, <2>5
<1>3. name \in DOMAIN Account!Nothing /\ Tail(v5.todo) \in Seq(DOMAIN Account!Nothing) /\ Len(v5.todo) \in Nat \ {0}
  <2> SUFFICES ASSUME NEW S, NEW s \in Seq(S), s # <<>>
               PROVE  Head(s) \in S /\ Tail(s) \in Seq(S) /\ Len(s) \in Nat \ {0}
    BY <1>2 DEF name
  <2>1. Len(s) \in Nat \ {0}
    OBVIOUS
  <2> QED BY <2>1
<1>4. /\ DOMAIN Account!Nothing = {"cash", "shares", "orders", "history", "today", "ledger"}
      /\ DOMAIN Account!Idle = {"pc", "todo", "start", "expected", "seen", "blockers", "counted", "earlier", "days"}
  BY DEF Account!Nothing, Account!Idle
<1> HIDE DEF name
<1>5. /\ DOMAIN v5' = DOMAIN v5 /\ v5'.pc = v5.pc /\ v5'.start = v5.start /\ v5'.earlier = v5.earlier
      /\ v5'.todo = Tail(v5.todo) /\ v5'.seen = [v5.seen EXCEPT ![name] = answer]
      /\ v5'.days = IF name \in {"history", "today"} THEN v5.days \cup {Account!DayOf(v1)} ELSE v5.days
  BY <1>1, <1>2, <1>4
<1>6. /\ DOMAIN v5'.seen = DOMAIN v5.seen
      /\ v5'.seen.history = IF name = "history" THEN answer ELSE v5.seen.history
      /\ v5'.seen.today = IF name = "today" THEN answer ELSE v5.seen.today
  BY <1>2, <1>4, <1>5
<1>7. \A s : Account!Ahead(s) => s = name \/ Account!Ahead(s)'
  <2> SUFFICES ASSUME NEW i \in 1..Len(v5.todo), v5.todo[i] # name
               PROVE  \E j \in 1..Len(v5'.todo) : v5'.todo[j] = v5.todo[i]
    BY DEF Account!Ahead
  <2>1. i - 1 \in 1..Len(Tail(v5.todo)) /\ Tail(v5.todo)[i - 1] = v5.todo[i]
    BY <1>2 DEF name
  <2> QED BY <1>5, <2>1
<1>8. Account!Due' = Account!Due /\ Account!Due \subseteq Account!Asked
  BY <1>5 DEF Account!Due, Account!InWindow, Account!Asked, Account!ReaderInv
<1>9. Account!OfToday \subseteq v3 /\ (Account!Asked \ Account!OfToday) \subseteq v3
  BY DEF Account!OfToday, Account!Asked
<1>10. /\ name = "history" => /\ answer \subseteq v3
                              /\ \A t \in Account!Due : t \in answer \/ Account!DayOf(t.at) = Account!DayOf(v1)
       /\ name = "today" => /\ answer \subseteq v3
                            /\ \A t \in Account!Due : Account!DayOf(t.at) = Account!DayOf(v1) => t \in answer
  <2>1. CASE name = "history"
    <3>1. PICK more \in SUBSET Account!OfToday : answer = (Account!Asked \ Account!OfToday) \cup more
      BY <1>1, <2>1 DEF Account!Answers
    <3> QED BY <1>8, <1>9, <2>1, <3>1 DEF Account!OfToday
  <2>2. CASE name = "today"
    <3>1. answer = Account!OfToday
      BY <1>1, <2>2 DEF Account!Answers
    <3> QED BY <1>8, <1>9, <2>2, <3>1 DEF Account!OfToday
  <2> QED BY <2>1, <2>2
<1>11. Account!HistoryHolds => Account!HistoryHolds' \/ name = "history"
  BY <1>5, <1>6, <1>8 DEF Account!HistoryHolds, Account!DayOf
<1>12. Account!TodayHolds => Account!TodayHolds' \/ name = "today"
  BY <1>5, <1>6, <1>8 DEF Account!TodayHolds, Account!DayOf
<1>13. name = "history" => Account!HistoryHolds'
  BY <1>5, <1>6, <1>8, <1>10 DEF Account!HistoryHolds, Account!DayOf
<1>14. name = "today" => Account!TodayHolds'
  BY <1>5, <1>6, <1>8, <1>10 DEF Account!TodayHolds, Account!DayOf
<1>15. Account!ReaderTyped'
  BY <1>2, <1>3, <1>5, <1>6, FiniteSizes DEF Account!ReaderInv, Account!ReaderTyped
<1>16. v5'.seen.history \cup v5'.seen.today \cup v5'.earlier \subseteq v3'
  BY <1>2, <1>5, <1>6, <1>10 DEF Account!ReaderInv
<1>17. (Account!Ahead("history") \/ Account!HistoryHolds) /\ (Account!Ahead("today") \/ Account!TodayHolds)
  BY <1>2 DEF Account!ReaderInv
<1> QED BY <1>2, <1>5, <1>7, <1>11, <1>12, <1>13, <1>14, <1>15, <1>16, <1>17 DEF Account!ReaderInv

\* With nothing ahead both lists are read; what no read proves is a blocker.
LEMMA AccountAnswers ==
  ASSUME Account!ReaderInv, Account!Answer PROVE Account!ReaderInv'
<1>1. /\ v3' = v3 /\ v5.todo = <<>> /\ v5.pc \in {"receipt", "snapshot"}
      /\ v5' = [v5 EXCEPT !.pc = "answered", !.counted = Account!Counted(v5.seen),
                  !.blockers = IF v5.pc = "receipt" THEN Account!Blockers(v5.seen) ELSE {"snapshot"}]
  BY DEF Account!Answer
<1>2. /\ DOMAIN v5 = DOMAIN Account!Idle
      /\ DOMAIN Account!Idle = {"pc", "todo", "start", "expected", "seen", "blockers", "counted", "earlier", "days"}
  BY DEF Account!Idle, Account!ReaderInv, Account!ReaderTyped
<1>3. /\ DOMAIN v5' = DOMAIN v5 /\ v5'.pc = "answered" /\ v5'.counted = Account!Counted(v5.seen) /\ v5'.todo = <<>>
      /\ v5'.start = v5.start /\ v5'.earlier = v5.earlier /\ v5'.seen = v5.seen /\ v5'.days = v5.days
      /\ v5'.blockers = IF v5.pc = "receipt" THEN Account!Blockers(v5.seen) ELSE {"snapshot"}
  BY <1>1, <1>2
<1>4. ~Account!Ahead("history") /\ ~Account!Ahead("today")
  BY <1>1 DEF Account!Ahead
<1>5. Account!HistoryHolds /\ Account!TodayHolds
  BY <1>1, <1>4 DEF Account!ReaderInv
<1>6. Account!HistoryHolds' /\ Account!TodayHolds' /\ v5'.counted = Account!Counted(v5.seen)'
  BY <1>3, <1>5 DEF Account!HistoryHolds, Account!TodayHolds, Account!Counted, Account!Due, Account!InWindow, Account!DayOf
<1>7. v5'.blockers # {}
  BY <1>3 DEF Account!Blockers, Account!Unproven
<1>8. Account!ReaderTyped'
  BY <1>1, <1>3 DEF Account!ReaderInv, Account!ReaderTyped
<1> QED BY <1>1, <1>3, <1>6, <1>7, <1>8 DEF Account!ReaderInv

\* The invariant of the account readers holds in every behaviour.
LEMMA ReaderInvariant == OperationsSpec => [](Is("account") => Account!ReaderInv)
<1> DEFINE Inv == Is("account") => Account!ReaderInv
<1>1. OperationsInit => Inv
  BY AccountSteps, AccountInit
<1>2. Inv /\ [OperationsNext]_operations => Inv'
  <2> SUFFICES ASSUME Inv, [OperationsNext]_operations, Is("account")' PROVE Account!ReaderInv'
    OBVIOUS
  <2>1. Account!ReaderInv /\ [Account!Next]_<<v1, v2, v3, v4, v5>>
    BY AccountSteps
  <2>2. CASE \/ \E o \in AccountOrders : Account!Order(o) \/ Account!Fill(o) \/ Account!Cancel(o) \/ Account!Record(o)
             \/ Account!Tick \/ UNCHANGED <<v1, v2, v3, v4, v5>>
    <3>1. v5' = v5 /\ (v3' = v3 \/ \E t : v3' = v3 \cup {t})
      BY <2>2 DEF Account!Order, Account!Fill, Account!Cancel, Account!Record, Account!Tick
    <3> QED BY <2>1, <3>1, AccountMoves
  <2> QED BY <2>1, <2>2, AccountAround, AccountReads, AccountAnswers DEF Account!Next
<1> QED BY <1>1, <1>2, PTL DEF OperationsSpec

\* A proven history holds each trade once, and no candidate permits anything
\* (collect_read_only_broker_reconciliation), for any orders, length of a day
\* and days of history.
THEOREM HistoryIsProvenHolds == OperationsSpec => []HistoryIsProven
<1> DEFINE Inv == Is("account") => Account!ReaderInv
<1>1. OperationsSpec => []Inv
  BY ReaderInvariant
<1>2. Inv => HistoryIsProven
  <2> SUFFICES ASSUME Account!ReaderInv, v5.pc = "answered"
               PROVE  /\ v5.blockers # {} /\ v5.counted <= Account!Cardinality(Account!Existing)
                      /\ Account!Cardinality(v5.days) = 1 => Account!Cardinality(Account!Due) <= v5.counted
    BY DEF HistoryIsProven, Account!EachTradeOnce, Account!NeverPermits
  <2>1. /\ Account!HistoryHolds /\ Account!TodayHolds /\ v5.counted = Account!Counted(v5.seen) /\ v5.blockers # {}
        /\ Account!IsFiniteSet(v3) /\ Account!IsFiniteSet(v5.days)
        /\ v5.seen.history \cup v5.seen.today \subseteq v3
    BY DEF Account!ReaderInv, Account!ReaderTyped
  <2> DEFINE counted == {t \in v5.seen.history \cup v5.seen.today : Account!InWindow(t)}
  <2>2. v5.counted = Account!Cardinality(counted)
    BY <2>1 DEF Account!Counted
  <2>3. counted \subseteq Account!Existing /\ Account!Existing \subseteq v3
    BY <2>1 DEF Account!Existing
  <2>4. Account!IsFiniteSet(Account!Existing) /\ Account!IsFiniteSet(counted)
    BY <2>1, <2>3, FiniteSizes
  <2>5. Account!Cardinality(counted) <= Account!Cardinality(Account!Existing)
    BY <2>3, <2>4, FiniteSizes
  <2>6. ASSUME Account!Cardinality(v5.days) = 1 PROVE Account!Cardinality(Account!Due) <= Account!Cardinality(counted)
    <3>1. PICK d : v5.days = {d}
      BY <2>1, <2>6, FiniteSizes
    <3>2. Account!Due \subseteq counted
      BY <2>1, <3>1 DEF Account!Due, Account!HistoryHolds, Account!TodayHolds
    <3> QED BY <2>4, <3>2, FiniteSizes
  <2> QED BY <2>1, <2>2, <2>5, <2>6
<1> QED BY <1>1, <1>2, PTL DEF OperationsSpec

-----------------------------------------------------------------------------
(* The deployment control: v1 is the service, v2 the jobs, v3 the run, v4  *)
(* how many runs there were, v5 and v6 the recorder's window, v7 to v9 the *)
(* stops.  First the steps of a run.                                       *)

\* A behaviour of the control begins and goes on as one.
LEMMA ControlSteps ==
  /\ OperationsInit /\ Is("control") => Control!Init
  /\ [OperationsNext]_operations /\ Is("control")' =>
       Is("control") /\ [Control!Next]_<<v1, v2, v3, v4, v5, v6, v7, v8, v9>>
<1>1. OperationsInit /\ Is("control") => Control!Init
  BY DEF OperationsInit, Is
<1>2. [OperationsNext]_operations /\ Is("control")' =>
        Is("control") /\ [Control!Next]_<<v1, v2, v3, v4, v5, v6, v7, v8, v9>>
  BY DEF OperationsNext, operations, componentVars, varsFrom3, Is
<1> QED BY <1>1, <1>2

\* Where the steps have their place.
LEMMA Places ==
  /\ Control!Place.plan = 1 /\ Control!Place.stage = 2 /\ Control!Place.stageRead = 3 /\ Control!Place.move = 4
  /\ Control!Place.admit = 5 /\ Control!Place.deploy = 6 /\ Control!Place.wait = 7 /\ Control!Place.env = 8
  /\ Control!Place.shift = 9 /\ Control!Place.write = 10 /\ Control!Place.quiet = 11 /\ Control!Place.act = 12
  /\ Control!Place.actRead = 13 /\ Control!Place.legacy = 14 /\ Control!Place.prune = 15
  /\ Control!Place.see = 16 /\ Control!Place.seeAgain = 17 /\ Control!Place.disable = 18
  /\ Control!Place.confirm = 19 /\ Control!Place.halt = 20 /\ Control!Place.final = 21
  /\ DOMAIN Control!Place = {"plan", "stage", "stageRead", "move", "admit", "deploy", "wait", "env", "shift", "write",
       "quiet", "act", "actRead", "legacy", "prune", "see", "seeAgain", "disable", "confirm", "halt", "final"}
  BY DEF Control!Place

\* Steps of a run, all between two places.
HasStep(s, op) == \E i \in DOMAIN s : s[i][1] = op
Routed(o, s, a, b) ==
  /\ s \in Seq(Control!Steps) /\ Control!InPlace(s)
  /\ \A i \in DOMAIN s : Control!Belongs(o, s[i][1]) /\ Control!Place[s[i][1]] \in a..b

\* What follows what stays in place.
LEMMA RouteJoins ==
  ASSUME NEW o, NEW s, NEW t, NEW a \in Nat, NEW b \in Nat, NEW c \in Nat, NEW d \in Nat,
         Routed(o, s, a, b), Routed(o, t, c, d), a <= c, b <= c, b <= d
  PROVE  /\ Routed(o, s \o t, a, d)
         /\ \A op : HasStep(s \o t, op) <=> HasStep(s, op) \/ HasStep(t, op)
<1>1. s \in Seq(Control!Steps) /\ t \in Seq(Control!Steps)
  BY DEF Routed
<1>2. s \o t \in Seq(Control!Steps) /\ Len(s \o t) = Len(s) + Len(t)
  BY <1>1
<1>3. /\ \A i \in DOMAIN s : i \in DOMAIN (s \o t) /\ (s \o t)[i] = s[i]
      /\ \A i \in DOMAIN t : i + Len(s) \in DOMAIN (s \o t) /\ (s \o t)[i + Len(s)] = t[i]
      /\ \A i \in DOMAIN (s \o t) : i \in DOMAIN s \/ i - Len(s) \in DOMAIN t
  BY <1>1, <1>2
<1>4. \A i \in DOMAIN (s \o t) : (s \o t)[i] = IF i \in DOMAIN s THEN s[i] ELSE t[i - Len(s)]
  BY <1>1, <1>2
<1>5. \A i \in DOMAIN s : Control!Belongs(o, s[i][1]) /\ Control!Place[s[i][1]] \in a..b
  BY DEF Routed
<1>6. \A i \in DOMAIN t : Control!Belongs(o, t[i][1]) /\ Control!Place[t[i][1]] \in c..d
  BY DEF Routed
<1>7. \A i \in DOMAIN (s \o t) : Control!Belongs(o, (s \o t)[i][1]) /\ Control!Place[(s \o t)[i][1]] \in a..d
  <2> TAKE i \in DOMAIN (s \o t)
  <2>1. CASE i \in DOMAIN s
    <3>1. Control!Belongs(o, s[i][1]) /\ Control!Place[s[i][1]] \in a..d
      BY <1>5, <2>1
    <3> QED BY <1>3, <2>1, <3>1
  <2>2. CASE i \notin DOMAIN s
    <3>1. i - Len(s) \in DOMAIN t /\ (s \o t)[i] = t[i - Len(s)]
      BY <1>3, <1>4, <2>2
    <3>2. Control!Belongs(o, t[i - Len(s)][1]) /\ Control!Place[t[i - Len(s)][1]] \in a..d
      BY <1>6, <3>1
    <3> QED BY <3>1, <3>2
  <2> QED BY <2>1, <2>2
<1>8. Control!InPlace(s \o t)
  <2> SUFFICES ASSUME NEW i \in DOMAIN (s \o t), NEW j \in DOMAIN (s \o t), i <= j
               PROVE  Control!Place[(s \o t)[i][1]] <= Control!Place[(s \o t)[j][1]]
    BY DEF Control!InPlace
  <2>1. CASE j \in DOMAIN s
    <3>1. i \in DOMAIN s
      BY <1>1, <1>2, <2>1
    <3>2. Control!Place[s[i][1]] <= Control!Place[s[j][1]]
      BY <2>1, <3>1 DEF Routed, Control!InPlace
    <3> QED BY <1>3, <2>1, <3>1, <3>2
  <2>2. CASE i \notin DOMAIN s
    <3>1. /\ i - Len(s) \in DOMAIN t /\ j - Len(s) \in DOMAIN t /\ i - Len(s) <= j - Len(s)
          /\ (s \o t)[i] = t[i - Len(s)] /\ (s \o t)[j] = t[j - Len(s)]
      BY <1>1, <1>2, <1>4, <2>2
    <3>2. Control!Place[t[i - Len(s)][1]] <= Control!Place[t[j - Len(s)][1]]
      BY <3>1 DEF Routed, Control!InPlace
    <3> QED BY <3>1, <3>2
  <2>3. CASE i \in DOMAIN s /\ j \notin DOMAIN s
    <3>1. j - Len(s) \in DOMAIN t /\ (s \o t)[j] = t[j - Len(s)] /\ (s \o t)[i] = s[i]
      BY <1>3, <1>4, <2>3
    <3>2. Control!Place[s[i][1]] \in a..b
      BY <1>5, <2>3
    <3>3. Control!Place[t[j - Len(s)][1]] \in c..d
      BY <1>6, <3>1
    <3> DEFINE m == Control!Place[s[i][1]]
               n == Control!Place[t[j - Len(s)][1]]
    <3>4. m \in a..b /\ n \in c..d
      BY <3>2, <3>3
    <3> HIDE DEF m, n
    <3>5. m <= n
      BY <3>4
    <3> QED BY <3>1, <3>5 DEF m, n
  <2> QED BY <2>1, <2>2, <2>3
<1>9. ASSUME NEW op PROVE HasStep(s \o t, op) <=> HasStep(s, op) \/ HasStep(t, op)
  <2>1. ASSUME HasStep(s \o t, op) PROVE HasStep(s, op) \/ HasStep(t, op)
    <3>1. PICK i \in DOMAIN (s \o t) : (s \o t)[i][1] = op
      BY <2>1 DEF HasStep
    <3> QED BY <1>3, <1>4, <3>1 DEF HasStep
  <2>2. HasStep(s, op) => HasStep(s \o t, op)
    BY <1>3 DEF HasStep
  <2>3. HasStep(t, op) => HasStep(s \o t, op)
    BY <1>3 DEF HasStep
  <2> QED BY <2>1, <2>2, <2>3
<1> QED BY <1>2, <1>7, <1>8, <1>9 DEF Routed

\* One step of the service, one for each job, or none.
LEMMA RouteNone == ASSUME NEW o, NEW n PROVE Routed(o, <<>>, n, n)
  BY DEF Routed, Control!InPlace

LEMMA RouteOne ==
  ASSUME NEW o, NEW op, Control!Belongs(o, op), op # "write"
  PROVE  /\ Routed(o, <<Control!On(op)>>, Control!Place[op], Control!Place[op])
         /\ HasStep(<<Control!On(op)>>, op)
<1>1. op \in DOMAIN Control!Place /\ Control!Place[op] \in Nat
  BY Places DEF Control!Belongs
<1>2. <<Control!On(op)>> \in Seq(Control!Steps) /\ DOMAIN <<Control!On(op)>> = {1} /\ <<Control!On(op)>>[1][1] = op
  BY <1>1 DEF Control!On, Control!Steps
<1> QED BY <1>1, <1>2 DEF Routed, HasStep, Control!InPlace

LEMMA RouteEach ==
  ASSUME NEW o, NEW op, Control!Belongs(o, op)
  PROVE  /\ Routed(o, Control!Each(op), Control!Place[op], Control!Place[op])
         /\ HasStep(Control!Each(op), op) /\ Len(Control!Each(op)) = 3
<1>1. op \in DOMAIN Control!Place /\ Control!Place[op] \in Nat
  BY Places DEF Control!Belongs
<1>2. DOMAIN Control!Managed = 1..3 /\ \A i \in 1..3 : Control!Managed[i] \in Control!Jobs
  BY DEF Control!Managed, Control!Jobs
<1>3. Control!Each(op) = [i \in 1..3 |-> <<op, Control!Managed[i]>>]
  BY <1>2 DEF Control!Each
<1>4. DOMAIN Control!Each(op) = 1..3 /\ \A i \in 1..3 : Control!Each(op)[i] \in Control!Steps /\ Control!Each(op)[i][1] = op
  BY <1>1, <1>2, <1>3 DEF Control!Steps
<1>5. Control!Each(op) \in Seq(Control!Steps) /\ Len(Control!Each(op)) = 3
  BY <1>3, <1>4
<1> QED BY <1>1, <1>4, <1>5 DEF Routed, HasStep, Control!InPlace

\* A sync admits, deploys, sets the environment, shifts and then works on the
\* jobs; it has the steps it was asked for.
LEMMA SyncRoute ==
  ASSUME NEW o, o.kind = "sync"
  PROVE  /\ Routed(o, Control!SyncSteps(o), 5, 15)
         /\ o.deploy => HasStep(Control!SyncSteps(o), "deploy")
         /\ o.env => HasStep(Control!SyncSteps(o), "env")
         /\ o.shift => HasStep(Control!SyncSteps(o), "shift")
         /\ o.action # "preserve" => HasStep(Control!SyncSteps(o), "act")
<1>1. /\ \A op \in {"admit", "deploy", "wait", "env", "write", "quiet", "act", "actRead", "legacy", "prune"} :
           Control!Belongs(o, op)
      /\ o.shift => Control!Belongs(o, "shift")
  BY Places DEF Control!Belongs
<1> DEFINE acts == o.action # "preserve"
           s1 == Control!When(o.deploy \/ o.env \/ o.shift, <<Control!On("admit")>>)
           t2 == Control!When(o.deploy, <<Control!On("deploy")>>)
           t3 == Control!When(o.deploy /\ o.env, <<Control!On("wait")>>)
           t4 == Control!When(o.env, <<Control!On("env")>>)
           t5 == Control!When(o.shift, <<Control!On("shift")>>)
           t6 == Control!When(o.env, Control!Each("write"))
           t7 == Control!When(o.env /\ o.action = "preserve", Control!Each("quiet"))
           u8 == Control!When(acts, Control!Each("act"))
           w8 == Control!When(acts, <<Control!On("actRead")>>)
           t8 == Control!When(acts, Control!Each("act") \o <<Control!On("actRead")>>)
           t9 == Control!When(o.env, <<Control!On("legacy")>>)
           t10 == Control!When(o.deploy, <<Control!On("prune")>>)
<1>2. Control!SyncSteps(o) = s1 \o t2 \o t3 \o t4 \o t5 \o t6 \o t7 \o t8 \o t9 \o t10
  BY DEF Control!SyncSteps
<1>3. Routed(o, s1, 5, 5)
  BY <1>1, RouteOne, RouteNone, Places DEF Control!When
<1>4. Routed(o, t2, 6, 6) /\ (o.deploy => HasStep(t2, "deploy"))
  BY <1>1, RouteOne, RouteNone, Places DEF Control!When
<1>5. Routed(o, t3, 7, 7)
  BY <1>1, RouteOne, RouteNone, Places DEF Control!When
<1>6. Routed(o, t4, 8, 8) /\ (o.env => HasStep(t4, "env"))
  BY <1>1, RouteOne, RouteNone, Places DEF Control!When
<1>7. Routed(o, t5, 9, 9) /\ (o.shift => HasStep(t5, "shift"))
  BY <1>1, RouteOne, RouteNone, Places DEF Control!When
<1>8. Routed(o, t6, 10, 10)
  BY <1>1, RouteEach, RouteNone, Places DEF Control!When
<1>9. Routed(o, t7, 11, 11)
  BY <1>1, RouteEach, RouteNone, Places DEF Control!When
<1>10. Routed(o, u8, 12, 12) /\ (acts => HasStep(u8, "act"))
  BY <1>1, RouteEach, RouteNone, Places DEF Control!When
<1>11. Routed(o, w8, 13, 13)
  BY <1>1, RouteOne, RouteNone, Places DEF Control!When
<1>12. Routed(o, t9, 14, 14)
  BY <1>1, RouteOne, RouteNone, Places DEF Control!When
<1>13. Routed(o, t10, 15, 15)
  BY <1>1, RouteOne, RouteNone, Places DEF Control!When
<1>14. t8 = u8 \o w8
  <2>1. <<>> \o <<>> = <<>>
    OBVIOUS
  <2> QED BY <2>1 DEF Control!When
<1> HIDE DEF s1, t2, t3, t4, t5, t6, t7, u8, w8, t8, t9, t10
<1>15. Routed(o, t8, 12, 13) /\ (HasStep(u8, "act") => HasStep(t8, "act"))
  <2>1. Routed(o, u8, 12, 12) /\ Routed(o, w8, 13, 13)
    BY <1>10, <1>11
  <2>2. Routed(o, u8 \o w8, 12, 13) /\ \A p : HasStep(u8, p) => HasStep(u8 \o w8, p)
    BY <2>1, RouteJoins
  <2> QED BY <1>14, <2>2
<1> DEFINE s2 == s1 \o t2
           s3 == s2 \o t3
           s4 == s3 \o t4
           s5 == s4 \o t5
           s6 == s5 \o t6
           s7 == s6 \o t7
           s8 == s7 \o t8
           s9 == s8 \o t9
           s10 == s9 \o t10
<1>16. Control!SyncSteps(o) = s10
  BY <1>2
<1>17. Routed(o, s2, 5, 6) /\ \A p : HasStep(s1, p) \/ HasStep(t2, p) => HasStep(s2, p)
  BY <1>3, <1>4, RouteJoins
<1> HIDE DEF s2
<1>18. Routed(o, s3, 5, 7) /\ \A p : HasStep(s2, p) \/ HasStep(t3, p) => HasStep(s3, p)
  BY <1>17, <1>5, RouteJoins
<1> HIDE DEF s3
<1>19. Routed(o, s4, 5, 8) /\ \A p : HasStep(s3, p) \/ HasStep(t4, p) => HasStep(s4, p)
  BY <1>18, <1>6, RouteJoins
<1> HIDE DEF s4
<1>20. Routed(o, s5, 5, 9) /\ \A p : HasStep(s4, p) \/ HasStep(t5, p) => HasStep(s5, p)
  BY <1>19, <1>7, RouteJoins
<1> HIDE DEF s5
<1>21. Routed(o, s6, 5, 10) /\ \A p : HasStep(s5, p) \/ HasStep(t6, p) => HasStep(s6, p)
  BY <1>20, <1>8, RouteJoins
<1> HIDE DEF s6
<1>22. Routed(o, s7, 5, 11) /\ \A p : HasStep(s6, p) \/ HasStep(t7, p) => HasStep(s7, p)
  BY <1>21, <1>9, RouteJoins
<1> HIDE DEF s7
<1>23. Routed(o, s8, 5, 13) /\ \A p : HasStep(s7, p) \/ HasStep(t8, p) => HasStep(s8, p)
  BY <1>22, <1>15, RouteJoins
<1> HIDE DEF s8
<1>24. Routed(o, s9, 5, 14) /\ \A p : HasStep(s8, p) \/ HasStep(t9, p) => HasStep(s9, p)
  BY <1>23, <1>12, RouteJoins
<1> HIDE DEF s9
<1>25. Routed(o, s10, 5, 15) /\ \A p : HasStep(s9, p) \/ HasStep(t10, p) => HasStep(s10, p)
  BY <1>24, <1>13, RouteJoins
<1> HIDE DEF s10
<1> QED BY <1>16, <1>4, <1>6, <1>7, <1>10, <1>15, <1>17, <1>18, <1>19, <1>20, <1>21, <1>22, <1>23, <1>24, <1>25

\* A staging creates its revision and, in the snapshot mode, compares the
\* template first and moves the traffic last.
LEMMA StagingRoute ==
  ASSUME NEW o, o.kind = "staging"
  PROVE  /\ Routed(o, Control!StagingSteps(o), 1, 4)
         /\ HasStep(Control!StagingSteps(o), "stage")
         /\ o.mode = "snapshot" => HasStep(Control!StagingSteps(o), "plan")
<1>1. /\ \A op \in {"plan", "stage", "stageRead"} : Control!Belongs(o, op)
      /\ o.mode = "snapshot" => Control!Belongs(o, "move")
  BY Places DEF Control!Belongs
<1> DEFINE s1 == Control!When(o.mode # "same", <<Control!On("plan")>>)
           t2 == Control!When(TRUE, <<Control!On("stage")>>)
           t3 == Control!When(o.mode # "same", <<Control!On("stageRead")>>)
           t4 == Control!When(o.mode = "snapshot", <<Control!On("move")>>)
           s2 == s1 \o t2
           s3 == s2 \o t3
           s4 == s3 \o t4
<1>2. Control!StagingSteps(o) = s4
  BY DEF Control!StagingSteps, Control!When
<1>3. Routed(o, s1, 1, 1) /\ (o.mode # "same" => HasStep(s1, "plan"))
  BY <1>1, RouteOne, RouteNone, Places DEF Control!When
<1>4. Routed(o, t2, 2, 2) /\ HasStep(t2, "stage")
  BY <1>1, RouteOne, RouteNone, Places DEF Control!When
<1>5. Routed(o, t3, 3, 3)
  BY <1>1, RouteOne, RouteNone, Places DEF Control!When
<1>6. Routed(o, t4, 4, 4)
  BY <1>1, RouteOne, RouteNone, Places DEF Control!When
<1> HIDE DEF s1, t2, t3, t4
<1>7. Routed(o, s2, 1, 2) /\ \A p : HasStep(s1, p) \/ HasStep(t2, p) => HasStep(s2, p)
  BY <1>3, <1>4, RouteJoins
<1> HIDE DEF s2
<1>8. Routed(o, s3, 1, 3) /\ \A p : HasStep(s2, p) \/ HasStep(t3, p) => HasStep(s3, p)
  BY <1>5, <1>7, RouteJoins
<1> HIDE DEF s3
<1>9. Routed(o, s4, 1, 4) /\ \A p : HasStep(s3, p) \/ HasStep(t4, p) => HasStep(s4, p)
  BY <1>6, <1>8, RouteJoins
<1> HIDE DEF s4
<1> QED BY <1>2, <1>3, <1>4, <1>7, <1>8, <1>9

\* A stop looks twice, disables the target and pauses the jobs.
LEMMA StopRoute ==
  ASSUME NEW o, o.kind = "stop"
  PROVE  Routed(o, Control!StopSteps, 16, 21) /\ HasStep(Control!StopSteps, "final")
<1>1. \A op \in {"see", "seeAgain", "disable", "confirm", "halt", "final"} : Control!Belongs(o, op)
  BY Places DEF Control!Belongs
<1> DEFINE a == <<Control!On("see"), Control!On("seeAgain"), Control!On("disable"), Control!On("confirm")>>
           e == Control!Each("halt")
           z == <<<<"halt", "legacy">>, Control!On("final")>>
           b == a \o e
           c == b \o z
<1>2. Control!StopSteps = c
  BY DEF Control!StopSteps
<1>3. /\ a \in Seq(Control!Steps) /\ DOMAIN a = 1..4 /\ a[1][1] = "see" /\ a[2][1] = "seeAgain" /\ a[3][1] = "disable"
      /\ a[4][1] = "confirm"
  BY Places DEF Control!On, Control!Steps
<1>4. z \in Seq(Control!Steps) /\ DOMAIN z = 1..2 /\ z[1][1] = "halt" /\ z[2][1] = "final"
  BY Places DEF Control!On, Control!Steps, Control!Jobs
<1> HIDE DEF a, z
<1>5. Routed(o, a, 16, 19)
  <2>1. \A i \in 1..4 : Control!Belongs(o, a[i][1]) /\ Control!Place[a[i][1]] = i + 15
    BY <1>1, <1>3, Places
  <2>2. Control!InPlace(a)
    BY <1>3, <2>1 DEF Control!InPlace
  <2>3. \A i \in 1..4 : Control!Place[a[i][1]] \in 16..19
    BY <2>1
  <2> QED BY <1>3, <2>1, <2>2, <2>3 DEF Routed
<1>6. Routed(o, z, 20, 21) /\ HasStep(z, "final")
  <2>1. \A i \in 1..2 : Control!Belongs(o, z[i][1]) /\ Control!Place[z[i][1]] = i + 19
    BY <1>1, <1>4, Places
  <2>2. Control!InPlace(z)
    BY <1>4, <2>1 DEF Control!InPlace
  <2>3. \A i \in 1..2 : Control!Place[z[i][1]] \in 20..21
    BY <2>1
  <2> QED BY <1>4, <2>1, <2>2, <2>3 DEF Routed, HasStep
<1>7. Routed(o, e, 20, 20)
  BY <1>1, RouteEach, Places
<1> HIDE DEF e
<1>8. Routed(o, b, 16, 20)
  BY <1>5, <1>7, RouteJoins
<1> HIDE DEF b
<1>9. Routed(o, c, 16, 21) /\ \A p : HasStep(b, p) \/ HasStep(z, p) => HasStep(c, p)
  BY <1>6, <1>8, RouteJoins
<1> HIDE DEF c
<1> QED BY <1>2, <1>6, <1>9

\* The run of a dispatch has the steps it was asked for, in their places.
LEMMA RouteFits ==
  ASSUME NEW o \in Control!Options, Control!Asks(o)
  PROVE  /\ Routed(o, Control!Route(o), 1, 21) /\ Control!Route(o) # <<>>
         /\ o.deploy => HasStep(Control!Route(o), "deploy")
         /\ o.env => HasStep(Control!Route(o), "env")
         /\ o.shift => HasStep(Control!Route(o), "shift")
         /\ o.kind = "staging" => HasStep(Control!Route(o), "stage")
         /\ o.kind = "staging" /\ o.mode = "snapshot" => HasStep(Control!Route(o), "plan")
<1>1. o.kind \in {"sync", "staging", "stop"} /\ o.deploy \in BOOLEAN /\ o.env \in BOOLEAN /\ o.shift \in BOOLEAN
  BY DEF Control!Options
<1>2. \A s : s \in Seq(Control!Steps) /\ s = <<>> => \A p : ~HasStep(s, p)
  BY DEF HasStep
<1>3. CASE o.kind = "sync"
  <2>1. Control!Route(o) = Control!SyncSteps(o) /\ (o.deploy \/ o.env \/ o.shift \/ o.action # "preserve")
    BY <1>3 DEF Control!Route, Control!Asks
  <2>2. Routed(o, Control!Route(o), 5, 15)
    BY <1>1, <1>3, <2>1, SyncRoute
  <2>3. Control!Route(o) # <<>>
    BY <1>1, <1>2, <1>3, <2>1, <2>2, SyncRoute DEF Routed
  <2>4. Routed(o, Control!Route(o), 1, 21)
    BY <2>2 DEF Routed
  <2> QED BY <1>1, <1>3, <2>1, <2>3, <2>4, SyncRoute
<1>4. CASE o.kind = "staging"
  <2>1. Control!Route(o) = Control!StagingSteps(o) /\ ~o.deploy /\ ~o.env /\ ~o.shift
    BY <1>4 DEF Control!Route, Control!Asks
  <2>2. Routed(o, Control!Route(o), 1, 4)
    BY <1>4, <2>1, StagingRoute
  <2>3. Control!Route(o) # <<>>
    BY <1>2, <1>4, <2>1, <2>2, StagingRoute DEF Routed
  <2>4. Routed(o, Control!Route(o), 1, 21)
    BY <2>2 DEF Routed
  <2> QED BY <1>4, <2>1, <2>3, <2>4, StagingRoute
<1>5. CASE o.kind = "stop"
  <2>1. Control!Route(o) = Control!StopSteps /\ ~o.deploy /\ ~o.env /\ ~o.shift
    BY <1>5 DEF Control!Route, Control!Asks
  <2>2. Routed(o, Control!Route(o), 16, 21) /\ Control!Route(o) # <<>>
    BY <1>2, <1>5, <2>1, StopRoute DEF Routed
  <2>3. Routed(o, Control!Route(o), 1, 21)
    BY <2>2 DEF Routed
  <2> QED BY <1>5, <2>1, <2>2, <2>3
<1> QED BY <1>1, <1>3, <1>4, <1>5

-----------------------------------------------------------------------------
(* The service of the control: what a new revision, a shift and a pruning  *)
(* do to it.                                                               *)
Revisions == DOMAIN v1.revs
ServiceTyped ==
  /\ v1.revs \in Seq(Control!Revision) /\ v1.kept \subseteq Revisions /\ v1.on \in Revisions /\ v1.latest \in BOOLEAN
ServiceFits == ServiceTyped /\ Control!ServiceHolds

\* A set of numbers that are not larger than one of them has a largest.
LEMMA TopIsIn ==
  ASSUME NEW n \in Nat, NEW S \in SUBSET (1..n), S # {}
  PROVE  Control!Top(S) \in S /\ \A j \in S : j <= Control!Top(S)
<1> DEFINE T == {n - i : i \in S}
<1>1. T \in SUBSET Nat /\ T # {}
  <2>1. \A i \in S : i \in 1..n /\ n - i \in Nat
    OBVIOUS
  <2> QED BY <2>1
<1>2. PICK m \in T : \A k \in T : m <= k
  BY <1>1, Numbers!LeastNatural
<1>3. PICK i \in S : m = n - i
  OBVIOUS
<1>4. \A j \in S : j <= i
  <2> TAKE j \in S
  <2>1. m <= n - j
    BY <1>2
  <2> QED BY <1>3, <2>1
<1> QED BY <1>4 DEF Control!Top

\* What is in a set and not smaller than the others is its largest.
LEMMA TopIs ==
  ASSUME NEW n \in Nat, NEW S \in SUBSET (1..n), NEW i \in S, \A j \in S : j <= i
  PROVE  Control!Top(S) = i
<1> DEFINE t == Control!Top(S)
<1>1. t \in S /\ i <= t
  BY TopIsIn
<1> HIDE DEF t
<1>2. t <= i /\ t \in 1..n /\ i \in 1..n
  BY <1>1
<1>3. t = i
  BY <1>1, <1>2
<1> QED BY <1>3 DEF t

\* The last of the revisions that became Ready is one that is kept.
LEMMA LastReady ==
  ASSUME ServiceFits
  PROVE  /\ Len(v1.revs) \in Nat \ {0} /\ Revisions = 1..Len(v1.revs) /\ v1.on \in v1.kept
         /\ Control!Readied(v1) \in SUBSET Revisions
         /\ Control!Top(Control!Readied(v1)) \in Control!Readied(v1) \cap v1.kept
         /\ \A j \in Control!Readied(v1) : j <= Control!Top(Control!Readied(v1))
<1>1. v1.revs \in Seq(Control!Revision) /\ v1.on \in Revisions
  BY DEF ServiceFits, ServiceTyped
<1>2. Len(v1.revs) \in Nat \ {0} /\ Revisions = 1..Len(v1.revs)
  BY <1>1 DEF Revisions
<1>3. Control!Readied(v1) \in SUBSET Revisions /\ Control!Readied(v1) # {}
  BY DEF ServiceFits, Control!ServiceHolds, Control!Readied, Revisions
<1>4. Control!Top(Control!Readied(v1)) \in Control!Readied(v1) /\ \A j \in Control!Readied(v1) : j <= Control!Top(Control!Readied(v1))
  BY <1>2, <1>3, TopIsIn
<1>5. v1.on \in v1.kept /\ Control!Top(Control!Readied(v1)) \in v1.kept
  BY DEF ServiceFits, Control!ServiceHolds, Control!ServingIsKept, Control!Readied
<1> QED BY <1>2, <1>3, <1>4, <1>5

\* A revision is added and kept; the traffic stays, or follows it.
LEMMA Creates ==
  ASSUME ServiceFits, NEW c \in ReleasedCommits, NEW e \in BOOLEAN, NEW ready \in BOOLEAN, NEW quiet \in BOOLEAN,
         v1' = IF quiet THEN Control!NoTraffic(Control!Created(v1, c, e, ready))
                        ELSE Control!Follows(Control!Created(v1, c, e, ready))
  PROVE  /\ ServiceFits' /\ Control!Template(v1)' = [commit |-> c, enabled |-> e, ready |-> ready]
         /\ Control!Newest(v1)' = Control!Newest(v1) + 1 /\ Control!Newest(v1)' \in v1'.kept
         /\ \A i \in Revisions : i \in Revisions' /\ v1'.revs[i] = v1.revs[i]
         /\ quiet => v1'.on = v1.on
<1> DEFINE rev == [commit |-> c, enabled |-> e, ready |-> ready]
           n == Len(v1.revs)
           fresh == Control!Created(v1, c, e, ready)
<1>1. rev \in Control!Revision
  BY DEF Control!Revision
<1>2. /\ v1.revs \in Seq(Control!Revision) /\ DOMAIN v1 = {"revs", "kept", "on", "latest"} /\ n \in Nat \ {0}
      /\ Revisions = 1..n /\ v1.on \in v1.kept /\ v1.kept \subseteq 1..n /\ v1.latest \in BOOLEAN
  BY LastReady DEF ServiceFits, ServiceTyped, Control!ServiceHolds
<1>3. /\ DOMAIN fresh = DOMAIN v1 /\ fresh.revs = Append(v1.revs, rev) /\ fresh.kept = v1.kept \cup {n + 1}
      /\ fresh.on = v1.on /\ fresh.latest = v1.latest
  BY <1>2 DEF Control!Created, Control!Newest
<1> HIDE DEF fresh, rev
<1>4. /\ fresh.revs \in Seq(Control!Revision) /\ Len(fresh.revs) = n + 1 /\ fresh.revs[n + 1] = rev
      /\ \A i \in 1..n : fresh.revs[i] = v1.revs[i]
  BY <1>1, <1>2, <1>3
<1>5. /\ DOMAIN v1' = DOMAIN v1 /\ v1'.revs = fresh.revs /\ v1'.kept = fresh.kept /\ v1'.latest \in BOOLEAN
      /\ v1'.on = v1.on \/ (v1'.on = n + 1 /\ ~quiet)
  <2>1. CASE quiet
    BY <1>2, <1>3, <2>1 DEF Control!NoTraffic, fresh
  <2>2. CASE ~quiet
    <3>1. v1' = Control!Follows(fresh)
      BY <2>2 DEF fresh
    <3>2. v1' = fresh \/ v1' = [fresh EXCEPT !.on = n + 1]
      BY <1>4, <3>1 DEF Control!Follows, Control!Newest
    <3> QED BY <1>2, <1>3, <2>2, <3>2
  <2> QED BY <2>1, <2>2
<1>6. Revisions' = 1..(n + 1) /\ v1'.on \in v1'.kept /\ v1'.kept \subseteq 1..(n + 1) /\ n + 1 \in v1'.kept
  BY <1>2, <1>3, <1>4, <1>5 DEF Revisions
<1>7. ServiceTyped'
  BY <1>4, <1>5, <1>6 DEF ServiceTyped
<1>8. /\ Control!Readied(v1)' \in SUBSET (1..(n + 1))
      /\ \A i \in 1..n : i \in Control!Readied(v1)' <=> i \in Control!Readied(v1)
      /\ n + 1 \in Control!Readied(v1)' <=> rev.ready
  BY <1>2, <1>4, <1>5, <1>6 DEF Control!Readied, Revisions
<1>9. Control!Readied(v1)' # {} /\ Control!Top(Control!Readied(v1)') \in v1'.kept
  <2>1. CASE rev.ready
    <3>1. Control!Top(Control!Readied(v1)') = n + 1
      <4> DEFINE R == Control!Readied(v1)'
      <4>1. n + 1 \in R /\ n + 1 \in Nat /\ R \in SUBSET (1..(n + 1))
        BY <1>2, <1>8, <2>1
      <4> HIDE DEF R
      <4>2. \A j \in R : j <= n + 1
        BY <1>2, <4>1
      <4>3. Control!Top(R) = n + 1
        BY <4>1, <4>2, TopIs
      <4> QED BY <4>3 DEF R
    <3> QED BY <1>6, <1>8, <2>1, <3>1
  <2>2. CASE ~rev.ready
    <3>1. Control!Readied(v1)' = Control!Readied(v1)
      <4>1. \A i \in Control!Readied(v1)' : i \in 1..n
        BY <1>2, <1>8, <2>2
      <4>2. Control!Readied(v1) \subseteq 1..n
        BY <1>2, LastReady
      <4> QED BY <1>8, <4>1, <4>2
    <3> QED BY <1>3, <1>5, <3>1, LastReady
  <2> QED BY <2>1, <2>2
<1>10. Control!ServiceHolds'
  BY <1>2, <1>5, <1>6, <1>9 DEF Control!ServiceHolds, Control!ServingIsKept, Control!Readied
<1>11. Control!Template(v1)' = rev /\ Control!Newest(v1)' = n + 1 /\ Control!Newest(v1) = n
  BY <1>4, <1>5 DEF Control!Template, Control!Newest
<1> QED BY <1>2, <1>4, <1>5, <1>6, <1>7, <1>10, <1>11 DEF ServiceFits, rev

\* The traffic moves to a revision that is kept.
LEMMA Moves ==
  ASSUME ServiceFits, NEW i \in v1.kept, v1' = Control!To(i)
  PROVE  ServiceFits' /\ v1'.revs = v1.revs /\ v1'.kept = v1.kept /\ v1'.on = i
<1>1. DOMAIN v1 = {"revs", "kept", "on", "latest"}
  BY DEF ServiceFits, Control!ServiceHolds
<1>2. DOMAIN v1' = DOMAIN v1 /\ v1'.revs = v1.revs /\ v1'.kept = v1.kept /\ v1'.on = i /\ v1'.latest = FALSE
  BY <1>1 DEF Control!To
<1>3. ServiceTyped'
  BY <1>2 DEF ServiceFits, ServiceTyped, Revisions
<1>4. Control!ServiceHolds'
  BY <1>1, <1>2 DEF ServiceFits, Control!ServiceHolds, Control!ServingIsKept, Control!Readied
<1> QED BY <1>2, <1>3, <1>4 DEF ServiceFits

\* Pruning keeps what serves and what became Ready last.
LEMMA Prunes ==
  ASSUME ServiceFits, NEW gone \in SUBSET (v1.kept \ Control!Keeps), v1' = [v1 EXCEPT !.kept = @ \ gone]
  PROVE  /\ ServiceFits' /\ v1'.revs = v1.revs /\ v1'.on = v1.on
         /\ Control!Newest(v1) \in v1.kept /\ Control!Template(v1).ready => Control!Newest(v1) \in v1'.kept
<1>1. DOMAIN v1 = {"revs", "kept", "on", "latest"}
  BY DEF ServiceFits, Control!ServiceHolds
<1>2. DOMAIN v1' = DOMAIN v1 /\ v1'.revs = v1.revs /\ v1'.kept = v1.kept \ gone /\ v1'.on = v1.on /\ v1'.latest = v1.latest
  BY <1>1
<1> DEFINE last == Control!Top(Control!Readied(v1))
<1>3. /\ last \in Control!Readied(v1) \cap v1.kept /\ \A j \in Control!Readied(v1) : j <= last
      /\ Len(v1.revs) \in Nat /\ Revisions = 1..Len(v1.revs) /\ Control!Readied(v1) \in SUBSET Revisions
  BY LastReady
<1> HIDE DEF last
<1>4. Control!Ready(v1) = Control!Readied(v1) \cap v1.kept
  BY <1>3 DEF Control!Ready, Control!Readied, ServiceFits, ServiceTyped, Revisions
<1>5. Control!LatestReady(v1) = last
  BY <1>3, <1>4, TopIs DEF Control!LatestReady
<1>6. v1.on \in v1'.kept /\ last \in v1'.kept
  BY <1>2, <1>3, <1>5, LastReady DEF Control!Keeps
<1>7. ServiceTyped'
  BY <1>2 DEF ServiceFits, ServiceTyped, Revisions
<1>8. Control!ServiceHolds'
  BY <1>1, <1>2, <1>6 DEF ServiceFits, Control!ServiceHolds, Control!ServingIsKept, Control!Readied, last
<1>9. ASSUME Control!Newest(v1) \in v1.kept, Control!Template(v1).ready PROVE Control!Newest(v1) \in v1'.kept
  <2>1. Control!Newest(v1) \in Control!Readied(v1) /\ Control!Newest(v1) = Len(v1.revs)
    BY <1>3, <1>9 DEF Control!Readied, Control!Newest, Control!Template, ServiceFits, ServiceTyped, Revisions
  <2>2. Control!Newest(v1) = last
    BY <1>3, <2>1
  <2> QED BY <1>6, <2>2
<1> QED BY <1>2, <1>7, <1>8, <1>9 DEF ServiceFits

\* The revision found for a commit is one of it that is Ready and kept, and is
\* the last one when that is such a revision.
LEMMA RevisionFits ==
  ASSUME ServiceFits, NEW c, Control!RevisionFor(c) # 0
  PROVE  /\ Control!RevisionFor(c) \in v1.kept
         /\ v1.revs[Control!RevisionFor(c)].ready /\ v1.revs[Control!RevisionFor(c)].commit = c
         /\ Control!Newest(v1) \in v1.kept /\ Control!Template(v1).ready /\ Control!Template(v1).commit = c =>
              Control!RevisionFor(c) = Control!Newest(v1)
<1> DEFINE match == {i \in Control!Ready(v1) : v1.revs[i].commit = c}
<1>1. Control!RevisionFor(c) = IF match = {} THEN 0 ELSE Control!Top(match)
  BY DEF Control!RevisionFor
<1>2. match # {} /\ Control!RevisionFor(c) = Control!Top(match)
  BY <1>1
<1>3. match \in SUBSET (1..Len(v1.revs)) /\ Len(v1.revs) \in Nat
  BY LastReady DEF Control!Ready, ServiceFits, ServiceTyped
<1>4. Control!Top(match) \in match /\ \A j \in match : j <= Control!Top(match)
  BY <1>2, <1>3, TopIsIn
<1>5. Control!Newest(v1) \in v1.kept /\ Control!Template(v1).ready /\ Control!Template(v1).commit = c =>
        Control!Newest(v1) \in match
  BY DEF Control!Newest, Control!Template, Control!Ready
<1>6. \A j \in match : j <= Control!Newest(v1)
  BY <1>3 DEF Control!Newest
<1> DEFINE t == Control!Top(match)
<1>7. t \in v1.kept /\ v1.revs[t].ready /\ v1.revs[t].commit = c
  BY <1>4 DEF Control!Ready
<1>8. Control!Newest(v1) \in match => t = Control!Newest(v1)
  <2> HIDE DEF match
  <2> QED BY <1>3, <1>6, TopIs
<1> HIDE DEF match, t
<1>9. Control!RevisionFor(c) = t
  BY <1>2 DEF t
<1> QED BY <1>5, <1>7, <1>8, <1>9

-----------------------------------------------------------------------------
(* The run of the control: how it begins, goes on and ends.                *)
SeenTyped(known) == known \in [on : Nat, config : BOOLEAN, jobs : [Control!Jobs -> {"missing", "PAUSED", "ENABLED"}]]
RunTyped ==
  /\ v3.opt \in Control!Options /\ v3.end \in Control!Ended \cup {"running"} /\ v3.created \subseteq Control!Jobs
  /\ SeenTyped(v3.seen) /\ (v3.end = "running") = (v3.todo # <<>>)
RunFits == RunTyped /\ Control!StepsInOrder

\* What is idle has seen nothing and asks for nothing.
LEMMA IdleRun ==
  /\ DOMAIN Control!Idle = {"opt", "todo", "end", "created", "seen", "staged"}
  /\ Control!Idle.opt = Control!Nothing /\ Control!Idle.todo = <<>> /\ Control!Idle.end = "none"
  /\ Control!Idle.created = {} /\ SeenTyped(Control!Idle.seen) /\ Control!Idle.staged = 0
  /\ Control!Nothing \in Control!Options /\ ~Control!Nothing.deploy /\ Control!Nothing.kind = "stop"
<1>1. /\ DOMAIN Control!Idle = {"opt", "todo", "end", "created", "seen", "staged"}
      /\ Control!Idle.opt = Control!Nothing /\ Control!Idle.todo = <<>> /\ Control!Idle.end = "none"
      /\ Control!Idle.created = {} /\ Control!Idle.seen = Control!Unseen /\ Control!Idle.staged = 0
  BY DEF Control!Idle
<1>2. SeenTyped(Control!Unseen)
  BY DEF SeenTyped, Control!Unseen, Control!NoJobs
<1>3. Control!Nothing \in Control!Options /\ ~Control!Nothing.deploy /\ Control!Nothing.kind = "stop"
  BY ControlAssumption DEF Control!Nothing, Control!Options, Control!Modes
<1> QED BY <1>1, <1>2, <1>3

\* With nothing ahead a run fits, and what it was to do is not at stake.
LEMMA Rests ==
  ASSUME DOMAIN v3' = DOMAIN Control!Idle, v3'.opt = Control!Nothing, v3'.todo = <<>>, v3'.end \in Control!Ended,
         v3'.created = {}, SeenTyped(v3'.seen)
  PROVE  RunFits' /\ Control!ShippedAsAsked' /\ Control!StagedAsPlanned'
<1>1. RunTyped'
  BY IdleRun DEF RunTyped, Control!Ended, SeenTyped
<1>2. Control!StepsInOrder'
  BY IdleRun DEF Control!StepsInOrder, Control!InPlace
<1>3. Control!ShippedAsAsked' /\ Control!StagedAsPlanned'
  BY IdleRun DEF Control!ShippedAsAsked, Control!StagedAsPlanned, Control!Ended
<1> QED BY <1>1, <1>2, <1>3 DEF RunFits

\* A run that failed or was refused is such a run.
LEMMA Ends ==
  ASSUME NEW why \in {"failed", "refused"}, v3' = Control!Over(why)
  PROVE  /\ RunFits' /\ Control!ShippedAsAsked' /\ Control!StagedAsPlanned'
         /\ v3'.end = why
<1>1. /\ DOMAIN v3' = DOMAIN Control!Idle /\ v3'.opt = Control!Nothing /\ v3'.todo = <<>> /\ v3'.end = why
      /\ v3'.created = {} /\ v3'.seen = Control!Idle.seen
  BY IdleRun DEF Control!Over
<1> QED BY <1>1, IdleRun, Rests DEF Control!Ended

\* What is known where a step comes next.
LEMMA ComesNext ==
  ASSUME RunFits, NEW op, Control!At(op)
  PROVE  /\ v3.todo # <<>> /\ v3.end = "running" /\ Control!Belongs(v3.opt, op) /\ op = v3.todo[1][1] /\ v4 # 0
         /\ \A q : Control!Ahead(q) => q \in DOMAIN Control!Place /\ Control!Place[op] <= Control!Place[q]
         /\ op = "write" => Control!JobAt \in Control!Jobs
<1>1. v3.todo # <<>> /\ Head(v3.todo)[1] = op
  BY DEF Control!At
<1>2. v3.todo \in Seq(Control!Steps)
  BY DEF RunFits, Control!StepsInOrder
<1>3. 1 \in DOMAIN v3.todo /\ Head(v3.todo) = v3.todo[1] /\ \A i \in DOMAIN v3.todo : 1 <= i
  BY <1>1, <1>2
<1>4. v3.end = "running" /\ v4 # 0
  BY <1>1 DEF RunFits, RunTyped, Control!StepsInOrder
<1>5. Control!Belongs(v3.opt, op)
  BY <1>1, <1>3 DEF RunFits, Control!StepsInOrder
<1>6. ASSUME NEW q, Control!Ahead(q) PROVE q \in DOMAIN Control!Place /\ Control!Place[op] <= Control!Place[q]
  <2>1. PICK i \in DOMAIN v3.todo : v3.todo[i][1] = q
    BY <1>6 DEF Control!Ahead
  <2>2. Control!Belongs(v3.opt, q) /\ Control!Place[v3.todo[1][1]] <= Control!Place[q]
    BY <1>3, <2>1 DEF RunFits, Control!StepsInOrder, Control!InPlace
  <2> QED BY <1>1, <1>3, <2>2 DEF Control!Belongs
<1>7. ASSUME op = "write" PROVE Control!JobAt \in Control!Jobs
  <2>1. v3.todo[1] \in Control!Steps
    BY <1>2, <1>3
  <2> QED BY <1>1, <1>3, <1>7, <2>1 DEF Control!Steps, Control!JobAt
<1> QED BY <1>1, <1>3, <1>4, <1>5, <1>6, <1>7

\* What remains of steps after the first.
LEMMA RestOf ==
  ASSUME NEW S, NEW s \in Seq(S), s # <<>>, Len(s) # 1
  PROVE  /\ Tail(s) \in Seq(S) /\ Tail(s) # <<>>
         /\ \A i \in DOMAIN Tail(s) : i + 1 \in DOMAIN s /\ Tail(s)[i] = s[i + 1]
         /\ \A i \in DOMAIN s : i = 1 \/ (i - 1 \in DOMAIN Tail(s) /\ Tail(s)[i - 1] = s[i])
<1>1. Len(s) \in Nat \ {0, 1}
  OBVIOUS
<1>2. Tail(s) \in Seq(S) /\ Len(Tail(s)) = Len(s) - 1
  OBVIOUS
<1>3. \A i \in 1..(Len(s) - 1) : i + 1 \in 1..Len(s) /\ Tail(s)[i] = s[i + 1]
  <2> TAKE i \in 1..(Len(s) - 1)
  <2>1. i + 1 \in 1..Len(s)
    BY <1>1
  <2>2. Tail(s)[i] = s[i + 1]
    BY <1>1
  <2> QED BY <2>1, <2>2
<1>4. Tail(s) # <<>>
  <2>1. Len(Tail(s)) # 0
    BY <1>1, <1>2
  <2>2. Len(<<>>) = 0
    OBVIOUS
  <2> QED BY <2>1, <2>2
<1>5. \A i \in 1..Len(s) : i = 1 \/ (i - 1 \in 1..(Len(s) - 1) /\ Tail(s)[i - 1] = s[i])
  <2> TAKE i \in 1..Len(s)
  <2>1. i = 1 \/ i - 1 \in 1..(Len(s) - 1)
    BY <1>1
  <2>2. i - 1 \in 1..(Len(s) - 1) => Tail(s)[i - 1] = s[(i - 1) + 1]
    BY <1>3
  <2> QED BY <2>1, <2>2
<1>6. DOMAIN s = 1..Len(s) /\ DOMAIN Tail(s) = 1..(Len(s) - 1)
  BY <1>2
<1> QED BY <1>2, <1>3, <1>4, <1>5, <1>6

\* A run goes on with the next step, or ends in success after the last.
LEMMA Continues ==
  ASSUME RunFits, v3.todo # <<>>, v4' = v4, NEW r, DOMAIN r = DOMAIN v3, r.opt = v3.opt, r.todo = v3.todo,
         r.end = v3.end, r.created \subseteq Control!Jobs, SeenTyped(r.seen), v3' = Control!Passed(r)
  PROVE  /\ RunFits' /\ v3'.opt = v3.opt /\ v3'.end \in {"running", "success"}
         /\ v3'.end = "running" => v3'.staged = r.staged
         /\ \A q : Control!Ahead(q) => q = v3.todo[1][1] \/ Control!Ahead(q)'
<1>1. /\ v3.todo \in Seq(Control!Steps) /\ DOMAIN v3 = DOMAIN Control!Idle /\ v3.end = "running" /\ v4 # 0
      /\ \A i \in DOMAIN v3.todo : Control!Belongs(v3.opt, v3.todo[i][1])
      /\ Control!InPlace(v3.todo)
  BY DEF RunFits, RunTyped, Control!StepsInOrder
<1>2. CASE Len(v3.todo) = 1
  <2>1. v3' = [Control!Idle EXCEPT !.opt = v3.opt, !.end = "success"]
    BY <1>2 DEF Control!Passed
  <2>2. /\ DOMAIN v3' = DOMAIN Control!Idle /\ v3'.opt = v3.opt /\ v3'.todo = <<>> /\ v3'.end = "success"
        /\ v3'.created = {} /\ v3'.seen = Control!Idle.seen
    BY <2>1, IdleRun
  <2>3. RunTyped'
    BY <2>2, IdleRun DEF RunFits, RunTyped, Control!Ended, SeenTyped
  <2>4. Control!StepsInOrder'
    BY <2>2 DEF RunFits, Control!StepsInOrder, Control!InPlace
  <2>5. \A q : Control!Ahead(q) => q = v3.todo[1][1]
    BY <1>1, <1>2 DEF Control!Ahead
  <2> QED BY <2>2, <2>3, <2>4, <2>5 DEF RunFits
<1>3. CASE Len(v3.todo) # 1
  <2> DEFINE t == Tail(v3.todo)
  <2>1. v3' = [r EXCEPT !.todo = t]
    BY <1>3 DEF Control!Passed
  <2>2. /\ t \in Seq(Control!Steps) /\ t # <<>>
        /\ \A i \in DOMAIN t : i + 1 \in DOMAIN v3.todo /\ t[i] = v3.todo[i + 1]
        /\ \A i \in DOMAIN v3.todo : i = 1 \/ (i - 1 \in DOMAIN t /\ t[i - 1] = v3.todo[i])
    <3>1. v3.todo # <<>> /\ Len(v3.todo) # 1
      BY <1>3
    <3> QED BY <1>1, <3>1, RestOf DEF t
  <2> HIDE DEF t
  <2>3. /\ DOMAIN v3' = DOMAIN Control!Idle /\ v3'.opt = v3.opt /\ v3'.todo = t /\ v3'.end = "running"
        /\ v3'.created = r.created /\ v3'.seen = r.seen /\ v3'.staged = r.staged
    BY <1>1, <2>1, IdleRun
  <2>4. RunTyped'
    BY <2>2, <2>3 DEF RunFits, RunTyped, SeenTyped
  <2>5. Control!InPlace(t)
    <3> SUFFICES ASSUME NEW i \in DOMAIN t, NEW j \in DOMAIN t, i <= j
                 PROVE  Control!Place[t[i][1]] <= Control!Place[t[j][1]]
      BY DEF Control!InPlace
    <3>1. i + 1 <= j + 1 /\ i + 1 \in DOMAIN v3.todo /\ j + 1 \in DOMAIN v3.todo
      BY <2>2
    <3> QED BY <1>1, <2>2, <3>1 DEF Control!InPlace
  <2>6. Control!StepsInOrder'
    <3>1. \A i \in DOMAIN t : Control!Belongs(v3.opt, t[i][1])
      BY <1>1, <2>2
    <3> QED BY <1>1, <2>2, <2>3, <2>5, <3>1 DEF RunFits, Control!StepsInOrder
  <2>7. \A q : Control!Ahead(q) => q = v3.todo[1][1] \/ Control!Ahead(q)'
    BY <2>2, <2>3 DEF Control!Ahead
  <2> QED BY <2>3, <2>4, <2>6, <2>7 DEF RunFits
<1> QED BY <1>2, <1>3

\* A dispatch begins a run with all its steps ahead.
LEMMA Dispatches ==
  ASSUME v4 \in Nat, Control!Dispatch
  PROVE  RunFits' /\ Control!ShippedAsAsked' /\ Control!StagedAsPlanned' /\ v3'.end = "running"
<1>1. PICK o \in Control!Options :
        Control!Asks(o) /\ v3' = [Control!Idle EXCEPT !.opt = o, !.todo = Control!Route(o), !.end = "running"]
  BY DEF Control!Dispatch
<1>2. v4' = v4 + 1
  BY DEF Control!Dispatch
<1> DEFINE t == Control!Route(o)
<1>3. /\ Routed(o, t, 1, 21) /\ t # <<>>
      /\ o.deploy => HasStep(t, "deploy")
      /\ o.env => HasStep(t, "env")
      /\ o.shift => HasStep(t, "shift")
      /\ o.kind = "staging" => HasStep(t, "stage")
      /\ o.kind = "staging" /\ o.mode = "snapshot" => HasStep(t, "plan")
  BY <1>1, RouteFits
<1>4. o.deploy => o.kind = "sync"
  BY <1>1 DEF Control!Asks, Control!Options
<1> HIDE DEF t
<1>5. /\ DOMAIN v3' = DOMAIN Control!Idle /\ v3'.opt = o /\ v3'.todo = t /\ v3'.end = "running"
      /\ v3'.created = {} /\ v3'.seen = Control!Idle.seen
  BY <1>1, IdleRun DEF t
<1>6. RunTyped'
  BY <1>1, <1>3, <1>5, IdleRun DEF RunTyped, SeenTyped
<1>7. Control!StepsInOrder'
  BY <1>2, <1>3, <1>4, <1>5 DEF Control!StepsInOrder, Routed
<1>8. \A q : HasStep(t, q) => Control!Ahead(q)'
  BY <1>5 DEF HasStep, Control!Ahead
<1>9. Control!ShippedAsAsked'
  BY <1>3, <1>5, <1>8 DEF Control!ShippedAsAsked
<1>10. Control!StagedAsPlanned'
  BY <1>3, <1>5, <1>8 DEF Control!StagedAsPlanned
<1> QED BY <1>5, <1>6, <1>7, <1>9, <1>10 DEF RunFits

-----------------------------------------------------------------------------
(* What the steps of a run do to what it was asked for.                    *)
OthersFit ==
  /\ v2 \in [Control!Jobs -> {"missing", "PAUSED", "ENABLED"}] /\ v4 \in 0..ControlRuns /\ v5 \in BOOLEAN
  /\ v6 \in 0..ControlWindows /\ v8 \subseteq v7 /\ v7 \subseteq 1..v4 /\ v9 \subseteq 1..v4 /\ v7 \subseteq v9
Promises == Control!ShippedAsAsked /\ Control!StagedAsPlanned

\* The invariant in its parts.
LEMMA ControlParts ==
  /\ Control!ControlInv <=> ServiceFits /\ RunFits /\ OthersFit /\ Promises
  /\ Control!ControlInv' <=> ServiceFits' /\ RunFits' /\ OthersFit' /\ Promises'
<1>1. Control!TypeOK /\ v7 \subseteq v9 <=> ServiceTyped /\ RunTyped /\ OthersFit
  BY DEF Control!TypeOK, ServiceTyped, RunTyped, SeenTyped, OthersFit, Revisions
<1>2. Control!TypeOK' /\ v7' \subseteq v9' <=> ServiceTyped' /\ RunTyped' /\ OthersFit'
  BY DEF Control!TypeOK, ServiceTyped, RunTyped, SeenTyped, OthersFit, Revisions
<1>3. (OthersFit => v8 \subseteq v7 /\ v7 \subseteq v9) /\ (OthersFit' => v8' \subseteq v7' /\ v7' \subseteq v9')
  BY DEF OthersFit
<1> QED BY <1>1, <1>2, <1>3 DEF Control!ControlInv, ServiceFits, RunFits, Promises

\* A run as it is, but for what it knows of the jobs.
Like(r) ==
  /\ DOMAIN r = DOMAIN v3 /\ r.opt = v3.opt /\ r.todo = v3.todo /\ r.end = v3.end
  /\ r.created \subseteq Control!Jobs /\ SeenTyped(r.seen)
OverNow == \E why \in {"failed", "refused"} : v3' = Control!Over(why)

\* A run as it is is like itself.
LEMMA LikeItself == ASSUME RunFits PROVE Like(v3)
  BY DEF RunFits, RunTyped, Like

\* A step that is none of those that ship or stage keeps what was promised.
LEMMA KeepsPromises ==
  ASSUME RunFits, ServiceFits, Promises, NEW op, Control!At(op), op \notin {"deploy", "env", "shift", "stage"},
         op = "plan" => Control!Template(v1).enabled = Control!Serving(v1).enabled,
         NEW r, Like(r), r.staged = v3.staged, v3' = Control!Passed(r), v4' = v4,
         v1'.revs = v1.revs, v1'.on = v1.on,
         Control!Newest(v1) \in v1.kept /\ Control!Template(v1).ready => Control!Newest(v1) \in v1'.kept
  PROVE  RunFits' /\ Promises'
<1>1. op = v3.todo[1][1] /\ v3.todo # <<>> /\ v3.end = "running"
  BY ComesNext
<1>2. /\ RunFits' /\ v3'.opt = v3.opt /\ v3'.end \in {"running", "success"}
      /\ v3'.end = "running" => v3'.staged = v3.staged
      /\ \A q : Control!Ahead(q) => q = op \/ Control!Ahead(q)'
  BY <1>1, Continues DEF Like
<1>3. /\ Control!Template(v1)' = Control!Template(v1) /\ Control!Newest(v1)' = Control!Newest(v1)
      /\ Control!Serving(v1)' = Control!Serving(v1)
  BY DEF Control!Template, Control!Newest, Control!Serving
<1>4. Control!ShippedAsAsked'
  BY <1>1, <1>2, <1>3 DEF Control!ShippedAsAsked, Promises
<1>5. Control!StagedAsPlanned'
  BY <1>1, <1>2, <1>3 DEF Control!StagedAsPlanned, Promises
<1> QED BY <1>2, <1>4, <1>5 DEF Promises

\* A deployment puts its commit on the template, an environment sync its
\* enablement, and neither takes from the template what the other put there.
LEMMA ShipsTemplate ==
  ASSUME RunFits, ServiceFits, Promises, NEW op \in {"deploy", "env"}, Control!At(op), v3' = Control!Passed(v3), v4' = v4,
         NEW c \in ReleasedCommits, NEW e \in BOOLEAN,
         c = IF op = "deploy" THEN v3.opt.commit ELSE Control!Template(v1).commit,
         e = IF op = "env" THEN v3.opt.enabled ELSE Control!Template(v1).enabled,
         v1' = Control!NoTraffic(Control!Created(v1, c, e, TRUE))
  PROVE  ServiceFits' /\ RunFits' /\ Promises' /\ v1'.on = v1.on
<1>1. /\ op = v3.todo[1][1] /\ v3.todo # <<>> /\ v3.end = "running" /\ Control!Belongs(v3.opt, op)
  BY ComesNext
<1>2. /\ RunFits' /\ v3'.opt = v3.opt /\ v3'.end \in {"running", "success"}
      /\ \A q : Control!Ahead(q) => q = op \/ Control!Ahead(q)'
  BY <1>1, LikeItself, Continues DEF Like
<1>3. v3.opt.kind = "sync"
  BY <1>1, Places DEF Control!Belongs
<1>4. /\ ServiceFits' /\ Control!Template(v1)' = [commit |-> c, enabled |-> e, ready |-> TRUE]
      /\ Control!Newest(v1)' \in v1'.kept /\ v1'.on = v1.on
      /\ \A i \in Revisions : i \in Revisions' /\ v1'.revs[i] = v1.revs[i]
  BY Creates
<1>5. Control!Serving(v1)' = Control!Serving(v1)
  BY <1>4 DEF Control!Serving, ServiceFits, ServiceTyped
<1>6. /\ Control!Template(v1)'.commit = c /\ Control!Template(v1)'.enabled = e /\ Control!Template(v1)'.ready
  <2>1. \A t : t = [commit |-> c, enabled |-> e, ready |-> TRUE] => t.commit = c /\ t.enabled = e /\ t.ready
    OBVIOUS
  <2> QED BY <1>4, <2>1
<1>7. Control!ShippedAsAsked'
  BY <1>1, <1>2, <1>4, <1>5, <1>6 DEF Control!ShippedAsAsked, Promises
<1>8. Control!StagedAsPlanned'
  BY <1>2, <1>3 DEF Control!StagedAsPlanned
<1> QED BY <1>2, <1>4, <1>7, <1>8 DEF Promises

\* With the template as asked, a shift serves what was asked.
LEMMA ShipsTraffic ==
  ASSUME RunFits, ServiceFits, Promises, Control!At("shift"), v3' = Control!Passed(v3), v4' = v4,
         Control!RevisionFor(v3.opt.commit) # 0, v1'.revs = v1.revs, v1'.kept = v1.kept,
         v1'.on = Control!RevisionFor(v3.opt.commit)
  PROVE  RunFits' /\ Promises'
<1>1. /\ v3.todo[1][1] = "shift" /\ v3.todo # <<>> /\ v3.end = "running" /\ Control!Belongs(v3.opt, "shift")
      /\ \A q : Control!Ahead(q) => Control!Place.shift <= Control!Place[q]
  BY ComesNext
<1>2. /\ RunFits' /\ v3'.opt = v3.opt /\ v3'.end \in {"running", "success"}
      /\ \A q : Control!Ahead(q) => q = "shift" \/ Control!Ahead(q)'
  BY <1>1, LikeItself, Continues DEF Like
<1>3. ~Control!Ahead("deploy") /\ ~Control!Ahead("env") /\ v3.opt.kind = "sync"
  BY <1>1, Places DEF Control!Belongs
<1>4. /\ Control!Template(v1)' = Control!Template(v1) /\ Control!Newest(v1)' = Control!Newest(v1)
      /\ Control!Serving(v1)' = v1.revs[Control!RevisionFor(v3.opt.commit)]
  BY DEF Control!Template, Control!Newest, Control!Serving
<1>5. ASSUME v3.opt.deploy, v3.opt.env, v3.opt.shift
      PROVE  /\ Control!Newest(v1) \in v1.kept /\ Control!Template(v1).ready
             /\ Control!Template(v1).commit = v3.opt.commit /\ Control!Template(v1).enabled = v3.opt.enabled
             /\ Control!Serving(v1)' = Control!Template(v1)
  <2>1. /\ Control!Newest(v1) \in v1.kept /\ Control!Template(v1).ready
        /\ Control!Template(v1).commit = v3.opt.commit /\ Control!Template(v1).enabled = v3.opt.enabled
    BY <1>1, <1>3, <1>5 DEF Promises, Control!ShippedAsAsked
  <2>2. Control!RevisionFor(v3.opt.commit) = Control!Newest(v1)
    BY <2>1, RevisionFits
  <2> QED BY <1>4, <2>1, <2>2 DEF Control!Template
<1>6. Control!ShippedAsAsked'
  BY <1>2, <1>4, <1>5 DEF Control!ShippedAsAsked
<1>7. Control!StagedAsPlanned'
  BY <1>2, <1>3 DEF Control!StagedAsPlanned
<1> QED BY <1>2, <1>6, <1>7 DEF Promises

\* A staging creates its own revision, configured as the template.
LEMMA StagesRevision ==
  ASSUME RunFits, ServiceFits, Promises, Control!At("stage"), v4' = v4, NEW r, Like(r),
         r.staged = Control!Newest(v1) + 1, v3' = Control!Passed(r), NEW c \in ReleasedCommits, NEW e \in BOOLEAN,
         e = Control!Template(v1).enabled, v1' = Control!NoTraffic(Control!Created(v1, c, e, TRUE))
  PROVE  ServiceFits' /\ RunFits' /\ Promises' /\ v1'.on = v1.on
<1>1. /\ v3.todo[1][1] = "stage" /\ v3.todo # <<>> /\ v3.end = "running" /\ Control!Belongs(v3.opt, "stage")
      /\ \A q : Control!Ahead(q) => Control!Place.stage <= Control!Place[q]
  BY ComesNext
<1>2. /\ RunFits' /\ v3'.opt = v3.opt /\ v3'.end \in {"running", "success"}
      /\ v3'.end = "running" => v3'.staged = Control!Newest(v1) + 1
  BY <1>1, Continues DEF Like
<1>3. ~Control!Ahead("plan") /\ v3.opt.kind = "staging" /\ ~v3.opt.deploy
  <2>1. v3.opt.kind = "staging" /\ ~Control!Ahead("plan")
    BY <1>1, Places DEF Control!Belongs
  <2>2. v3.opt.deploy => v3.opt.kind = "sync"
    BY DEF RunFits, Control!StepsInOrder
  <2> QED BY <2>1, <2>2
<1>4. /\ ServiceFits' /\ Control!Template(v1)' = [commit |-> c, enabled |-> e, ready |-> TRUE]
      /\ Control!Newest(v1)' = Control!Newest(v1) + 1
      /\ Control!Newest(v1)' \in v1'.kept /\ v1'.on = v1.on
      /\ \A i \in Revisions : i \in Revisions' /\ v1'.revs[i] = v1.revs[i]
  BY Creates
<1>5. Control!Serving(v1)' = Control!Serving(v1)
  BY <1>4 DEF Control!Serving, ServiceFits, ServiceTyped
<1>6. Control!ShippedAsAsked'
  BY <1>2, <1>3 DEF Control!ShippedAsAsked
<1>7. Control!Template(v1)'.enabled = e /\ Control!Template(v1)'.ready
  <2>1. \A t : t = [commit |-> c, enabled |-> e, ready |-> TRUE] => t.enabled = e /\ t.ready
    OBVIOUS
  <2> QED BY <1>4, <2>1
<1>8. Control!StagedAsPlanned'
  BY <1>1, <1>2, <1>3, <1>4, <1>5, <1>7 DEF Control!StagedAsPlanned, Promises
<1> QED BY <1>2, <1>4, <1>6, <1>8 DEF Promises

\* What the snapshot mode moves the traffic to is what it staged, configured as
\* what served.
LEMMA MovesToStaged ==
  ASSUME RunFits, ServiceFits, Promises, Control!At("move")
  PROVE  /\ v3.staged = Control!Newest(v1) /\ v3.staged \in v1.kept /\ v3.opt.mode = "snapshot"
         /\ v3.opt.kind = "staging" /\ Control!Template(v1).enabled = Control!Serving(v1).enabled
<1>1. /\ v3.end = "running" /\ Control!Belongs(v3.opt, "move")
      /\ \A q : Control!Ahead(q) => Control!Place.move <= Control!Place[q]
  BY ComesNext
<1>2. ~Control!Ahead("plan") /\ ~Control!Ahead("stage") /\ v3.opt.kind = "staging" /\ v3.opt.mode = "snapshot"
  BY <1>1, Places DEF Control!Belongs
<1> QED BY <1>1, <1>2 DEF Promises, Control!StagedAsPlanned

-----------------------------------------------------------------------------
(* The steps of the control keep the invariant, and within their bounds.   *)
GoesOn == \E r : Like(r) /\ r.staged = v3.staged /\ v3' = Control!Passed(r)
TrafficBounds == Control!ServingMovesByShift /\ Control!StagingKeepsTarget
Fits == ServiceFits /\ RunFits /\ Promises

\* The steps that leave the service alone.
LEMMA Works ==
  ASSUME RunFits, ServiceFits, OthersFit,
         \/ Control!Admit \/ Control!WaitForCommit \/ Control!WriteJob \/ Control!Quiet \/ Control!ApplyAction
         \/ Control!ActionRead \/ Control!DeleteLegacy \/ Control!Plan \/ Control!StageRead \/ Control!See
         \/ Control!SeeAgain \/ Control!Confirm \/ Control!Halt \/ Control!Final
  PROVE  /\ v1' = v1 /\ v4' = v4
         /\ \/ OverNow
            \/ /\ GoesOn
               /\ \E op \in {"admit", "wait", "write", "quiet", "act", "actRead", "legacy", "plan", "stageRead", "see",
                             "seeAgain", "confirm", "halt", "final"} :
                    /\ Control!At(op)
                    /\ op = "plan" => Control!Template(v1).enabled = Control!Serving(v1).enabled
<1>1. Like(v3)
  BY LikeItself
<1>2. /\ v1.revs \in Seq(Control!Revision) /\ Control!Template(v1) \in Control!Revision
      /\ Control!Serving(v1) \in Control!Revision /\ v1.on \in Nat
  <2>1. v1.revs \in Seq(Control!Revision) /\ v1.on \in DOMAIN v1.revs /\ Control!Newest(v1) \in DOMAIN v1.revs
    BY LastReady DEF ServiceFits, ServiceTyped, Revisions, Control!Newest
  <2> QED BY <2>1 DEF Control!Template, Control!Serving
<1>3. Control!Template(v1).enabled \in BOOLEAN /\ Control!Serving(v1).enabled \in BOOLEAN
  BY <1>2 DEF Control!Revision
<1>4. DOMAIN v3 = DOMAIN Control!Idle
  BY DEF RunFits, Control!StepsInOrder
<1>5. ASSUME NEW known, SeenTyped(known)
      PROVE  Like([v3 EXCEPT !.seen = known]) /\ [v3 EXCEPT !.seen = known].staged = v3.staged
  BY <1>1, <1>4, <1>5, IdleRun DEF Like
<1>6. CASE Control!Admit
  BY <1>1, <1>6 DEF Control!Admit, Control!Goes, Control!Stops, Control!Rest, GoesOn, OverNow
<1>7. CASE Control!WaitForCommit
  BY <1>1, <1>7 DEF Control!WaitForCommit, Control!Read, Control!Check, Control!Goes, Control!Stops, Control!Rest, GoesOn, OverNow
<1>8. CASE Control!ActionRead
  BY <1>1, <1>8 DEF Control!ActionRead, Control!Read, Control!Check, Control!Goes, Control!Stops, Control!Rest, GoesOn, OverNow
<1>9. CASE Control!StageRead
  BY <1>1, <1>9 DEF Control!StageRead, Control!Read, Control!Check, Control!Goes, Control!Stops, Control!Rest, GoesOn, OverNow
<1>10. CASE Control!SeeAgain
  BY <1>1, <1>10 DEF Control!SeeAgain, Control!Read, Control!Check, Control!Goes, Control!Stops, Control!Rest, GoesOn, OverNow
<1>11. CASE Control!Confirm
  BY <1>1, <1>11 DEF Control!Confirm, Control!Read, Control!Check, Control!Goes, Control!Stops, Control!Rest, GoesOn, OverNow
<1>12. CASE Control!Quiet
  BY <1>1, <1>12 DEF Control!Quiet, Control!Writes, Control!Goes, Control!Stops, Control!Rest, GoesOn, OverNow
<1>13. CASE Control!Halt
  BY <1>1, <1>13 DEF Control!Halt, Control!Writes, Control!Goes, Control!Stops, Control!Rest, GoesOn, OverNow
<1>14. CASE Control!ApplyAction
  BY <1>1, <1>14 DEF Control!ApplyAction, Control!Writes, Control!Read, Control!Check, Control!Goes, Control!Stops,
                     Control!Rest, GoesOn, OverNow
<1>15. CASE Control!DeleteLegacy
  BY <1>1, <1>15 DEF Control!DeleteLegacy, Control!Writes, Control!Read, Control!Check, Control!Goes, Control!Stops,
                     Control!Rest, GoesOn, OverNow
<1>16. CASE Control!Final
  <2>1. v1' = v1 /\ v4' = v4 /\ Control!At("final")
    BY <1>16 DEF Control!Final
  <2>2. v3' = Control!Passed(v3) \/ OverNow
    BY <1>16 DEF Control!Final, OverNow
  <2> QED BY <1>1, <2>1, <2>2 DEF GoesOn
<1>17. CASE Control!WriteJob
  <2> DEFINE r == [v3 EXCEPT !.created = @ \cup {Control!JobAt}]
  <2>1. Control!At("write") /\ Control!JobAt \in Control!Jobs
    BY <1>17, ComesNext DEF Control!WriteJob
  <2>2. Like(r) /\ r.staged = v3.staged
    BY <1>1, <1>4, <2>1, IdleRun DEF Like
  <2> HIDE DEF r
  <2>3. v1' = v1 /\ v4' = v4 /\ (OverNow \/ v3' = Control!Passed(v3) \/ v3' = Control!Passed(r))
    BY <1>17 DEF Control!WriteJob, Control!Writes, Control!Stops, Control!Rest, OverNow, r
  <2> QED BY <1>1, <2>1, <2>2, <2>3 DEF GoesOn
<1>18. CASE Control!Plan
  <2> DEFINE known == [on |-> v1.on, config |-> Control!Template(v1).enabled, jobs |-> v2]
             r == [v3 EXCEPT !.seen = known]
  <2>1. SeenTyped(known)
    BY <1>2, <1>3 DEF SeenTyped, OthersFit
  <2>2. Like(r) /\ r.staged = v3.staged
    BY <1>5, <2>1
  <2>3. /\ Control!At("plan") /\ v1' = v1 /\ v4' = v4
        /\ OverNow \/ (v3' = Control!Passed(r) /\ Control!Template(v1).enabled = Control!Serving(v1).enabled)
    BY <1>18 DEF Control!Plan, Control!Goes, Control!Stops, Control!Rest, Control!TemplateMatches, OverNow
  <2> HIDE DEF r
  <2> QED BY <2>2, <2>3 DEF GoesOn
<1>19. CASE Control!See
  <2> DEFINE r == [v3 EXCEPT !.seen = Control!Snapshot]
  <2>1. SeenTyped(Control!Snapshot)
    BY <1>2, <1>3 DEF SeenTyped, Control!Snapshot, OthersFit
  <2>2. Like(r) /\ r.staged = v3.staged
    BY <1>5, <2>1
  <2>3. Control!At("see") /\ v1' = v1 /\ v4' = v4 /\ (OverNow \/ v3' = Control!Passed(r))
    BY <1>19 DEF Control!See, Control!Read, Control!Check, Control!Goes, Control!Stops, Control!Rest, OverNow
  <2> HIDE DEF r
  <2> QED BY <2>2, <2>3 DEF GoesOn
<1> QED BY <1>6, <1>7, <1>8, <1>9, <1>10, <1>11, <1>12, <1>13, <1>14, <1>15, <1>16, <1>17, <1>18, <1>19

\* They keep the invariant.
LEMMA WorksFit ==
  ASSUME Fits, OthersFit,
         \/ Control!Admit \/ Control!WaitForCommit \/ Control!WriteJob \/ Control!Quiet \/ Control!ApplyAction
         \/ Control!ActionRead \/ Control!DeleteLegacy \/ Control!Plan \/ Control!StageRead \/ Control!See
         \/ Control!SeeAgain \/ Control!Confirm \/ Control!Halt \/ Control!Final
  PROVE  Fits' /\ v1' = v1
<1>1. RunFits /\ ServiceFits /\ Promises
  BY DEF Fits
<1>2. v1' = v1 /\ v4' = v4
  BY <1>1, Works
<1>3. ServiceFits'
  BY <1>1, <1>2 DEF ServiceFits, ServiceTyped, Revisions, Control!ServiceHolds, Control!ServingIsKept, Control!Readied
<1>4. CASE OverNow
  BY <1>2, <1>3, <1>4, Ends DEF OverNow, Fits, Promises
<1>5. CASE ~OverNow
  <2>1. PICK op \in {"admit", "wait", "write", "quiet", "act", "actRead", "legacy", "plan", "stageRead", "see",
                     "seeAgain", "confirm", "halt", "final"} :
          Control!At(op) /\ (op = "plan" => Control!Template(v1).enabled = Control!Serving(v1).enabled)
    BY <1>1, <1>5, Works
  <2>2. PICK r : Like(r) /\ r.staged = v3.staged /\ v3' = Control!Passed(r)
    BY <1>1, <1>5, Works DEF GoesOn
  <2>3. RunFits' /\ Promises'
    BY <1>1, <1>2, <2>1, <2>2, KeepsPromises
  <2> QED BY <1>2, <1>3, <2>3 DEF Fits
<1> QED BY <1>4, <1>5

\* What a call that makes a revision does.
LEMMA Makes ==
  ASSUME NEW c, NEW e, NEW quiet \in BOOLEAN, NEW r, Control!NewRevision(c, e, quiet, r)
  PROVE  /\ v4' = v4 /\ v2' = v2
         /\ \/ v1' = v1 /\ OverNow
            \/ \E ready \in BOOLEAN :
                 /\ v1' = IF quiet THEN Control!NoTraffic(Control!Created(v1, c, e, ready))
                                   ELSE Control!Follows(Control!Created(v1, c, e, ready))
                 /\ OverNow \/ (ready /\ v3' = Control!Passed(r))
  BY DEF Control!NewRevision, Control!Writes, Control!Stops, Control!Rest, OverNow

\* What is on the template and what serves are revisions.
LEMMA RevisionsTyped ==
  ASSUME ServiceFits
  PROVE  /\ Control!Template(v1).commit \in ReleasedCommits /\ Control!Template(v1).enabled \in BOOLEAN
         /\ v1.on \in Revisions /\ Control!Newest(v1) \in Revisions
<1>1. v1.revs \in Seq(Control!Revision) /\ v1.on \in Revisions /\ Control!Newest(v1) \in Revisions
  BY LastReady DEF ServiceFits, ServiceTyped, Revisions, Control!Newest
<1>2. Control!Template(v1) \in Control!Revision
  BY <1>1 DEF Control!Template, Revisions
<1> QED BY <1>1, <1>2 DEF Control!Revision

\* A revision that is made without traffic leaves what serves.
LEMMA MakesQuietly ==
  ASSUME ServiceFits, NEW c \in ReleasedCommits, NEW e \in BOOLEAN, NEW ready \in BOOLEAN,
         v1' = Control!NoTraffic(Control!Created(v1, c, e, ready))
  PROVE  ServiceFits' /\ TrafficBounds
<1>1. /\ ServiceFits' /\ v1'.on = v1.on
      /\ \A i \in Revisions : i \in Revisions' /\ v1'.revs[i] = v1.revs[i]
  BY Creates
<1>2. Control!Serving(v1') = Control!Serving(v1)
  BY <1>1, RevisionsTyped DEF Control!Serving
<1> QED BY <1>1, <1>2 DEF TrafficBounds, Control!ServingMovesByShift, Control!StagingKeepsTarget

\* A step that leaves the service alone stays within its bounds.
LEMMA StaysInTraffic == ASSUME v1' = v1 PROVE TrafficBounds
  BY DEF TrafficBounds, Control!ServingMovesByShift, Control!StagingKeepsTarget

\* A run that ends with the service as it was, or with one that fits.
LEMMA EndsFit == ASSUME ServiceFits', OverNow PROVE Fits'
  BY Ends DEF OverNow, Fits, Promises

LEMMA ServiceStays == ASSUME ServiceFits, v1' = v1 PROVE ServiceFits'
  BY DEF ServiceFits, ServiceTyped, Revisions, Control!ServiceHolds, Control!ServingIsKept, Control!Readied

\* A deployment and an environment sync.
LEMMA ShipFits ==
  ASSUME Fits, Control!Deploy \/ Control!SyncEnv PROVE Fits' /\ TrafficBounds
<1>1. ServiceFits /\ RunFits /\ Promises
  BY DEF Fits
<1>2. v3.opt.commit \in ReleasedCommits /\ v3.opt.enabled \in BOOLEAN
  BY <1>1 DEF RunFits, RunTyped, Control!Options
<1>3. PICK op \in {"deploy", "env"}, c \in ReleasedCommits, e \in BOOLEAN :
        /\ Control!At(op) /\ c = (IF op = "deploy" THEN v3.opt.commit ELSE Control!Template(v1).commit)
        /\ e = (IF op = "env" THEN v3.opt.enabled ELSE Control!Template(v1).enabled)
        /\ Control!NewRevision(c, e, TRUE, v3)
  <2>1. CASE Control!Deploy
    BY <1>1, <1>2, <2>1, RevisionsTyped DEF Control!Deploy
  <2>2. CASE Control!SyncEnv
    BY <1>1, <1>2, <2>2, RevisionsTyped DEF Control!SyncEnv
  <2> QED BY <2>1, <2>2
<1>4. v4' = v4
  BY <1>3, Makes
<1>5. CASE v1' = v1 /\ OverNow
  BY <1>1, <1>5, EndsFit, ServiceStays, StaysInTraffic
<1>6. ASSUME NEW ready \in BOOLEAN, v1' = Control!NoTraffic(Control!Created(v1, c, e, ready)),
             OverNow \/ (ready /\ v3' = Control!Passed(v3))
      PROVE  Fits' /\ TrafficBounds
  <2>1. ServiceFits' /\ TrafficBounds
    BY <1>1, <1>6, MakesQuietly
  <2>2. CASE OverNow
    BY <2>1, <2>2, EndsFit
  <2>3. CASE ready /\ v3' = Control!Passed(v3)
    <3>1. v1' = Control!NoTraffic(Control!Created(v1, c, e, TRUE))
      BY <1>6, <2>3
    <3>2. ServiceFits' /\ RunFits' /\ Promises'
      BY <1>1, <1>3, <1>4, <2>3, <3>1, ShipsTemplate
    <3> QED BY <2>1, <3>2 DEF Fits
  <2> QED BY <1>6, <2>2, <2>3
<1> QED BY <1>3, <1>5, <1>6, Makes

\* A staging.
LEMMA StageFits ==
  ASSUME Fits, Control!Stage PROVE Fits' /\ TrafficBounds
<1>1. ServiceFits /\ RunFits /\ Promises
  BY DEF Fits
<1> DEFINE c == v3.opt.commit
           e == Control!Template(v1).enabled
           r == [v3 EXCEPT !.staged = Control!Newest(v1) + 1]
<1>2. c \in ReleasedCommits /\ e \in BOOLEAN
  BY <1>1, RevisionsTyped DEF RunFits, RunTyped, Control!Options
<1>3. Like(r) /\ r.staged = Control!Newest(v1) + 1
  BY <1>1, IdleRun, LikeItself DEF Like, RunFits, Control!StepsInOrder
<1>4. Control!At("stage") /\ Control!NewRevision(c, e, TRUE, r)
  BY DEF Control!Stage
<1> HIDE DEF r
<1>5. v4' = v4
  BY <1>4, Makes
<1>6. CASE v1' = v1 /\ OverNow
  BY <1>1, <1>6, EndsFit, ServiceStays, StaysInTraffic
<1>7. ASSUME NEW ready \in BOOLEAN, v1' = Control!NoTraffic(Control!Created(v1, c, e, ready)),
             OverNow \/ (ready /\ v3' = Control!Passed(r))
      PROVE  Fits' /\ TrafficBounds
  <2>1. ServiceFits' /\ TrafficBounds
    BY <1>1, <1>2, <1>7, MakesQuietly
  <2>2. CASE OverNow
    BY <2>1, <2>2, EndsFit
  <2>3. CASE ready /\ v3' = Control!Passed(r)
    <3>1. v1' = Control!NoTraffic(Control!Created(v1, c, e, TRUE))
      BY <1>7, <2>3
    <3>2. ServiceFits' /\ RunFits' /\ Promises'
      BY <1>1, <1>2, <1>3, <1>4, <1>5, <2>3, <3>1, StagesRevision
    <3> QED BY <2>1, <3>2 DEF Fits
  <2> QED BY <1>7, <2>2, <2>3
<1> QED BY <1>4, <1>6, <1>7, Makes

\* A stop that disables the target.
LEMMA DisableFits ==
  ASSUME Fits, Control!Disable PROVE Fits' /\ TrafficBounds
<1>1. ServiceFits /\ RunFits /\ Promises
  BY DEF Fits
<1>2. Control!At("disable")
  BY DEF Control!Disable
<1>3. v3.opt.kind = "stop" /\ v3.todo # <<>> /\ ~v3.opt.deploy
  <2>1. v3.todo # <<>> /\ Control!Belongs(v3.opt, "disable")
    BY <1>1, <1>2, ComesNext
  <2>2. v3.opt.deploy => v3.opt.kind = "sync"
    BY <1>1 DEF RunFits, Control!StepsInOrder
  <2>3. v3.opt.kind = "stop"
    BY <2>1, Places DEF Control!Belongs
  <2> QED BY <2>1, <2>2, <2>3
<1>4. TrafficBounds
  BY <1>2, <1>3 DEF TrafficBounds, Control!ServingMovesByShift, Control!StagingKeepsTarget
<1>5. v4' = v4 /\ ServiceFits' /\ (OverNow \/ v3' = Control!Passed(v3))
  <2>1. CASE v3.seen.config
    <3>1. Control!NewRevision(Control!Template(v1).commit, FALSE, FALSE, v3)
      BY <2>1 DEF Control!Disable
    <3>2. ASSUME NEW ready \in BOOLEAN,
                 v1' = Control!Follows(Control!Created(v1, Control!Template(v1).commit, FALSE, ready))
          PROVE  ServiceFits'
      BY <1>1, <3>2, RevisionsTyped, Creates
    <3>3. ASSUME v1' = v1 PROVE ServiceFits'
      BY <1>1, <3>3, ServiceStays
    <3> QED BY <3>1, <3>2, <3>3, Makes
  <2>2. CASE ~v3.seen.config
    <3>1. v1' = v1 /\ v4' = v4 /\ v3' = Control!Passed(v3)
      BY <2>2 DEF Control!Disable, Control!Goes, Control!Rest
    <3> QED BY <1>1, <3>1, ServiceStays
  <2> QED BY <2>1, <2>2
<1>6. CASE OverNow
  BY <1>4, <1>5, <1>6, EndsFit
<1>7. CASE v3' = Control!Passed(v3)
  <2>1. RunFits' /\ v3'.opt = v3.opt
    BY <1>1, <1>3, <1>5, <1>7, LikeItself, Continues DEF Like
  <2>2. Promises'
    BY <1>3, <2>1 DEF Promises, Control!ShippedAsAsked, Control!StagedAsPlanned
  <2> QED BY <1>4, <1>5, <2>1, <2>2 DEF Fits
<1> QED BY <1>5, <1>6, <1>7

\* A shift.
LEMMA ShiftFits ==
  ASSUME Fits, Control!Shift PROVE Fits' /\ TrafficBounds
<1>1. ServiceFits /\ RunFits /\ Promises
  BY DEF Fits
<1> DEFINE target == Control!RevisionFor(v3.opt.commit)
<1>2. Control!At("shift") /\ v4' = v4
  BY DEF Control!Shift, Control!Stops, Control!Read, Control!Check, Control!Goes, Control!Writes, Control!Rest
<1>3. v3.opt.shift
  BY <1>1, <1>2, ComesNext DEF Control!Belongs
<1>4. \/ v1' = v1 /\ OverNow
      \/ target # 0 /\ v1' = v1 /\ v1.on = target /\ v3' = Control!Passed(v3)
      \/ target # 0 /\ v1' = Control!To(target) /\ (OverNow \/ v3' = Control!Passed(v3))
  BY DEF Control!Shift, Control!Stops, Control!Read, Control!Check, Control!Goes, Control!Writes, Control!Rest, OverNow
<1> HIDE DEF target
<1>5. CASE v1' = v1 /\ OverNow
  BY <1>1, <1>5, EndsFit, ServiceStays, StaysInTraffic
<1>6. CASE target # 0 /\ v1' = v1 /\ v1.on = target /\ v3' = Control!Passed(v3)
  <2>1. RunFits' /\ Promises'
    BY <1>1, <1>2, <1>6, ShipsTraffic DEF target
  <2> QED BY <1>1, <1>6, <2>1, ServiceStays, StaysInTraffic DEF Fits
<1>7. CASE target # 0 /\ v1' = Control!To(target) /\ (OverNow \/ v3' = Control!Passed(v3))
  <2>1. target \in v1.kept /\ v1.revs[target].ready /\ v1.revs[target].commit = v3.opt.commit
    BY <1>1, <1>7, RevisionFits DEF target
  <2>2. ServiceFits' /\ v1'.revs = v1.revs /\ v1'.kept = v1.kept /\ v1'.on = target
    BY <1>1, <1>7, <2>1, Moves
  <2>3. Control!ServingMovesByShift
    BY <1>2, <1>3, <2>1, <2>2 DEF Control!ServingMovesByShift, Control!Serving
  <2>4. v3.opt.kind # "staging"
    BY <1>1, <1>2, ComesNext, Places DEF Control!Belongs
  <2>5. TrafficBounds
    BY <2>3, <2>4 DEF TrafficBounds, Control!StagingKeepsTarget
  <2>6. CASE OverNow
    BY <2>2, <2>5, <2>6, EndsFit
  <2>7. CASE v3' = Control!Passed(v3)
    <3>1. RunFits' /\ Promises'
      BY <1>1, <1>2, <1>7, <2>2, <2>7, ShipsTraffic DEF target
    <3> QED BY <2>2, <2>5, <3>1 DEF Fits
  <2> QED BY <1>7, <2>6, <2>7
<1> QED BY <1>4, <1>5, <1>6, <1>7

\* A pruning.
LEMMA PruneFits ==
  ASSUME Fits, Control!Prune PROVE Fits' /\ TrafficBounds
<1>1. ServiceFits /\ RunFits /\ Promises /\ Like(v3)
  BY LikeItself DEF Fits
<1>2. Control!At("prune") /\ v4' = v4
  BY DEF Control!Prune, Control!Stops, Control!Rest
<1>3. CASE v1' = v1 /\ OverNow
  BY <1>1, <1>3, EndsFit, ServiceStays, StaysInTraffic
<1>4. ASSUME NEW gone \in SUBSET (v1.kept \ Control!Keeps), v1' = [v1 EXCEPT !.kept = @ \ gone], v3' = Control!Passed(v3)
      PROVE  Fits' /\ TrafficBounds
  <2>1. /\ ServiceFits' /\ v1'.revs = v1.revs /\ v1'.on = v1.on
        /\ Control!Newest(v1) \in v1.kept /\ Control!Template(v1).ready => Control!Newest(v1) \in v1'.kept
    BY <1>1, <1>4, Prunes
  <2>2. RunFits' /\ Promises'
    BY <1>1, <1>2, <1>4, <2>1, KeepsPromises
  <2>3. Control!Serving(v1') = Control!Serving(v1)
    BY <2>1 DEF Control!Serving
  <2>4. TrafficBounds
    BY <2>1, <2>3 DEF TrafficBounds, Control!ServingMovesByShift, Control!StagingKeepsTarget
  <2> QED BY <2>1, <2>2, <2>4 DEF Fits
<1> QED BY <1>3, <1>4 DEF Control!Prune, Control!Stops, OverNow

\* The traffic of a staging.
LEMMA MoveFits ==
  ASSUME Fits, Control!MoveTraffic PROVE Fits' /\ TrafficBounds
<1>1. ServiceFits /\ RunFits /\ Promises /\ Like(v3)
  BY LikeItself DEF Fits
<1>2. Control!At("move") /\ v4' = v4
  BY DEF Control!MoveTraffic, Control!Rest
<1>3. /\ v3.staged = Control!Newest(v1) /\ v3.staged \in v1.kept /\ v3.opt.mode = "snapshot"
      /\ v3.opt.kind = "staging" /\ Control!Template(v1).enabled = Control!Serving(v1).enabled
  BY <1>1, <1>2, MovesToStaged
<1>4. CASE v1' = v1 /\ OverNow
  BY <1>1, <1>4, EndsFit, ServiceStays, StaysInTraffic
<1>5. ASSUME v1' = Control!To(v3.staged), OverNow \/ v3' = Control!Passed(v3)
      PROVE  Fits' /\ TrafficBounds
  <2>1. ServiceFits' /\ v1'.revs = v1.revs /\ v1'.kept = v1.kept /\ v1'.on = Control!Newest(v1)
    BY <1>1, <1>3, <1>5, Moves
  <2>2. /\ Control!Serving(v1') = Control!Template(v1) /\ Control!Template(v1') = Control!Template(v1)
        /\ Control!Newest(v1') = Control!Newest(v1)
    BY <2>1 DEF Control!Serving, Control!Template, Control!Newest
  <2>3. TrafficBounds
    BY <1>2, <1>3, <2>2 DEF TrafficBounds, Control!ServingMovesByShift, Control!StagingKeepsTarget
  <2>4. CASE OverNow
    BY <2>1, <2>3, <2>4, EndsFit
  <2>5. CASE v3' = Control!Passed(v3)
    <3>1. v3.todo # <<>> /\ v3.todo[1][1] = "move" /\ ~v3.opt.deploy
      BY <1>1, <1>2, <1>3, ComesNext DEF RunFits, Control!StepsInOrder
    <3>2. /\ RunFits' /\ v3'.opt = v3.opt /\ (v3'.end = "running" => v3'.staged = v3.staged)
          /\ \A q : Control!Ahead(q) => q = "move" \/ Control!Ahead(q)'
      BY <1>1, <1>2, <2>5, <3>1, Continues DEF Like
    <3>3. Control!ShippedAsAsked'
      BY <3>1, <3>2 DEF Control!ShippedAsAsked
    <3>4. v3.end = "running"
      BY <1>1, <1>2, ComesNext
    <3>5. Control!Newest(v1) \in v1.kept /\ (Control!Ahead("stage") \/ Control!Template(v1).ready)
      BY <1>1, <1>3, <3>4 DEF Promises, Control!StagedAsPlanned
    <3>6. Control!StagedAsPlanned'
      BY <1>3, <2>1, <2>2, <3>2, <3>5 DEF Control!StagedAsPlanned
    <3> QED BY <2>1, <2>3, <3>2, <3>3, <3>6 DEF Fits, Promises
  <2> QED BY <1>5, <2>4, <2>5
<1> QED BY <1>4, <1>5 DEF Control!MoveTraffic, OverNow

\* The jobs, the window and the results keep to what they are.
LEMMA OthersStay == ASSUME OthersFit, RunFits, Control!Next PROVE OthersFit'
<1> DEFINE States == {"missing", "PAUSED", "ENABLED"}
           Typed(j) == j \in [Control!Jobs -> States]
<1>1. Typed(v2) /\ \A j : \A s \in States : Typed(Control!SetJob(j, s))
  BY DEF OthersFit, Control!SetJob
<1>2. v4 \in Nat /\ ControlRuns \in Nat
  BY ControlAssumption DEF OthersFit
<1>3. CASE Control!Dispatch
  <2>1. UNCHANGED <<v2, v5, v6, v7, v8, v9>> /\ v4' = v4 + 1 /\ v4 < ControlRuns
    BY <1>3 DEF Control!Dispatch
  <2>2. v4' \in 0..ControlRuns /\ \A i \in 1..v4 : i \in 1..v4'
    BY <1>2, <2>1
  <2> QED BY <2>1, <2>2 DEF OthersFit
<1>4. CASE Control!Publish
  <2>1. UNCHANGED <<v2, v4, v5, v6, v7, v9>> /\ \E i \in v7 : v8' = v8 \cup {i}
    BY <1>4 DEF Control!Publish
  <2> QED BY <2>1 DEF OthersFit
<1>5. CASE Control!RecorderResumes
  <2>1. UNCHANGED <<v4, v7, v8, v9>> /\ v2' = Control!SetJob("probe", "ENABLED") /\ v5' = TRUE /\ v6' = v6 + 1 /\ v6 < ControlWindows
    BY <1>5 DEF Control!RecorderResumes
  <2>2. v6' \in 0..ControlWindows
    BY <2>1, ControlAssumption DEF OthersFit
  <2>3. Typed(v2')
    BY <1>1, <2>1
  <2> QED BY <2>1, <2>2, <2>3 DEF OthersFit
<1>6. CASE Control!RecorderPauses
  <2>1. UNCHANGED <<v4, v6, v7, v8, v9>> /\ v2' = Control!SetJob("probe", "PAUSED") /\ v5' = FALSE
    BY <1>6 DEF Control!RecorderPauses
  <2>2. Typed(v2')
    BY <1>1, <2>1
  <2> QED BY <2>1, <2>2 DEF OthersFit
<1>7. CASE Control!Final
  <2>1. /\ UNCHANGED <<v2, v4, v5, v6, v8>> /\ Control!At("final")
        /\ \/ /\ Control!FinalHolds /\ v7' \in {v7, v7 \cup {v4}}
              /\ v9' = IF ~Control!Serving(v1).enabled /\ Control!Halted THEN v9 \cup {v4} ELSE v9
           \/ UNCHANGED <<v7, v9>>
    BY <1>7 DEF Control!Final
  <2>2. Control!FinalHolds => ~Control!Serving(v1).enabled /\ Control!Halted
    BY DEF Control!FinalHolds, Control!Halted
  <2>3. v4 \in 1..v4
    BY <1>2, <2>1, ComesNext
  <2>4. v7 \subseteq 1..v4 /\ v9 \subseteq 1..v4 /\ v7 \subseteq v9 /\ v8 \subseteq v7
    BY DEF OthersFit
  <2>5. v7' \subseteq 1..v4 /\ v9' \subseteq 1..v4 /\ v7' \subseteq v9' /\ v8 \subseteq v7'
    BY <2>1, <2>2, <2>3, <2>4
  <2> QED BY <2>1, <2>5 DEF OthersFit
<1>8. CASE Control!Sync \/ Control!Staging \/ Control!See \/ Control!SeeAgain \/ Control!Disable \/ Control!Confirm \/ Control!Halt
  <2>1. Control!Rest /\ (v2' = v2 \/ \E j : v2' \in {Control!SetJob(j, s) : s \in States})
    <3>1. CASE Control!Admit \/ Control!WaitForCommit \/ Control!ActionRead \/ Control!Plan \/ Control!StageRead
      BY <3>1 DEF Control!Admit, Control!WaitForCommit, Control!ActionRead, Control!Plan, Control!StageRead,
                  Control!Read, Control!Check, Control!Goes, Control!Stops
    <3>2. CASE Control!See \/ Control!SeeAgain \/ Control!Confirm
      BY <3>2 DEF Control!See, Control!SeeAgain, Control!Confirm, Control!Read, Control!Check, Control!Goes, Control!Stops
    <3>3. CASE Control!Deploy \/ Control!SyncEnv \/ Control!Stage \/ Control!Disable
      BY <3>3 DEF Control!Deploy, Control!SyncEnv, Control!Stage, Control!Disable, Control!NewRevision,
                  Control!Writes, Control!Goes, Control!Stops
    <3>4. CASE Control!Shift \/ Control!Prune \/ Control!MoveTraffic
      BY <3>4 DEF Control!Shift, Control!Prune, Control!MoveTraffic, Control!Read, Control!Check, Control!Writes,
                  Control!Goes, Control!Stops
    <3>5. CASE Control!WriteJob
      <4>1. Control!Rest /\ (v2' = v2 \/ v2' = Control!SetJob(Control!JobAt, "ENABLED"))
        BY <3>5 DEF Control!WriteJob, Control!Writes, Control!Stops
      <4> QED BY <4>1
    <3>6. CASE Control!Quiet
      <4>1. Control!Rest /\ (v2' = v2 \/ v2' = Control!SetJob(Control!JobAt, "PAUSED"))
        BY <3>6 DEF Control!Quiet, Control!Writes, Control!Goes, Control!Stops
      <4> QED BY <4>1
    <3>7. CASE Control!ApplyAction
      <4>1. Control!Rest /\ (v2' = v2 \/ v2' = Control!SetJob(Control!JobAt, Control!Wanted))
        BY <3>7 DEF Control!ApplyAction, Control!Writes, Control!Read, Control!Check, Control!Goes, Control!Stops
      <4>2. Control!Wanted \in States
        BY DEF Control!Wanted
      <4> QED BY <4>1, <4>2
    <3>8. CASE Control!DeleteLegacy
      <4>1. Control!Rest /\ (v2' = v2 \/ v2' = Control!SetJob("legacy", "missing"))
        BY <3>8 DEF Control!DeleteLegacy, Control!Writes, Control!Read, Control!Check, Control!Goes, Control!Stops
      <4> QED BY <4>1
    <3>9. CASE Control!Halt
      <4>1. Control!Rest /\ (v2' = v2 \/ v2' = Control!SetJob(Control!JobAt, "PAUSED"))
        BY <3>9 DEF Control!Halt, Control!Writes, Control!Goes, Control!Stops
      <4> QED BY <4>1
    <3> QED BY <1>8, <3>1, <3>2, <3>3, <3>4, <3>5, <3>6, <3>7, <3>8, <3>9 DEF Control!Sync, Control!Staging
  <2>2. Typed(v2')
    BY <1>1, <2>1
  <2> QED BY <2>1, <2>2 DEF OthersFit, Control!Rest
<1> QED BY <1>3, <1>4, <1>5, <1>6, <1>7, <1>8 DEF Control!Next, Control!Stop

\* Every step keeps the invariant and moves the traffic only within its bounds.
LEMMA ControlStays ==
  ASSUME Fits, OthersFit, Control!Next PROVE Fits' /\ OthersFit' /\ TrafficBounds
<1>1. ServiceFits /\ RunFits /\ Promises
  BY DEF Fits
<1>2. OthersFit'
  BY <1>1, OthersStay
<1>3. CASE Control!Dispatch
  <2>1. v1' = v1 /\ v4 \in Nat
    BY <1>3 DEF Control!Dispatch, OthersFit
  <2> QED BY <1>1, <1>2, <1>3, <2>1, Dispatches, ServiceStays, StaysInTraffic DEF Fits, Promises
<1>4. CASE Control!Publish \/ Control!RecorderResumes \/ Control!RecorderPauses
  <2>1. v1' = v1 /\ v3' = v3 /\ v4' = v4
    BY <1>4 DEF Control!Publish, Control!RecorderResumes, Control!RecorderPauses
  <2>2. RunFits'
    BY <1>1, <2>1 DEF RunFits, RunTyped, Control!StepsInOrder
  <2>3. Promises'
    BY <1>1, <2>1 DEF Promises, Control!ShippedAsAsked, Control!StagedAsPlanned, Control!Ahead, Control!Template,
                      Control!Newest, Control!Serving
  <2> QED BY <1>1, <1>2, <2>1, <2>2, <2>3, ServiceStays, StaysInTraffic DEF Fits
<1>5. CASE \/ Control!Admit \/ Control!WaitForCommit \/ Control!WriteJob \/ Control!Quiet \/ Control!ApplyAction
           \/ Control!ActionRead \/ Control!DeleteLegacy \/ Control!Plan \/ Control!StageRead \/ Control!See
           \/ Control!SeeAgain \/ Control!Confirm \/ Control!Halt \/ Control!Final
  BY <1>2, <1>5, WorksFit, StaysInTraffic
<1>6. CASE \/ Control!Deploy \/ Control!SyncEnv \/ Control!Stage \/ Control!Disable \/ Control!Shift \/ Control!Prune
           \/ Control!MoveTraffic
  BY <1>2, <1>6, ShipFits, StageFits, DisableFits, ShiftFits, PruneFits, MoveFits
<1> QED BY <1>3, <1>4, <1>5, <1>6 DEF Control!Next, Control!Sync, Control!Staging, Control!Stop

\* Under preserve the jobs a sync did not create stay, but for the recorder.
LEMMA JobsStay ==
  ASSUME OthersFit, RunFits, Control!Next PROVE Control!PreserveLeavesJobs
<1> SUFFICES ASSUME Control!At("write") \/ Control!At("quiet"), NEW j \in Control!Jobs, v2'[j] # v2[j], v5' = v5
             PROVE  v2[j] = "missing" \/ j \in v3.created
  BY DEF Control!PreserveLeavesJobs
<1>1. Head(v3.todo)[1] \in {"write", "quiet"} /\ v3.end = "running"
  BY ComesNext DEF Control!At
<1>2. \A k, s : Control!SetJob(k, s)[j] = IF j = k THEN s ELSE v2[j]
  BY DEF OthersFit, Control!SetJob
<1>3. CASE Control!WriteJob
  <2>1. v2[Control!JobAt] = "missing" /\ v2' = Control!SetJob(Control!JobAt, "ENABLED")
    BY <1>3 DEF Control!WriteJob, Control!Writes, Control!Stops
  <2> QED BY <1>2, <2>1
<1>4. CASE Control!Quiet
  <2>1. Control!JobAt \in v3.created /\ v2' = Control!SetJob(Control!JobAt, "PAUSED")
    BY <1>4 DEF Control!Quiet, Control!Quiets, Control!Writes, Control!Goes, Control!Stops
  <2> QED BY <1>2, <2>1
<1>5. CASE Control!RecorderResumes \/ Control!RecorderPauses
  BY <1>5 DEF Control!RecorderResumes, Control!RecorderPauses
<1>6. CASE Control!Dispatch \/ Control!Publish
  BY <1>6 DEF Control!Dispatch, Control!Publish
<1>7. ~ \/ Control!Admit \/ Control!Deploy \/ Control!WaitForCommit \/ Control!SyncEnv \/ Control!Shift
        \/ Control!ApplyAction \/ Control!ActionRead \/ Control!DeleteLegacy \/ Control!Prune
  BY <1>1 DEF Control!Admit, Control!Deploy, Control!WaitForCommit, Control!SyncEnv, Control!Shift,
              Control!ApplyAction, Control!ActionRead, Control!DeleteLegacy, Control!Prune, Control!At
<1>8. ~(Control!Staging \/ Control!Stop)
  BY <1>1 DEF Control!Staging, Control!Stop, Control!Plan, Control!Stage, Control!StageRead, Control!MoveTraffic,
              Control!See, Control!SeeAgain, Control!Disable, Control!Confirm, Control!Halt, Control!Final, Control!At
<1> QED BY <1>3, <1>4, <1>5, <1>6, <1>7, <1>8 DEF Control!Next, Control!Sync

\* At first one revision is there, and serves.
LEMMA ControlInit == ASSUME Control!Init PROVE Fits /\ OthersFit
<1>1. PICK c \in ReleasedCommits \ {AdmittedCommit}, e \in BOOLEAN, l \in BOOLEAN :
        v1 = [revs |-> <<[commit |-> c, enabled |-> e, ready |-> TRUE]>>, kept |-> {1}, on |-> 1, latest |-> l]
  BY DEF Control!Init
<1>2. /\ v3 = Control!Idle /\ v4 = 0 /\ v5 = FALSE /\ v6 = 0 /\ v7 = {} /\ v8 = {} /\ v9 = {}
  BY DEF Control!Init
<1>3. v2 \in [Control!Jobs -> {"missing", "PAUSED", "ENABLED"}]
  <2>1. Control!NoJobs \in [Control!Jobs -> {"missing", "PAUSED", "ENABLED"}]
    BY DEF Control!NoJobs
  <2>2. \/ v2 = [Control!NoJobs EXCEPT !["main"] = "ENABLED", !["legacy"] = "ENABLED"]
        \/ \E s \in {"PAUSED", "ENABLED"} : v2 = [j \in Control!Jobs |-> IF j = "legacy" THEN "missing" ELSE s]
    BY DEF Control!Init
  <2> QED BY <2>1, <2>2
<1>4. OthersFit
  <2>1. v4 \in 0..ControlRuns /\ v6 \in 0..ControlWindows
    BY <1>2, ControlAssumption
  <2>2. v5 \in BOOLEAN /\ v7 \subseteq 1..v4 /\ v9 \subseteq 1..v4 /\ v8 \subseteq v7 /\ v7 \subseteq v9
    BY <1>2
  <2> QED BY <1>3, <2>1, <2>2 DEF OthersFit
<1>5. /\ v1.revs = <<[commit |-> c, enabled |-> e, ready |-> TRUE]>> /\ v1.kept = {1} /\ v1.on = 1 /\ v1.latest = l
      /\ DOMAIN v1 = {"revs", "kept", "on", "latest"}
  BY <1>1
<1>6. v1.revs \in Seq(Control!Revision) /\ DOMAIN v1.revs = {1} /\ v1.revs[1].ready
  <2>1. [commit |-> c, enabled |-> e, ready |-> TRUE] \in Control!Revision
    BY DEF Control!Revision
  <2> QED BY <1>5, <2>1
<1>7. Control!Readied(v1) = {1}
  BY <1>6 DEF Control!Readied
<1>8. Control!Top({1}) = 1
  BY DEF Control!Top
<1>9. ServiceFits
  BY <1>5, <1>6, <1>7, <1>8 DEF ServiceFits, ServiceTyped, Revisions, Control!ServiceHolds, Control!ServingIsKept,
                                Control!Readied
<1>10. RunFits
  <2>1. RunTyped
    BY <1>2, IdleRun DEF RunTyped, Control!Ended, SeenTyped
  <2>2. Control!StepsInOrder
    BY <1>2, IdleRun DEF Control!StepsInOrder, Control!InPlace
  <2> QED BY <2>1, <2>2 DEF RunFits
<1>11. Promises
  BY <1>2, IdleRun DEF Promises, Control!ShippedAsAsked, Control!StagedAsPlanned
<1> QED BY <1>4, <1>9, <1>10, <1>11 DEF Fits

\* A step of the operations keeps what the control needs.
LEMMA ControlFits ==
  ASSUME Is("control") => Control!ControlInv, [OperationsNext]_operations, Is("control")'
  PROVE  Control!ControlInv'
<1>1. Fits /\ OthersFit /\ [Control!Next]_<<v1, v2, v3, v4, v5, v6, v7, v8, v9>>
  BY ControlSteps, ControlParts DEF Fits
<1>2. ASSUME UNCHANGED <<v1, v2, v3, v4, v5, v6, v7, v8, v9>> PROVE Fits' /\ OthersFit'
  <2>1. ServiceFits' /\ OthersFit'
    BY <1>1, <1>2, ServiceStays DEF Fits, OthersFit
  <2>2. RunFits'
    BY <1>1, <1>2 DEF Fits, RunFits, RunTyped, Control!StepsInOrder
  <2>3. Promises'
    BY <1>1, <1>2 DEF Fits, Promises, Control!ShippedAsAsked, Control!StagedAsPlanned, Control!Ahead,
                      Control!Template, Control!Newest, Control!Serving
  <2> QED BY <2>1, <2>2, <2>3 DEF Fits
<1>3. Fits' /\ OthersFit'
  BY <1>1, <1>2, ControlStays
<1> QED BY <1>3, ControlParts DEF Fits

\* The invariant of the deployments holds in every behaviour.
LEMMA ControlInvariant == OperationsSpec => [](Is("control") => Control!ControlInv)
<1> DEFINE Inv == Is("control") => Control!ControlInv
<1>1. OperationsInit => Inv
  BY ControlSteps, ControlInit, ControlParts DEF Fits
<1>2. Inv /\ [OperationsNext]_operations => Inv'
  BY ControlFits
<1> QED BY <1>1, <1>2, PTL DEF OperationsSpec

\* What a run says at its end is so, whatever failed before it
\* (reconcile_cloud_runtime, cloud_run_tags, publish_hk_stop_result), for any
\* commits and any number of runs.
THEOREM DeploymentsEndRightHolds == OperationsSpec => []DeploymentsEndRight
<1> DEFINE Inv == Is("control") => Control!ControlInv
<1>1. OperationsSpec => []Inv
  BY ControlInvariant
<1>2. Inv => DeploymentsEndRight
  <2> SUFFICES ASSUME Is("control"), Fits, OthersFit
               PROVE  Control!ServesWhatItShipped /\ Control!ServingIsKept /\ Control!PostedWasStopped
    BY ControlParts DEF DeploymentsEndRight, Fits
  <2>1. Control!PostedWasStopped
    BY DEF OthersFit, Control!PostedWasStopped
  <2>2. Control!ServingIsKept
    BY DEF Fits, ServiceFits, Control!ServiceHolds
  <2>3. v3.end = "success" => ~Control!Ahead("shift")
    BY DEF Fits, RunFits, RunTyped, Control!Ahead
  <2>4. Control!ServesWhatItShipped
    BY <2>3 DEF Fits, Promises, Control!ShippedAsAsked, Control!ServesWhatItShipped
  <2> QED BY <2>1, <2>2, <2>4
<1> QED BY <1>1, <1>2, PTL DEF OperationsSpec

\* No step of a deployment goes beyond its own (--no-traffic, preserve,
\* stage_hk_image).
THEOREM DeploymentsStayInBoundsHolds == OperationsSpec => DeploymentsStayInBounds
<1> DEFINE Inv == Is("control") => Control!ControlInv
<1>1. OperationsSpec => []Inv
  BY ControlInvariant
<1>2. Inv /\ [OperationsNext]_operations =>
        [Is("control") => /\ Control!ServingMovesByShift /\ Control!PreserveLeavesJobs
                          /\ Control!StagingKeepsTarget]_componentVars
  <2> SUFFICES ASSUME Inv, [OperationsNext]_operations, Is("control"), ~UNCHANGED componentVars
               PROVE  /\ Control!ServingMovesByShift /\ Control!PreserveLeavesJobs
                      /\ Control!StagingKeepsTarget
    OBVIOUS
  <2>1. Control!Next
    BY DEF OperationsNext, operations, componentVars, Is
  <2>2. Fits /\ OthersFit /\ RunFits
    BY ControlParts DEF Fits
  <2> QED BY <2>1, <2>2, ControlStays, JobsStay DEF TrafficBounds
<1> QED BY <1>1, <1>2, PTL DEF OperationsSpec, DeploymentsStayInBounds

-----------------------------------------------------------------------------
(* The types.  The invariants above have the types their proofs need; here *)
(* each component gets the rest: numbers stay within the bounds of the     *)
(* model because what they count is limited by the state or by a constant, *)
(* and what a step copies was typed where it was read.                     *)

\* A poll tells at most one status, and running out tells one more.
ToldOnceAPoll == Len(v2.told) <= v2.polls + (IF v2.pc = "ended" THEN 1 ELSE 0)

\* The order monitor keeps its type.
LEMMA MonitorTyped == OperationsSpec => [](Is("order") => Order!TypeOK)
<1> DEFINE Inv == Is("order") => Order!MonitorInv
           Held == Is("order") => ToldOnceAPoll
<1>1. OperationsSpec => []Inv
  BY MonitorInvariant
<1>2. OperationsInit => Held
  BY OrderSteps DEF Order!Init, Order!Idle, ToldOnceAPoll
<1>3. Inv /\ Held /\ [OperationsNext]_operations => Held'
  <2> SUFFICES ASSUME Inv, Held, [OperationsNext]_operations, Is("order")' PROVE ToldOnceAPoll'
    OBVIOUS
  <2>1. Order!MonitorInv /\ ToldOnceAPoll /\ [Order!Next]_<<v1, v2>>
    BY OrderSteps
  <2>2. /\ v2 \in Order!Monitor /\ v2.told \in Seq(Order!Status \cup {"timeout"}) /\ v2.polls \in Nat
        /\ v1 = "none" => v2 = Order!Idle
    BY <2>1, OperationsAssumption DEF Order!MonitorInv, Order!Monitor
  <2>3. \A x \in Order!Status \cup {"timeout"} : Len(Append(v2.told, x)) = Len(v2.told) + 1
    BY <2>2
  <2>4. CASE UNCHANGED <<v1, v2>>
    BY <2>1, <2>4 DEF ToldOnceAPoll
  <2>5. CASE Order!Accept
    BY <2>1, <2>2, <2>5 DEF Order!Accept, Order!Idle, ToldOnceAPoll
  <2>6. CASE Order!Progress
    BY <2>1, <2>6 DEF Order!Progress, ToldOnceAPoll
  <2>7. CASE Order!NoAnswer \/ Order!Raise \/ Order!PollFails
    <3>1. v2'.told = v2.told /\ v2'.polls \in {v2.polls, v2.polls + 1} /\ v2.pc = "polling"
      BY <2>2, <2>7 DEF Order!NoAnswer, Order!Raise, Order!PollFails, Order!Polling, Order!Monitor
    <3>2. Len(v2.told) \in Nat
      BY <2>2
    <3> QED BY <2>1, <2>2, <3>1, <3>2 DEF ToldOnceAPoll
  <2>8. CASE Order!Poll
    <3>1. /\ v2'.polls = v2.polls + 1 /\ v2.pc = "polling"
          /\ v2'.told = v2.told \/ \E x \in Order!Status : v2'.told = Append(v2.told, x)
      BY <2>1, <2>2, <2>8 DEF Order!Poll, Order!Polling, Order!Monitor, Order!MonitorInv
    <3>2. Len(v2.told) \in Nat /\ Len(v2'.told) <= Len(v2.told) + 1 /\ Len(v2'.told) \in Nat
      BY <2>2, <2>3, <3>1
    <3> QED BY <2>1, <2>2, <3>1, <3>2 DEF ToldOnceAPoll
  <2>9. CASE Order!RunOut
    <3>1. /\ v2'.polls = v2.polls /\ v2'.pc = "ended" /\ v2.pc = "polling"
          /\ v2'.told = v2.told \/ v2'.told = Append(v2.told, "timeout")
      BY <2>2, <2>9 DEF Order!RunOut, Order!Monitor
    <3>2. Len(v2.told) \in Nat /\ Len(v2'.told) <= Len(v2.told) + 1 /\ Len(v2'.told) \in Nat
      BY <2>2, <2>3, <3>1
    <3> QED BY <2>1, <2>2, <3>1, <3>2 DEF ToldOnceAPoll
  <2> QED BY <2>1, <2>4, <2>5, <2>6, <2>7, <2>8, <2>9 DEF Order!Next
<1>4. Inv /\ Held => (Is("order") => Order!TypeOK)
  <2> SUFFICES ASSUME Order!MonitorInv, ToldOnceAPoll PROVE Order!TypeOK
    OBVIOUS
  <2>1. v1 \in Order!Status /\ v2 \in Order!Monitor /\ MaxPolls \in Nat
    BY OperationsAssumption DEF Order!MonitorInv
  <2>2. v2.told \in Seq(Order!Status \cup {"timeout"}) /\ v2.polls \in 0..MaxPolls
    BY <2>1 DEF Order!Monitor
  <2>3. Len(v2.told) \in Nat /\ \A i \in DOMAIN v2.told : v2.told[i] \in Order!Status \cup {"timeout"}
    BY <2>2
  <2>4. Len(v2.told) <= MaxPolls + 1
    BY <2>1, <2>2, <2>3 DEF ToldOnceAPoll
  <2> QED BY <2>1, <2>2, <2>3, <2>4 DEF Order!TypeOK, Order!Monitor
<1> QED BY <1>1, <1>2, <1>3, <1>4, PTL DEF OperationsSpec

\* The service serves one of its revisions, a run shifts to one that it
\* created, and what starts is within the bound.
RevisionsExist ==
  /\ Len(v2) <= MaxRevisions /\ v3 \in DOMAIN v2 /\ v4 \subseteq Candidate!Jobs
  /\ v5 \subseteq Candidate!Receipt /\ v7 \subseteq Apps
  /\ v6.revision \in 0..Len(v2)
  /\ v6.pc \in {"shift", "sync"} => v6.revision \in DOMAIN v2

\* Every step of the application keeps them so.
LEMMA CandidateHeld ==
  ASSUME Candidate!CandidateInv, RevisionsExist, Candidate!Next
  PROVE  RevisionsExist'
<1> DEFINE Runs == [pc : {"idle", "build", "pause", "shift", "verify", "post", "failed", "sync"},
                    app : Apps \cup {Candidate!NoApp}, revision : Nat]
<1>0. /\ Candidate!CandidateTyped /\ v2 \in Seq(Candidate!Template) /\ Len(v2) \in Nat /\ Len(v2) >= 1
      /\ DOMAIN v2 = 1..Len(v2) /\ v6 \in Runs /\ v1 \in [Apps -> Candidate!Record]
      /\ v6.pc \in {"build", "pause", "shift", "verify", "post", "failed"} => v6.app \in Apps
      /\ MaxRevisions \in Nat
  BY OperationsAssumption DEF Candidate!CandidateInv, Candidate!CandidateTyped, Candidate!RunHasApp
<1>1. ASSUME NEW template \in Candidate!Template, Candidate!Create(template)
      PROVE  Len(v2') = Len(v2) + 1 /\ Len(v2') <= MaxRevisions /\ DOMAIN v2' = 1..Len(v2')
  <2>1. v2' \in Seq(Candidate!Template) /\ Len(v2') = Len(v2) + 1
    BY <1>0, <1>1, CandidateCreates
  <2> QED BY <1>0, <1>1, <2>1 DEF Candidate!Create
<1>2. \A p : /\ [v6 EXCEPT !.pc = p].revision = v6.revision /\ [v6 EXCEPT !.pc = p].pc = p
  BY <1>0
<1>3. Candidate!Idle.pc = "idle" /\ Candidate!Idle.revision = 0
  BY DEF Candidate!Idle
<1>4. ASSUME NEW a \in Apps, Candidate!Claim(a) PROVE RevisionsExist'
  <2>1. v6'.revision = 0 /\ v6'.pc \in {"idle", "build"} /\ UNCHANGED <<v2, v3, v4, v5, v7>>
    <3>1. /\ Candidate!Idle.revision = 0 /\ [Candidate!Idle EXCEPT !.pc = "build", !.app = a].revision = 0
          /\ Candidate!Idle.pc = "idle" /\ [Candidate!Idle EXCEPT !.pc = "build", !.app = a].pc = "build"
      BY DEF Candidate!Idle
    <3> QED BY <1>4, <3>1 DEF Candidate!Claim
  <2> QED BY <1>0, <2>1 DEF RevisionsExist
<1>5. ASSUME NEW j \in Candidate!Jobs, Candidate!PauseJob(j) PROVE RevisionsExist'
  BY <1>5 DEF Candidate!PauseJob, RevisionsExist
<1>6. ASSUME NEW r \in 1..MaxRevisions, Candidate!Start(r) PROVE RevisionsExist'
  <2>0. r \in DOMAIN v2 /\ v2[r].bound # Candidate!NoApp /\ v2[r] \in Candidate!Template
    BY <1>0, <1>6 DEF Candidate!Start, Candidate!Loads
  <2>1. v2[r].bound \in Apps
    BY <2>0 DEF Candidate!Template
  <2>2. [app |-> v2[r].bound, revision |-> r] \in Candidate!Receipt
    BY <2>1 DEF Candidate!Receipt
  <2> QED BY <1>6, <2>2 DEF Candidate!Start, RevisionsExist
<1>7. CASE Candidate!Build \/ Candidate!Verify
  <2>1. /\ UNCHANGED <<v2, v3, v4, v5, v7>> /\ v6'.revision = v6.revision /\ v6'.pc \in {"pause", "post"}
    BY <1>2, <1>7 DEF Candidate!Build, Candidate!Verify
  <2> QED BY <1>0, <2>1 DEF RevisionsExist
<1>8. CASE Candidate!Update
  <2> DEFINE template == [bound |-> v6.app, enabled |-> FALSE]
  <2>1. template \in Candidate!Template /\ Candidate!Create(template)
    BY <1>0, <1>8 DEF Candidate!Update, Candidate!Template
  <2>2. Len(v2') = Len(v2) + 1 /\ Len(v2') <= MaxRevisions /\ DOMAIN v2' = 1..Len(v2')
    BY <1>1, <2>1
  <2>3. v6'.revision = Len(v2') /\ v6'.pc = "shift" /\ UNCHANGED <<v3, v4, v5, v7>>
    BY <1>0, <1>8 DEF Candidate!Update
  <2> QED BY <1>0, <2>2, <2>3 DEF RevisionsExist
<1>9. CASE Candidate!Shift
  <2>1. v3' = v6.revision /\ v6.pc = "shift" /\ v6'.revision = v6.revision /\ v6'.pc = "verify"
        /\ UNCHANGED <<v2, v4, v5, v7>>
    BY <1>2, <1>9 DEF Candidate!Shift
  <2> QED BY <1>0, <2>1 DEF RevisionsExist
<1>10. CASE Candidate!Post \/ Candidate!PostUncertain \/ Candidate!Cancel
  <2>1. /\ UNCHANGED <<v2, v3, v4, v5>> /\ v7' \in {v7, v7 \cup {v6.app}}
        /\ v7' # v7 => v6.app \in Apps
        /\ v6'.revision \in {0, v6.revision} /\ v6'.pc \in {"idle", "failed"}
    BY <1>0, <1>2, <1>3, <1>10 DEF Candidate!Post, Candidate!PostUncertain, Candidate!Cancel
  <2> QED BY <1>0, <2>1 DEF RevisionsExist
<1>11. CASE Candidate!Fail
  <2> DEFINE template == [bound |-> v6.app, enabled |-> FALSE]
  <2>1. v6.app \in Apps /\ v6' = [v6 EXCEPT !.pc = "failed"] /\ template \in Candidate!Template
    BY <1>0, <1>11, OperationsAssumption DEF Candidate!Fail, Candidate!Tells, Candidate!Template
  <2>2. v6'.revision = v6.revision /\ v6'.pc = "failed"
    BY <1>2, <2>1
  <2>3. /\ UNCHANGED <<v4, v5, v7>>
        /\ v2' = v2 \/ Candidate!Create(template)
        /\ v3' = v3 \/ (v6.pc = "shift" /\ v3' = v6.revision)
    BY <1>11 DEF Candidate!Fail
  <2>4. /\ DOMAIN v2' = 1..Len(v2') /\ Len(v2') <= MaxRevisions /\ Len(v2') \in Nat /\ Len(v2') >= Len(v2)
    BY <1>0, <1>1, <2>1, <2>3 DEF RevisionsExist
  <2> QED BY <1>0, <2>2, <2>3, <2>4 DEF RevisionsExist
<1>12. CASE Candidate!Sync
  <2>1. Candidate!Template0 \in Candidate!Template /\ Candidate!Create(Candidate!Template0)
    BY <1>12 DEF Candidate!Sync, Candidate!Template, Candidate!Template0
  <2>2. Len(v2') = Len(v2) + 1 /\ Len(v2') <= MaxRevisions /\ DOMAIN v2' = 1..Len(v2')
    BY <1>1, <2>1
  <2>3. v6'.revision = Len(v2') /\ v6'.pc = "sync" /\ UNCHANGED <<v3, v4, v5, v7>>
    BY <1>12 DEF Candidate!Sync, Candidate!Idle
  <2> QED BY <1>0, <2>2, <2>3 DEF RevisionsExist
<1>13. CASE Candidate!SyncShift
  <2>1. /\ v6.pc = "sync" /\ v3' \in {v3, v6.revision} /\ v6'.revision = 0 /\ v6'.pc = "idle"
        /\ UNCHANGED <<v2, v4, v5, v7>>
    BY <1>3, <1>13 DEF Candidate!SyncShift
  <2> QED BY <1>0, <2>1 DEF RevisionsExist
<1>14. CASE Candidate!SyncJobs
  BY <1>14 DEF Candidate!SyncJobs, RevisionsExist
<1> QED BY <1>4, <1>5, <1>6, <1>7, <1>8, <1>9, <1>10, <1>11, <1>12, <1>13, <1>14 DEF Candidate!Next

\* The application run keeps its type.
LEMMA ApplicationTyped == OperationsSpec => [](Is("candidate") => Candidate!TypeOK)
<1> DEFINE Inv == Is("candidate") => Candidate!CandidateInv /\ Candidate!UnheldInv
           Held == Is("candidate") => RevisionsExist
<1>1. OperationsSpec => []Inv
  BY CandidateInvariant
<1>2. OperationsInit => Held
  <2> SUFFICES ASSUME Candidate!Init PROVE RevisionsExist
    BY CandidateSteps
  <2>1. v2 = <<Candidate!Template0>> /\ Len(v2) = 1 /\ DOMAIN v2 = 1..1
    BY DEF Candidate!Init
  <2> QED BY <2>1, OperationsAssumption DEF Candidate!Init, Candidate!Idle, RevisionsExist
<1>3. Inv /\ Held /\ [OperationsNext]_operations => Held'
  <2> SUFFICES ASSUME Inv, Held, [OperationsNext]_operations, Is("candidate")' PROVE RevisionsExist'
    OBVIOUS
  <2>1. Candidate!CandidateInv /\ RevisionsExist /\ [Candidate!Next]_<<v1, v2, v3, v4, v5, v6, v7, v8>>
    BY CandidateSteps
  <2>2. CASE UNCHANGED <<v1, v2, v3, v4, v5, v6, v7, v8>>
    BY <2>1, <2>2 DEF RevisionsExist
  <2> QED BY <2>1, <2>2, CandidateHeld
<1>4. Inv /\ Held => (Is("candidate") => Candidate!TypeOK)
  <2> SUFFICES ASSUME Candidate!CandidateInv, Candidate!UnheldInv, RevisionsExist PROVE Candidate!TypeOK
    OBVIOUS
  <2>1. v2 \in Seq(Candidate!Template) /\ Len(v2) \in Nat /\ MaxRevisions \in Nat /\ v6.app \in Apps \cup {Candidate!NoApp}
        /\ v1 \in [Apps -> Candidate!Record]
    BY OperationsAssumption DEF Candidate!CandidateInv, Candidate!CandidateTyped
  <2>2. \A r \in DOMAIN v2 : v2[r] \in Candidate!Template
    BY <2>1
  <2>3. v6.revision \in 0..MaxRevisions
    BY <2>1 DEF RevisionsExist
  <2> QED BY <2>1, <2>2, <2>3 DEF RevisionsExist, Candidate!TypeOK, Candidate!Record, Candidate!UnheldInv
<1> QED BY <1>1, <1>2, <1>3, <1>4, PTL DEF OperationsSpec

\* The cycle is idle or has recorded a transition of a session there is.
CycleIsWithin == v2 \subseteq Paperwork!Sessions /\ v4.pc \in {"idle", "recorded"}

\* The paper commands keep their type.
LEMMA PaperworkTyped == OperationsSpec => [](Is("commands") => Paperwork!TypeOK)
<1> DEFINE Inv == Is("commands") => Paperwork!PaperInv
           Held == Is("commands") => CycleIsWithin
<1>1. OperationsSpec => []Inv
  BY PaperInvariant
<1>2. OperationsInit => Held
  BY PaperSteps DEF Paperwork!Init, Paperwork!IdleCycle, CycleIsWithin
<1>3. Held /\ [OperationsNext]_operations => Held'
  <2> SUFFICES ASSUME Held, [OperationsNext]_operations, Is("commands")' PROVE CycleIsWithin'
    OBVIOUS
  <2>1. CycleIsWithin /\ [Paperwork!Next]_<<v1, v2, v3, v4, v5>>
    BY PaperSteps
  <2>2. CASE UNCHANGED <<v2, v4>>
    BY <2>1, <2>2 DEF CycleIsWithin
  <2>3. CASE Paperwork!RecordTransition
    <3>1. PICK c \in Paperwork!Command : v2' = v2 \cup {c.session} /\ v4' = [pc |-> "recorded", command |-> c]
      BY <2>3 DEF Paperwork!RecordTransition, Paperwork!Stored
    <3>2. c.session \in Paperwork!Sessions
      BY DEF Paperwork!Command
    <3> QED BY <2>1, <3>1, <3>2 DEF CycleIsWithin
  <2>4. CASE Paperwork!Enqueue \/ Paperwork!CycleEnds
    BY <2>1, <2>4 DEF Paperwork!Enqueue, Paperwork!CycleEnds, Paperwork!IdleCycle, CycleIsWithin
  <2>5. CASE Paperwork!NextSession
    BY <2>2, <2>5 DEF Paperwork!NextSession
  <2>6. ASSUME NEW w \in Consumers,
               \/ Paperwork!ReadAccount(w) \/ Paperwork!Consume(w) \/ Paperwork!Claim(w) \/ Paperwork!Simulate(w)
               \/ Paperwork!Reject(w) \/ Paperwork!Fault(w) \/ Paperwork!Return(w)
        PROVE  UNCHANGED <<v2, v4>>
    BY <2>6 DEF Paperwork!ReadAccount, Paperwork!Consume, Paperwork!Claim, Paperwork!Simulate,
       Paperwork!Reject, Paperwork!Fault, Paperwork!Return, Paperwork!Write
  <2> QED BY <2>1, <2>2, <2>3, <2>4, <2>5, <2>6 DEF Paperwork!Next
<1>4. Inv /\ Held => (Is("commands") => Paperwork!TypeOK)
  <2> SUFFICES ASSUME Paperwork!CommandsTyped, CycleIsWithin PROVE Paperwork!TypeOK
    BY DEF Paperwork!PaperInv
  <2>1. \A w \in Consumers : v5[w].pc \in {"idle", "read", "consuming", "claimed"}
    BY DEF Paperwork!CommandsTyped, Paperwork!Call
  <2> QED BY <2>1 DEF Paperwork!CommandsTyped, CycleIsWithin, Paperwork!TypeOK
<1> QED BY <1>1, <1>2, <1>3, <1>4, PTL DEF OperationsSpec

\* The daily projection keeps its type.
LEMMA ProjectionTyped == OperationsSpec => [](Is("daily") => Daily!TypeOK)
<1> DEFINE Inv == Is("daily") => Daily!DailyInv
<1>1. OperationsSpec => []Inv
  BY DailyInvariant, PTL
<1>2. Inv => (Is("daily") => Daily!TypeOK)
  <2> SUFFICES ASSUME Daily!DailyInv PROVE Daily!TypeOK
    OBVIOUS
  <2>1. /\ v1 \in Daily!Times /\ v2 \subseteq Daily!Report /\ v3 \in [Publishers -> Daily!Post]
        /\ v5 \in [Daily!Days -> Daily!Times \cup {Daily!NoHandoff}] /\ (\A o \in v4 : o \in Daily!Record)
        /\ v7 \subseteq v6 /\ v6 \subseteq v4
    BY DEF Daily!DailyInv, Daily!Judged, Daily!AckedIsStored
  <2>2. \A p \in Publishers : /\ v3[p].pc \in {"ready", "list", "over", "upload", "sync", "handoff"}
                              /\ v3[p].mode \in {"none", "daily", "oneShot"}
                              /\ v3[p].record \in Daily!Record \cup {Daily!NoRecord}
    BY <2>1 DEF Daily!Post
  <2>3. \A o \in Daily!Record : o.day \in Daily!Days /\ o.status \in Daily!Status
    BY DEF Daily!Record
  <2> QED BY <2>1, <2>2, <2>3 DEF Daily!TypeOK
<1> QED BY <1>1, <1>2, PTL

\* Deployment control, the cycle incidents, the paper observation and the access
\* token keep their types: their invariants say so.
LEMMA TypedByInvariant ==
  OperationsSpec => [](/\ Is("control") => Control!TypeOK
                       /\ Is("incidents") => Incidents!TypeOK
                       /\ Is("paper") => Paper!TypeOK
                       /\ Is("secret") => Secret!TypeOK)
<1>1. (Is("control") => Control!ControlInv) => (Is("control") => Control!TypeOK)
  BY DEF Control!ControlInv
<1>2. (Is("incidents") => Incidents!IncidentInv) => (Is("incidents") => Incidents!TypeOK)
  BY DEF Incidents!IncidentInv
<1>3. (Is("paper") => Paper!ObservationInv) => (Is("paper") => Paper!TypeOK)
  BY DEF Paper!ObservationInv
<1>4. (Is("secret") => Secret!TokenInv) => (Is("secret") => Secret!TypeOK)
  BY DEF Secret!TokenInv
<1> QED BY <1>1, <1>2, <1>3, <1>4, ControlInvariant, IncidentInvariant, ObservationInvariant, TokenInvariant, PTL

\* The incident alerts are those of their own module, and keep their type
\* whichever component runs.
LEMMA AlertsTyped == OperationsSpec => []TypeOK
<1>1. OperationsInit => Init
  BY DEF OperationsInit
<1>2. [OperationsNext]_operations => [Next]_vars
  BY DEF OperationsNext, operations
<1>3. OperationsSpec => Spec
  BY <1>1, <1>2, PTL DEF OperationsSpec, Spec
<1> QED BY <1>3, TypeCorrect, PTL

\* The orders of the account by their state.
InState(states) == {o \in AccountOrders : v2.orders[o] \in states}

\* Each order that fills takes one of the cash and adds one to the shares.
AccountAddsUp ==
  /\ v1 \in Account!Times /\ v3 \subseteq Account!Trade /\ v4 \subseteq AccountOrders
  /\ v2.orders \in [AccountOrders -> {"none", "working", "filled", "cancelled"}]
  /\ v2 = [cash |-> Account!Cardinality(InState({"none", "working", "cancelled"})),
           shares |-> Account!Cardinality(InState({"filled"})), orders |-> v2.orders]
  /\ v5.pc \in {"idle", "receipt", "snapshot", "answered", "blocked"} /\ v5.counted \in Nat

\* An order that goes from one state to another within the same kind changes no
\* count; one that fills changes both.
LEMMA AccountFills ==
  ASSUME AccountAddsUp, NEW o \in AccountOrders, NEW state \in {"working", "filled", "cancelled"},
         v2.orders[o] \in {"none", "working"},
         v2'.orders = [v2.orders EXCEPT ![o] = state],
         v2' = [cash |-> IF state = "filled" THEN v2.cash - 1 ELSE v2.cash,
                shares |-> IF state = "filled" THEN v2.shares + 1 ELSE v2.shares, orders |-> v2'.orders]
  PROVE  /\ v2'.orders \in [AccountOrders -> {"none", "working", "filled", "cancelled"}]
         /\ v2' = [cash |-> Account!Cardinality(InState({"none", "working", "cancelled"})'),
                   shares |-> Account!Cardinality(InState({"filled"})'), orders |-> v2'.orders]
<1> DEFINE Left == InState({"none", "working", "cancelled"})
           Filled == InState({"filled"})
<1>1. /\ v2'.orders \in [AccountOrders -> {"none", "working", "filled", "cancelled"}]
      /\ \A x \in AccountOrders : v2'.orders[x] = IF x = o THEN state ELSE v2.orders[x]
  BY DEF AccountAddsUp
<1>2. v2.cash = Account!Cardinality(Left) /\ v2.shares = Account!Cardinality(Filled)
  BY DEF AccountAddsUp
<1>3. CASE state # "filled"
  <2>1. InState({"none", "working", "cancelled"})' = Left /\ InState({"filled"})' = Filled
    BY <1>1, <1>3 DEF InState, AccountAddsUp
  <2> QED BY <1>1, <1>2, <1>3, <2>1
<1>4. CASE state = "filled"
  <2>1. InState({"none", "working", "cancelled"})' = Left \ {o} /\ InState({"filled"})' = Filled \cup {o}
    BY <1>1, <1>4 DEF InState, AccountAddsUp
  <2>2. o \in Left /\ o \notin Filled
    BY DEF InState
  <2>3. Numbers!IsFiniteSet(Left) /\ Numbers!IsFiniteSet(Filled)
    <3>1. Left \in SUBSET AccountOrders /\ Filled \in SUBSET AccountOrders
      BY DEF InState
    <3> QED BY <3>1, AccountAssumption, FiniteSizes, SizeOf
  <2> HIDE DEF Left, Filled
  <2>4. Numbers!Cardinality(Left \ {o}) = Numbers!Cardinality(Left) - 1
    BY <2>2, <2>3, Numbers!FS_RemoveElement
  <2>5. Numbers!Cardinality(Filled \cup {o}) = Numbers!Cardinality(Filled) + 1
    BY <2>2, <2>3, Numbers!FS_AddElement
  <2>6. /\ Account!Cardinality(Left \ {o}) = Account!Cardinality(Left) - 1
        /\ Account!Cardinality(Filled \cup {o}) = Account!Cardinality(Filled) + 1
    BY <2>4, <2>5, SizeOf
  <2> QED BY <1>1, <1>2, <1>4, <2>1, <2>6
<1> QED BY <1>3, <1>4

\* The steps of the account: the orders add up, and what is recorded is theirs.
LEMMA AccountGoesOn ==
  ASSUME AccountAddsUp, NEW o \in AccountOrders,
         Account!Order(o) \/ Account!Fill(o) \/ Account!Cancel(o) \/ Account!Record(o)
  PROVE  AccountAddsUp'
<1>0. v2 = [cash |-> v2.cash, shares |-> v2.shares, orders |-> v2.orders]
  BY DEF AccountAddsUp
<1>1. CASE Account!Order(o)
  <2>1. /\ v2' = [cash |-> v2.cash, shares |-> v2.shares, orders |-> [v2.orders EXCEPT ![o] = "working"]]
        /\ v2.orders[o] = "none" /\ UNCHANGED <<v1, v3, v4, v5>>
    BY <1>0, <1>1 DEF Account!Order
  <2>2. v2'.orders = [v2.orders EXCEPT ![o] = "working"]
    BY <2>1
  <2> QED BY <2>1, <2>2, AccountFills DEF AccountAddsUp
<1>2. CASE Account!Cancel(o)
  <2>1. /\ v2' = [cash |-> v2.cash, shares |-> v2.shares, orders |-> [v2.orders EXCEPT ![o] = "cancelled"]]
        /\ v2.orders[o] = "working" /\ UNCHANGED <<v1, v3, v4, v5>>
    BY <1>0, <1>2 DEF Account!Cancel
  <2>2. v2'.orders = [v2.orders EXCEPT ![o] = "cancelled"]
    BY <2>1
  <2> QED BY <2>1, <2>2, AccountFills DEF AccountAddsUp
<1>3. CASE Account!Fill(o)
  <2>1. /\ v2' = [cash |-> v2.cash - 1, shares |-> v2.shares + 1, orders |-> [v2.orders EXCEPT ![o] = "filled"]]
        /\ v2.orders[o] = "working" /\ v3' = v3 \cup {[order |-> o, at |-> v1]} /\ UNCHANGED <<v1, v4, v5>>
    BY <1>3 DEF Account!Fill
  <2>2. v2'.orders = [v2.orders EXCEPT ![o] = "filled"]
    BY <2>1
  <2>3. v3' \subseteq Account!Trade
    BY <2>1 DEF AccountAddsUp, Account!Trade
  <2> QED BY <2>1, <2>2, <2>3, AccountFills DEF AccountAddsUp
<1>4. CASE Account!Record(o)
  <2>1. v4' = v4 \cup {o} /\ UNCHANGED <<v1, v2, v3, v5>>
    BY <1>4 DEF Account!Record
  <2>2. InState({"none", "working", "cancelled"})' = InState({"none", "working", "cancelled"})
        /\ InState({"filled"})' = InState({"filled"})
    BY <2>1 DEF InState
  <2> QED BY <2>1, <2>2 DEF AccountAddsUp
<1> QED BY <1>1, <1>2, <1>3, <1>4

\* The steps of the reader and of time leave the account.
LEMMA AccountRests ==
  ASSUME AccountAddsUp, v1' \in Account!Times, UNCHANGED <<v2, v3, v4>>,
         v5'.pc \in {"idle", "receipt", "snapshot", "answered", "blocked"}, v5'.counted \in Nat
  PROVE  AccountAddsUp'
<1>1. InState({"none", "working", "cancelled"})' = InState({"none", "working", "cancelled"})
      /\ InState({"filled"})' = InState({"filled"})
  BY DEF InState
<1> QED BY <1>1 DEF AccountAddsUp

\* What the reader does leaves it at one of its steps, with a number counted.
LEMMA ReaderCounts ==
  ASSUME Account!ReaderInv, AccountAddsUp, Account!Begin \/ Account!Read \/ Account!Answer \/ Account!Block
  PROVE  v5'.pc \in {"idle", "receipt", "snapshot", "answered", "blocked"} /\ v5'.counted \in Nat
<1>0. /\ DOMAIN v5 = {"pc", "todo", "start", "expected", "seen", "blockers", "counted", "earlier", "days"}
      /\ v5.pc \in {"idle", "receipt", "snapshot", "answered", "blocked"} /\ v5.counted \in Nat
  BY DEF Account!ReaderInv, Account!ReaderTyped, Account!Idle, AccountAddsUp
<1>1. CASE Account!Begin
  <2>1. PICK kind \in {"receipt", "snapshot"}, expected \in BOOLEAN :
          v5' = [Account!Idle EXCEPT !.pc = kind, !.start = v1, !.expected = expected, !.earlier = v3,
                   !.todo = IF kind = "receipt" THEN Account!Surfaces ELSE SubSeq(Account!Surfaces, 1, 5)]
    BY <1>1 DEF Account!Begin
  <2>2. v5'.pc = kind /\ v5'.counted = 0
    BY <2>1 DEF Account!Idle
  <2> QED BY <2>2
<1>2. CASE Account!Block
  BY <1>2 DEF Account!Block, Account!Idle
<1>3. CASE Account!Read
  <2>1. v5'.pc = v5.pc /\ v5'.counted = v5.counted
    BY <1>0, <1>3 DEF Account!Read
  <2> QED BY <1>0, <2>1
<1>4. CASE Account!Answer
  <2>1. v5'.pc = "answered" /\ v5'.counted = Account!Counted(v5.seen)
    BY <1>0, <1>4 DEF Account!Answer
  <2> DEFINE counted == {t \in v5.seen.history \cup v5.seen.today : Account!InWindow(t)}
  <2>2. counted \in SUBSET v3 /\ Account!IsFiniteSet(v3)
    BY DEF Account!ReaderInv, Account!ReaderTyped
  <2> HIDE DEF counted
  <2>3. Account!Cardinality(counted) \in Nat
    BY <2>2, FiniteSizes
  <2> QED BY <2>1, <2>3 DEF Account!Counted, counted
<1> QED BY <1>1, <1>2, <1>3, <1>4

\* The account and its reader keep their type, for a finite set of orders.
LEMMA AccountTyped == OperationsSpec => [](Is("account") => Account!TypeOK)
<1> DEFINE Inv == Is("account") => Account!ReaderInv
           Held == Is("account") => AccountAddsUp
<1>1. OperationsSpec => []Inv
  BY ReaderInvariant
<1>2. OperationsInit => Held
  <2> SUFFICES ASSUME Account!Init PROVE AccountAddsUp
    BY AccountSteps
  <2>1. /\ v2 = [cash |-> Account!Cardinality(AccountOrders), shares |-> 0, orders |-> [o \in AccountOrders |-> "none"]]
        /\ v3 = {} /\ v4 = {} /\ v1 = 0 /\ v5.pc = "idle" /\ v5.counted = 0
    BY DEF Account!Init, Account!AtRest, Account!Idle
  <2>2. InState({"none", "working", "cancelled"}) = AccountOrders /\ InState({"filled"}) = {}
    BY <2>1 DEF InState
  <2>3. Account!Cardinality({}) = 0
    BY SizeOf, Numbers!FS_EmptySet
  <2> QED BY <2>1, <2>2, <2>3, AccountAssumption DEF AccountAddsUp, Account!Times
<1>3. Inv /\ Held /\ [OperationsNext]_operations => Held'
  <2> SUFFICES ASSUME Inv, Held, [OperationsNext]_operations, Is("account")' PROVE AccountAddsUp'
    OBVIOUS
  <2>1. Account!ReaderInv /\ AccountAddsUp /\ [Account!Next]_<<v1, v2, v3, v4, v5>>
    BY AccountSteps
  <2>2. CASE UNCHANGED <<v1, v2, v3, v4, v5>>
    BY <2>1, <2>2, AccountRests DEF AccountAddsUp
  <2>3. CASE Account!Tick
    <3>1. v1' \in Account!Times /\ UNCHANGED <<v2, v3, v4, v5>>
      BY <2>1, <2>3, AccountAssumption DEF Account!Tick, Account!Times, AccountAddsUp
    <3> QED BY <2>1, <3>1, AccountRests DEF AccountAddsUp
  <2>4. CASE Account!Begin \/ Account!Read \/ Account!Answer \/ Account!Block
    <3>1. UNCHANGED <<v1, v2, v3, v4>>
      BY <2>4 DEF Account!Begin, Account!Read, Account!Answer, Account!Block
    <3>2. v1' \in Account!Times
      BY <2>1, <3>1 DEF AccountAddsUp
    <3>3. v5'.pc \in {"idle", "receipt", "snapshot", "answered", "blocked"} /\ v5'.counted \in Nat
      BY <2>1, <2>4, ReaderCounts
    <3> QED BY <2>1, <3>1, <3>2, <3>3, AccountRests
  <2> QED BY <2>1, <2>2, <2>3, <2>4, AccountGoesOn DEF Account!Next
<1>4. Inv /\ Held => (Is("account") => Account!TypeOK)
  <2> SUFFICES ASSUME Account!ReaderInv, AccountAddsUp PROVE Account!TypeOK
    OBVIOUS
  <2>1. v5.seen.history \cup v5.seen.today \subseteq Account!Trade
    BY DEF Account!ReaderInv, AccountAddsUp
  <2> DEFINE Left == InState({"none", "working", "cancelled"})
             Filled == InState({"filled"})
             n == Account!Cardinality(AccountOrders)
  <2>2. /\ Account!Cardinality(Left) \in Nat /\ Account!Cardinality(Filled) \in Nat /\ n \in Nat
        /\ Account!Cardinality(Left) <= n /\ Account!Cardinality(Filled) <= n
    <3>1. Left \in SUBSET AccountOrders /\ Filled \in SUBSET AccountOrders
      BY DEF InState
    <3> HIDE DEF Left, Filled
    <3>2. Account!IsFiniteSet(Left) /\ Account!IsFiniteSet(Filled)
      BY <3>1, AccountAssumption, FiniteSizes
    <3> QED BY <3>1, <3>2, AccountAssumption, FiniteSizes
  <2>3. v2 = [cash |-> Account!Cardinality(Left), shares |-> Account!Cardinality(Filled), orders |-> v2.orders]
        /\ v2.orders \in [AccountOrders -> {"none", "working", "filled", "cancelled"}]
    BY DEF AccountAddsUp
  <2> HIDE DEF Left, Filled
  <2>4. Account!Cardinality(Left) \in 0..n /\ Account!Cardinality(Filled) \in 0..n
    BY <2>2
  <2>5. v2 \in Account!Account
    BY <2>3, <2>4 DEF Account!Account
  <2> QED BY <2>1, <2>5 DEF AccountAddsUp, Account!TypeOK
<1> QED BY <1>1, <1>2, <1>3, <1>4, PTL DEF OperationsSpec

\* The mode of the deduplication is configured, and what a run of the guard did
\* is one of what it may do.
GuardSeen ==
  /\ v5 \in {"off", "dry_run", "on"}
  /\ v7.target \in Guard!Targets /\ v7.issues \subseteq Guard!IssueTypes /\ v7.seen \subseteq Guard!Entries
  /\ v7.does \in {"nothing", "healthy", "alerts", "suppresses"}

\* The guard keeps its type.
LEMMA RuntimeGuardTyped == OperationsSpec => [](Is("guard") => Guard!TypeOK)
<1> DEFINE Inv == Is("guard") => Guard!GuardInv
           Held == Is("guard") => GuardSeen
<1>1. OperationsSpec => []Inv
  BY GuardInvariant
<1>2. Guard!NothingSeen.target \in Guard!Targets /\ Guard!NothingSeen.issues = {} /\ Guard!NothingSeen.seen = {}
      /\ Guard!NothingSeen.does = "nothing"
  BY DEF Guard!NothingSeen, Guard!Targets
<1>3. OperationsInit => Held
  BY <1>2, GuardSteps DEF Guard!Init, GuardSeen
<1>4. Inv /\ Held /\ [OperationsNext]_operations => Held'
  <2> SUFFICES ASSUME Inv, Held, [OperationsNext]_operations, Is("guard")' PROVE GuardSeen'
    OBVIOUS
  <2>1. Guard!GuardInv /\ GuardSeen /\ [Guard!Next]_<<v1, v2, v3, v4, v5, v6, v7, v8>>
    BY GuardSteps
  <2>2. CASE UNCHANGED <<v5, v7>>
    BY <2>1, <2>2 DEF GuardSeen, Guard!Targets, Guard!IssueTypes, Guard!Entries
  <2>3. CASE Guard!CacheGone \/ Guard!LogEntry \/ Guard!NewRevision
    BY <2>2, <2>3 DEF Guard!CacheGone, Guard!LogEntry, Guard!NewRevision
  <2>4. CASE Guard!Tick
    BY <1>2, <2>1, <2>4 DEF Guard!Tick, GuardSeen
  <2>5. CASE Guard!GuardRun
    <3>1. PICK target \in Guard!Targets, oldest \in {Guard!Window, v1}, known \in BOOLEAN, runOk \in BOOLEAN,
               jobsOk \in BOOLEAN, idle \in BOOLEAN, saves \in BOOLEAN :
            LET o == Guard!Observed(target, known, oldest, runOk, jobsOk, idle) IN
            /\ v7' = [target |-> target, issues |-> o.issues, seen |-> o.seen, oldest |-> oldest, does |-> Guard!Outcome(o)]
            /\ v6' = IF saves THEN Guard!Saved(o) ELSE v6
            /\ v8' = IF saves THEN Guard!History(o) ELSE v8
      BY <2>5 DEF Guard!GuardRun
    <3> DEFINE o == Guard!Observed(target, known, oldest, runOk, jobsOk, idle)
    <3>2. /\ v7'.target = target /\ v7'.issues = o.issues /\ v7'.seen = o.seen /\ v7'.does = Guard!Outcome(o)
          /\ v5' = v5
      BY <2>5, <3>1 DEF Guard!GuardRun
    <3>3. o = Guard!Observed(target, known, oldest, runOk, jobsOk, idle)
      OBVIOUS
    <3> HIDE DEF o
    <3>4. GuardReads(o, target, oldest)
      BY <2>1, <3>3, GuardObserves
    <3>5. Guard!Outcome(o) \in {"nothing", "healthy", "alerts", "suppresses"}
      BY DEF Guard!Outcome
    <3> QED BY <2>1, <3>2, <3>4, <3>5 DEF GuardSeen, GuardReads, Guard!Targets, Guard!IssueTypes, Guard!Entries
  <2> QED BY <2>1, <2>2, <2>3, <2>4, <2>5 DEF Guard!Next
<1>5. Inv /\ Held => (Is("guard") => Guard!TypeOK)
  <2> SUFFICES ASSUME Guard!GuardTyped, GuardSeen PROVE Guard!TypeOK
    BY DEF Guard!GuardInv
  <2>1. /\ v6.events \in [Guard!Entries -> Guard!Times] /\ v6.issues \in [SUBSET Guard!IssueTypes -> Guard!Times]
        /\ v8.events \in [Guard!Entries -> Guard!Times] /\ v8.issues \in [SUBSET Guard!IssueTypes -> Guard!Times]
    BY DEF Guard!GuardTyped, Guard!Memory
  <2> QED BY <2>1 DEF Guard!GuardTyped, GuardSeen, Guard!TypeOK
<1> QED BY <1>1, <1>3, <1>4, <1>5, PTL DEF OperationsSpec

\* The latest of the slots that are due is one of them.
LEMMA LatestIsDue ==
  ASSUME NEW t \in Beat!Due PROVE Beat!LatestDue(t) \in Beat!Times
<1>1. Beat!Matured(t) # {} /\ Beat!Matured(t) \subseteq TargetSlots[t] /\ t \in BeatTargets
  BY DEF Beat!Due, Beat!Matured
<1>2. Beat!Matured(t) \subseteq 0..BeatEnd /\ BeatEnd \in Nat
  BY <1>1, OperationsAssumption
<1> DEFINE M == Beat!Matured(t)
           Left == {BeatEnd - s : s \in M}
<1>3. \E s \in M : \A u \in M : u <= s
  <2> HIDE DEF M
  <2>1. Left \in SUBSET Nat /\ Left # {}
    BY <1>1, <1>2 DEF M
  <2>2. PICK m \in Left : \A n \in Left : m <= n
    <3> HIDE DEF Left
    <3> QED BY <2>1, Numbers!LeastNatural
  <2>3. PICK s \in M : m = BeatEnd - s
    BY <2>2
  <2>4. \A u \in M : BeatEnd - s <= BeatEnd - u /\ u \in Int /\ s \in Int
    BY <1>2, <2>2, <2>3 DEF M
  <2> QED BY <1>2, <2>4
<1>4. Beat!LatestDue(t) \in M
  BY <1>3 DEF Beat!LatestDue
<1> QED BY <1>2, <1>4 DEF Beat!Times

\* A slot that passed is of a target and an instant, and a recovery is of reports.
ClearedIsReported ==
  v4 \subseteq BeatTargets \X Beat!Times /\ v5.raised \in Beat!Times /\ v5.by \subseteq Beat!Report

\* A check that passes leaves both so.
LEMMA ClearedHeld ==
  ASSUME Beat!BeatInv, ClearedIsReported, NEW read \in SUBSET Beat!Recent, Beat!AllReported(read)
  PROVE  ClearedIsReported'
<1>1. v4' \subseteq BeatTargets \X Beat!Times
  <2>1. v4' = v4 \cup {<<t, Beat!LatestDue(t)>> : t \in Beat!Due} /\ Beat!Due \subseteq BeatTargets
    BY DEF Beat!AllReported, Beat!Due
  <2> QED BY <2>1, LatestIsDue DEF ClearedIsReported
<1>2. PICK found \in Beat!Evidence(read) : Beat!Recovered(found)
  BY DEF Beat!AllReported
<1>3. found \subseteq Beat!Recent
  BY DEF Beat!Evidence, Beat!Kept, Beat!Accepted
<1>4. \A e \in Beat!Recent : v2[e] \in Beat!Report
  BY DEF Beat!BeatInv, Beat!HeartbeatTyped, Beat!Recent, Beat!NoReport
<1>5. v3.observed \in Beat!Times
  BY DEF Beat!BeatInv, Beat!HeartbeatTyped
<1>6. v5' = v5 \/ v5' = [raised |-> v3.observed, by |-> {v2[e] : e \in found}]
  BY <1>2 DEF Beat!Recovered
<1>7. v5'.raised \in Beat!Times /\ v5'.by \subseteq Beat!Report
  <2>1. CASE v5' = v5
    BY <2>1 DEF ClearedIsReported
  <2>2. CASE v5' = [raised |-> v3.observed, by |-> {v2[e] : e \in found}]
    BY <1>3, <1>4, <1>5, <2>2
  <2> QED BY <1>6, <2>1, <2>2
<1>8. Beat!Times' = Beat!Times /\ Beat!Report' = Beat!Report
  BY DEF Beat!Times, Beat!Report, Beat!Never, Beat!Status
<1> QED BY <1>1, <1>7, <1>8 DEF ClearedIsReported

\* The heartbeat keeps its type.
LEMMA HeartbeatIsTyped == OperationsSpec => [](Is("beat") => Beat!TypeOK)
<1> DEFINE Inv == Is("beat") => Beat!BeatInv
           Held == Is("beat") => ClearedIsReported
<1>1. OperationsSpec => []Inv
  BY BeatInvariant
<1>2. OperationsInit => Held
  BY BeatSteps, OperationsAssumption DEF Beat!Init, Beat!NoRecovery, Beat!Times, ClearedIsReported
<1>3. Inv /\ Held /\ [OperationsNext]_operations => Held'
  <2> SUFFICES ASSUME Inv, Held, [OperationsNext]_operations, Is("beat")' PROVE ClearedIsReported'
    OBVIOUS
  <2>1. Beat!BeatInv /\ ClearedIsReported /\ [Beat!Next]_<<v1, v2, v3, v4, v5>>
    BY BeatSteps
  <2>2. CASE UNCHANGED <<v4, v5>>
    BY <2>1, <2>2 DEF ClearedIsReported, Beat!Times, Beat!Report, Beat!Never, Beat!Status
  <2>3. CASE \/ \E e \in Executions, t \in BeatTargets, status \in Beat!Status : Beat!Finish(e, t, status)
             \/ \E e \in Executions : Beat!Upload(e)
             \/ Beat!Tick
    BY <2>2, <2>3 DEF Beat!Finish, Beat!Upload, Beat!Tick
  <2>4. CASE Beat!Check
    <3>1. PICK read \in SUBSET Beat!Recent : Beat!Skip \/ Beat!AllReported(read) \/ Beat!Alert(read)
      BY <2>4 DEF Beat!Check
    <3>2. CASE Beat!Skip \/ Beat!Alert(read)
      BY <2>2, <3>2 DEF Beat!Skip, Beat!Alert
    <3>3. CASE Beat!AllReported(read)
      BY <2>1, <3>1, <3>3, ClearedHeld
    <3> QED BY <3>1, <3>2, <3>3
  <2> QED BY <2>1, <2>2, <2>3, <2>4 DEF Beat!Next
<1>4. Inv /\ Held => (Is("beat") => Beat!TypeOK)
  BY DEF Beat!BeatInv, Beat!HeartbeatTyped, ClearedIsReported, Beat!TypeOK
<1> QED BY <1>1, <1>2, <1>3, <1>4, PTL DEF OperationsSpec

\* The instants of the stretch, of the observation and of the cursor.
CursorInTime ==
  /\ v3.at \in 0..Cycles!Never /\ v3.from \in 0..Cycles!Never /\ v3.through \in 0..Cycles!Never
  /\ v4.from \in 0..Cycles!Never /\ v4.through \in 0..Cycles!Never /\ v5.covered \in 0..Cycles!Never

\* A stretch begins at the start or later, and ends no later than now: the slot
\* that is one too many is not its first.
LEMMA StretchInTime ==
  ASSUME v1 \in Cycles!Times, v5.covered \in 0..Cycles!Never
  PROVE  /\ Cycles!From \in 0..Cycles!Never
         /\ Cycles!Through(Cycles!From) \in 0..Cycles!Never
<1>1. /\ HealthEnd \in Nat /\ HealthGrace \in Nat /\ HealthCycles \in Nat \ {0} /\ HealthSlots \subseteq Nat
      /\ Cycles!Never = HealthEnd + 1 /\ v1 \in 0..HealthEnd
  BY HealthAssumption DEF Cycles!Never, Cycles!Times
<1>2. Cycles!From \in 0..Cycles!Never
  BY <1>1 DEF Cycles!From, Cycles!RequiredFrom
<1> DEFINE from == Cycles!From
<1>3. ASSUME NEW s \in Cycles!Overflow(from, v1) PROVE s \in Nat /\ from <= s /\ s <= v1 /\ s # from
  <2>1. s \in HealthSlots /\ from <= s /\ s <= v1 /\ Cycles!Cardinality(Cycles!Within(from, s)) = HealthCycles + 1
    BY DEF Cycles!Overflow, Cycles!Within
  <2>2. ASSUME s = from PROVE FALSE
    <3>1. Cycles!Within(from, s) = {s}
      <4>1. from \in Nat /\ s \in Nat /\ s \in HealthSlots
        BY <1>1, <1>2, <2>1
      <4> HIDE DEF from
      <4>2. \A u \in HealthSlots : from <= u /\ u <= s <=> u = s
        BY <1>1, <2>2, <4>1
      <4> QED BY <4>1, <4>2 DEF Cycles!Within
    <3>2. Cycles!Cardinality({s}) = 1
      BY Numbers!FS_Singleton DEF Cycles!Cardinality, Numbers!Cardinality, Cycles!IsFiniteSet, Numbers!IsFiniteSet
    <3> QED BY <1>1, <2>1, <3>1, <3>2
  <2> QED BY <1>1, <2>1, <2>2
<1>4. CASE Cycles!Overflow(from, v1) = {}
  <2>1. Cycles!Through(from) = v1
    BY <1>4 DEF Cycles!Through
  <2> HIDE DEF from
  <2> QED BY <1>1, <1>2, <2>1 DEF from
<1>5. CASE Cycles!Overflow(from, v1) # {}
  <2> DEFINE last == CHOOSE s \in Cycles!Overflow(from, v1) : TRUE
  <2>1. last \in Cycles!Overflow(from, v1)
    BY <1>5
  <2>2. last \in Nat /\ from <= last /\ last <= v1 /\ last # from
    BY <1>3, <2>1
  <2>3. Cycles!Through(from) = last - 1
    BY <1>5 DEF Cycles!Through
  <2> HIDE DEF last, from
  <2> QED BY <1>1, <1>2, <2>2, <2>3 DEF from
<1> QED BY <1>2, <1>4, <1>5

\* Every step of the publisher and of the source keeps them so.
LEMMA CursorHeld ==
  ASSUME Cycles!HealthInv, CursorInTime, Cycles!Next PROVE CursorInTime'
<1>1. HealthEnd \in Nat /\ Cycles!Never = HealthEnd + 1 /\ Cycles!Never' = Cycles!Never /\ Cycles!Never \in 0..Cycles!Never
  BY HealthAssumption DEF Cycles!Never
<1>2. v1 \in Cycles!Times /\ v1 \in 0..Cycles!Never
  BY <1>1 DEF Cycles!HealthInv, Cycles!HealthTyped, Cycles!Times
<1>3. CASE Cycles!Tick \/ (\E r \in HealthAttempts : Cycles!Start(r) \/ Cycles!Finish(r))
  <2>1. UNCHANGED <<v3, v4, v5>>
    BY <1>3 DEF Cycles!Start, Cycles!Finish, Cycles!Tick
  <2> QED BY <1>1, <2>1 DEF CursorInTime
<1>4. CASE Cycles!Begin
  <2>1. /\ v3'.at = v1 /\ v3'.from = Cycles!From /\ v3'.through = Cycles!Through(Cycles!From) /\ v4' = v4 /\ v5' = v5
    BY <1>4 DEF Cycles!Begin
  <2>2. v5.covered \in 0..Cycles!Never
    BY DEF CursorInTime
  <2>3. Cycles!From \in 0..Cycles!Never /\ Cycles!Through(Cycles!From) \in 0..Cycles!Never
    BY <1>2, <2>2, StretchInTime
  <2>4. v3'.at \in 0..Cycles!Never /\ v3'.from \in 0..Cycles!Never /\ v3'.through \in 0..Cycles!Never
    <3> DEFINE from == Cycles!From
               through == Cycles!Through(from)
    <3>1. v3'.at = v1 /\ v3'.from = from /\ v3'.through = through /\ from \in 0..Cycles!Never /\ through \in 0..Cycles!Never
      BY <2>1, <2>3
    <3> HIDE DEF from, through
    <3> QED BY <1>2, <3>1
  <2>5. /\ v4'.from \in 0..Cycles!Never /\ v4'.through \in 0..Cycles!Never /\ v5'.covered \in 0..Cycles!Never
    BY <2>1 DEF CursorInTime
  <2> QED BY <1>1, <2>4, <2>5 DEF CursorInTime
<1>5. CASE Cycles!CollectAll \/ Cycles!CollectPart
  <2>0. ASSUME NEW found, NEW readAll, Cycles!Collect(found, readAll)
        PROVE  v4'.from = v3.from /\ v4'.through = v3.through /\ v3' = Cycles!Idle /\ v5' = v5
    <3> DEFINE complete == Cycles!Complete(found, readAll)
               cycles == Cycles!Cycles(found, complete)
    <3>1. /\ v4' = [from |-> v3.from, through |-> v3.through, complete |-> complete, cycles |-> cycles]
          /\ v3' = Cycles!Idle /\ v5' = v5
      BY <2>0 DEF Cycles!Collect
    <3> HIDE DEF complete, cycles
    <3> QED BY <3>1
  <2>1. v4'.from = v3.from /\ v4'.through = v3.through /\ v3' = Cycles!Idle /\ v5' = v5
    BY <1>5, <2>0 DEF Cycles!CollectAll, Cycles!CollectPart
  <2> QED BY <1>1, <2>1 DEF CursorInTime, Cycles!Idle
<1>6. CASE Cycles!GiveUp
  <2>1. v3' = Cycles!Idle /\ v4' = v4 /\ v5' = v5
    BY <1>6 DEF Cycles!GiveUp
  <2> QED BY <1>1, <2>1 DEF CursorInTime, Cycles!Idle
<1>7. CASE Cycles!Store \/ Cycles!Lose
  <2>1. v3' = v3 /\ v4' = Cycles!NoPost /\ v5'.covered \in {v5.covered, v4.through}
    BY <1>7 DEF Cycles!Store, Cycles!Lose
  <2> QED BY <1>1, <2>1 DEF CursorInTime, Cycles!NoPost
<1> QED BY <1>3, <1>4, <1>5, <1>6, <1>7 DEF Cycles!Next

\* The cycle health keeps its type, when an observation may have one slot.
LEMMA CyclesTyped == OperationsSpec => [](Is("cycles") => Cycles!TypeOK)
<1> DEFINE Inv == Is("cycles") => Cycles!HealthInv
           Held == Is("cycles") => CursorInTime
<1>1. OperationsSpec => []Inv
  BY HealthInvariant
<1>2. OperationsInit => Held
  <2>1. Cycles!Never \in 0..Cycles!Never
    BY HealthAssumption DEF Cycles!Never
  <2> QED BY <2>1, HealthSteps DEF Cycles!Init, Cycles!Idle, Cycles!NoPost, CursorInTime
<1>3. Inv /\ Held /\ [OperationsNext]_operations => Held'
  <2> SUFFICES ASSUME Inv, Held, [OperationsNext]_operations, Is("cycles")' PROVE CursorInTime'
    OBVIOUS
  <2>1. Cycles!HealthInv /\ CursorInTime /\ [Cycles!Next]_<<v1, v2, v3, v4, v5>>
    BY HealthSteps
  <2>2. CASE UNCHANGED <<v1, v2, v3, v4, v5>>
    BY <2>1, <2>2 DEF CursorInTime, Cycles!Never
  <2> QED BY <2>1, <2>2, CursorHeld
<1>4. Inv /\ Held => (Is("cycles") => Cycles!TypeOK)
  <2> SUFFICES ASSUME Cycles!HealthTyped, CursorInTime PROVE Cycles!TypeOK
    BY DEF Cycles!HealthInv
  <2>1. v3 \in [pc : {"idle", "reads"}, at : 0..Cycles!Never, from : 0..Cycles!Never, through : 0..Cycles!Never]
    BY DEF Cycles!HealthTyped, CursorInTime
  <2>2. /\ v4.complete \in BOOLEAN /\ v4.cycles \subseteq Cycles!Cycle /\ v5.cycles \subseteq Cycles!Cycle
    BY DEF Cycles!HealthTyped
  <2> QED BY <2>1, <2>2 DEF Cycles!HealthTyped, CursorInTime, Cycles!TypeOK
<1> QED BY <1>1, <1>2, <1>3, <1>4, PTL DEF OperationsSpec

\* The days a run still looks at and those it found no snapshot of are due, and
\* the day it completes is one.
Ready(r) ==
  /\ r.pc \in {"marking", "marked"} => r.day \in Watch!Days
  /\ \A d \in r.todo \cup r.gaps : Watch!DueOf(d) <= r.at

\* What the watched runs store, and where they stand.
WatchedStore ==
  /\ v1 \in Watch!Times /\ v2 \in [Watch!Days -> Watch!Times \cup {Watch!Never}]
  /\ v4 \in Watch!Days \cup {Watch!NoDay} /\ v5 \subseteq Watch!Claim
  /\ v6 \subseteq Watch!Days /\ v7 \subseteq Watch!Days /\ v10 \subseteq Watch!Days
  /\ v8 \in [WatchedRuns -> Watch!OneRun] /\ \A c \in WatchedRuns : Ready(v8[c])

\* The days and the instants of the watchdog are those of the collector.
LEMMA WatchBounds ==
  /\ Watch!Days \subseteq Nat /\ Watch!Times \subseteq Nat /\ 0 \in Watch!Times /\ Watch!NoDay \in Nat
  /\ \A t \in Watch!Times : Watch!DayOf(t) \in Watch!Days
  /\ \A d \in Watch!Days : Watch!DueOf(d) \in Nat
<1>0. WatchEnd \in Nat /\ PaperDay \in Nat \ {0}
  BY PaperAssumption
<1>1. \A t \in Nat : Watch!DayOf(t) = Paper!DayOf(t)
  BY DEF Watch!DayOf, Paper!DayOf
<1>2. \A d \in Nat : Watch!DueOf(d) = Paper!DueOf(d)
  BY DEF Watch!DueOf, Paper!DueOf
<1>3. \A t \in Watch!Times : Watch!DayOf(t) \in Watch!Days
  <2> TAKE t \in Watch!Times
  <2>1. t \in Nat /\ t <= WatchEnd
    BY <1>0 DEF Watch!Times
  <2>2. Paper!DayOf(t) \in Nat /\ Paper!DayOf(WatchEnd) \in Nat /\ Paper!DayOf(t) <= Paper!DayOf(WatchEnd)
    BY <1>0, <2>1, PaperDays
  <2> QED BY <1>0, <1>1, <2>1, <2>2 DEF Watch!Days
<1>4. \A d \in Watch!Days : Watch!DueOf(d) \in Nat
  BY <1>2, PaperDays DEF Watch!Days
<1> QED BY <1>0, <1>3, <1>4 DEF Watch!Days, Watch!Times, Watch!NoDay

\* A watched run that is idle.
LEMMA WatchIdle == Watch!Idle \in Watch!OneRun /\ Ready(Watch!Idle)
<1>1. 0 \in Watch!Times /\ Watch!NoClaim \in Watch!Claim
  BY WatchBounds DEF Watch!NoClaim, Watch!Claim
<1> QED BY <1>1 DEF Watch!Idle, Watch!OneRun, Ready

\* What a watched run holds.
LEMMA WatchedRun ==
  ASSUME WatchedStore, NEW c \in WatchedRuns
  PROVE  /\ v8[c] \in Watch!OneRun /\ Ready(v8[c]) /\ v8[c].at \in Watch!Times /\ v8[c].at \in Nat
         /\ v8[c].todo \in SUBSET Watch!Days /\ v8[c].gaps \in SUBSET Watch!Days
         /\ v8[c].day \in Watch!Days \cup {Watch!NoDay} /\ v8[c].observed \in Watch!Times \cup {Watch!Never}
         /\ Watch!Today(c) \in Watch!Days /\ Watch!Today(c) \in Nat
<1>1. v8[c] \in Watch!OneRun /\ Ready(v8[c])
  BY DEF WatchedStore
<1>2. /\ v8[c].at \in Watch!Times /\ v8[c].todo \in SUBSET Watch!Days /\ v8[c].gaps \in SUBSET Watch!Days
      /\ v8[c].day \in Watch!Days \cup {Watch!NoDay} /\ v8[c].observed \in Watch!Times \cup {Watch!Never}
  BY <1>1 DEF Watch!OneRun
<1> QED BY <1>1, <1>2, WatchBounds DEF Watch!Today

\* A step of one watched run.
LEMMA WatchedMoves ==
  ASSUME WatchedStore, NEW c \in WatchedRuns, NEW r \in Watch!OneRun, Ready(r), v8' = [v8 EXCEPT ![c] = r],
         v1' = v1, v10' = v10, v2' \in [Watch!Days -> Watch!Times \cup {Watch!Never}],
         v4' \in Watch!Days \cup {Watch!NoDay}, v5' \subseteq Watch!Claim,
         v6' \subseteq Watch!Days, v7' \subseteq Watch!Days
  PROVE  WatchedStore'
<1>1. v8' \in [WatchedRuns -> Watch!OneRun] /\ \A b \in WatchedRuns : v8'[b] = IF b = c THEN r ELSE v8[b]
  BY DEF WatchedStore
<1>2. \A b \in WatchedRuns : Ready(v8'[b])
  BY <1>1 DEF WatchedStore
<1> QED BY <1>1, <1>2 DEF WatchedStore, Ready

\* A watched run that begins, with the days that are due.
LEMMA WatchedBegins ==
  ASSUME WatchedStore, NEW c \in WatchedRuns, Watch!Begin(c) PROVE WatchedStore'
<1>1. PICK due : due = {d \in Watch!Days : Watch!DueOf(d) <= v1}
  OBVIOUS
<1>2. PICK r : r = [Watch!Idle EXCEPT !.pc = "looking", !.at = v1, !.todo = due]
  OBVIOUS
<1>3. /\ v8' = [v8 EXCEPT ![c] = r] /\ v1' = v1 /\ v2' = v2 /\ v4' = v4 /\ v5' = v5
      /\ v6' = v6 /\ v7' = v7 /\ v10' = v10
  BY <1>1, <1>2 DEF Watch!Begin, Watch!store
<1>4. r = [pc |-> "looking", at |-> v1, todo |-> due, gaps |-> {}, claim |-> Watch!NoClaim,
           day |-> Watch!NoDay, observed |-> Watch!Never]
  BY <1>2 DEF Watch!Idle
<1>5. r \in Watch!OneRun
  <2>1. Watch!NoClaim \in Watch!Claim
    BY WatchBounds DEF Watch!NoClaim, Watch!Claim
  <2> QED BY <1>1, <1>4, <2>1 DEF Watch!OneRun, WatchedStore
<1>6. Ready(r)
  BY <1>1, <1>4 DEF Ready
<1> QED BY <1>3, <1>5, <1>6, WatchedMoves DEF WatchedStore

\* A watched run that looks at its first day.
LEMMA WatchedLooks ==
  ASSUME WatchedStore, NEW c \in WatchedRuns, Watch!Look(c) PROVE WatchedStore'
<1> DEFINE run == v8[c]
           d == Watch!First(run.todo)
<1>1. /\ v1' = v1 /\ v2' = v2 /\ v4' = v4 /\ v5' = v5 /\ v6' = v6 /\ v7' = v7 /\ v10' = v10
      /\ run.pc = "looking" /\ run.todo # {}
  BY DEF Watch!Look, Watch!store
<1>2. /\ run \in Watch!OneRun /\ Ready(run) /\ run.todo \in SUBSET Watch!Days /\ run.gaps \in SUBSET Watch!Days
  BY WatchedRun
<1>3. d \in run.todo /\ d \in Watch!Days
  <2>1. \E first \in run.todo : \A e \in run.todo : first <= e
    BY <1>1, <1>2, WatchBounds, Numbers!LeastNatural
  <2> QED BY <1>2, <2>1 DEF Watch!First
<1>4. PICK r : r = v8'[c]
  OBVIOUS
<1>5. \/ r = [run EXCEPT !.todo = run.todo \ {d}]
      \/ r = [run EXCEPT !.todo = run.todo \ {d}, !.pc = "marking", !.day = d]
      \/ r = [run EXCEPT !.todo = run.todo \ {d}, !.gaps = run.gaps \cup {d}]
  <2>1. v8 \in [WatchedRuns -> Watch!OneRun]
    BY DEF WatchedStore
  <2>2. v3[d] # "none" \/ (v3[d] = "none" /\ v2[d] # Watch!Never) \/ (v3[d] = "none" /\ v2[d] = Watch!Never)
    OBVIOUS
  <2> HIDE DEF d
  <2> QED BY <1>4, <2>1, <2>2 DEF Watch!Look, d
<1>6. v8' = [v8 EXCEPT ![c] = r]
  BY <1>4 DEF Watch!Look, WatchedStore
<1> HIDE DEF d
<1>7. /\ r \in Watch!OneRun /\ r.at = run.at /\ r.todo \cup r.gaps \subseteq run.todo \cup run.gaps
      /\ r.pc \in {"marking", "marked"} => r.day \in Watch!Days
  <2>1. run.todo \ {d} \in SUBSET Watch!Days /\ run.gaps \cup {d} \in SUBSET Watch!Days
    BY <1>2, <1>3
  <2>2. CASE r = [run EXCEPT !.todo = run.todo \ {d}]
    BY <1>1, <1>2, <2>1, <2>2 DEF Watch!OneRun
  <2>3. CASE r = [run EXCEPT !.todo = run.todo \ {d}, !.pc = "marking", !.day = d]
    BY <1>2, <1>3, <2>1, <2>3 DEF Watch!OneRun
  <2>4. CASE r = [run EXCEPT !.todo = run.todo \ {d}, !.gaps = run.gaps \cup {d}]
    BY <1>1, <1>2, <1>3, <2>1, <2>4 DEF Watch!OneRun
  <2> QED BY <1>5, <2>2, <2>3, <2>4
<1>8. Ready(r)
  BY <1>2, <1>7 DEF Ready
<1> QED BY <1>1, <1>6, <1>7, <1>8, WatchedMoves DEF WatchedStore

\* A watched run that rests, crashes, or completes the marker of its day.
LEMMA WatchedMarks ==
  ASSUME WatchedStore, NEW c \in WatchedRuns,
         Watch!Rest(c) \/ Watch!Crash(c) \/ Watch!MarkT0(c) \/ Watch!MarkDay(c)
  PROVE  WatchedStore'
<1> DEFINE run == v8[c]
<1>1. v1' = v1 /\ v2' = v2 /\ v5' = v5 /\ v6' = v6 /\ v7' = v7 /\ v10' = v10
  BY DEF Watch!Rest, Watch!Crash, Watch!MarkT0, Watch!MarkDay, Watch!store
<1>2. run \in Watch!OneRun /\ Ready(run) /\ v4 \in Watch!Days \cup {Watch!NoDay}
  BY WatchedRun DEF WatchedStore
<1>3. CASE Watch!Rest(c) \/ Watch!Crash(c)
  <2>1. v4' = v4 /\ v8' = [v8 EXCEPT ![c] = Watch!Idle]
    BY <1>3 DEF Watch!Rest, Watch!Crash, Watch!store
  <2> QED BY <1>1, <1>2, <2>1, WatchIdle, WatchedMoves DEF WatchedStore
<1>4. CASE Watch!MarkT0(c)
  <2>1. PICK r : r = [run EXCEPT !.pc = "marked"]
    OBVIOUS
  <2>2. run.pc = "marking" /\ v4' = (IF v4 = Watch!NoDay THEN run.day ELSE v4) /\ v8' = [v8 EXCEPT ![c] = r]
    BY <1>4, <2>1 DEF Watch!MarkT0, Watch!Named
  <2>3. run.day \in Watch!Days
    BY <1>2, <2>2 DEF Ready
  <2>4. r \in Watch!OneRun /\ r.at = run.at /\ r.todo = run.todo /\ r.gaps = run.gaps /\ r.day = run.day
    BY <1>2, <2>1 DEF Watch!OneRun
  <2>5. Ready(r)
    BY <1>2, <2>3, <2>4 DEF Ready
  <2> QED BY <1>1, <1>2, <2>2, <2>3, <2>4, <2>5, WatchedMoves DEF WatchedStore
<1>5. CASE Watch!MarkDay(c)
  <2>1. PICK r : r = IF run.claim = Watch!NoClaim THEN [run EXCEPT !.pc = "looking", !.day = Watch!NoDay] ELSE Watch!Idle
    OBVIOUS
  <2>2. v4' = v4 /\ v8' = [v8 EXCEPT ![c] = r]
    BY <1>5, <2>1 DEF Watch!MarkDay
  <2>3. CASE r = Watch!Idle
    BY <1>1, <1>2, <2>2, <2>3, WatchIdle, WatchedMoves DEF WatchedStore
  <2>4. CASE r = [run EXCEPT !.pc = "looking", !.day = Watch!NoDay]
    <3>1. r \in Watch!OneRun /\ r.at = run.at /\ r.todo = run.todo /\ r.gaps = run.gaps /\ r.pc = "looking"
      BY <1>2, <2>4 DEF Watch!OneRun
    <3>2. Ready(r)
      BY <1>2, <3>1 DEF Ready
    <3> QED BY <1>1, <1>2, <2>2, <3>1, <3>2, WatchedMoves DEF WatchedStore
  <2> QED BY <2>1, <2>3, <2>4
<1> QED BY <1>3, <1>4, <1>5

\* A watched run that claims an attempt, which is of the day and of the slots
\* since it was due, or a recovery.
LEMMA WatchedClaims ==
  ASSUME WatchedStore, NEW c \in WatchedRuns, Watch!Attempt(c) \/ Watch!Recover(c)
  PROVE  WatchedStore'
<1> DEFINE run == v8[c]
           day == Watch!Today(c)
<1>1. /\ run \in Watch!OneRun /\ Ready(run) /\ run.at \in Nat /\ run.gaps \in SUBSET Watch!Days
      /\ day \in Watch!Days /\ day \in Nat
  BY WatchedRun
<1>2. ASSUME NEW claim \in Watch!Claim, Watch!Take(c, claim), Watch!Looked(c), v7' \subseteq Watch!Days
      PROVE  WatchedStore'
  <2>1. PICK r : r = IF claim \notin v5 THEN [run EXCEPT !.pc = "fetching", !.claim = claim] ELSE Watch!Idle
    OBVIOUS
  <2>2. /\ v1' = v1 /\ v2' = v2 /\ v4' = v4 /\ v6' = v6 /\ v10' = v10 /\ v5' = v5 \cup {claim}
        /\ v8' = [v8 EXCEPT ![c] = r]
    BY <1>2, <2>1 DEF Watch!Take, Watch!Free
  <2>3. r \in Watch!OneRun /\ Ready(r)
    <3>1. CASE r = Watch!Idle
      BY <3>1, WatchIdle
    <3>2. CASE r = [run EXCEPT !.pc = "fetching", !.claim = claim]
      <4>1. r \in Watch!OneRun /\ r.at = run.at /\ r.todo = run.todo /\ r.gaps = run.gaps /\ r.pc = "fetching"
        BY <1>1, <3>2 DEF Watch!OneRun
      <4> QED BY <1>1, <4>1 DEF Ready
    <3> QED BY <2>1, <3>1, <3>2
  <2> QED BY <1>2, <2>2, <2>3, WatchedMoves DEF WatchedStore
<1>3. CASE Watch!Attempt(c)
  <2>1. day \in run.gaps
    BY <1>3 DEF Watch!Attempt, Watch!Ordinary
  <2>2. Watch!DueOf(day) <= run.at /\ Watch!DueOf(day) \in Nat
    BY <1>1, <2>1, WatchBounds DEF Ready
  <2>3. run.at - Watch!DueOf(day) \in Nat
    BY <1>1, <2>2
  <2>4. <<"attempt", day, run.at - Watch!DueOf(day)>> \in Watch!Claim
    BY <1>1, <2>3 DEF Watch!Claim
  <2> QED BY <1>2, <1>3, <2>4 DEF Watch!Attempt, WatchedStore
<1>4. CASE Watch!Recover(c)
  <2>1. v7' \subseteq Watch!Days
    BY <1>1, <1>4 DEF Watch!Recover, Watch!Older, WatchedStore
  <2>2. CASE Watch!Take(c, <<"recovery", Watch!UtcOf(run.at), 0>>)
    <3>1. Watch!UtcOf(run.at) \in Nat
      BY <1>1, PaperAssumption DEF Watch!UtcOf
    <3>2. <<"recovery", Watch!UtcOf(run.at), 0>> \in Watch!Claim
      BY <3>1 DEF Watch!Claim
    <3> QED BY <1>2, <1>4, <2>1, <2>2, <3>2 DEF Watch!Recover
  <2>3. CASE v8' = [v8 EXCEPT ![c] = Watch!Idle] /\ UNCHANGED <<v1, v2, v4, v5, v6, v10>>
    BY <2>1, <2>3, WatchIdle, WatchedMoves DEF WatchedStore
  <2> QED BY <1>4, <2>2, <2>3 DEF Watch!Recover
<1> QED BY <1>3, <1>4

\* A watched run that reads the account.
LEMMA WatchedReads ==
  ASSUME WatchedStore, NEW c \in WatchedRuns, Watch!Observe(c) \/ Watch!Refuse(c) \/ Watch!Fail(c)
  PROVE  WatchedStore'
<1> DEFINE run == v8[c]
<1>1. /\ v1' = v1 /\ v2' = v2 /\ v4' = v4 /\ v5' = v5 /\ v7' = v7 /\ v10' = v10
  BY DEF Watch!Observe, Watch!Refuse, Watch!Fail, Watch!Read
<1>2. run \in Watch!OneRun /\ Ready(run)
  BY WatchedRun
<1>3. v6' \subseteq Watch!Days
  BY WatchedRun DEF Watch!Observe, Watch!Refuse, Watch!Fail, WatchedStore
<1>4. CASE v8' = [v8 EXCEPT ![c] = Watch!Idle]
  BY <1>1, <1>3, <1>4, WatchIdle, WatchedMoves DEF WatchedStore
<1>5. CASE Watch!Observe(c)
  <2>1. PICK r : r = [run EXCEPT !.pc = "storing", !.observed = v1]
    OBVIOUS
  <2>2. v8' = [v8 EXCEPT ![c] = r]
    BY <1>5, <2>1 DEF Watch!Observe, WatchedStore
  <2>3. r \in Watch!OneRun /\ r.at = run.at /\ r.todo = run.todo /\ r.gaps = run.gaps /\ r.pc = "storing"
    BY <1>2, <2>1 DEF Watch!OneRun, WatchedStore
  <2>4. Ready(r)
    BY <1>2, <2>3 DEF Ready
  <2> QED BY <1>1, <1>3, <2>2, <2>3, <2>4, WatchedMoves DEF WatchedStore
<1> QED BY <1>4, <1>5 DEF Watch!Refuse, Watch!Fail

\* A watched run that stores what it observed.
LEMMA WatchedStores ==
  ASSUME WatchedStore, NEW c \in WatchedRuns, Watch!Store(c) PROVE WatchedStore'
<1> DEFINE run == v8[c]
           day == Watch!Today(c)
<1>1. /\ v1' = v1 /\ v4' = v4 /\ v5' = v5 /\ v6' = v6 /\ v7' = v7 /\ v10' = v10
  BY DEF Watch!Store
<1>2. run \in Watch!OneRun /\ Ready(run) /\ day \in Watch!Days /\ run.observed \in Watch!Times \cup {Watch!Never}
  BY WatchedRun
<1>3. CASE v2' = v2 /\ v8' = [v8 EXCEPT ![c] = Watch!Idle]
  BY <1>1, <1>3, WatchIdle, WatchedMoves DEF WatchedStore
<1>4. CASE /\ v2' = [v2 EXCEPT ![day] = Watch!Kept(day, run.observed)]
           /\ v8' = [v8 EXCEPT ![c].pc = "marking", ![c].day = day]
  <2>1. PICK r : r = [run EXCEPT !.pc = "marking", !.day = day]
    OBVIOUS
  <2>2. v8' = [v8 EXCEPT ![c] = r]
    BY <1>4, <2>1 DEF WatchedStore
  <2>3. r \in Watch!OneRun /\ r.at = run.at /\ r.todo = run.todo /\ r.gaps = run.gaps /\ r.day = day
    BY <1>2, <2>1 DEF Watch!OneRun
  <2>4. Ready(r)
    BY <1>2, <2>3 DEF Ready
  <2>5. v2' \in [Watch!Days -> Watch!Times \cup {Watch!Never}]
    BY <1>2, <1>4 DEF Watch!Kept, WatchedStore
  <2> QED BY <1>1, <2>2, <2>3, <2>4, <2>5, WatchedMoves DEF WatchedStore
<1> QED BY <1>3, <1>4 DEF Watch!Store

\* The clock and the watchdog leave what the runs store.
LEMMA WatchedAround ==
  ASSUME WatchedStore, \/ Watch!Tick \/ Watch!Acknowledge \/ UNCHANGED componentVars
                       \/ \E i \in Watch!Incident : Watch!Notify(i)
  PROVE  WatchedStore'
<1>1. v2' = v2 /\ v4' = v4 /\ v5' = v5 /\ v6' = v6 /\ v7' = v7 /\ v8' = v8
  BY DEF Watch!Tick, Watch!Acknowledge, Watch!Notify, Watch!store, componentVars, varsFrom3
<1>2. v1' \in Watch!Times /\ v10' \subseteq Watch!Days
  <2>1. CASE Watch!Tick
    <3>1. v1' = v1 + 1 /\ v1 < WatchEnd /\ v10' \subseteq Watch!Days
      BY <2>1 DEF Watch!Tick, WatchedStore
    <3> QED BY <3>1, PaperAssumption DEF Watch!Times, WatchedStore
  <2>2. CASE Watch!Acknowledge \/ UNCHANGED componentVars \/ (\E i \in Watch!Incident : Watch!Notify(i))
    BY <2>2 DEF Watch!Acknowledge, Watch!Notify, componentVars, varsFrom3, WatchedStore
  <2> QED BY <2>1, <2>2
<1> QED BY <1>1, <1>2 DEF WatchedStore, Ready

\* The watchdog keeps its type, and so do the runs it watches.
LEMMA WatchTyped == OperationsSpec => [](Is("watch") => Watch!TypeOK)
<1> DEFINE Inv == /\ Is("paper") => Paper!ObservationInv
                  /\ Is("watch") => Watch!WatchInv
           Held == Is("watch") => WatchedStore
<1>1. OperationsSpec => []Inv
  BY ObservationInvariant
<1>2. OperationsInit => Held
  <2> SUFFICES ASSUME Watch!Init PROVE WatchedStore
    BY WatchSteps
  <2>1. \A c \in WatchedRuns : v8[c] = Watch!Idle
    BY DEF Watch!Init
  <2>2. v8 \in [WatchedRuns -> Watch!OneRun] /\ \A c \in WatchedRuns : Ready(v8[c])
    BY <2>1, WatchIdle DEF Watch!Init
  <2> QED BY <2>2, WatchBounds DEF Watch!Init, WatchedStore
<1>3. Held /\ [OperationsNext]_operations => Held'
  <2> SUFFICES ASSUME Held, [OperationsNext]_operations, Is("watch")' PROVE WatchedStore'
    OBVIOUS
  <2>1. WatchedStore /\ [Watch!Next]_componentVars
    BY WatchSteps
  <2> QED BY <2>1, WatchedBegins, WatchedLooks, WatchedMarks, WatchedClaims, WatchedReads, WatchedStores,
          WatchedAround DEF Watch!Next
<1>4. Inv /\ Held => (Is("watch") => Watch!TypeOK)
  BY DEF Watch!WatchInv, WatchedStore, Watch!TypeOK
<1> QED BY <1>1, <1>2, <1>3, <1>4, PTL DEF OperationsSpec

\* Every component keeps its type, whichever runs and whatever the bounds: what
\* is stored, counted and remembered stays among the values it stands for.
THEOREM ComponentsTypedHolds == OperationsSpec => []ComponentsTyped
<1> DEFINE Trades == /\ TypeOK
                     /\ Is("order") => Order!TypeOK
                     /\ Is("candidate") => Candidate!TypeOK
                     /\ Is("commands") => Paperwork!TypeOK
           Reports == /\ Is("daily") => Daily!TypeOK
                      /\ Is("account") => Account!TypeOK
                      /\ Is("guard") => Guard!TypeOK
                      /\ Is("beat") => Beat!TypeOK
           Watches == /\ Is("cycles") => Cycles!TypeOK
                      /\ Is("watch") => Watch!TypeOK
           Others == /\ Is("control") => Control!TypeOK
                     /\ Is("incidents") => Incidents!TypeOK
                     /\ Is("paper") => Paper!TypeOK
                     /\ Is("secret") => Secret!TypeOK
<1>1. OperationsSpec => []Trades
  BY AlertsTyped, MonitorTyped, ApplicationTyped, PaperworkTyped, PTL
<1>2. OperationsSpec => []Reports
  BY ProjectionTyped, AccountTyped, RuntimeGuardTyped, HeartbeatIsTyped, PTL
<1>3. OperationsSpec => []Watches
  BY CyclesTyped, WatchTyped, PTL
<1>4. OperationsSpec => []Others
  BY TypedByInvariant, PTL
<1>5. Trades /\ Reports /\ Watches /\ Others => ComponentsTyped
  BY DEF ComponentsTyped
<1> HIDE DEF Trades, Reports, Watches, Others
<1> QED BY <1>1, <1>2, <1>3, <1>4, <1>5, PTL
=============================================================================
