---------------------------- MODULE BarTabProofs ----------------------------
(***************************************************************************)
(* Theorems about BarTab for every number of rounds, shares and requests   *)
(* at once, and what they and those of RetailOrderProofs say of the two    *)
(* together. MCSale names the tab's definitions with Bar!.                 *)
(***************************************************************************)
EXTENDS MCSale, RetailOrderProofs

\* Cardinality is that of each module's own library module.
LEMMA BarCardinality == \A S : Bar!Cardinality(S) = Cardinality(S)
BY DEF Bar!Cardinality, Cardinality

\* What a step of the ledger does to the pushes it moves.
LEMMA SharePushMove ==
  ASSUME tabState \in [Shares -> Bar!Pay!States], NEW S \in SUBSET Shares,
         NEW from \in Bar!Pay!States, NEW to \in Bar!Pay!States, Bar!Pay!Move(S, from, to)
  PROVE  /\ tabState' \in [Shares -> Bar!Pay!States]
         /\ tabTold' = tabTold
         /\ \A s \in Shares : tabState'[s] = IF s \in S THEN to ELSE tabState[s]
         /\ \A s \in S : tabState[s] = from
BY DEF Bar!Pay!Move

\* A share's push is opened, paid, closed or refunded.
LEMMA PaymentMove ==
  ASSUME Bar!TypeOK, NEW s \in Shares, Bar!Repush(s) \/ Bar!Payment(s)
  PROVE  /\ tabState' \in [Shares -> Bar!Pay!States]
         /\ tabTold' = tabTold
         /\ \A x \in Shares :
              tabState[x] \in {"paid", "refunded"} => tabState'[x] \in {"paid", "refunded"}
<1>1. PICK from, to \in Bar!Pay!States :
        /\ Bar!Pay!Move({s}, from, to)
        /\ from \in {"paid", "refunded"} => to \in {"paid", "refunded"}
  BY DEF Bar!Repush, Bar!Payment, Bar!Pay!Open, Bar!Pay!Settle, Bar!Pay!Close,
         Bar!Pay!Refund, Bar!Pay!States
<1>2. {s} \in SUBSET Shares /\ tabState \in [Shares -> Bar!Pay!States]
  BY DEF Bar!TypeOK
<1>3. /\ tabState' \in [Shares -> Bar!Pay!States]
      /\ tabTold' = tabTold
      /\ \A x \in Shares : tabState'[x] = IF x \in {s} THEN to ELSE tabState[x]
      /\ \A x \in {s} : tabState[x] = from
  BY <1>1, <1>2, SharePushMove
<1> QED
  BY <1>1, <1>3

-----------------------------------------------------------------------------
(* Types. A round number is one more than the number of those taken, which is  *)
(* a number because no round is added but by a step.                           *)

TInv == Bar!TypeOK /\ IsFiniteSet(numbered)

LEMMA TabTypeStep == TInv /\ [Bar!Next]_(Bar!vars) => TInv'
<1> SUFFICES ASSUME TInv, [Bar!Next]_(Bar!vars)
             PROVE  TInv'
  OBVIOUS
<1> USE DEF TInv, Bar!TypeOK, Bar!requestVars, Bar!receiverVars, Bar!ledgerVars
<1>1. ASSUME NEW q \in Requests, Bar!Request(q)
      PROVE  TInv'
  <2>1. CASE Bar!BeginRound(q) \/ Bar!BeginRemove(q) \/ Bar!BeginBill(q) \/ Bar!BeginSplit(q)
    BY <2>1 DEF Bar!BeginRound, Bar!BeginRemove, Bar!BeginBill, Bar!BeginSplit, Bar!Begin
  <2>2. CASE Bar!NumberRound(q)
    <3>1. Cardinality(numbered) + 1 \in Nat
      BY FS_CardinalityType
    <3> QED
      BY <2>2, <3>1, BarCardinality DEF Bar!NumberRound
  <2>3. CASE Bar!CommitBill(q)
    BY <2>3 DEF Bar!CommitBill, Bar!Committed, Bar!Statuses
  <2>4. CASE Bar!Leave(q)
    BY <2>4 DEF Bar!Leave
  <2>5. ASSUME NEW i \in Rounds, Bar!CommitRound(q, i)
        PROVE  TInv'
    <3>1. numbered' = numbered \cup {number[q]}
      BY <2>5 DEF Bar!CommitRound
    <3>2. IsFiniteSet(numbered') /\ numbered' \subseteq Nat
      BY <3>1, FS_AddElement
    <3> QED
      BY <2>5, <3>2 DEF Bar!CommitRound, Bar!Committed
  <2>6. ASSUME NEW i \in Rounds, Bar!CommitRemove(q, i)
        PROVE  TInv'
    BY <2>6 DEF Bar!CommitRemove, Bar!Committed
  <2>7. ASSUME NEW S \in SUBSET Shares, NEW F \in SUBSET S, Bar!CommitSplit(q, S, F)
        PROVE  TInv'
    <3>1. tabState' \in [Shares -> Bar!Pay!States] /\ tabTold' = tabTold
      <4>1. "absent" \in Bar!Pay!States /\ "open" \in Bar!Pay!States
        BY DEF Bar!Pay!States
      <4>2. Bar!Pay!Move(S \ F, "absent", "open")
        BY <2>7 DEF Bar!CommitSplit
      <4>3. S \ F \in SUBSET Shares
        OBVIOUS
      <4> QED
        BY <4>1, <4>2, <4>3, SharePushMove
    <3>2. share' \in [Shares -> {"none", "PENDING", "PAID", "FAILED"}]
      BY <2>7 DEF Bar!CommitSplit
    <3> QED
      BY <2>7, <3>1, <3>2 DEF Bar!CommitSplit, Bar!Committed
  <2> QED
    BY <1>1, <2>1, <2>2, <2>3, <2>4, <2>5, <2>6, <2>7 DEF Bar!Request
<1>2. ASSUME NEW s \in Shares, Bar!Share(s)
      PROVE  TInv'
  <2>1. CASE Bar!Repush(s) \/ Bar!Payment(s)
    <3>1. tabState' \in [Shares -> Bar!Pay!States] /\ tabTold' = tabTold
      BY <2>1, PaymentMove
    <3> QED
      BY <2>1, <3>1 DEF Bar!Repush, Bar!Payment
  <2>2. CASE Bar!Receive(s)
    BY <2>2 DEF Bar!Receive, Bar!Pay!Tell
  <2>3. CASE Bar!MarkPaid(s) \/ Bar!CheckUnpaid(s) \/ Bar!LoseReceiver(s)
    BY <2>3 DEF Bar!MarkPaid, Bar!CheckUnpaid, Bar!LoseReceiver
  <2>4. CASE Bar!SettleTab(s)
    BY <2>4 DEF Bar!SettleTab, Bar!Statuses
  <2> QED
    BY <1>2, <2>1, <2>2, <2>3, <2>4 DEF Bar!Share, Bar!Receiver
<1>3. CASE UNCHANGED Bar!vars
  BY <1>3 DEF Bar!vars
<1> QED
  BY <1>1, <1>2, <1>3 DEF Bar!Next

-----------------------------------------------------------------------------
(* Payment. A receiver is at work on a share only when it was told of its      *)
(* payment, and it looks at the tab only after it has marked the share.        *)

ShareWasPaid == \A s \in tabTold : tabState[s] \in {"paid", "refunded"}
ReceiverWasTold == \A s \in Shares : receiver[s] # "idle" => s \in tabTold
MarkedIsPaid ==
  \A s \in Shares : receiver[s] \in {"marked", "settling"} => share[s] = "PAID"

PaidInv == ShareWasPaid /\ ReceiverWasTold /\ MarkedIsPaid /\ Bar!SettledWasPaid

LEMMA PaidStep == Bar!TypeOK /\ Bar!TypeOK' /\ PaidInv /\ [Bar!Next]_(Bar!vars) => PaidInv'
<1> SUFFICES ASSUME Bar!TypeOK, Bar!TypeOK', PaidInv, [Bar!Next]_(Bar!vars)
             PROVE  PaidInv'
  OBVIOUS
<1> USE DEF PaidInv, ShareWasPaid, ReceiverWasTold, MarkedIsPaid, Bar!SettledWasPaid
<1> USE DEF Bar!requestVars, Bar!receiverVars, Bar!ledgerVars
\* A step that no payment, share or receiver is part of.
<1>1. ASSUME UNCHANGED <<share, receiver, Bar!ledgerVars>>, tab' = "SETTLED" => tab = "SETTLED"
      PROVE  PaidInv'
  BY <1>1 DEF Bar!TypeOK
<1>2. ASSUME NEW q \in Requests, Bar!Request(q)
      PROVE  PaidInv'
  <2>1. ASSUME NEW S \in SUBSET Shares, NEW F \in SUBSET S, Bar!CommitSplit(q, S, F)
        PROVE  PaidInv'
    <3>1. /\ tabTold' = tabTold
          /\ \A s \in Shares :
               tabState[s] \in {"paid", "refunded"} => tabState'[s] \in {"paid", "refunded"}
      <4>1. "absent" \in Bar!Pay!States /\ "open" \in Bar!Pay!States
        BY DEF Bar!Pay!States
      <4>2. Bar!Pay!Move(S \ F, "absent", "open") /\ S \ F \in SUBSET Shares
        BY <2>1 DEF Bar!CommitSplit
      <4>3. tabState \in [Shares -> Bar!Pay!States]
        BY DEF Bar!TypeOK
      <4>4. /\ tabTold' = tabTold
            /\ \A s \in Shares : tabState'[s] = IF s \in S \ F THEN "open" ELSE tabState[s]
            /\ \A s \in S \ F : tabState[s] = "absent"
        BY <4>1, <4>2, <4>3, SharePushMove
      <4> QED
        BY <4>4
    <3>2. UNCHANGED <<tab, receiver>>
      BY <2>1 DEF Bar!CommitSplit
    <3>3. \A s \in Shares : share'[s] = "PAID" <=> share[s] = "PAID"
      BY <2>1 DEF Bar!CommitSplit
    <3> QED
      BY <3>1, <3>2, <3>3 DEF Bar!TypeOK
  <2>2. CASE ~\E S \in SUBSET Shares : \E F \in SUBSET S : Bar!CommitSplit(q, S, F)
    <3>1. UNCHANGED <<share, receiver, Bar!ledgerVars>>
      BY <1>2, <2>2 DEF Bar!Request, Bar!BeginRound, Bar!BeginRemove, Bar!BeginBill,
                        Bar!BeginSplit, Bar!Begin, Bar!NumberRound, Bar!CommitBill,
                        Bar!Leave, Bar!CommitRound, Bar!CommitRemove
    <3>2. tab' = "SETTLED" => tab = "SETTLED"
      BY <1>2, <2>2 DEF Bar!Request, Bar!BeginRound, Bar!BeginRemove, Bar!BeginBill,
                        Bar!BeginSplit, Bar!Begin, Bar!NumberRound, Bar!CommitBill,
                        Bar!Leave, Bar!CommitRound, Bar!CommitRemove
    <3> QED
      BY <1>1, <3>1, <3>2
  <2> QED
    BY <2>1, <2>2
<1>3. ASSUME NEW s \in Shares, Bar!Share(s)
      PROVE  PaidInv'
  <2>1. CASE Bar!Repush(s) \/ Bar!Payment(s)
    <3>1. UNCHANGED <<tab, share, receiver>>
      BY <2>1 DEF Bar!Repush, Bar!Payment
    <3>2. /\ tabTold' = tabTold
          /\ \A x \in Shares :
               tabState[x] \in {"paid", "refunded"} => tabState'[x] \in {"paid", "refunded"}
      BY <2>1, PaymentMove
    <3> QED
      BY <3>1, <3>2 DEF Bar!TypeOK
  <2>2. CASE Bar!Receive(s)
    <3>1. /\ tabTold' = tabTold \cup {s} /\ UNCHANGED <<tab, share, tabState>>
          /\ s \notin tabTold /\ tabState[s] \in {"paid", "refunded"}
      BY <2>2 DEF Bar!Receive, Bar!Pay!Tell
    <3>2. \A x \in Shares : receiver'[x] \in {receiver[x], "read"}
      BY <2>2 DEF Bar!Receive, Bar!TypeOK
    <3>3. \A x \in Shares : receiver'[x] # receiver[x] => x = s
      BY <2>2 DEF Bar!Receive, Bar!TypeOK
    <3> QED
      BY <3>1, <3>2, <3>3 DEF Bar!TypeOK
  <2>3. CASE Bar!MarkPaid(s)
    <3>1. tabState[s] \in {"paid", "refunded"} /\ s \in tabTold
      BY <2>3 DEF Bar!MarkPaid
    <3>2. UNCHANGED <<tab, Bar!ledgerVars>>
      BY <2>3 DEF Bar!MarkPaid
    <3>3. /\ \A x \in Shares : share'[x] = IF x = s THEN "PAID" ELSE share[x]
          /\ \A x \in Shares : receiver'[x] = IF x = s THEN "marked" ELSE receiver[x]
      BY <2>3 DEF Bar!MarkPaid, Bar!TypeOK
    <3> QED
      BY <3>1, <3>2, <3>3 DEF Bar!TypeOK
  <2>4. CASE Bar!CheckUnpaid(s)
    BY <2>4 DEF Bar!CheckUnpaid, Bar!TypeOK
  <2>5. CASE Bar!SettleTab(s)
    <3>1. share[s] = "PAID"
      BY <2>5 DEF Bar!SettleTab
    <3> QED
      BY <2>5, <3>1 DEF Bar!SettleTab, Bar!TypeOK
  <2>6. CASE Bar!LoseReceiver(s)
    BY <2>6 DEF Bar!LoseReceiver, Bar!TypeOK
  <2> QED
    BY <1>3, <2>1, <2>2, <2>3, <2>4, <2>5, <2>6 DEF Bar!Share, Bar!Receiver
<1>4. CASE UNCHANGED Bar!vars
  BY <1>1, <1>4 DEF Bar!vars
<1> QED
  BY <1>2, <1>3, <1>4 DEF Bar!Next

-----------------------------------------------------------------------------
(* Round numbers. A request that has computed one holds at most the next: the  *)
(* numbers taken since are all below it, or its own is among them.             *)

NumberIsNext == \A q \in Requests : number[q] <= Cardinality(numbered) + 1

NumberInv == Bar!RoundsInSequence /\ NumberIsNext

LEMMA NumberStep == TInv /\ NumberInv /\ [Bar!Next]_(Bar!vars) => NumberInv'
<1> SUFFICES ASSUME TInv, NumberInv, [Bar!Next]_(Bar!vars)
             PROVE  NumberInv'
  OBVIOUS
<1> USE BarCardinality DEF NumberInv, NumberIsNext, Bar!RoundsInSequence, Bar!requestVars
<1> DEFINE n == Cardinality(numbered)
<1>0. /\ n \in Nat /\ numbered = 1..n
      /\ number \in [Requests -> Nat] /\ \A q \in Requests : number[q] <= n + 1
  BY FS_CardinalityType DEF TInv, Bar!TypeOK
\* A step that takes no number, and gives a request at most the next one.
<1>1. ASSUME numbered' = numbered,
             \A q \in Requests : number'[q] \in {number[q], 0, n + 1}
      PROVE  NumberInv'
  BY <1>0, <1>1
<1>2. ASSUME NEW q \in Requests, Bar!Request(q)
      PROVE  NumberInv'
  <2>1. ASSUME NEW i \in Rounds, Bar!CommitRound(q, i)
        PROVE  NumberInv'
    <3>1. /\ number[q] # 0 /\ number[q] \notin numbered
          /\ numbered' = numbered \cup {number[q]}
          /\ number' = [number EXCEPT ![q] = 0]
      BY <2>1 DEF Bar!CommitRound, Bar!Committed
    <3>2. number[q] = n + 1
      BY <1>0, <3>1
    <3>3. numbered' = 1..(n + 1)
      BY <1>0, <3>1, <3>2
    <3>4. Cardinality(numbered') = n + 1
      <4>1. \A k \in Nat : Cardinality(1..k) = k
        BY FS_Interval
      <4> QED
        BY <1>0, <3>3, <4>1
    <3>5. \A p \in Requests : number'[p] <= n + 2
      BY <1>0, <3>1
    <3> QED
      BY <1>0, <3>3, <3>4, <3>5
  <2>2. CASE Bar!NumberRound(q)
    BY <1>0, <1>1, <2>2, BarCardinality DEF Bar!NumberRound
  <2>3. CASE ~(Bar!NumberRound(q) \/ \E i \in Rounds : Bar!CommitRound(q, i))
    <3>1. numbered' = numbered
      BY <1>2, <2>3 DEF Bar!Request, Bar!BeginRound, Bar!BeginRemove, Bar!BeginBill,
                        Bar!BeginSplit, Bar!Begin, Bar!CommitBill, Bar!Leave,
                        Bar!CommitRemove, Bar!CommitSplit
    <3>2. number' = number \/ number' = [number EXCEPT ![q] = 0]
      BY <1>2, <2>3 DEF Bar!Request, Bar!BeginRound, Bar!BeginRemove, Bar!BeginBill,
                        Bar!BeginSplit, Bar!Begin, Bar!CommitBill, Bar!Leave,
                        Bar!CommitRemove, Bar!CommitSplit, Bar!Committed
    <3> QED
      BY <1>0, <1>1, <3>1, <3>2
  <2> QED
    BY <2>1, <2>2, <2>3
<1>3. ASSUME NEW s \in Shares, Bar!Share(s)
      PROVE  NumberInv'
  <2>1. UNCHANGED Bar!requestVars
    BY <1>3 DEF Bar!Share, Bar!Receiver, Bar!Repush, Bar!Payment, Bar!Receive, Bar!MarkPaid,
                Bar!CheckUnpaid, Bar!SettleTab, Bar!LoseReceiver
  <2> QED
    BY <1>1, <2>1
<1>4. CASE UNCHANGED Bar!vars
  BY <1>1, <1>4 DEF Bar!vars
<1> QED
  BY <1>2, <1>3, <1>4 DEF Bar!Next

-----------------------------------------------------------------------------
(* The status of the tab. It never is open again, so that a receiver which     *)
(* read it after the bill was requested is not mistaken.                       *)

SeenIsPast ==
  \A s \in Shares : seen[s] \in {"BILL_REQUESTED", "SETTLED"} => tab # "OPEN"

LEMMA SeenStep == Bar!TypeOK /\ SeenIsPast /\ [Bar!Next]_(Bar!vars) => SeenIsPast'
<1> SUFFICES ASSUME Bar!TypeOK, SeenIsPast, [Bar!Next]_(Bar!vars)
             PROVE  SeenIsPast'
  OBVIOUS
<1> USE DEF SeenIsPast, Bar!receiverVars
<1>1. ASSUME NEW q \in Requests, Bar!Request(q)
      PROVE  SeenIsPast'
  <2>1. UNCHANGED seen /\ tab' \in {tab, "BILL_REQUESTED"}
    BY <1>1 DEF Bar!Request, Bar!BeginRound, Bar!BeginRemove, Bar!BeginBill, Bar!BeginSplit,
                Bar!Begin, Bar!NumberRound, Bar!CommitBill, Bar!Leave, Bar!CommitRound,
                Bar!CommitRemove, Bar!CommitSplit
  <2> QED
    BY <2>1
<1>2. ASSUME NEW s \in Shares, Bar!Share(s)
      PROVE  SeenIsPast'
  <2>1. CASE Bar!Receive(s)
    BY <2>1 DEF Bar!Receive, Bar!TypeOK
  <2>2. CASE ~Bar!Receive(s)
    <3>1. UNCHANGED seen /\ tab' \in {tab, "SETTLED"}
      BY <1>2, <2>2 DEF Bar!Share, Bar!Receiver, Bar!Repush, Bar!Payment, Bar!MarkPaid,
                        Bar!CheckUnpaid, Bar!SettleTab, Bar!LoseReceiver
    <3> QED
      BY <3>1
  <2> QED
    BY <2>1, <2>2
<1>3. CASE UNCHANGED Bar!vars
  BY <1>3 DEF Bar!vars
<1> QED
  BY <1>1, <1>2, <1>3 DEF Bar!Next

-----------------------------------------------------------------------------
(* Late rounds. While the tab is open there are none. The request for the bill *)
(* leaves at most the other requests with a round in hand, and none begins a   *)
(* round after it, so each late round takes one of them away.                  *)

Late == {i \in Rounds : item[i] = "late"}
Rounding == {q \in Requests : doing[q] = "round"}

LateInv == IsFiniteSet(Late) /\ (tab = "OPEN" => Late = {}) /\ Bar!LateRounds

LEMMA LateFacts ==
  ASSUME LateInv, Bar!TypeOK
  PROVE  /\ IsFiniteSet(Rounding) /\ Cardinality(Rounding) \in Nat
         /\ Cardinality(Late) \in Nat /\ Cardinality(Requests) \in Nat
         /\ Cardinality(Requests) > 0
         /\ tab # "OPEN" => Cardinality(Late) + Cardinality(Rounding) < Cardinality(Requests)
<1>1. IsFiniteSet(Rounding) /\ IsFiniteSet(Requests) /\ IsFiniteSet(Late)
  BY TabAssumption, FS_Subset DEF Rounding, LateInv
<1>2. Cardinality(Requests) # 0
  BY <1>1, TabAssumption, FS_EmptySet
<1> QED
  BY <1>1, <1>2, FS_CardinalityType, BarCardinality DEF LateInv, Bar!LateRounds, Late, Rounding

\* A step that adds no late round, and lets no request begin one but while the
\* tab is open.
LEMMA NoLaterRound ==
  ASSUME Bar!TypeOK, LateInv, tab' = "OPEN" <=> tab = "OPEN",
         Late' \subseteq Late, tab # "OPEN" => Rounding' \subseteq Rounding
  PROVE  LateInv'
<1>1. IsFiniteSet(Late') /\ Cardinality(Late') <= Cardinality(Late)
      /\ Cardinality(Late') \in Nat
  BY FS_Subset, FS_CardinalityType DEF LateInv
<1>2. CASE tab = "OPEN"
  <2>1. Late' = {} /\ Cardinality(Late') = 0
    BY <1>2, FS_EmptySet DEF LateInv
  <2> QED
    BY <1>1, <1>2, <2>1, LateFacts, TabAssumption, BarCardinality DEF LateInv,
                                                                      Bar!LateRounds, Late
<1>3. CASE tab # "OPEN"
  <2>1. Cardinality(Rounding') \in Nat /\ Cardinality(Rounding') <= Cardinality(Rounding)
    BY <1>3, LateFacts, FS_Subset, FS_CardinalityType
  <2>2. Cardinality(Late') + Cardinality(Rounding') < Cardinality(Requests)
    BY <1>1, <1>3, <2>1, LateFacts
  <2> QED
    BY <1>1, <1>3, <2>2, BarCardinality DEF LateInv, Bar!LateRounds, Late, Rounding
<1> QED
  BY <1>2, <1>3

LEMMA LateStep == Bar!TypeOK /\ SeenIsPast /\ LateInv /\ [Bar!Next]_(Bar!vars) => LateInv'
<1> SUFFICES ASSUME Bar!TypeOK, SeenIsPast, LateInv, [Bar!Next]_(Bar!vars)
             PROVE  LateInv'
  OBVIOUS
<1>1. ASSUME NEW q \in Requests, Bar!CommitBill(q)
      PROVE  LateInv'
  <2>1. /\ doing[q] = "bill" /\ tab' = "BILL_REQUESTED" /\ item' = item
        /\ doing' = [doing EXCEPT ![q] = "nothing"]
    BY <1>1 DEF Bar!CommitBill, Bar!Committed
  <2>2. Late' = Late /\ Rounding' = Rounding /\ Rounding \subseteq Requests \ {q}
    BY <2>1 DEF Bar!TypeOK, Late, Rounding
  <2>3. CASE tab = "OPEN"
    <3>1. Late' = {} /\ Cardinality(Late') = 0 /\ IsFiniteSet(Late')
      BY <2>2, <2>3, FS_EmptySet DEF LateInv
    <3>2. /\ Cardinality(Requests \ {q}) = Cardinality(Requests) - 1
          /\ IsFiniteSet(Requests \ {q})
      BY TabAssumption, FS_RemoveElement
    <3>3. Cardinality(Rounding') <= Cardinality(Requests) - 1
      BY <2>2, <3>2, FS_Subset
    <3>4. Cardinality(Late') + Cardinality(Rounding') < Cardinality(Requests)
      BY <2>2, <3>1, <3>3, LateFacts
    <3> QED
      BY <2>1, <3>1, <3>4, BarCardinality DEF LateInv, Bar!LateRounds, Late, Rounding
  <2>4. CASE tab # "OPEN"
    BY <2>1, <2>2, <2>4, NoLaterRound
  <2> QED
    BY <2>3, <2>4
<1>2. ASSUME NEW q \in Requests, NEW i \in Rounds, Bar!CommitRound(q, i)
      PROVE  LateInv'
  <2>1. /\ doing[q] = "round" /\ item[i] = "none" /\ tab' = tab
        /\ item' = [item EXCEPT ![i] = IF tab = "OPEN" THEN "on" ELSE "late"]
        /\ doing' = [doing EXCEPT ![q] = "nothing"]
    BY <1>2 DEF Bar!CommitRound, Bar!Committed
  <2>2. CASE tab = "OPEN"
    <3>1. Late' = Late
      BY <2>1, <2>2 DEF Bar!TypeOK, Late
    <3> QED
      BY <2>1, <2>2, <3>1, NoLaterRound
  <2>3. CASE tab # "OPEN"
    <3>1. Late' = Late \cup {i} /\ i \notin Late
      BY <2>1, <2>3 DEF Bar!TypeOK, Late
    <3>2. Rounding' = Rounding \ {q} /\ q \in Rounding
      BY <2>1 DEF Bar!TypeOK, Rounding
    <3>3. IsFiniteSet(Late') /\ Cardinality(Late') = Cardinality(Late) + 1
      BY <3>1, FS_AddElement DEF LateInv
    <3>4. Cardinality(Rounding') = Cardinality(Rounding) - 1
      BY <3>2, LateFacts, FS_RemoveElement
    <3>5. Cardinality(Late') + Cardinality(Rounding') < Cardinality(Requests)
      BY <2>3, <3>3, <3>4, LateFacts
    <3> QED
      BY <2>1, <2>3, <3>3, <3>5, BarCardinality DEF LateInv, Bar!LateRounds, Late, Rounding
  <2> QED
    BY <2>2, <2>3
<1>3. ASSUME NEW q \in Requests, Bar!Request(q),
             ~Bar!CommitBill(q), ~\E i \in Rounds : Bar!CommitRound(q, i)
      PROVE  LateInv'
  <2>1. tab' = tab
    BY <1>3 DEF Bar!Request, Bar!BeginRound, Bar!BeginRemove, Bar!BeginBill, Bar!BeginSplit,
                Bar!Begin, Bar!NumberRound, Bar!Leave, Bar!CommitRemove, Bar!CommitSplit
  <2>2. item' = item \/ \E i \in Rounds : item' = [item EXCEPT ![i] = "removed"]
    BY <1>3 DEF Bar!Request, Bar!BeginRound, Bar!BeginRemove, Bar!BeginBill, Bar!BeginSplit,
                Bar!Begin, Bar!NumberRound, Bar!Leave, Bar!CommitRemove, Bar!CommitSplit
  <2>3. Late' \subseteq Late
    BY <2>2 DEF Bar!TypeOK, Late
  <2>4. \/ tab = "OPEN"
        \/ doing' = doing
        \/ \E what \in {"split", "nothing"} : doing' = [doing EXCEPT ![q] = what]
    BY <1>3 DEF Bar!Request, Bar!BeginRound, Bar!BeginRemove, Bar!BeginBill, Bar!BeginSplit,
                Bar!Begin, Bar!NumberRound, Bar!Leave, Bar!CommitRemove, Bar!CommitSplit,
                Bar!Committed
  <2>5. tab # "OPEN" => Rounding' \subseteq Rounding
    BY <2>4 DEF Bar!TypeOK, Rounding
  <2> QED
    BY <2>1, <2>3, <2>5, NoLaterRound
<1>4. ASSUME UNCHANGED <<item, doing>>, tab' = "OPEN" <=> tab = "OPEN"
      PROVE  LateInv'
  <2>1. Late' = Late /\ Rounding' = Rounding
    BY <1>4 DEF Late, Rounding
  <2> QED
    BY <1>4, <2>1, NoLaterRound
<1>5. ASSUME NEW s \in Shares, Bar!Share(s)
      PROVE  LateInv'
  <2>1. UNCHANGED <<item, doing>>
    BY <1>5 DEF Bar!Share, Bar!Receiver, Bar!Repush, Bar!Payment, Bar!Receive, Bar!MarkPaid,
                Bar!CheckUnpaid, Bar!SettleTab, Bar!LoseReceiver, Bar!requestVars
  <2>2. tab' = tab \/ (tab # "OPEN" /\ tab' = "SETTLED")
    <3>1. CASE Bar!SettleTab(s)
      BY <3>1 DEF Bar!SettleTab, Bar!Allowed, SeenIsPast
    <3>2. CASE ~Bar!SettleTab(s)
      BY <1>5, <3>2 DEF Bar!Share, Bar!Receiver, Bar!Repush, Bar!Payment, Bar!Receive,
                        Bar!MarkPaid, Bar!CheckUnpaid, Bar!LoseReceiver
    <3> QED
      BY <3>1, <3>2
  <2> QED
    BY <1>4, <2>1, <2>2
<1>6. CASE UNCHANGED Bar!vars
  BY <1>4, <1>6 DEF Bar!vars, Bar!requestVars
<1> QED
  BY <1>1, <1>2, <1>3, <1>5, <1>6 DEF Bar!Next

-----------------------------------------------------------------------------
(* A settled tab that is taken back. While the tab is open it never was. The   *)
(* first request for the bill leaves at most the other requests with one in    *)
(* hand, none begins one after it, and each of them takes the tab back once.   *)

Billing == {q \in Requests : doing[q] = "bill"}

BillInv == (tab = "OPEN" => unsettled = 0) /\ Bar!UnsettledBound

LEMMA BillFacts ==
  ASSUME BillInv, Bar!TypeOK
  PROVE  /\ IsFiniteSet(Billing) /\ Cardinality(Billing) \in Nat
         /\ unsettled \in Nat /\ Cardinality(Requests) \in Nat
         /\ Cardinality(Requests) > 0
         /\ tab # "OPEN" => unsettled + Cardinality(Billing) < Cardinality(Requests)
<1>1. IsFiniteSet(Billing) /\ IsFiniteSet(Requests)
  BY TabAssumption, FS_Subset DEF Billing
<1>2. Cardinality(Requests) # 0
  BY <1>1, TabAssumption, FS_EmptySet
<1> QED
  BY <1>1, <1>2, FS_CardinalityType, BarCardinality DEF BillInv, Bar!UnsettledBound,
                                                        Billing, Bar!TypeOK

\* A step that takes no settled tab back, and lets no request for the bill begin but
\* while the tab is open.
LEMMA NoLaterBill ==
  ASSUME Bar!TypeOK, BillInv, tab' = "OPEN" <=> tab = "OPEN", unsettled' = unsettled,
         tab # "OPEN" => Billing' \subseteq Billing
  PROVE  BillInv'
<1>1. CASE tab = "OPEN"
  BY <1>1, BillFacts, BarCardinality DEF BillInv, Bar!UnsettledBound
<1>2. CASE tab # "OPEN"
  <2>1. Cardinality(Billing') \in Nat /\ Cardinality(Billing') <= Cardinality(Billing)
    BY <1>2, BillFacts, FS_Subset, FS_CardinalityType
  <2>2. unsettled' + Cardinality(Billing') < Cardinality(Requests)
    BY <1>2, <2>1, BillFacts
  <2> QED
    BY <1>2, <2>2, BarCardinality DEF BillInv, Bar!UnsettledBound, Billing
<1> QED
  BY <1>1, <1>2

LEMMA BillStep == Bar!TypeOK /\ SeenIsPast /\ BillInv /\ [Bar!Next]_(Bar!vars) => BillInv'
<1> SUFFICES ASSUME Bar!TypeOK, SeenIsPast, BillInv, [Bar!Next]_(Bar!vars)
             PROVE  BillInv'
  OBVIOUS
<1>1. ASSUME NEW q \in Requests, Bar!CommitBill(q)
      PROVE  BillInv'
  <2>1. /\ doing[q] = "bill" /\ tab' = "BILL_REQUESTED"
        /\ doing' = [doing EXCEPT ![q] = "nothing"]
        /\ unsettled' = unsettled + (IF tab = "SETTLED" THEN 1 ELSE 0)
    BY <1>1 DEF Bar!CommitBill, Bar!Committed
  <2>2. Billing' = Billing \ {q} /\ q \in Billing
    BY <2>1 DEF Bar!TypeOK, Billing
  <2>3. CASE tab = "OPEN"
    <3>1. unsettled' = 0
      BY <2>1, <2>3 DEF BillInv
    <3>2. /\ Cardinality(Requests \ {q}) = Cardinality(Requests) - 1
          /\ IsFiniteSet(Requests \ {q})
      BY TabAssumption, FS_RemoveElement
    <3>3. Billing' \subseteq Requests \ {q}
      BY <2>2 DEF Billing
    <3>4. Cardinality(Billing') <= Cardinality(Requests) - 1 /\ Cardinality(Billing') \in Nat
      BY <3>2, <3>3, FS_Subset, FS_CardinalityType
    <3>5. unsettled' + Cardinality(Billing') < Cardinality(Requests)
      BY <3>1, <3>4, BillFacts
    <3> QED
      BY <2>1, <3>5, BarCardinality DEF BillInv, Bar!UnsettledBound, Billing
  <2>4. CASE tab # "OPEN"
    <3>1. Cardinality(Billing') = Cardinality(Billing) - 1
      BY <2>2, BillFacts, FS_RemoveElement
    <3>2. unsettled' + Cardinality(Billing') < Cardinality(Requests)
      BY <2>1, <2>4, <3>1, BillFacts
    <3> QED
      BY <2>1, <3>2, BarCardinality DEF BillInv, Bar!UnsettledBound, Billing
  <2> QED
    BY <2>3, <2>4
<1>2. ASSUME NEW q \in Requests, Bar!Request(q), ~Bar!CommitBill(q)
      PROVE  BillInv'
  <2>1. tab' = tab /\ unsettled' = unsettled
    BY <1>2 DEF Bar!Request, Bar!BeginRound, Bar!BeginRemove, Bar!BeginBill, Bar!BeginSplit,
                Bar!Begin, Bar!NumberRound, Bar!Leave, Bar!CommitRound, Bar!CommitRemove,
                Bar!CommitSplit
  <2>2. \/ tab = "OPEN"
        \/ doing' = doing
        \/ \E what \in {"split", "nothing"} : doing' = [doing EXCEPT ![q] = what]
    BY <1>2 DEF Bar!Request, Bar!BeginRound, Bar!BeginRemove, Bar!BeginBill, Bar!BeginSplit,
                Bar!Begin, Bar!NumberRound, Bar!Leave, Bar!CommitRound, Bar!CommitRemove,
                Bar!CommitSplit, Bar!Committed
  <2>3. tab # "OPEN" => Billing' \subseteq Billing
    BY <2>2 DEF Bar!TypeOK, Billing
  <2> QED
    BY <2>1, <2>3, NoLaterBill
<1>3. ASSUME UNCHANGED <<unsettled, doing>>, tab' = "OPEN" <=> tab = "OPEN"
      PROVE  BillInv'
  <2>1. Billing' = Billing
    BY <1>3 DEF Billing
  <2> QED
    BY <1>3, <2>1, NoLaterBill
<1>4. ASSUME NEW s \in Shares, Bar!Share(s)
      PROVE  BillInv'
  <2>1. UNCHANGED <<unsettled, doing>>
    BY <1>4 DEF Bar!Share, Bar!Receiver, Bar!Repush, Bar!Payment, Bar!Receive, Bar!MarkPaid,
                Bar!CheckUnpaid, Bar!SettleTab, Bar!LoseReceiver, Bar!requestVars
  <2>2. tab' = tab \/ (tab # "OPEN" /\ tab' = "SETTLED")
    <3>1. CASE Bar!SettleTab(s)
      BY <3>1 DEF Bar!SettleTab, Bar!Allowed, SeenIsPast
    <3>2. CASE ~Bar!SettleTab(s)
      BY <1>4, <3>2 DEF Bar!Share, Bar!Receiver, Bar!Repush, Bar!Payment, Bar!Receive,
                        Bar!MarkPaid, Bar!CheckUnpaid, Bar!LoseReceiver
    <3> QED
      BY <3>1, <3>2
  <2> QED
    BY <1>3, <2>1, <2>2
<1>5. CASE UNCHANGED Bar!vars
  BY <1>3, <1>5 DEF Bar!vars, Bar!requestVars
<1> QED
  BY <1>1, <1>2, <1>4, <1>5 DEF Bar!Next

-----------------------------------------------------------------------------
TabInv == TInv /\ PaidInv /\ NumberInv /\ SeenIsPast /\ LateInv /\ BillInv

LEMMA TabInductive == Bar!Spec => []TabInv
<1>1. Bar!Init => TabInv
  <2> SUFFICES ASSUME Bar!Init PROVE TabInv
    OBVIOUS
  <2> USE DEF Bar!Init, Bar!Pay!Init
  <2>1. TInv
    BY FS_EmptySet DEF TInv, Bar!TypeOK, Bar!Statuses, Bar!Pay!States
  <2>2. PaidInv
    BY DEF PaidInv, ShareWasPaid, ReceiverWasTold, MarkedIsPaid, Bar!SettledWasPaid
  <2>3. NumberInv
    <3>1. Cardinality(numbered) = 0 /\ numbered = 1..0
      BY FS_EmptySet
    <3> QED
      BY <3>1, BarCardinality DEF NumberInv, Bar!RoundsInSequence, NumberIsNext
  <2>4. SeenIsPast
    BY DEF SeenIsPast
  <2>5. LateInv
    <3>1. Late = {} /\ IsFiniteSet(Late) /\ Cardinality(Late) = 0
      <4>1. Late = {}
        BY DEF Late
      <4> QED
        BY <4>1, FS_EmptySet
    <3>2. Cardinality(Requests) \in Nat /\ Cardinality(Requests) # 0
      BY TabAssumption, FS_CardinalityType, FS_EmptySet
    <3> QED
      BY <3>1, <3>2, BarCardinality DEF LateInv, Bar!LateRounds, Late
  <2>6. BillInv
    <3>1. Cardinality(Requests) \in Nat /\ Cardinality(Requests) # 0
      BY TabAssumption, FS_CardinalityType, FS_EmptySet
    <3> QED
      BY <3>1, BarCardinality DEF BillInv, Bar!UnsettledBound
  <2> QED
    BY <2>1, <2>2, <2>3, <2>4, <2>5, <2>6 DEF TabInv
<1>2. TabInv /\ [Bar!Next]_(Bar!vars) => TabInv'
  BY TabTypeStep, PaidStep, NumberStep, SeenStep, LateStep, BillStep DEF TabInv, TInv
<1> QED
  BY <1>1, <1>2, PTL DEF Bar!Spec

-----------------------------------------------------------------------------
\* A settled tab has a share that was paid, and no share is marked as paid but
\* for a payment that was made, whichever receivers overlap.
THEOREM SettlementWasPaid == Bar!Spec => []SettledWasPaid
<1>1. TabInv => SettledWasPaid
  BY DEF TabInv, PaidInv, SettledWasPaid
<1> QED
  BY <1>1, TabInductive, PTL

\* Rounds are numbered from 1 without a gap, for any number of overlapping
\* requests: the unique constraint refuses the duplicates.
THEOREM RoundsAreInSequence == Bar!Spec => []RoundsInSequence
<1>1. TabInv => RoundsInSequence
  BY DEF TabInv, NumberInv, RoundsInSequence
<1> QED
  BY <1>1, TabInductive, PTL

\* Fewer rounds slip in after the request for the bill than there are requests
\* at once.
THEOREM LateRoundsAreBounded == Bar!Spec => []LateRounds
<1>1. TabInv => LateRounds
  BY DEF TabInv, LateInv, LateRounds
<1> QED
  BY <1>1, TabInductive, PTL

\* A settled tab is taken back fewer times than there are requests at once.
THEOREM UnsettlingIsBounded == Bar!Spec => []UnsettledBound
<1>1. TabInv => UnsettledBound
  BY DEF TabInv, BillInv, UnsettledBound
<1> QED
  BY <1>1, TabInductive, PTL

-----------------------------------------------------------------------------
(* Both sales together: whichever moves, it makes its own steps and the other   *)
(* one none.                                                                    *)

LEMMA SaleIsItsParts == SaleSpec => Spec /\ Bar!Spec
<1>1. SaleInit => Init /\ Bar!Init
  BY DEF SaleInit
<1>2. [SaleNext]_<<part, vars, tabVars>> => [Next]_vars /\ [Bar!Next]_(Bar!vars)
  BY DEF SaleNext, tabVars, Bar!vars, Bar!requestVars, Bar!receiverVars, Bar!ledgerVars
<1> QED
  BY <1>1, <1>2, PTL DEF SaleSpec, Spec, Bar!Spec

\* The states of both are of their types: a tab takes no status but those of
\* Tab.VALID_TRANSITIONS, and no checkout updates more rows than it has.
THEOREM SaleTypes == SaleSpec => []SaleTypeOK
<1>1. IInv /\ TabInv => SaleTypeOK
  BY DEF IInv, TabInv, TInv, SaleTypeOK
<1> QED
  BY <1>1, Inductive, TabInductive, SaleIsItsParts, PTL
=============================================================================
