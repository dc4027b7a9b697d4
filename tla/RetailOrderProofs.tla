-------------------------- MODULE RetailOrderProofs --------------------------
(***************************************************************************)
(* Theorems about RetailOrder for every set of carts, pushes and staff,    *)
(* and every number of requests served at once.                            *)
(***************************************************************************)
EXTENDS RetailOrder, SumLemmas, SequenceTheorems

LEMMA RowsType ==
  ASSUME NEW o \in Orders
  PROVE  Rows(o) \in Seq(Variants \cup {Coupon}) /\ Len(Rows(o)) \in Nat
<1>1. Cart[o] \in Seq(Variants \cup {Coupon})
  <2>1. Cart[o] \in Seq(Variants)
    BY CheckoutAssumption
  <2> QED
    BY <2>1
<1>2. <<Coupon>> \in Seq(Variants \cup {Coupon})
  OBVIOUS
<1>3. <<Coupon>> \o Cart[o] \in Seq(Variants \cup {Coupon})
  BY <1>1, <1>2, ConcatProperties
<1>4. Rows(o) \in Seq(Variants \cup {Coupon})
  BY <1>1, <1>3 DEF Rows
<1> QED
  BY <1>4

LEMMA DemandType ==
  ASSUME NEW o \in Orders, NEW v \in Variants
  PROVE  Demand(o, v) \in Nat
<1>1. IsFiniteSet(DOMAIN Cart[o])
  <2>1. Cart[o] \in Seq(Variants)
    BY CheckoutAssumption
  <2>2. DOMAIN Cart[o] = 1..Len(Cart[o]) /\ Len(Cart[o]) \in Nat
    BY <2>1
  <2> QED
    BY <2>2, FS_Interval
<1>2. Cardinality(LinesOf(o, v)) \in Nat
  <2>1. IsFiniteSet(LinesOf(o, v))
    BY <1>1, FS_Subset DEF LinesOf
  <2> QED
    BY <2>1, FS_CardinalityType
<1> QED
  BY <1>2, CheckoutAssumption DEF Demand

\* What a step of the ledger does to a push.
LEMMA PushMove ==
  ASSUME state \in [Pushes -> Pay!States], NEW p \in Pushes,
         NEW from \in Pay!States, NEW to \in Pay!States, Pay!Move({p}, from, to)
  PROVE  /\ state' \in [Pushes -> Pay!States]
         /\ told' = told
         /\ \A q \in Pushes : state'[q] = IF q = p THEN to ELSE state[q]
         /\ state[p] = from
BY DEF Pay!Move

-----------------------------------------------------------------------------
(* The inductive invariant. A receiver may rely on the order being there       *)
(* because the push and the order commit together (PushHasOrder), and on the   *)
(* payment having been made because only paid pushes are announced.            *)

ToldWasPaid == \A p \in told : state[p] \in {"paid", "refunded"}

PushHasOrder == \A p \in Pushes : state[p] # "absent" => order[p[1]] # "none"

\* An order exists once its checkout has committed, and the staff only handle
\* orders that exist.
OrderIsCommitted ==
  /\ \A o \in Orders : order[o] # "none" => phase[o] = "done"
  /\ \A s \in Staff : \A o \in deciding[s] : order[o] # "none"

IInv ==
  /\ TypeOK
  /\ OrderIsCommitted
  /\ ToldWasPaid
  /\ handling \subseteq told
  /\ PushHasOrder
  /\ AnnouncedIsConfirmed
  /\ ConfirmedHasCause
  /\ CouponBound

\* A step of one request changes the requests in flight by that one at most.
LEMMA CouponStep ==
  ASSUME TypeOK, CouponBound, used' \in Nat, NEW o \in Orders,
         \A p \in Orders \ {o} : phase'[p] = phase[p],
         \/ /\ phase[o] # "writing" /\ phase'[o] = "writing" /\ used' = used
            /\ Cardinality(InFlight) < Workers
            /\ o \in WithCoupon => used < MaxUses
         \/ /\ phase[o] = "writing" /\ phase'[o] # "writing"
            /\ used' = used + (IF o \in WithCoupon THEN 1 ELSE 0)
         \/ phase'[o] # "writing" /\ used' = used
  PROVE  CouponBound'
<1> DEFINE A == InFlight \cap WithCoupon
           B == InFlight' \cap WithCoupon
<1>1. IsFiniteSet(InFlight) /\ IsFiniteSet(A) /\ IsFiniteSet(B)
  BY CheckoutAssumption, FS_Subset DEF InFlight
<1>2. Cardinality(A) \in Nat /\ Cardinality(B) \in Nat /\ Cardinality(InFlight) \in Nat
  BY <1>1, FS_CardinalityType
<1>3. Cardinality(A) <= Cardinality(InFlight)
  BY <1>1, FS_Subset
<1>4. used + Cardinality(A) <= MaxUses + Workers - 1
  BY DEF CouponBound
<1>5. used \in Nat /\ MaxUses \in Nat /\ Workers \in Nat
  BY CheckoutAssumption DEF TypeOK
<1>6. CASE /\ phase[o] # "writing" /\ phase'[o] = "writing" /\ used' = used
           /\ Cardinality(InFlight) < Workers
           /\ o \in WithCoupon => used < MaxUses
  <2>1. CASE o \in WithCoupon
    <3>1. B = A \cup {o} /\ o \notin A
      BY <1>6, <2>1 DEF InFlight
    <3>2. Cardinality(B) = Cardinality(A) + 1
      BY <1>1, <3>1, FS_AddElement
    <3> QED
      BY <1>2, <1>3, <1>5, <1>6, <2>1, <3>2 DEF CouponBound
  <2>2. CASE o \notin WithCoupon
    <3>1. B = A
      BY <1>6, <2>2 DEF InFlight
    <3> QED
      BY <1>4, <1>6, <3>1 DEF CouponBound
  <2> QED
    BY <2>1, <2>2
<1>7. CASE /\ phase[o] = "writing" /\ phase'[o] # "writing"
           /\ used' = used + (IF o \in WithCoupon THEN 1 ELSE 0)
  <2>1. CASE o \in WithCoupon
    <3>1. B = A \ {o} /\ o \in A
      BY <1>7, <2>1 DEF InFlight
    <3>2. Cardinality(B) = Cardinality(A) - 1
      BY <1>1, <3>1, FS_RemoveElement
    <3> QED
      BY <1>2, <1>4, <1>5, <1>7, <2>1, <3>2 DEF CouponBound
  <2>2. CASE o \notin WithCoupon
    <3>1. B = A
      BY <1>7, <2>2 DEF InFlight
    <3> QED
      BY <1>4, <1>5, <1>7, <2>2, <3>1 DEF CouponBound
  <2> QED
    BY <2>1, <2>2
<1>8. CASE phase'[o] # "writing" /\ used' = used
  <2>1. B \subseteq A
    BY <1>8 DEF InFlight
  <2>2. Cardinality(B) <= Cardinality(A)
    BY <1>1, <2>1, FS_Subset
  <2> QED
    BY <1>2, <1>4, <1>5, <1>8, <2>2 DEF CouponBound
<1> QED
  BY <1>6, <1>7, <1>8

-----------------------------------------------------------------------------
(* The stock. A request validates with fewer than Workers others in flight, none *)
(* of which takes more than the greatest demand there is; whatever it validated   *)
(* against, the stock it leaves is short by no more than what they take.          *)

Demands(v) == [o \in Orders |-> Demand(o, v)]
Most(v)    == Max({Demand(o, v) : o \in Orders})
Taken(v)   == SumFunctionOnSet(Demands(v), InFlight)
Slack(v)   == stock[v] - Taken(v) + (Workers - 1) * Most(v)

LEMMA MostFacts ==
  ASSUME NEW v \in Variants
  PROVE  Most(v) \in Nat /\ \A o \in Orders : Demand(o, v) <= Most(v)
<1> DEFINE S == {Demand(o, v) : o \in Orders}
<1>1. IsFiniteSet(S)
  <2> DEFINE f == [o \in Orders |-> Demand(o, v)]
  <2>1. f \in Surjection(Orders, S)
    BY DEF Surjection
  <2> QED
    BY <2>1, CheckoutAssumption, FS_Surjection
<1>2. S \in SUBSET Nat /\ S # {}
  BY CheckoutAssumption, DemandType
<1>3. \E x \in S : \A y \in S : x >= y
  BY <1>1, <1>2, GreatestExists
<1>4. Max(S) \in S /\ \A y \in S : Max(S) >= y
  BY <1>3 DEF Max
<1>5. Most(v) = Max(S)
  BY DEF Most
<1>6. \A o \in Orders : Demand(o, v) \in S
  OBVIOUS
<1> HIDE DEF S
<1> QED
  BY <1>2, <1>4, <1>5, <1>6

LEMMA TakenFacts ==
  ASSUME NEW v \in Variants, NEW A \in SUBSET Orders
  PROVE  /\ IsFiniteSet(A) /\ Ints(Demands(v), A)
         /\ SumFunctionOnSet(Demands(v), A) \in Nat
         /\ SumFunctionOnSet(Demands(v), A) <= Cardinality(A) * Most(v)
         /\ \A o \in A : SumFunctionOnSet(Demands(v), A)
                           = Demand(o, v) + SumFunctionOnSet(Demands(v), A \ {o})
<1>1. IsFiniteSet(A)
  BY CheckoutAssumption, FS_Subset
<1>2. \A o \in A : Demands(v)[o] = Demand(o, v) /\ Demand(o, v) \in Nat
  BY DemandType DEF Demands
<1>3. Ints(Demands(v), A)
  BY <1>2 DEF Ints
<1>4. SumFunctionOnSet(Demands(v), A) \in Nat
  BY <1>1, <1>2, <1>3, SumType
<1>5. SumFunctionOnSet(Demands(v), A) <= Cardinality(A) * Most(v)
  BY <1>1, <1>2, <1>3, MostFacts, SumBound
<1>6. \A o \in A : SumFunctionOnSet(Demands(v), A)
                     = Demand(o, v) + SumFunctionOnSet(Demands(v), A \ {o})
  BY <1>1, <1>2, <1>3, SumOfOne
<1> QED
  BY <1>1, <1>3, <1>4, <1>5, <1>6

\* Every variant has slack left exactly when it is not oversold beyond the bound.
LEMMA OversellIsSlack ==
  ASSUME TypeOK
  PROVE  OversellBound <=> \A v \in Variants : Slack(v) >= 0
<1>1. \A v \in Variants : /\ stock[v] \in Int /\ Taken(v) \in Int
                          /\ (Workers - 1) * Most(v) \in Int
  <2> TAKE v \in Variants
  <2>1. InFlight \in SUBSET Orders
    BY DEF InFlight
  <2> QED
    BY <2>1, TakenFacts, MostFacts, CheckoutAssumption DEF TypeOK, Taken
<1>2. OversellBound <=> \A v \in Variants : stock[v] - Taken(v) >= -((Workers - 1) * Most(v))
  BY DEF OversellBound, Taken, Demands, Most
<1> QED
  BY <1>1, <1>2 DEF Slack

\* A step of one request changes what is taken by what that one demands at most.
LEMMA OversellStep ==
  ASSUME TypeOK, TypeOK', OversellBound, NEW o \in Orders,
         \A p \in Orders \ {o} : phase'[p] = phase[p],
         \/ /\ phase[o] # "writing" /\ phase'[o] = "writing" /\ stock' = stock
            /\ Cardinality(InFlight) < Workers
            /\ \A v \in Variants : Demand(o, v) > 0 => stock[v] >= Demand(o, v)
         \/ /\ phase[o] = "writing" /\ phase'[o] # "writing"
            /\ stock' = [v \in Variants |-> stock[v] - Demand(o, v)]
         \/ phase'[o] # "writing" /\ stock' = stock
  PROVE  OversellBound'
<1>s. \A v \in Variants : Demands(v)' = Demands(v) /\ Most(v)' = Most(v)
  BY DEF Demands, Most, Demand, LinesOf
<1>t. \A v \in Variants :
        /\ Taken(v)' = SumFunctionOnSet(Demands(v), InFlight')
        /\ Slack(v)' = stock'[v] - Taken(v)' + (Workers - 1) * Most(v)
  BY <1>s DEF Taken, Slack
<1> SUFFICES ASSUME NEW v \in Variants
             PROVE  Slack(v)' >= 0
  <2>1. \A v \in Variants : /\ stock'[v] \in Int /\ Taken(v)' \in Int
                            /\ (Workers - 1) * Most(v) \in Int
    <3> TAKE v \in Variants
    <3>1. InFlight' \in SUBSET Orders
      BY DEF InFlight
    <3> QED
      BY <1>t, <3>1, TakenFacts, MostFacts, CheckoutAssumption DEF TypeOK
  <2>2. OversellBound' <=> \A v \in Variants : stock'[v] - Taken(v)' >= -((Workers - 1) * Most(v)')
    BY DEF OversellBound, Taken, Demands, Most
  <2> QED
    BY <1>s, <1>t, <2>1, <2>2
<1> DEFINE A == InFlight
           B == InFlight'
           F(S) == SumFunctionOnSet(Demands(v), S)
           d == Demand(o, v)
           m == Most(v)
           w == Workers - 1
           n == Cardinality(A)
<1>1. A \in SUBSET Orders /\ B \in SUBSET Orders
  BY DEF InFlight
<1>2. F(A) \in Nat /\ F(B) \in Nat /\ d \in Nat /\ m \in Nat /\ w \in Nat /\ n \in Nat
  BY <1>1, TakenFacts, DemandType, MostFacts, CheckoutAssumption, FS_CardinalityType
<1>3. F(A) <= n * m
  BY <1>1, TakenFacts
<1>4. stock[v] \in Int /\ stock'[v] \in Int
  BY DEF TypeOK
<1>5. Slack(v) = stock[v] - F(A) + w * m /\ Slack(v)' = stock'[v] - F(B) + w * m
  BY <1>t DEF Slack, Taken
<1>6. Slack(v) >= 0
  BY OversellIsSlack
<1>7. n <= w => n * m <= w * m
  <2>1. \A i, j, k \in Nat : i <= j => i * k <= j * k
    OBVIOUS
  <2> QED
    BY <1>2, <2>1
<1>8. n * m \in Nat /\ w * m \in Nat
  BY <1>2
<1>a. CASE /\ phase[o] # "writing" /\ phase'[o] = "writing" /\ stock' = stock
           /\ Cardinality(InFlight) < Workers
           /\ d > 0 => stock[v] >= d
  <2>1. o \in B /\ B \ {o} = A
    BY <1>a DEF InFlight
  <2>2. F(B) = d + F(A)
    BY <1>1, <2>1, TakenFacts
  <2>3. n <= w
    BY <1>2, <1>a, CheckoutAssumption
  <2> HIDE DEF F, d, m, n, w
  <2> QED
    BY <1>2, <1>3, <1>4, <1>5, <1>6, <1>7, <1>8, <1>a, <2>2, <2>3
<1>b. CASE /\ phase[o] = "writing" /\ phase'[o] # "writing"
           /\ stock' = [x \in Variants |-> stock[x] - Demand(o, x)]
  <2>1. o \in A /\ A \ {o} = B
    BY <1>b DEF InFlight
  <2>2. F(A) = d + F(B)
    BY <1>1, <2>1, TakenFacts
  <2>3. stock'[v] = stock[v] - d
    BY <1>b
  <2> HIDE DEF F, d, m, n, w
  <2> QED
    BY <1>2, <1>4, <1>5, <1>6, <1>8, <2>2, <2>3
<1>c. CASE phase'[o] # "writing" /\ stock' = stock
  <2>1. B = A \/ (o \in A /\ B = A \ {o})
    BY <1>c DEF InFlight
  <2>2. F(B) = F(A) \/ F(A) = d + F(B)
    BY <1>1, <2>1, TakenFacts
  <2> HIDE DEF F, d, m, n, w
  <2> QED
    BY <1>2, <1>4, <1>5, <1>6, <1>8, <1>c, <2>2
<1> QED
  BY <1>a, <1>b, <1>c

-----------------------------------------------------------------------------
LEMMA TypeStep == TypeOK /\ [Next]_vars => TypeOK'
<1> SUFFICES ASSUME TypeOK, [Next]_vars
             PROVE  TypeOK'
  OBVIOUS
<1> USE DEF TypeOK, checkoutVars, orderVars, ledgerVars
<1>1. ASSUME NEW o \in Orders, Checkout(o)
      PROVE  TypeOK'
  <2> Len(Rows(o)) \in Nat
    BY RowsType
  <2>1. CASE Validate(o)
    BY <2>1 DEF Validate
  <2>2. CASE Refuse(o)
    BY <2>2 DEF Refuse
  <2>3. CASE UpdateRow(o)
    BY <2>3 DEF UpdateRow, Finished
  <2>4. CASE Commit(o)
    <3>1. stock' \in [Variants -> Int] /\ used' \in Nat
      BY <2>4, DemandType DEF Commit
    <3>2. state' \in [Pushes -> Pay!States] /\ told' \subseteq Pushes
      <4>1. CASE Pay!Open(<<o, 1>>)
        <5>1. "absent" \in Pay!States /\ "open" \in Pay!States
          BY DEF Pay!States
        <5>2. <<o, 1>> \in Pushes
          BY CheckoutAssumption
        <5> QED
          BY <4>1, <5>1, <5>2, PushMove DEF Pay!Open
      <4> QED
        BY <2>4, <4>1 DEF Commit
    <3> QED
      BY <2>4, <3>1, <3>2 DEF Commit
  <2>5. CASE Crash(o) \/ BreakDeadlock(o)
    <3>1. /\ phase' = [phase EXCEPT ![o] = "aborted"]
          /\ written' = [written EXCEPT ![o] = 0]
          /\ UNCHANGED <<stock, used, orderVars, ledgerVars>>
      BY <2>5 DEF Crash, BreakDeadlock, RollBack
    <3> QED
      BY <3>1
  <2> QED
    BY <1>1, <2>1, <2>2, <2>3, <2>4, <2>5 DEF Checkout
<1>2. ASSUME NEW p \in Pushes, Push(p)
      PROVE  TypeOK'
  <2>0. p[1] \in Orders
    BY CheckoutAssumption
  <2>1. CASE Retry(p)
    <3>1. "absent" \in Pay!States /\ "open" \in Pay!States
      BY DEF Pay!States
    <3>2. state' \in [Pushes -> Pay!States] /\ told' = told
      BY <2>1, <3>1, PushMove DEF Retry, Pay!Open
    <3> QED
      BY <2>1, <3>2 DEF Retry
  <2>2. CASE Payment(p)
    <3>1. PICK from, to \in Pay!States \ {"absent"} : Pay!Move({p}, from, to)
      BY <2>2 DEF Payment, Pay!Settle, Pay!Close, Pay!Refund, Pay!States
    <3>2. state' \in [Pushes -> Pay!States] /\ told' = told
      BY <3>1, PushMove
    <3> QED
      BY <2>2, <3>2 DEF Payment
  <2>3. CASE Receive(p)
    BY <2>3 DEF Receive, Pay!Tell
  <2>4. CASE ConfirmPaid(p)
    BY <2>0, <2>4 DEF ConfirmPaid
  <2>5. CASE LoseReceiver(p)
    BY <2>5 DEF LoseReceiver
  <2> QED
    BY <1>2, <2>1, <2>2, <2>3, <2>4, <2>5 DEF Push
<1>3. ASSUME NEW s \in Staff, StaffSave(s)
      PROVE  TypeOK'
  BY <1>3 DEF StaffSave
<1>4. ASSUME NEW s \in Staff, NEW o \in Orders, StaffRead(s, o)
      PROVE  TypeOK'
  BY <1>4 DEF StaffRead
<1>5. CASE UNCHANGED vars
  BY <1>5 DEF vars
<1> QED
  BY <1>1, <1>2, <1>3, <1>4, <1>5 DEF Next

LEMMA InvStep == IInv /\ [Next]_vars => IInv'
<1> SUFFICES ASSUME IInv, [Next]_vars
             PROVE  IInv'
  OBVIOUS
<1> TypeOK /\ TypeOK'
  BY TypeStep DEF IInv
<1> USE DEF IInv, checkoutVars, orderVars, ledgerVars
<1>1. ASSUME NEW o \in Orders, Checkout(o)
      PROVE  IInv'
  <2>1. CASE Validate(o) \/ Refuse(o) \/ UpdateRow(o) \/ Crash(o) \/ BreakDeadlock(o)
    <3>1. UNCHANGED <<orderVars, ledgerVars, used>>
      BY <2>1 DEF Validate, Refuse, UpdateRow, Crash, BreakDeadlock, RollBack
    <3>2. CouponBound'
      <4>1. \A p \in Orders \ {o} : phase'[p] = phase[p]
        BY <2>1 DEF TypeOK, Validate, Refuse, UpdateRow, Crash, BreakDeadlock, RollBack
      <4>2. CASE Validate(o)
        <5>1. /\ phase[o] # "writing" /\ phase'[o] = "writing" /\ used' = used
              /\ Cardinality(InFlight) < Workers
              /\ o \in WithCoupon => used < MaxUses
          BY <4>2 DEF TypeOK, Validate, Sellable
        <5> QED
          BY <4>1, <5>1, CouponStep DEF TypeOK
      <4>3. CASE UpdateRow(o)
        BY <4>3 DEF UpdateRow, CouponBound, InFlight
      <4>4. CASE Refuse(o) \/ Crash(o) \/ BreakDeadlock(o)
        <5>1. phase'[o] # "writing" /\ used' = used
          BY <4>4 DEF TypeOK, Refuse, Crash, BreakDeadlock, RollBack
        <5> QED
          BY <4>1, <5>1, CouponStep DEF TypeOK
      <4> QED
        BY <2>1, <4>2, <4>3, <4>4
    <3>3. phase[o] # "done"
      BY <2>1 DEF Validate, Refuse, UpdateRow, Crash, BreakDeadlock, Deadlocked, InFlight
    <3>4. OrderIsCommitted'
      BY <2>1, <3>1, <3>3 DEF OrderIsCommitted, TypeOK, Validate, Refuse, UpdateRow,
                              Crash, BreakDeadlock, RollBack
    <3> QED
      BY <3>1, <3>2, <3>4
         DEF ToldWasPaid, PushHasOrder, AnnouncedIsConfirmed, ConfirmedHasCause
  <2>2. CASE Commit(o)
    <3>1. CouponBound'
      <4>1. \A p \in Orders \ {o} : phase'[p] = phase[p]
        BY <2>2 DEF TypeOK, Commit
      <4>2. /\ phase[o] = "writing" /\ phase'[o] # "writing"
            /\ used' = used + (IF o \in WithCoupon THEN 1 ELSE 0)
        BY <2>2 DEF TypeOK, Commit
      <4> QED
        BY <4>1, <4>2, CouponStep DEF TypeOK
    <3>2. \A p \in Pushes :
            \/ state'[p] = state[p]
            \/ p[1] = o /\ state[p] = "absent" /\ state'[p] = "open"
      <4>1. CASE Pay!Open(<<o, 1>>)
        <5>1. "absent" \in Pay!States /\ "open" \in Pay!States
          BY DEF Pay!States
        <5>2. <<o, 1>> \in Pushes
          BY CheckoutAssumption
        <5>3. /\ \A p \in Pushes : state'[p] = IF p = <<o, 1>> THEN "open" ELSE state[p]
              /\ state[<<o, 1>>] = "absent"
          BY <4>1, <5>1, <5>2, PushMove DEF Pay!Open, TypeOK
        <5> QED
          BY <5>3
      <4> QED
        BY <2>2, <4>1 DEF Commit
    <3>3. told' = told
      BY <2>2 DEF Commit, Pay!Open, Pay!Move
    <3>4. /\ order[o] = "none" /\ order'[o] = "pending"
          /\ \A x \in Orders \ {o} : order'[x] = order[x]
          /\ UNCHANGED <<handling, lost, byStaff, deciding>>
      BY <2>2 DEF TypeOK, Commit, OrderIsCommitted
    <3>5. OrderIsCommitted' /\ PushHasOrder'
      BY <2>2, <3>2, <3>4, CheckoutAssumption
         DEF TypeOK, Commit, OrderIsCommitted, PushHasOrder
    <3>6. \A p \in Pushes : state[p] \in {"paid", "refunded"} => state'[p] = state[p]
      BY <3>2
    <3>7. ToldWasPaid'
      BY <3>3, <3>6 DEF TypeOK, ToldWasPaid
    <3>8. AnnouncedIsConfirmed'
      <4>1. \A p \in told : p \in Pushes /\ p[1] \in Orders
        BY CheckoutAssumption DEF TypeOK
      <4>2. \A p \in told : order'[p[1]] = order[p[1]]
        BY <3>4, <4>1 DEF ToldWasPaid, PushHasOrder
      <4> QED
        BY <3>3, <3>4, <4>2 DEF AnnouncedIsConfirmed
    <3>9. ConfirmedHasCause'
      BY <3>4, <3>6 DEF ConfirmedHasCause
    <3> QED
      BY <3>1, <3>3, <3>4, <3>5, <3>7, <3>8, <3>9
  <2> QED
    BY <1>1, <2>1, <2>2 DEF Checkout
<1>2. ASSUME NEW p \in Pushes, Push(p)
      PROVE  IInv'
  <2>0. p[1] \in Orders
    BY CheckoutAssumption
  <2>1. UNCHANGED <<phase, used, deciding, byStaff>>
    BY <1>2 DEF Push, Retry, Payment, Receive, ConfirmPaid, LoseReceiver
  <2>2. CouponBound'
    BY <2>1 DEF CouponBound, InFlight
  <2>3. CASE Retry(p) \/ Payment(p)
    <3>1. PICK from, to \in Pay!States :
            /\ Pay!Move({p}, from, to)
            /\ \/ from = "absent" /\ to = "open" /\ order[p[1]] # "none"
               \/ from = "open" /\ to \in {"paid", "closed"}
               \/ from = "paid" /\ to = "refunded"
      BY <2>3 DEF Retry, Payment, Pay!Open, Pay!Settle, Pay!Close, Pay!Refund, Pay!States
    <3>2. /\ told' = told
          /\ \A q \in Pushes : state'[q] = IF q = p THEN to ELSE state[q]
          /\ state[p] = from
      BY <3>1, PushMove DEF TypeOK
    <3>3. UNCHANGED orderVars
      BY <2>3 DEF Retry, Payment
    <3>4. OrderIsCommitted' /\ AnnouncedIsConfirmed'
      BY <2>1, <3>2, <3>3 DEF OrderIsCommitted, AnnouncedIsConfirmed
    <3>5. \A q \in Pushes :
            state[q] \in {"paid", "refunded"} => state'[q] \in {"paid", "refunded"}
      BY <3>1, <3>2
    <3>6. ToldWasPaid'
      BY <3>2, <3>5 DEF TypeOK, ToldWasPaid
    <3>7. PushHasOrder'
      BY <3>1, <3>2, <3>3 DEF PushHasOrder
    <3>8. ConfirmedHasCause'
      BY <3>3, <3>5 DEF ConfirmedHasCause
    <3> QED
      BY <2>2, <3>2, <3>3, <3>4, <3>6, <3>7, <3>8
  <2>4. CASE Receive(p)
    <3>1. /\ told' = told \cup {p} /\ state' = state
          /\ state[p] \in {"paid", "refunded"}
      BY <2>4 DEF Receive, Pay!Tell
    <3>2. order[p[1]] \in {"pending", "confirmed"}
      BY <2>0, <3>1 DEF PushHasOrder, TypeOK
    <3> QED
      BY <2>0, <2>1, <2>2, <2>4, <3>1, <3>2
         DEF Receive, OrderIsCommitted, ToldWasPaid, PushHasOrder,
             AnnouncedIsConfirmed, ConfirmedHasCause
  <2>5. CASE ConfirmPaid(p)
    <3>1. state[p] \in {"paid", "refunded"} /\ order[p[1]] # "none"
      BY <2>5 DEF ConfirmPaid, ToldWasPaid, PushHasOrder, TypeOK
    <3>2. UNCHANGED <<state, told, lost>> /\ handling' = handling \ {p}
      BY <2>5 DEF ConfirmPaid
    <3>3. \A o \in Orders : order'[o] = IF o = p[1] THEN "confirmed" ELSE order[o]
      BY <2>5 DEF ConfirmPaid, TypeOK
    <3> QED
      BY <2>0, <2>1, <2>2, <3>1, <3>2, <3>3, CheckoutAssumption
         DEF TypeOK, OrderIsCommitted, ToldWasPaid, PushHasOrder,
             AnnouncedIsConfirmed, ConfirmedHasCause
  <2>6. CASE LoseReceiver(p)
    BY <2>1, <2>2, <2>6
       DEF LoseReceiver, OrderIsCommitted, ToldWasPaid, PushHasOrder,
           AnnouncedIsConfirmed, ConfirmedHasCause
  <2> QED
    BY <1>2, <2>3, <2>4, <2>5, <2>6 DEF Push
<1>3. ASSUME NEW s \in Staff, StaffSave(s) \/ \E o \in Orders : StaffRead(s, o)
      PROVE  IInv'
  <2>1. UNCHANGED <<phase, used, state, told, handling, lost>>
    BY <1>3 DEF StaffSave, StaffRead
  <2>2. CouponBound'
    BY <2>1 DEF CouponBound, InFlight
  <2>3. CASE StaffSave(s)
    BY <2>1, <2>2, <2>3, CheckoutAssumption
       DEF StaffSave, TypeOK, OrderIsCommitted, ToldWasPaid, PushHasOrder,
           AnnouncedIsConfirmed, ConfirmedHasCause
  <2>4. ASSUME NEW o \in Orders, StaffRead(s, o) PROVE IInv'
    BY <2>1, <2>2, <2>4
       DEF StaffRead, TypeOK, OrderIsCommitted, ToldWasPaid, PushHasOrder,
           AnnouncedIsConfirmed, ConfirmedHasCause
  <2> QED
    BY <1>3, <2>3, <2>4
<1>4. CASE UNCHANGED vars
  BY <1>4 DEF vars, OrderIsCommitted, ToldWasPaid, PushHasOrder, AnnouncedIsConfirmed,
              ConfirmedHasCause, CouponBound, InFlight
<1> QED
  BY <1>1, <1>2, <1>3, <1>4 DEF Next

LEMMA Inductive == Spec => []IInv
<1>1. Init => IInv
  <2> SUFFICES ASSUME Init PROVE IInv
    OBVIOUS
  <2>1. TypeOK
    BY RowsType, CheckoutAssumption DEF Init, TypeOK, Pay!Init, Pay!States
  <2>2. CouponBound
    <3>1. InFlight \cap WithCoupon = {}
      BY DEF Init, InFlight
    <3>2. Cardinality(InFlight \cap WithCoupon) = 0
      BY <3>1, FS_EmptySet
    <3> QED
      BY <3>2, CheckoutAssumption DEF Init, CouponBound
  <2>3. OrderIsCommitted /\ ToldWasPaid /\ PushHasOrder
    BY DEF Init, Pay!Init, OrderIsCommitted, ToldWasPaid, PushHasOrder
  <2>4. AnnouncedIsConfirmed /\ ConfirmedHasCause /\ handling \subseteq told
    BY DEF Init, Pay!Init, AnnouncedIsConfirmed, ConfirmedHasCause
  <2> QED
    BY <2>1, <2>2, <2>3, <2>4 DEF IInv
<1> QED
  BY <1>1, InvStep, PTL DEF Spec

-----------------------------------------------------------------------------
\* Every variable keeps its type, and no request updates more rows than it has.
THEOREM TypeCorrect == Spec => []TypeOK
<1>1. IInv => TypeOK
  BY DEF IInv
<1> QED
  BY <1>1, Inductive, PTL

\* However the unlocked checks of the coupon interleave, max_uses is exceeded by
\* fewer redemptions than there are requests served at once.
THEOREM CouponIsBounded == Spec => []CouponBound
<1>1. IInv => CouponBound
  BY DEF IInv
<1> QED
  BY <1>1, Inductive, PTL

\* The receiver of payment_confirmed finds the order of every payment it is told
\* of: the order committed together with the push.
THEOREM AnnouncedIsNotDropped == Spec => []AnnouncedIsConfirmed
<1>1. IInv => AnnouncedIsConfirmed
  BY DEF IInv
<1> QED
  BY <1>1, Inductive, PTL

\* An order is confirmed only by the staff or for a payment that was made.
THEOREM ConfirmationHasCause == Spec => []ConfirmedHasCause
<1>1. IInv => ConfirmedHasCause
  BY DEF IInv
<1> QED
  BY <1>1, Inductive, PTL

LEMMA OversellKept == IInv /\ OversellBound /\ [Next]_vars => OversellBound'
<1> SUFFICES ASSUME IInv, OversellBound, [Next]_vars
             PROVE  OversellBound'
  OBVIOUS
<1> TypeOK /\ TypeOK'
  BY TypeStep DEF IInv
<1>1. ASSUME UNCHANGED <<stock, phase>>
      PROVE  OversellBound'
  BY <1>1 DEF OversellBound, InFlight, Demand, LinesOf
<1>2. ASSUME NEW o \in Orders, Checkout(o)
      PROVE  OversellBound'
  <2>1. CASE UpdateRow(o)
    BY <1>1, <2>1 DEF UpdateRow
  <2>2. \A p \in Orders \ {o} : ~UpdateRow(o) => phase'[p] = phase[p]
    BY <1>2 DEF TypeOK, Checkout, Validate, Refuse, Commit, Crash, BreakDeadlock, RollBack
  <2>3. CASE Validate(o)
    <3>1. /\ phase[o] # "writing" /\ phase'[o] = "writing" /\ stock' = stock
          /\ Cardinality(InFlight) < Workers
          /\ \A v \in Variants : Demand(o, v) > 0 => stock[v] >= Demand(o, v)
      BY <2>3 DEF TypeOK, Validate, Sellable
    <3> QED
      BY <2>1, <2>2, <3>1, OversellStep
  <2>4. CASE Commit(o)
    <3>1. /\ phase[o] = "writing" /\ phase'[o] # "writing"
          /\ stock' = [v \in Variants |-> stock[v] - Demand(o, v)]
      BY <2>4 DEF TypeOK, Commit
    <3> QED
      BY <2>1, <2>2, <3>1, OversellStep
  <2>5. CASE Refuse(o) \/ Crash(o) \/ BreakDeadlock(o)
    <3>1. phase'[o] # "writing" /\ stock' = stock
      BY <2>5 DEF TypeOK, Refuse, Crash, BreakDeadlock, RollBack
    <3> QED
      BY <2>1, <2>2, <3>1, OversellStep
  <2> QED
    BY <1>2, <2>1, <2>3, <2>4, <2>5 DEF Checkout
<1>3. ASSUME NEW p \in Pushes, Push(p)
      PROVE  OversellBound'
  <2>1. UNCHANGED <<stock, phase>>
    BY <1>3 DEF Push, Retry, Payment, Receive, ConfirmPaid, LoseReceiver, checkoutVars
  <2> QED
    BY <1>1, <2>1
<1>4. ASSUME NEW s \in Staff, StaffSave(s) \/ \E o \in Orders : StaffRead(s, o)
      PROVE  OversellBound'
  <2>1. UNCHANGED <<stock, phase>>
    BY <1>4 DEF StaffSave, StaffRead, checkoutVars
  <2> QED
    BY <1>1, <2>1
<1>5. CASE UNCHANGED vars
  BY <1>1, <1>5 DEF vars, checkoutVars
<1> QED
  BY <1>2, <1>3, <1>4, <1>5 DEF Next

\* However the unlocked checks of the stock interleave, a variant is sold below zero
\* by no more than what the other requests that are served at once may take.
THEOREM OversellIsBounded == Spec => []OversellBound
<1>1. Init => OversellBound
  <2> SUFFICES ASSUME Init PROVE OversellBound
    OBVIOUS
  <2>1. TypeOK
    BY RowsType, CheckoutAssumption DEF Init, TypeOK, Pay!Init, Pay!States
  <2>2. ASSUME NEW v \in Variants
        PROVE  Slack(v) >= 0
    <3>1. InFlight = {} /\ stock[v] \in Nat
      BY CheckoutAssumption DEF Init, InFlight
    <3>2. Taken(v) = 0
      BY <3>1, FS_EmptySet, SumUnfolds DEF Taken
    <3>3. (Workers - 1) * Most(v) \in Nat
      <4>1. Workers - 1 \in Nat /\ Most(v) \in Nat
        BY MostFacts, CheckoutAssumption
      <4> HIDE DEF Most
      <4> QED
        BY <4>1
    <3> QED
      BY <3>1, <3>2, <3>3 DEF Slack
  <2> QED
    BY <2>1, <2>2, OversellIsSlack
<1> QED
  BY <1>1, OversellKept, Inductive, PTL DEF Spec
=============================================================================
