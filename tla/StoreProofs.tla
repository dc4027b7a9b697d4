----------------------------- MODULE StoreProofs -----------------------------
(***************************************************************************)
(* Theorems about the services of a store: its subscription, the limits of *)
(* its plan, loyalty, stock, card payments, accounts and settings, for     *)
(* every finite set of requests and every value of the bounds. MCServices  *)
(* names the definitions of each with a prefix of its own.                 *)
(***************************************************************************)
EXTENDS MCServices, FiniteSetTheorems, TLAPS

\* Cardinality is that of each module's own FiniteSets.
LEMMA SameCardinality ==
  /\ \A S : Plan!Cardinality(S) = Cardinality(S)
  /\ \A S : Loy!Cardinality(S) = Cardinality(S)
  /\ \A S : User!Cardinality(S) = Cardinality(S)
  /\ \A S : Site!Cardinality(S) = Cardinality(S)
BY DEF Plan!Cardinality, Loy!Cardinality, User!Cardinality, Site!Cardinality, Cardinality

-----------------------------------------------------------------------------
(* The subscription. That a store was cancelled long enough when its data are   *)
(* erased rests on the day being saved with the status, and on the task having  *)
(* seen both at once; what the others write in between does not matter.         *)

Dates == Nat \cup {Sub!Never}

SubType ==
  /\ today \in 0 .. LastDay
  /\ subStatus \in Sub!SubStatus
  /\ periodEnd \in Dates /\ trialEnds \in Dates /\ pastDue \in Dates /\ cancelled \in Dates
  /\ push \in {"none", "open", "paid", "told", "closed"}
  /\ answer \in {"none", "sent"}

SubFlags == paidPlan \in BOOLEAN /\ erased \in BOOLEAN /\ ripe \in BOOLEAN

\* What each actor may be about to save.
SubWrites ==
  /\ DOMAIN writing = Sub!Actors
  /\ \A a \in {"admin", "suspend", "expire"} : writing[a] \in {Sub!Nothing} \cup {<<s>> : s \in Sub!SubStatus}
  /\ writing["receiver"] \in {Sub!Nothing} \cup (Nat \X Sub!SubStatus)
  /\ writing["erase"] \in {Sub!Nothing, <<"erase">>}

\* A store that is cancelled has been so since the day the row says, and one that is
\* about to be erased was cancelled for long.
SubInv ==
  /\ SubType /\ SubWrites /\ SubFlags
  /\ subStatus = "cancelled" => cancelled \in 0 .. today
  /\ subStatus = "cancelled" /\ cancelled + EraseDays <= today => ripe
  /\ writing["erase"] # Sub!Nothing => ripe
  /\ ErasedWasCancelled

LEMMA SubStep == SubInv /\ [Sub!Next]_(Sub!vars) => SubInv'
<1> SUFFICES ASSUME SubInv, [Sub!Next]_(Sub!vars)
             PROVE  SubInv'
  OBVIOUS
<1> USE ServicesAssumption
    DEF SubInv, SubType, SubWrites, Dates, ErasedWasCancelled, Sub!ErasedWasCancelled,
        Sub!Actors, Sub!SubStatus, Sub!Never, Sub!subVars, Sub!Nothing
<1>0. SubFlags'
  <2>1. CASE Sub!Tomorrow
    BY <2>1, Zenon DEF Sub!Tomorrow, SubFlags
  <2>2. CASE Sub!AssignPlan
    BY <2>2, Zenon DEF Sub!AssignPlan, SubFlags
  <2>3. ASSUME NEW a \in Sub!Actors, Sub!SaveStatus(a)
        PROVE  SubFlags'
    BY <2>3, Zenon DEF Sub!SaveStatus, SubFlags
  <2> QED
    BY <2>1, <2>2, <2>3, Zenon DEF Sub!Next, SubFlags, Sub!vars, Sub!StartTrial,
                                   Sub!ReadAdmin, Sub!ReadSuspend, Sub!ReadExpire,
                                   Sub!ReadErase, Sub!ReadPaid, Sub!SavePaid, Sub!Erase,
                                   Sub!Renew, Sub!Remind, Sub!Answered, Sub!Intend
<1>1. CASE Sub!Tomorrow
  <2>1. SubType' /\ SubWrites'
    BY <1>1 DEF Sub!Tomorrow
  <2>2. (subStatus = "cancelled" => cancelled \in 0 .. today)'
    BY <1>1 DEF Sub!Tomorrow
  <2>4. (writing["erase"] # Sub!Nothing => ripe)' /\ ErasedWasCancelled'
    BY <1>1, Zenon DEF Sub!Tomorrow
  <2>3. (subStatus = "cancelled" /\ cancelled + EraseDays <= today => ripe)'
    BY <1>1, Zenon DEF Sub!Tomorrow
  <2> QED
    BY <1>0, <2>1, <2>2, <2>3, <2>4, Zenon
<1>2. CASE Sub!StartTrial \/ Sub!AssignPlan
  BY <1>0, <1>2 DEF Sub!StartTrial, Sub!AssignPlan
<1>3. CASE Sub!ReadAdmin
  BY <1>0, <1>3 DEF Sub!ReadAdmin, Sub!Intend
<1>4. CASE Sub!ReadSuspend \/ Sub!ReadExpire
  BY <1>0, <1>4 DEF Sub!ReadSuspend, Sub!ReadExpire, Sub!Intend
<1>5. CASE Sub!ReadErase
  BY <1>0, <1>5 DEF Sub!ReadErase, Sub!Intend
<1>6. CASE Sub!ReadPaid
  BY <1>0, <1>6 DEF Sub!ReadPaid
<1>7. ASSUME NEW a \in Sub!Actors, Sub!SaveStatus(a)
      PROVE  SubInv'
  BY <1>0, <1>7 DEF Sub!SaveStatus
<1>8. CASE Sub!SavePaid
  BY <1>0, <1>8 DEF Sub!SavePaid
<1>9. CASE Sub!Erase
  BY <1>0, <1>9 DEF Sub!Erase
<1>10. CASE Sub!Renew \/ Sub!Remind \/ Sub!Answered
  BY <1>0, <1>10 DEF Sub!Renew, Sub!Remind, Sub!Answered, Sub!Initiate
<1>11. CASE UNCHANGED Sub!vars
  BY <1>0, <1>11 DEF Sub!vars
<1> QED
  BY <1>1, <1>2, <1>3, <1>4, <1>5, <1>6, <1>7, <1>8, <1>9, <1>10, <1>11 DEF Sub!Next

LEMMA SubSafe == Sub!Spec => []SubInv
<1>1. Sub!Init => SubInv
  <2>1. Sub!Init => SubFlags
    BY DEF Sub!Init, SubFlags
  <2>2. Sub!Init => SubType /\ SubWrites
    BY ServicesAssumption DEF Sub!Init, Sub!Actors, SubType, SubWrites, Dates,
                              Sub!SubStatus, Sub!Never, Sub!Nothing
  <2> QED
    BY <2>1, <2>2 DEF Sub!Init, SubInv, ErasedWasCancelled, Sub!ErasedWasCancelled, Sub!Actors
<1> QED
  BY <1>1, SubStep, PTL DEF Sub!Spec

\* Personal data are erased only of a store that was cancelled for EraseDays, whatever
\* the administrators, the tasks and a late payment save meanwhile.
THEOREM ErasureWasDue == Sub!Spec => []ErasedWasCancelled
<1>1. SubInv => ErasedWasCancelled
  BY DEF SubInv
<1> QED
  BY <1>1, SubSafe, PTL

LEMMA SubTypeCorrect == SubInv => Sub!TypeOK
BY DEF SubInv, SubType, SubFlags, Dates, Sub!TypeOK

-----------------------------------------------------------------------------
(* The limits of the plan. A request counts for the most rows it may insert     *)
(* from the check on, and no request passes a limit of 0.                       *)

PlanInv ==
  /\ Plan!TypeOK
  /\ \A c \in Callers : caller[c] # "idle" => Plan!Allowed(caller[c]) /\ Limit > 0
  /\ LimitBound

\* What n requests insert at once, one request more or less, fewer requests.
LEMMA AtOnceFacts ==
  /\ Plan!AtOnce \in Nat \ {0}
  /\ \A n \in Nat : Plan!AtOnce * n \in Nat
  /\ \A m, n \in Nat : m <= n => Plan!AtOnce * m <= Plan!AtOnce * n
  /\ \A n \in Nat : n > 0 => Plan!AtOnce * (n - 1) = Plan!AtOnce * n - Plan!AtOnce
<1>1. Plan!AtOnce \in Nat \ {0}
  BY ServicesAssumption DEF Plan!AtOnce
<1>2. \A k \in Nat \ {0} :
        /\ \A n \in Nat : k * n \in Nat
        /\ \A m, n \in Nat : m <= n => k * m <= k * n
        /\ \A n \in Nat : n > 0 => k * (n - 1) = k * n - k
  OBVIOUS
<1> QED
  BY <1>1, <1>2

LEMMA CallersCount ==
  /\ IsFiniteSet(Callers) /\ Cardinality(Callers) \in Nat \ {0}
  /\ IsFiniteSet(Plan!InHand) /\ Cardinality(Plan!InHand) \in 0 .. Cardinality(Callers)
  /\ IsFiniteSet(Plan!InHand') /\ Cardinality(Plan!InHand') \in 0 .. Cardinality(Callers)
<1>1. IsFiniteSet(Callers) /\ Cardinality(Callers) \in Nat \ {0}
  BY ServicesAssumption, FS_CardinalityType, FS_EmptySet
<1>2. Plan!InHand \in SUBSET Callers /\ Plan!InHand' \in SUBSET Callers
  BY DEF Plan!InHand
<1>3. /\ IsFiniteSet(Plan!InHand) /\ Cardinality(Plan!InHand) <= Cardinality(Callers)
      /\ IsFiniteSet(Plan!InHand') /\ Cardinality(Plan!InHand') <= Cardinality(Callers)
  BY <1>1, <1>2, FS_Subset
<1> QED
  BY <1>1, <1>3, FS_CardinalityType

\* The bound for rows and requests in hand, whatever the module calls Cardinality.
Within(n, H) ==
  n + Plan!AtOnce * Cardinality(H) < Limit + Plan!AtOnce * Cardinality(Callers)

LEMMA LimitBoundIsWithin == LimitBound <=> Within(counted, Plan!InHand)
BY SameCardinality DEF LimitBound, Plan!LimitBound, Within

\* Rows that go and requests that leave keep the bound; so does a request that
\* inserts what it counts for.
LEMMA WithinKept ==
  ASSUME NEW n \in Nat, NEW m \in Nat, Within(n, Plan!InHand)
  PROVE  /\ Plan!InHand' \subseteq Plan!InHand /\ m <= n => Within(m, Plan!InHand')
         /\ \A c \in Plan!InHand : Plan!InHand' \subseteq Plan!InHand \ {c} /\ m <= n + Plan!AtOnce
              => Within(m, Plan!InHand')
<1> DEFINE k == Plan!AtOnce
           h == Cardinality(Plan!InHand)
           g == Cardinality(Plan!InHand')
<1>1. h \in Nat /\ g \in Nat /\ k * h \in Nat /\ k * g \in Nat /\ k \in Nat
      /\ Limit \in Nat /\ k * Cardinality(Callers) \in Nat
  BY CallersCount, AtOnceFacts, ServicesAssumption
<1>2. ASSUME Plan!InHand' \subseteq Plan!InHand, m <= n
      PROVE  Within(m, Plan!InHand')
  <2>1. g <= h
    BY <1>2, CallersCount, FS_Subset
  <2>2. k * g <= k * h
    BY <1>1, <2>1, AtOnceFacts
  <2> QED
    BY <1>1, <1>2, <2>2 DEF Within
<1>3. ASSUME NEW c \in Plan!InHand, Plan!InHand' \subseteq Plan!InHand \ {c}, m <= n + k
      PROVE  Within(m, Plan!InHand')
  <2>1. IsFiniteSet(Plan!InHand \ {c}) /\ Cardinality(Plan!InHand \ {c}) = h - 1
    BY CallersCount, FS_RemoveElement
  <2>2. g <= h - 1 /\ h > 0
    BY <1>1, <1>3, <2>1, FS_Subset
  <2>3. k * g <= k * (h - 1) /\ k * (h - 1) = k * h - k
    BY <1>1, <2>2, AtOnceFacts
  <2> QED
    BY <1>1, <1>3, <2>3 DEF Within
<1> QED
  BY <1>2, <1>3

LEMMA PlanStep == PlanInv /\ [Plan!Next]_(Plan!vars) => PlanInv'
<1> SUFFICES ASSUME PlanInv, [Plan!Next]_(Plan!vars)
             PROVE  PlanInv'
  OBVIOUS
<1> Plan!TypeOK /\ Within(counted, Plan!InHand)
  BY LimitBoundIsWithin DEF PlanInv
<1> DEFINE Kept == \A c \in Callers : caller'[c] # "idle" => Plan!Allowed(caller'[c]) /\ Limit > 0
           Fine == Plan!TypeOK' /\ Kept /\ (Plan!AtOnce' = Plan!AtOnce => Within(counted', Plan!InHand'))
<1> SUFFICES Fine /\ limited' = limited
  <2>1. ASSUME Fine, limited' = limited PROVE PlanInv'
    <3>1. Plan!AtOnce' = Plan!AtOnce
      BY <2>1 DEF Plan!AtOnce
    <3>2. LimitBound' <=> Within(counted', Plan!InHand')
      BY <3>1, SameCardinality DEF LimitBound, Plan!LimitBound, Within
    <3>3. \A c \in Callers : (caller[c] # "idle" => Plan!Allowed(caller[c]) /\ Limit > 0)'
      BY <2>1 DEF Plan!Allowed
    <3> QED
      BY <2>1, <3>1, <3>2, <3>3 DEF PlanInv
  <2> QED
    BY <2>1
<1> USE ServicesAssumption DEF PlanInv, Plan!TypeOK, Plan!Inserts, Plan!Allowed
<1>1. ASSUME NEW c \in Callers, NEW what \in Plan!Inserts, Plan!CheckLimit(c, what)
      PROVE  Fine /\ limited' = limited
  <2>1. counted' = counted /\ counted < Limit /\ limited' = limited
    BY <1>1 DEF Plan!CheckLimit
  <2>2. Within(counted, Plan!InHand')
    BY <2>1, CallersCount, AtOnceFacts DEF Within
  <2>3. Plan!TypeOK' /\ Kept
    BY <1>1, <2>1 DEF Plan!CheckLimit
  <2> QED
    BY <2>1, <2>2, <2>3
<1>2. ASSUME NEW c \in Callers, Plan!GiveUp(c) \/ Plan!TableOrder(c)
      PROVE  Fine /\ limited' = limited
  <2>1. counted' = counted /\ limited' = limited /\ Plan!InHand' \subseteq Plan!InHand
    BY <1>2 DEF Plan!GiveUp, Plan!TableOrder, Plan!Commit, Plan!InHand
  <2>2. Plan!TypeOK' /\ Kept
    BY <1>2, <2>1 DEF Plan!GiveUp, Plan!TableOrder, Plan!Commit
  <2> QED
    BY <2>1, <2>2, WithinKept
<1>3. ASSUME NEW c \in Callers, Plan!CreateProduct(c) \/ Plan!CheckoutOrder(c) \/ Plan!ImportProducts(c)
      PROVE  Fine /\ limited' = limited
  <2>1. c \in Plan!InHand /\ Plan!InHand' \subseteq Plan!InHand \ {c} /\ limited' = limited
    BY <1>3 DEF Plan!CreateProduct, Plan!CheckoutOrder, Plan!ImportProducts, Plan!Commit,
                Plan!InHand
  <2>2. counted' \in Nat /\ counted' <= counted + Plan!AtOnce
    BY <1>3 DEF Plan!CreateProduct, Plan!CheckoutOrder, Plan!ImportProducts, Plan!Commit,
                Plan!AtOnce
  <2>3. Plan!TypeOK' /\ Kept
    BY <1>3, <2>1, <2>2 DEF Plan!CreateProduct, Plan!CheckoutOrder, Plan!ImportProducts,
                            Plan!Commit
  <2> QED
    BY <2>1, <2>2, <2>3, WithinKept
<1>4. CASE Plan!DeleteProduct
  <2>1. counted' \in Nat /\ counted' <= counted /\ limited' = limited /\ Plan!InHand' \subseteq Plan!InHand
    BY <1>4 DEF Plan!DeleteProduct, Plan!InHand
  <2> QED
    BY <1>4, <2>1, WithinKept DEF Plan!DeleteProduct
<1>5. CASE Plan!NewMonth
  <2>1. counted' = 0 /\ limited' = limited /\ Plan!InHand' \subseteq Plan!InHand
    BY <1>5 DEF Plan!NewMonth, Plan!InHand
  <2> QED
    BY <1>5, <2>1, WithinKept DEF Plan!NewMonth
<1>6. CASE UNCHANGED Plan!vars
  <2>1. counted' = counted /\ limited' = limited /\ Plan!InHand' \subseteq Plan!InHand
    BY <1>6 DEF Plan!vars, Plan!InHand
  <2> QED
    BY <1>6, <2>1, WithinKept DEF Plan!vars
<1> QED
  BY <1>1, <1>2, <1>3, <1>4, <1>5, <1>6 DEF Plan!Next

LEMMA PlanSafe == Plan!Spec => []PlanInv
<1>1. Plan!Init => PlanInv
  <2> SUFFICES ASSUME Plan!Init PROVE PlanInv
    OBVIOUS
  <2>1. Plan!InHand = {} /\ counted = 0
    BY DEF Plan!Init, Plan!InHand
  <2>2. Within(counted, Plan!InHand)
    <3>1. Plan!AtOnce * 1 <= Plan!AtOnce * Cardinality(Callers)
      BY CallersCount, AtOnceFacts
    <3> QED
      BY <2>1, <3>1, CallersCount, AtOnceFacts, FS_EmptySet, ServicesAssumption DEF Within
  <2> QED
    BY <2>2, LimitBoundIsWithin DEF Plan!Init, PlanInv, Plan!TypeOK
<1> QED
  BY <1>1, PlanStep, PTL DEF Plan!Spec

\* A plan's limit is exceeded by less than the requests there are at once insert
\* together, for any number of requests and any length of the imported files.
THEOREM LimitsAreBounded == Plan!Spec => []LimitBound
<1>1. PlanInv => LimitBound
  BY DEF PlanInv
<1> QED
  BY <1>1, PlanSafe, PTL

-----------------------------------------------------------------------------
(* Loyalty. A value is at most the number of orders whose task has saved, and of *)
(* tasks that were repeated.                                                     *)

Reached(steps) == {o \in Purchases : task[o].step \in steps}

LoyType ==
  /\ kind \in Loy!Kinds
  /\ value \in Nat /\ spent \in Nat /\ rewards \in Nat /\ rows \in Nat
  /\ task \in [Purchases -> [step : {"none", "queued", "read", "saved", "full", "done"},
                             read : Nat \cup {Loy!None}]]
  /\ \A o \in Purchases : task[o].step \in {"read", "saved", "full"} => task[o].read \in Nat
  /\ repeats \in 0 .. Repeats

LoyBounds ==
  /\ value <= Cardinality(Reached({"saved", "full", "done"})) + repeats
  /\ \A o \in Purchases :
       task[o].read <= Cardinality(Reached({"saved", "full", "done"})) + repeats
  /\ rows <= Cardinality(Reached({"full", "done"})) + repeats
  /\ rewards <= Cardinality(Reached({"done"})) + repeats

Balanced == kind # "profile" /\ ~torn => rows + Cardinality(Reached({"saved"})) = value + spent

LoyInv == LoyType /\ torn \in BOOLEAN /\ LoyBounds /\ Balanced

LEMMA LedgerIsBalanced == LedgerAddsUp <=> Balanced
<1>1. Loy!Unwritten = Reached({"saved"})
  BY DEF Loy!Unwritten, Reached
<1> QED
  BY <1>1, SameCardinality DEF LedgerAddsUp, Loy!LedgerAddsUp, Balanced

\* When one task moves, a set of tasks that have reached some steps gains it or loses it.
LEMMA OneTaskMoves ==
  ASSUME NEW o \in Purchases, NEW steps, \A p \in Purchases \ {o} : task'[p] = task[p]
  PROVE  /\ Cardinality(Reached(steps)) \in 0 .. Cardinality(Purchases)
         /\ Cardinality(Reached(steps)') =
              Cardinality(Reached(steps)) + (IF task'[o].step \in steps THEN 1 ELSE 0)
                                          - (IF task[o].step \in steps THEN 1 ELSE 0)
<1> DEFINE S == Reached(steps)
           T == Reached(steps)'
           R == S \ {o}
<1>1. IsFiniteSet(S) /\ IsFiniteSet(T) /\ IsFiniteSet(R) /\ Cardinality(S) <= Cardinality(Purchases)
  BY ServicesAssumption, FS_Subset DEF Reached
<1>2. Cardinality(S) \in Nat /\ Cardinality(R) \in Nat /\ Cardinality(Purchases) \in Nat
  BY <1>1, ServicesAssumption, FS_CardinalityType
<1>3. (task[o].step \in steps => S = R \cup {o}) /\ (task[o].step \notin steps => S = R)
  BY DEF Reached
<1>4. (task'[o].step \in steps => T = R \cup {o}) /\ (task'[o].step \notin steps => T = R)
  BY DEF Reached
<1>5. Cardinality(R \cup {o}) = Cardinality(R) + 1
  BY <1>1, FS_AddElement
<1> HIDE DEF S, T, R
<1>6. Cardinality(S) = Cardinality(R) + (IF task[o].step \in steps THEN 1 ELSE 0)
  <2>1. CASE task[o].step \in steps
    BY <1>3, <1>5, <2>1
  <2>2. CASE task[o].step \notin steps
    BY <1>2, <1>3, <2>2
  <2> QED
    BY <2>1, <2>2
<1>7. Cardinality(T) = Cardinality(R) + (IF task'[o].step \in steps THEN 1 ELSE 0)
  <2>1. CASE task'[o].step \in steps
    BY <1>4, <1>5, <2>1
  <2>2. CASE task'[o].step \notin steps
    BY <1>2, <1>4, <2>2
  <2> QED
    BY <2>1, <2>2
<1>8. Cardinality(T) = Cardinality(S) + (IF task'[o].step \in steps THEN 1 ELSE 0)
                                      - (IF task[o].step \in steps THEN 1 ELSE 0)
  BY <1>2, <1>6, <1>7
<1> QED
  BY <1>1, <1>2, <1>8 DEF S, T

LEMMA LoyStep == LoyInv /\ [Loy!Next]_(Loy!vars) => LoyInv'
<1> SUFFICES ASSUME LoyInv, [Loy!Next]_(Loy!vars)
             PROVE  LoyInv'
  OBVIOUS
<1>0. torn' \in BOOLEAN
  BY Zenon DEF LoyInv, LoyType, Loy!Next, Loy!vars, Loy!Publish, Loy!Read, Loy!Save,
               Loy!Append, Loy!Reward, Loy!Repeat, Loy!Redeem
<1> DEFINE b == Cardinality(Reached({"saved", "full", "done"}))
           c == Cardinality(Reached({"full", "done"}))
           d == Cardinality(Reached({"done"}))
           u == Cardinality(Reached({"saved"}))
<1>1. ASSUME NEW o \in Purchases,
             Loy!Publish(o) \/ Loy!Read(o) \/ Loy!Save(o) \/ Loy!Append(o) \/ Loy!Reward(o) \/ Loy!Repeat(o)
      PROVE  LoyInv'
  <2>1. \A p \in Purchases \ {o} : task'[p] = task[p]
    BY <1>1 DEF LoyInv, LoyType, Loy!Publish, Loy!Read, Loy!Save, Loy!Append, Loy!Reward,
                Loy!Repeat
  <2>2. /\ b \in Nat /\ c \in Nat /\ d \in Nat /\ u \in Nat
        /\ b' = b + (IF task'[o].step \in {"saved", "full", "done"} THEN 1 ELSE 0)
                  - (IF task[o].step \in {"saved", "full", "done"} THEN 1 ELSE 0)
        /\ c' = c + (IF task'[o].step \in {"full", "done"} THEN 1 ELSE 0)
                  - (IF task[o].step \in {"full", "done"} THEN 1 ELSE 0)
        /\ d' = d + (IF task'[o].step \in {"done"} THEN 1 ELSE 0) - (IF task[o].step \in {"done"} THEN 1 ELSE 0)
        /\ u' = u + (IF task'[o].step \in {"saved"} THEN 1 ELSE 0) - (IF task[o].step \in {"saved"} THEN 1 ELSE 0)
    BY <2>1, OneTaskMoves
  <2> HIDE DEF b, c, d, u
  <2> DEFINE Moved ==
        /\ LoyType'
        /\ value' <= b' + repeats' /\ (\A p \in Purchases : task'[p].read <= b' + repeats')
        /\ rows' <= c' + repeats' /\ rewards' <= d' + repeats'
        /\ (kind' # "profile" /\ ~torn' => rows' + u' = value' + spent')
  <2>3. /\ LoyType
        /\ value <= b + repeats /\ (\A p \in Purchases : task[p].read <= b + repeats)
        /\ rows <= c + repeats /\ rewards <= d + repeats
        /\ (kind # "profile" /\ ~torn => rows + u = value + spent)
    BY DEF LoyInv, LoyBounds, Balanced, b, c, d, u
  <2> SUFFICES Moved
    BY <1>0 DEF LoyInv, LoyBounds, Balanced, b, c, d, u
  <2>0. Redemptions \in Nat /\ Repeats \in Nat
    BY ServicesAssumption
  <2> USE <1>0, <2>0, <2>2, <2>3 DEF LoyType, Loy!Kinds, Loy!At, Loy!None, Loy!Idle
  <2>4. CASE Loy!Publish(o)
    BY <2>4 DEF Loy!Publish
  <2>5. CASE Loy!Read(o)
    BY <2>5 DEF Loy!Read
  <2>6. CASE Loy!Save(o)
    <3>1. torn' \/ (~torn /\ value = task[o].read)
      BY <2>6, Zenon DEF Loy!Save
    <3>2. /\ kind' = kind /\ spent' = spent /\ rewards' = rewards /\ rows' = rows /\ repeats' = repeats
          /\ value' = task[o].read + 1 /\ task[o].step = "read"
          /\ task' = [task EXCEPT ![o] = Loy!At(IF kind = "profile" THEN "done" ELSE "saved", task[o].read + 1)]
      BY <2>6 DEF Loy!Save
    <3>3. /\ task'[o].step \in {"saved", "done"} /\ task'[o].read = task[o].read + 1
          /\ task[o].read \in Nat /\ value' \in Nat
          /\ task'[o].step = "done" <=> kind = "profile"
      BY <3>2
    <3>4. LoyType'
      <4>1. task' \in [Purchases -> [step : {"none", "queued", "read", "saved", "full", "done"},
                                     read : Nat \cup {Loy!None}]]
        BY <3>2, <3>3
      <4>2. \A p \in Purchases : task'[p].step \in {"read", "saved", "full"} => task'[p].read \in Nat
        BY <2>1, <3>3
      <4> QED
        BY <3>2, <3>3, <4>1, <4>2
    <3>5. b' = b + 1 /\ value' <= b' + repeats' /\ \A p \in Purchases : task'[p].read <= b' + repeats'
      <4>1. b' = b + 1
        BY <3>2, <3>3
      <4>2. value' <= b' + repeats'
        BY <3>2, <3>3, <4>1
      <4>3. ASSUME NEW p \in Purchases PROVE task'[p].read <= b' + repeats'
        <5>1. CASE p = o
          BY <3>2, <3>3, <4>1, <5>1
        <5>2. CASE p # o
          <6>1. task'[p] = task[p] /\ task[p].read \in Nat \cup {-1}
            BY <2>1, <5>2
          <6> QED
            BY <3>2, <4>1, <6>1
        <5> QED
          BY <5>1, <5>2
      <4> QED
        BY <4>1, <4>2, <4>3
    <3>6. rows' <= c' + repeats' /\ rewards' <= d' + repeats'
      BY <3>2, <3>3
    <3>7. ASSUME kind' # "profile", ~torn'
          PROVE  rows' + u' = value' + spent'
      <4>1. ~torn /\ value = task[o].read /\ kind # "profile"
        BY <3>1, <3>2, <3>7
      <4>2. rows + u = value + spent
        BY <4>1
      <4>3. u' = u + 1
        BY <3>2, <3>3, <4>1
      <4> QED
        BY <3>2, <4>1, <4>2, <4>3
    <3> QED
      BY <3>4, <3>5, <3>6, <3>7
  <2>7. CASE Loy!Append(o)
    BY <2>7 DEF Loy!Append
  <2>8. CASE Loy!Reward(o)
    <3>1. torn' \/ (~torn /\ value = task[o].read)
      BY <2>8, Zenon DEF Loy!Reward
    <3>2. /\ kind' = kind /\ spent' = spent + task[o].read /\ rewards' = rewards + 1 /\ rows' = rows
          /\ repeats' = repeats /\ value' = 0 /\ task[o].step = "full"
          /\ task' = [task EXCEPT ![o] = Loy!At("done", Loy!None)]
      BY <2>8 DEF Loy!Reward
    <3> QED
      BY <3>1, <3>2
  <2>9. CASE Loy!Repeat(o)
    <3>1. torn' \/ (~torn /\ task[o].step = "read")
      BY <2>9, Zenon DEF Loy!Repeat
    <3>2. /\ kind' = kind /\ spent' = spent /\ rewards' = rewards /\ rows' = rows /\ value' = value
          /\ repeats < Repeats /\ repeats' = repeats + 1 /\ task[o].step \in {"read", "saved", "full"}
          /\ task' = [task EXCEPT ![o] = Loy!At("queued", Loy!None)]
      BY <2>9 DEF Loy!Repeat
    <3> QED
      BY <3>1, <3>2
  <2> QED
    BY <1>1, <2>4, <2>5, <2>6, <2>7, <2>8, <2>9
<1>2. ASSUME NEW n \in 1 .. Redemptions, Loy!Redeem(n)
      PROVE  LoyInv'
  <2>1. b' = b /\ c' = c /\ d' = d /\ u' = u
    BY <1>2 DEF Loy!Redeem, Reached
  <2>2. b \in Nat
    BY ServicesAssumption, FS_Subset, FS_CardinalityType DEF Reached
  <2> QED
    BY <1>2, <2>1, <2>2, ServicesAssumption DEF Loy!Redeem, LoyInv, LoyType, LoyBounds, Balanced
<1>3. CASE UNCHANGED Loy!vars
  BY <1>3 DEF Loy!vars, LoyInv, LoyType, LoyBounds, Balanced, Reached
<1> QED
  BY <1>1, <1>2, <1>3 DEF Loy!Next

LEMMA LoySafe == Loy!Spec => []LoyInv
<1>1. Loy!Init => LoyInv
  <2> SUFFICES ASSUME Loy!Init PROVE LoyInv
    OBVIOUS
  <2>1. LoyType
    BY ServicesAssumption DEF Loy!Init, LoyType, Loy!Kinds, Loy!Idle, Loy!At, Loy!None
  <2>2. \A o \in Purchases : task[o].step = "none" /\ task[o].read = -1
    BY DEF Loy!Init, Loy!Idle, Loy!At, Loy!None
  <2>3. Reached({"saved", "full", "done"}) = {} /\ Reached({"full", "done"}) = {} /\ Reached({"done"}) = {}
        /\ Reached({"saved"}) = {}
    BY <2>2 DEF Reached
  <2>4. torn \in BOOLEAN
    BY Zenon DEF Loy!Init
  <2>5. LoyBounds /\ Balanced
    BY <2>2, <2>3, FS_EmptySet DEF Loy!Init, LoyBounds, Balanced
  <2> QED
    BY <2>1, <2>4, <2>5 DEF LoyInv
<1> QED
  BY <1>1, LoyStep, PTL DEF Loy!Spec

LEMMA LoyTypeCorrect == LoyInv => Loy!TypeOK
<1> SUFFICES ASSUME LoyInv PROVE Loy!TypeOK
  OBVIOUS
<1>1. \A steps : Cardinality(Reached(steps)) \in Nat /\ Cardinality(Reached(steps)) <= Cardinality(Purchases)
  BY ServicesAssumption, FS_Subset, FS_CardinalityType DEF Reached
<1>2. Loy!Most \in Nat /\ \A steps : Cardinality(Reached(steps)) + repeats <= Loy!Most
  BY <1>1, SameCardinality, ServicesAssumption, FS_CardinalityType DEF LoyInv, LoyType, Loy!Most
<1>3. /\ value <= Loy!Most /\ rows <= Loy!Most /\ rewards <= Loy!Most
      /\ \A o \in Purchases : task[o].read <= Loy!Most
  BY <1>1, <1>2, ServicesAssumption DEF LoyInv, LoyType, LoyBounds, Loy!None
<1> HIDE DEF Loy!Most
<1> QED
  BY <1>2, <1>3 DEF LoyInv, LoyType, Loy!TypeOK, Loy!None

\* The points and stamps of the ledger are the balance and what was spent of it, for
\* any number of orders and redemptions, unless a value was overwritten or a task repeated.
THEOREM LedgersAddUp == Loy!Spec => []LedgerAddsUp
<1>1. LoyInv => LedgerAddsUp
  BY LedgerIsBalanced DEF LoyInv
<1> QED
  BY <1>1, LoySafe, PTL

-----------------------------------------------------------------------------
(* Stock. What is due is kept step by step, as a sale takes from the count that is *)
(* there.                                                                          *)

StockFlags == {removed, alert, informed} \subseteq BOOLEAN

StockInv == Item!TypeOK /\ StockAddsUp

LEMMA StockStep == StockInv /\ [Item!Next]_(Item!vars) => StockInv'
<1> SUFFICES ASSUME StockInv, [Item!Next]_(Item!vars)
             PROVE  StockInv'
  OBVIOUS
<1>0. StockFlags'
  <2>1. removed \in BOOLEAN /\ alert \in BOOLEAN /\ informed \in BOOLEAN
    BY DEF StockInv, Item!TypeOK
  <2>2. removed' \in BOOLEAN /\ alert' \in BOOLEAN /\ informed' \in BOOLEAN
    BY <2>1, Zenon DEF Item!Next, Item!vars, Item!CreateVariant, Item!ReadVariant,
                       Item!ReadToSell, Item!Read, Item!SaveVariant, Item!Sell, Item!Leave,
                       Item!CheckLowStock, Item!SendAlert, Item!Alerted
  <2> QED
    BY <2>2 DEF StockFlags
<1> DEFINE Rest ==
      /\ count \in Item!Stocks \cup {Item!NoRow} /\ due \in Item!Stocks \cup {Item!NoRow, Item!Unknown}
      /\ editor \in [Editors -> [does : {"nothing", "edit", "remove", "sell"}, read : Item!Stocks, new : Item!Stocks]]
      /\ StockAddsUp
<1> SUFFICES Rest'
  BY <1>0 DEF StockFlags, StockInv, Item!TypeOK
<1> USE ServicesAssumption DEF StockInv, Item!TypeOK, StockAddsUp, Item!StockAddsUp, Item!Stocks, Item!Counts,
      Item!NoRow, Item!Unknown, Item!Away, Item!Does
<1>1. ASSUME NEW n \in Item!Counts, Item!CreateVariant(n)
      PROVE  Rest'
  BY <1>1 DEF Item!CreateVariant
<1>2. ASSUME NEW c \in Editors, Item!ReadVariant(c) \/ Item!ReadToSell(c)
      PROVE  Rest'
  BY <1>2 DEF Item!ReadVariant, Item!ReadToSell, Item!Read
<1>3. ASSUME NEW c \in Editors, Item!SaveVariant(c)
      PROVE  Rest'
  BY <1>3 DEF Item!SaveVariant
<1>4. ASSUME NEW c \in Editors, Item!Sell(c)
      PROVE  Rest'
  BY <1>4 DEF Item!Sell
<1>5. ASSUME NEW c \in Editors, Item!Leave(c)
      PROVE  Rest'
  BY <1>5 DEF Item!Leave
<1>6. CASE Item!CheckLowStock \/ Item!SendAlert \/ UNCHANGED Item!vars
  BY <1>6 DEF Item!CheckLowStock, Item!SendAlert, Item!vars
<1> QED
  BY <1>1, <1>2, <1>3, <1>4, <1>5, <1>6 DEF Item!Next

LEMMA StockSafe == Item!Spec => []StockInv
<1>1. Item!Init => StockInv
  <2> SUFFICES ASSUME Item!Init PROVE StockInv
    OBVIOUS
  <2>1. {removed, alert, informed} \subseteq BOOLEAN
    BY Zenon DEF Item!Init
  <2>2. Item!Away \in [does : {"nothing", "edit", "remove", "sell"}, read : Item!Stocks, new : Item!Stocks]
    BY ServicesAssumption DEF Item!Away, Item!Stocks
  <2>3. editor \in [Editors -> [does : {"nothing", "edit", "remove", "sell"}, read : Item!Stocks, new : Item!Stocks]]
    BY <2>2 DEF Item!Init
  <2> QED
    BY <2>1, <2>3 DEF Item!Init, StockInv, Item!TypeOK, StockAddsUp, Item!StockAddsUp,
                      Item!NoRow
<1> QED
  BY <1>1, StockStep, PTL DEF Item!Spec

\* A variant has the stock it was given last less what was sold since, however many
\* checkouts and edits overlap, unless an edit that gave no count met a sale.
THEOREM StockIsDue == Item!Spec => []StockAddsUp
<1>1. StockInv => StockAddsUp
  BY DEF StockInv
<1> QED
  BY <1>1, StockSafe, PTL

-----------------------------------------------------------------------------
(* Card payments. A webhook holds the place of an event Stripe has posted, and the *)
(* date it read when a success had been saved; posted events stay as they are.     *)

CardPlaces ==
  /\ Pin!TypeOK
  /\ \A i \in Intents : newest[i] \in 0 .. Len(events[i]) /\ last[i] \in 0 .. newest[i]
  /\ \A i \in Intents : Len(events[i]) <= MaxEvents
  /\ \A i \in Intents : \A n \in 1 .. Len(events[i]) :
       events[i][n] = "SUCCEEDED" => n = Len(events[i])

HookHolds(h) ==
  \A i \in Intents, n \in Nat \ {0}, dated \in BOOLEAN :
    hook[h] = <<i, n, dated>> =>
      n \in 1 .. Len(events[i]) /\ (dated => Pin!Succeeded(i))

CardInv == CardPlaces /\ (\A h \in Hooks : HookHolds(h)) /\ SuccessIsSeen

LEMMA CardStep == CardInv /\ [Pin!Next]_(Pin!vars) => CardInv'
<1> SUFFICES ASSUME CardInv, [Pin!Next]_(Pin!vars)
             PROVE  CardInv'
  OBVIOUS
<1> USE ServicesAssumption DEF Pin!NoEvent, Pin!Posted
<1>t. CardPlaces /\ Pin!TypeOK /\ SuccessIsSeen /\ \A h \in Hooks : HookHolds(h)
  BY DEF CardInv, CardPlaces
<1>1. ASSUME NEW i \in Intents, Pin!InitiateCard(i)
      PROVE  CardInv'
  <2>1. card[i] = "none" /\ card' = [card EXCEPT ![i] = "PI_CREATED"]
        /\ UNCHANGED <<events, paidAt, hook, newest, last>>
    BY <1>1 DEF Pin!InitiateCard
  <2>2. SuccessIsSeen'
    BY <1>t, <2>1 DEF SuccessIsSeen, Pin!SuccessIsSeen, Pin!Succeeded, Pin!TypeOK
  <2>3. Pin!TypeOK'
    BY <1>t, <2>1 DEF Pin!TypeOK
  <2>4. CardPlaces'
    BY <1>t, <2>1, <2>3 DEF CardPlaces
  <2>5. ASSUME NEW h \in Hooks
        PROVE  HookHolds(h)'
    BY <1>t, <2>1 DEF HookHolds, Pin!Succeeded
  <2> QED
    BY <2>2, <2>4, <2>5 DEF CardInv
<1>2. ASSUME NEW i \in Intents, Pin!StripePosts(i)
      PROVE  CardInv'
  <2> PICK status \in Pin!Posted : events' = [events EXCEPT ![i] = Append(@, status)]
    BY <1>2 DEF Pin!StripePosts
  <2>1. /\ UNCHANGED <<card, paidAt, hook, newest, last>> /\ Len(events[i]) < MaxEvents
        /\ events' \in [Intents -> Seq(Pin!Posted)]
        /\ \A j \in Intents \ {i} : events'[j] = events[j]
    BY <1>t, <1>2 DEF Pin!StripePosts, Pin!TypeOK
  <2>2. /\ Len(events'[i]) = Len(events[i]) + 1
        /\ \A n \in 1 .. Len(events[i]) : events'[i][n] = events[i][n]
    BY <1>t, <2>1 DEF Pin!TypeOK
  <2>3. \A n \in 1 .. Len(events[i]) : events[i][n] # "SUCCEEDED"
    BY <1>t, <1>2 DEF Pin!StripePosts, Pin!Contains, Pin!TypeOK
  <2>4. \A j \in Intents : Len(events[j]) \in Nat /\ Len(events'[j]) \in Nat
    BY <1>t, <2>1 DEF Pin!TypeOK
  <2>5. \A j \in Intents : /\ Len(events'[j]) >= Len(events[j]) /\ Len(events'[j]) <= MaxEvents
                           /\ \A n \in 1 .. Len(events[j]) : events'[j][n] = events[j][n]
    BY <1>t, <2>1, <2>2, <2>4 DEF CardPlaces
  <2>6. \A j \in Intents : Pin!Succeeded(j)' <=> Pin!Succeeded(j)
    BY <1>t, <2>1, <2>5, <2>4 DEF CardPlaces, Pin!TypeOK, Pin!Succeeded
  <2>7. \A j \in Intents : \A n \in 1 .. Len(events'[j]) : events'[j][n] = "SUCCEEDED" => n = Len(events'[j])
    BY <1>t, <2>1, <2>2, <2>3, <2>4 DEF CardPlaces
  <2>8. CardPlaces'
    <3>1. Pin!TypeOK'
      BY <1>t, <2>1 DEF Pin!TypeOK
    <3>2. \A j \in Intents : newest'[j] \in 0 .. Len(events'[j]) /\ last'[j] \in 0 .. newest'[j]
      BY <1>t, <2>1, <2>4, <2>5 DEF CardPlaces
    <3> QED
      BY <2>5, <2>7, <3>1, <3>2 DEF CardPlaces
  <2>9. \A h \in Hooks : HookHolds(h)'
    BY <1>t, <2>1, <2>4, <2>5, <2>6 DEF HookHolds
  <2>10. SuccessIsSeen'
    BY <1>t, <2>1, <2>6 DEF SuccessIsSeen, Pin!SuccessIsSeen
  <2> QED
    BY <2>8, <2>9, <2>10 DEF CardInv
<1>3. ASSUME NEW i \in Intents, NEW h \in Hooks, NEW n \in 1 .. MaxEvents, Pin!ReceiveEvent(h, i, n)
      PROVE  CardInv'
  <2>1. /\ n \in 1 .. Len(events[i]) /\ UNCHANGED <<events, card, paidAt, newest, last>>
        /\ hook' = [hook EXCEPT ![h] = <<i, n, i \in paidAt>>]
    BY <1>t, <1>3 DEF Pin!ReceiveEvent, Pin!TypeOK
  <2>2. (i \in paidAt) \in BOOLEAN /\ (i \in paidAt => Pin!Succeeded(i))
    BY <1>t DEF SuccessIsSeen, Pin!SuccessIsSeen
  <2>3. Pin!TypeOK'
    BY <1>t, <2>1, <2>2 DEF Pin!TypeOK
  <2>4. ASSUME NEW g \in Hooks
        PROVE  HookHolds(g)'
    BY <1>t, <2>1, <2>2 DEF HookHolds, Pin!TypeOK, Pin!Succeeded
  <2> QED
    BY <1>t, <2>1, <2>3, <2>4 DEF CardInv, CardPlaces, SuccessIsSeen, Pin!SuccessIsSeen,
                                  Pin!Succeeded
<1>4. ASSUME NEW i \in Intents, NEW h \in Hooks, NEW n \in 1 .. MaxEvents, NEW dated \in BOOLEAN,
             Pin!SaveStatus(h, i, n, dated)
      PROVE  CardInv'
  <2>1. /\ hook[h] = <<i, n, dated>> /\ events' = events
        /\ card' = [card EXCEPT ![i] = events[i][n]]
        /\ paidAt' = IF dated \/ events[i][n] = "SUCCEEDED" THEN paidAt \cup {i} ELSE paidAt \ {i}
        /\ last' = [last EXCEPT ![i] = n]
        /\ newest' = IF n > newest[i] THEN [newest EXCEPT ![i] = n] ELSE newest
        /\ hook' = [hook EXCEPT ![h] = <<"none", 0, FALSE>>]
    BY <1>4 DEF Pin!SaveStatus, Pin!SaveDate, Pin!SaveEvent
  <2>2. n \in 1 .. Len(events[i]) /\ (dated => Pin!Succeeded(i)) /\ events[i][n] \in Pin!Posted
    BY <1>t, <2>1 DEF HookHolds, Pin!TypeOK
  <2>3. Pin!TypeOK'
    <3>1. card' \in [Intents -> Pin!Posted \cup {"none", "PI_CREATED"}] /\ paidAt' \subseteq Intents
      BY <1>t, <2>1, <2>2 DEF Pin!TypeOK
    <3>2. newest' \in [Intents -> 0 .. MaxEvents] /\ last' \in [Intents -> 0 .. MaxEvents]
      BY <1>t, <2>1 DEF Pin!TypeOK
    <3>3. hook' \in [Hooks -> {Pin!NoEvent} \cup (Intents \X (1 .. MaxEvents) \X BOOLEAN)]
      BY <1>t, <2>1 DEF Pin!TypeOK
    <3> QED
      BY <1>t, <2>1, <3>1, <3>2, <3>3 DEF Pin!TypeOK
  <2>4. \A j \in Intents : j # i => newest'[j] = newest[j] /\ last'[j] = last[j] /\ card'[j] = card[j]
                                     /\ (j \in paidAt' <=> j \in paidAt)
    BY <1>t, <2>1 DEF Pin!TypeOK
  <2>5. /\ last'[i] = n /\ newest'[i] = (IF n > newest[i] THEN n ELSE newest[i])
        /\ newest[i] \in Nat /\ Len(events[i]) \in Nat
    BY <1>t, <2>1 DEF Pin!TypeOK
  <2>6. CardPlaces'
    BY <1>t, <2>1, <2>2, <2>3, <2>4, <2>5 DEF CardPlaces
  \* A success is the last event, so that none is newer.
  <2>7. /\ Pin!Succeeded(i) => Pin!Succeeded(i)' /\ newest'[i] = newest[i]
        /\ events[i][n] = "SUCCEEDED" => Pin!Succeeded(i)' /\ newest'[i] = n
    BY <1>t, <2>1, <2>2, <2>5 DEF CardPlaces, Pin!Succeeded
  <2>8. \A j \in Intents : Pin!Succeeded(j) => Pin!Succeeded(j)'
    BY <2>1, <2>4, <2>7 DEF Pin!Succeeded
  <2>9. \A g \in Hooks : HookHolds(g)'
    <3>1. \A g \in Hooks, j \in Intents, k \in Nat \ {0}, d \in BOOLEAN :
            hook'[g] = <<j, k, d>> => hook[g] = <<j, k, d>>
      BY <1>t, <2>1 DEF Pin!TypeOK
    <3> QED
      BY <1>t, <2>1, <2>8, <3>1 DEF HookHolds
  <2>10. Pin!Succeeded(i)' => last'[i] < newest'[i] \/ (card'[i] = "SUCCEEDED" /\ i \in paidAt')
    BY <1>t, <2>1, <2>2, <2>5 DEF Pin!Succeeded, Pin!TypeOK
  <2>11. i \in paidAt' => Pin!Succeeded(i)'
    BY <2>1, <2>2, <2>7
  <2>12. SuccessIsSeen'
    BY <1>t, <2>1, <2>4, <2>10, <2>11 DEF SuccessIsSeen, Pin!SuccessIsSeen, Pin!Succeeded
  <2> QED
    BY <2>6, <2>9, <2>12 DEF CardInv
<1>5. ASSUME NEW h \in Hooks, Pin!FailHook(h)
      PROVE  CardInv'
  <2>1. UNCHANGED <<events, card, paidAt, newest, last>>
        /\ hook' = [hook EXCEPT ![h] = <<"none", 0, FALSE>>]
    BY <1>5 DEF Pin!FailHook
  <2>2. Pin!TypeOK' /\ \A g \in Hooks : hook'[g] = hook[g] \/ hook'[g] = <<"none", 0, FALSE>>
    BY <1>t, <2>1 DEF Pin!TypeOK
  <2>3. \A g \in Hooks, j \in Intents, k \in Nat \ {0}, d \in BOOLEAN :
          hook'[g] = <<j, k, d>> => hook[g] = <<j, k, d>>
    BY <1>t, <2>1, <2>2 DEF Pin!TypeOK
  <2> QED
    BY <1>t, <2>1, <2>2, <2>3 DEF CardInv, CardPlaces, HookHolds, SuccessIsSeen,
                                  Pin!SuccessIsSeen, Pin!Succeeded
<1>6. CASE UNCHANGED Pin!vars
  <2>1. UNCHANGED <<events, card, paidAt, hook, newest, last>>
    BY <1>6 DEF Pin!vars
  <2>2. CardPlaces'
    BY <1>t, <2>1 DEF CardPlaces, Pin!TypeOK
  <2>3. ASSUME NEW h \in Hooks
        PROVE  HookHolds(h)'
    BY <1>t, <2>1 DEF HookHolds, Pin!Succeeded
  <2> QED
    BY <1>t, <2>1, <2>2, <2>3 DEF CardInv, SuccessIsSeen, Pin!SuccessIsSeen, Pin!Succeeded
<1> QED
  BY <1>1, <1>2, <1>3, <1>4, <1>5, <1>6 DEF Pin!Next

LEMMA CardSafe == Pin!Spec => []CardInv
<1>1. Pin!Init => CardInv
  <2> SUFFICES ASSUME Pin!Init PROVE CardInv
    OBVIOUS
  <2>1. \A i \in Intents : events[i] = <<>> /\ newest[i] = 0 /\ last[i] = 0
    BY DEF Pin!Init
  <2>2. Pin!TypeOK /\ paidAt = {} /\ \A h \in Hooks : hook[h] = Pin!NoEvent
    <3>1. <<>> \in Seq(Pin!Posted) /\ 0 \in 0 .. MaxEvents
      BY ServicesAssumption
    <3>2. events \in [Intents -> Seq(Pin!Posted)] /\ card \in [Intents -> Pin!Posted \cup {"none", "PI_CREATED"}]
      BY <3>1 DEF Pin!Init
    <3>3. hook \in [Hooks -> {Pin!NoEvent} \cup (Intents \X (1 .. MaxEvents) \X BOOLEAN)]
      BY DEF Pin!Init
    <3>4. newest \in [Intents -> 0 .. MaxEvents] /\ last \in [Intents -> 0 .. MaxEvents]
      BY <3>1 DEF Pin!Init
    <3> QED
      BY <3>2, <3>3, <3>4 DEF Pin!Init, Pin!TypeOK
  <2>3. CardPlaces
    BY <2>1, <2>2, ServicesAssumption DEF CardPlaces
  <2>4. ASSUME NEW h \in Hooks
        PROVE  HookHolds(h)
    <3>1. ASSUME NEW i \in Intents, NEW n \in Nat \ {0}, NEW dated \in BOOLEAN
          PROVE  hook[h] # <<i, n, dated>>
      <4>1. hook[h] = <<"none", 0, FALSE>> /\ n # 0
        BY <2>2 DEF Pin!NoEvent
      <4>2. hook[h][2] # <<i, n, dated>>[2]
        BY <4>1
      <4> QED
        BY <4>2
    <3> QED
      BY <3>1 DEF HookHolds
  <2> QED
    BY <2>1, <2>2, <2>3, <2>4 DEF CardInv, SuccessIsSeen, Pin!SuccessIsSeen, Pin!Succeeded
<1> QED
  BY <1>1, CardStep, PTL DEF Pin!Spec

\* A card payment whose success was saved says SUCCEEDED and has a date, in whatever
\* order the webhooks overlap, unless the event that was saved last is an earlier one;
\* and none has a date of which no success was saved.
THEOREM SuccessesAreSeen == Pin!Spec => []SuccessIsSeen
<1>1. CardInv => SuccessIsSeen
  BY DEF CardInv
<1> QED
  BY <1>1, CardSafe, PTL

-----------------------------------------------------------------------------
(* Accounts. A refresh takes one live token for the one it issues, or counts as a *)
(* fork; each sign-in and each fork has issued a token.                           *)

Issued == {t \in Tokens : token[t] # "none"}

UserInv ==
  /\ account \in {"none", "active", "inactive"} /\ edited \in {"none", "active", "inactive"}
  /\ token \in [Tokens -> {"none", "live", "used"}]
  /\ device \in [Devices -> [does : {"nothing", "login", "refresh", "all"}, tokens : SUBSET Tokens]]
  /\ \A d \in Devices : device[d].does = "refresh" => \E t \in Tokens : device[d].tokens = {t}
  /\ signIns \in Nat /\ forks \in Nat
  /\ signIns + forks <= Cardinality(Issued)
  /\ Cardinality(User!Live) <= signIns + forks

LEMMA TokenSets ==
  /\ IsFiniteSet(Issued) /\ Cardinality(Issued) \in 0 .. Cardinality(Tokens)
  /\ IsFiniteSet(Issued') /\ Cardinality(Issued') \in Nat
  /\ IsFiniteSet(User!Live) /\ Cardinality(User!Live) \in Nat
  /\ IsFiniteSet(User!Live') /\ Cardinality(User!Live') \in Nat
<1>1. \A S \in SUBSET Tokens : IsFiniteSet(S) /\ Cardinality(S) \in Nat /\ Cardinality(S) <= Cardinality(Tokens)
  BY ServicesAssumption, FS_Subset, FS_CardinalityType
<1>2. /\ Issued \in SUBSET Tokens /\ Issued' \in SUBSET Tokens
      /\ User!Live \in SUBSET Tokens /\ User!Live' \in SUBSET Tokens
  BY DEF Issued, User!Live
<1>3. Cardinality(Tokens) \in Nat
  BY ServicesAssumption, FS_CardinalityType
<1> QED
  BY <1>1, <1>2, <1>3

\* One more token is issued than before.
LEMMA OneIsIssued ==
  ASSUME NEW t \in Tokens, NEW old, token \in [Tokens -> {"none", "live", "used"}], User!Issue(t, old)
  PROVE  /\ token' \in [Tokens -> {"none", "live", "used"}]
         /\ Cardinality(Issued') >= Cardinality(Issued) + 1
         /\ Cardinality(User!Live') <= Cardinality(User!Live) + 1
         /\ \A s \in User!Live : old = {s} => Cardinality(User!Live') <= Cardinality(User!Live)
<1>1. token' \in [Tokens -> {"none", "live", "used"}]
  BY DEF User!Issue
<1>2. t \notin Issued /\ Issued \cup {t} \subseteq Issued'
  BY DEF User!Issue, Issued
<1>3. Cardinality(Issued') >= Cardinality(Issued) + 1
  <2>1. IsFiniteSet(Issued \cup {t}) /\ Cardinality(Issued \cup {t}) = Cardinality(Issued) + 1
    BY <1>2, TokenSets, FS_AddElement
  <2> QED
    BY <1>2, <2>1, TokenSets, FS_Subset
<1>4. Cardinality(User!Live') <= Cardinality(User!Live) + 1
  <2>1. User!Live' \subseteq User!Live \cup {t} /\ t \notin User!Live
    BY DEF User!Issue, User!Live
  <2>2. IsFiniteSet(User!Live \cup {t}) /\ Cardinality(User!Live \cup {t}) = Cardinality(User!Live) + 1
    BY <2>1, TokenSets, FS_AddElement
  <2> QED
    BY <2>1, <2>2, FS_Subset
<1>5. ASSUME NEW s \in User!Live, old = {s}
      PROVE  Cardinality(User!Live') <= Cardinality(User!Live)
  <2>1. User!Live' \subseteq (User!Live \ {s}) \cup {t} /\ t \notin User!Live \ {s}
    BY <1>5 DEF User!Issue, User!Live
  <2>2. IsFiniteSet(User!Live \ {s}) /\ Cardinality(User!Live \ {s}) = Cardinality(User!Live) - 1
    BY TokenSets, FS_RemoveElement
  <2>3. /\ IsFiniteSet((User!Live \ {s}) \cup {t})
        /\ Cardinality((User!Live \ {s}) \cup {t}) = Cardinality(User!Live \ {s}) + 1
    BY <2>1, <2>2, FS_AddElement
  <2>4. Cardinality(User!Live') <= Cardinality((User!Live \ {s}) \cup {t})
    BY <2>1, <2>3, FS_Subset
  <2> QED
    BY <2>2, <2>3, <2>4, TokenSets
<1> QED
  BY <1>1, <1>3, <1>4, <1>5

LEMMA UserStep == UserInv /\ [User!Next]_(User!vars) => UserInv'
<1> SUFFICES ASSUME UserInv, [User!Next]_(User!vars)
             PROVE  UserInv'
  OBVIOUS
<1> USE DEF User!Idle, User!Requested
<1>1. CASE User!CreateStaff \/ User!ReadStaff \/ User!PatchStaff \/ User!DeactivateStaff
  BY <1>1 DEF User!CreateStaff, User!ReadStaff, User!PatchStaff, User!DeactivateStaff,
              UserInv, Issued, User!Live
<1>2. ASSUME NEW t \in Tokens, User!GoogleCallback(t) \/ \E d \in Devices : User!ObtainToken(d, t)
      PROVE  UserInv'
  <2>1. /\ User!Issue(t, {}) /\ signIns' = signIns + 1 /\ UNCHANGED <<edited, forks>>
        /\ account' \in {"none", "active", "inactive"}
        /\ device' = device \/ \E d \in Devices : device' = [device EXCEPT ![d] = User!Idle]
    BY <1>2 DEF User!ObtainToken, User!GoogleCallback, UserInv
  <2>2. /\ token' \in [Tokens -> {"none", "live", "used"}]
        /\ Cardinality(Issued') >= Cardinality(Issued) + 1
        /\ Cardinality(User!Live') <= Cardinality(User!Live) + 1
    <3>1. token \in [Tokens -> {"none", "live", "used"}]
      BY DEF UserInv
    <3>2. User!Issue(t, {})
      BY <2>1, Zenon
    <3> QED
      BY <3>1, <3>2, OneIsIssued
  <2>3. /\ device' \in [Devices -> [does : {"nothing", "login", "refresh", "all"}, tokens : SUBSET Tokens]]
        /\ \A d \in Devices : device'[d].does = "refresh" => \E s \in Tokens : device'[d].tokens = {s}
    BY <2>1 DEF UserInv
  <2>4. signIns' = signIns + 1 /\ forks' = forks
    BY <2>1
  <2>5. edited' \in {"none", "active", "inactive"} /\ signIns' + forks' <= Cardinality(Issued')
        /\ Cardinality(User!Live') <= signIns' + forks' /\ signIns' \in Nat /\ forks' \in Nat
    BY <2>1, <2>2, <2>4, TokenSets DEF UserInv
  <2> QED
    BY <2>1, <2>2, <2>3, <2>5 DEF UserInv
<1>3. ASSUME NEW d \in Devices, NEW t \in Tokens, User!BeginRefresh(d, t) \/ User!BeginBlacklist(d, t)
      PROVE  UserInv'
  <2>1. UNCHANGED <<account, edited, token, signIns, forks>> /\ Issued' = Issued /\ User!Live' = User!Live
    BY <1>3 DEF User!BeginRefresh, User!BeginBlacklist, User!Begin, Issued, User!Live
  <2>2. User!Live \in SUBSET Tokens
    BY DEF User!Live
  <2> QED
    BY <1>3, <2>1, <2>2 DEF User!BeginRefresh, User!BeginBlacklist, User!Begin, UserInv
<1>4. ASSUME NEW d \in Devices, User!BeginSignIn(d) \/ User!BeginLogout(d)
      PROVE  UserInv'
  <2>1. UNCHANGED <<account, edited, token, signIns, forks>> /\ Issued' = Issued /\ User!Live' = User!Live
    BY <1>4 DEF User!BeginSignIn, User!BeginLogout, User!Begin, Issued, User!Live
  <2>2. User!Live \in SUBSET Tokens
    BY DEF User!Live
  <2> QED
    BY <1>4, <2>1, <2>2 DEF User!BeginSignIn, User!BeginLogout, User!Begin, UserInv
<1>5. ASSUME NEW d \in Devices, NEW t \in Tokens, User!Refresh(d, t)
      PROVE  UserInv'
  <2> PICK s \in Tokens : device[d].tokens = {s}
    BY <1>5 DEF User!Refresh, UserInv
  <2>1. User!Issue(t, {s}) /\ UNCHANGED <<account, edited, signIns>>
        /\ device' = [device EXCEPT ![d] = User!Idle]
        /\ forks' = forks + (IF s \in User!Live THEN 0 ELSE 1)
    BY <1>5 DEF User!Refresh
  <2>2. /\ token' \in [Tokens -> {"none", "live", "used"}]
        /\ Cardinality(Issued') >= Cardinality(Issued) + 1
        /\ Cardinality(User!Live') <= Cardinality(User!Live) + 1
        /\ s \in User!Live => Cardinality(User!Live') <= Cardinality(User!Live)
    BY <2>1, OneIsIssued DEF UserInv
  <2> QED
    BY <2>1, <2>2, TokenSets DEF UserInv
<1>6. ASSUME NEW d \in Devices, User!BlacklistAll(d)
      PROVE  UserInv'
  <2>1. /\ token' \in [Tokens -> {"none", "live", "used"}]
        /\ Issued \subseteq Issued' /\ User!Live' \subseteq User!Live
    BY <1>6 DEF User!BlacklistAll, UserInv, Issued, User!Live
  <2>2. Cardinality(Issued) <= Cardinality(Issued') /\ Cardinality(User!Live') <= Cardinality(User!Live)
    BY <2>1, TokenSets, FS_Subset
  <2> QED
    BY <1>6, <2>1, <2>2, TokenSets DEF User!BlacklistAll, UserInv
<1>7. CASE UNCHANGED User!vars
  BY <1>7 DEF User!vars, UserInv, Issued, User!Live
<1> QED
  BY <1>1, <1>2, <1>3, <1>4, <1>5, <1>6, <1>7 DEF User!Next

LEMMA UserSafe == User!Spec => []UserInv
<1>1. User!Init => UserInv
  <2> SUFFICES ASSUME User!Init PROVE UserInv
    OBVIOUS
  <2>1. Issued = {} /\ User!Live = {}
    BY DEF User!Init, Issued, User!Live
  <2> QED
    BY <2>1, FS_EmptySet DEF User!Init, UserInv, User!Idle
<1> QED
  BY <1>1, UserStep, PTL DEF User!Spec

LEMMA UserTypeCorrect == UserInv => User!TypeOK
BY TokenSets, SameCardinality, ServicesAssumption, FS_CardinalityType DEF UserInv, User!TypeOK

\* An account has at most as many sessions as it was signed in to, and refreshes that
\* overlapped another with the same token, for any number of requests at once.
THEOREM SessionsAreBounded == User!Spec => []SessionsBound
<1>1. UserInv => SessionsBound
  BY SameCardinality DEF UserInv, SessionsBound, User!SessionsBound
<1> QED
  BY <1>1, UserSafe, PTL

-----------------------------------------------------------------------------
(* Settings. Rows there are, and requests about to create one, are as many as *)
(* requests at most.                                                          *)

Creating(t) == {m \in Managers : manager[m] = <<t, 0>>}

SiteInv ==
  /\ store \in {"none", "pending", "active", "suspended", "cancelled"}
  /\ welcome \in {"none", "queued", "sent"}
  /\ settings \in [Site!Tables -> Nat]
  /\ manager \in [Managers -> {Site!Free} \cup (Site!Tables \X {0, 1})]
  /\ logo \subseteq {"file", "row"}
  /\ \A t \in Site!Tables : settings[t] + Cardinality(Creating(t)) <= Cardinality(Managers)

LEMMA CreatingFacts ==
  /\ Cardinality(Managers) \in Nat
  /\ \A t : /\ IsFiniteSet(Creating(t)) /\ Cardinality(Creating(t)) \in 0 .. Cardinality(Managers)
            /\ IsFiniteSet(Creating(t)') /\ Cardinality(Creating(t)') \in 0 .. Cardinality(Managers)
            /\ Creating(t)' \subseteq Creating(t) => Cardinality(Creating(t)') <= Cardinality(Creating(t))
            /\ \A m \in Creating(t) : Creating(t)' \subseteq Creating(t) \ {m}
                                        => Cardinality(Creating(t)') <= Cardinality(Creating(t)) - 1
<1>1. Cardinality(Managers) \in Nat
  BY ServicesAssumption, FS_CardinalityType
<1>2. \A S \in SUBSET Managers : IsFiniteSet(S) /\ Cardinality(S) \in Nat /\ Cardinality(S) <= Cardinality(Managers)
  BY ServicesAssumption, FS_Subset, FS_CardinalityType
<1>3. \A t : Creating(t) \in SUBSET Managers /\ Creating(t)' \in SUBSET Managers
  BY DEF Creating
<1>4. \A t : IsFiniteSet(Creating(t)) /\ IsFiniteSet(Creating(t)')
  BY <1>2, <1>3
<1>5. \A t : Creating(t)' \subseteq Creating(t) => Cardinality(Creating(t)') <= Cardinality(Creating(t))
  BY <1>4, FS_Subset
<1>6. ASSUME NEW t, NEW m \in Creating(t), Creating(t)' \subseteq Creating(t) \ {m}
      PROVE  Cardinality(Creating(t)') <= Cardinality(Creating(t)) - 1
  <2>1. IsFiniteSet(Creating(t) \ {m}) /\ Cardinality(Creating(t) \ {m}) = Cardinality(Creating(t)) - 1
    BY <1>4, FS_RemoveElement
  <2> QED
    BY <1>6, <2>1, FS_Subset
<1> QED
  BY <1>1, <1>2, <1>3, <1>5, <1>6

LEMMA SiteStep == SiteInv /\ [Site!Next]_(Site!vars) => SiteInv'
<1> SUFFICES ASSUME SiteInv, [Site!Next]_(Site!vars)
             PROVE  SiteInv'
  OBVIOUS
<1> USE DEF SiteInv, Site!Tables, Site!Free
<1>1. CASE Site!Provision \/ Site!SendWelcome \/ UNCHANGED Site!vars
  BY <1>1 DEF Site!Provision, Site!SendWelcome, Site!vars, Creating
<1>2. ASSUME NEW new \in {"active", "suspended", "cancelled"}, Site!UpdateStatus(new)
      PROVE  SiteInv'
  BY <1>2 DEF Site!UpdateStatus, Creating
<1>3. ASSUME NEW m \in Managers, NEW t \in Site!Tables, Site!OpenTable(m, t)
      PROVE  SiteInv'
  <2>1. /\ UNCHANGED <<store, welcome, settings, logo>> /\ settings[t] \in {0, 1}
        /\ manager' \in [Managers -> {Site!Free} \cup (Site!Tables \X {0, 1})]
    BY <1>3 DEF Site!OpenTable
  <2>2. \A u \in Site!Tables : u # t \/ settings[t] = 1 => Creating(u)' \subseteq Creating(u)
    BY <1>3 DEF Site!OpenTable, Creating
  <2>3. \A u \in Site!Tables : settings'[u] + Cardinality(Creating(u)') <= Cardinality(Managers)
    BY <2>1, <2>2, CreatingFacts
  <2> QED
    BY <2>1, <2>3
<1>4. ASSUME NEW m \in Managers, NEW t \in Site!Tables, Site!SaveRow(m, t)
      PROVE  SiteInv'
  <2>1. /\ UNCHANGED <<store, welcome>> /\ logo' \subseteq {"file", "row"}
        /\ settings' = [settings EXCEPT ![t] = IF manager[m][2] = 0 THEN @ + 1 ELSE @]
        /\ manager' = [manager EXCEPT ![m] = Site!Free] /\ manager[m] \in {<<t, 0>>, <<t, 1>>}
    BY <1>4 DEF Site!SaveRow
  <2>2. \A u \in Site!Tables : Creating(u)' \subseteq Creating(u) \ {m}
    BY <2>1 DEF Creating
  <2>3. settings'[t] + Cardinality(Creating(t)') <= Cardinality(Managers)
    <3>1. CASE manager[m] = <<t, 0>>
      <4>1. m \in Creating(t)
        BY <3>1 DEF Creating
      <4> QED
        BY <2>1, <2>2, <3>1, <4>1, CreatingFacts
    <3>2. CASE manager[m] = <<t, 1>>
      <4>1. Creating(t)' \subseteq Creating(t) /\ settings'[t] = settings[t]
        BY <2>1, <2>2, <3>2
      <4> QED
        BY <4>1, CreatingFacts
    <3> QED
      BY <2>1, <3>1, <3>2
  <2>4. ASSUME NEW u \in Site!Tables \ {t}
        PROVE  settings'[u] + Cardinality(Creating(u)') <= Cardinality(Managers)
    <3>1. settings'[u] = settings[u] /\ Creating(u)' \subseteq Creating(u)
      BY <2>1, <2>2
    <3> QED
      BY <3>1, CreatingFacts
  <2>5. manager' \in [Managers -> {Site!Free} \cup (Site!Tables \X {0, 1})] /\ settings' \in [Site!Tables -> Nat]
    BY <2>1
  <2> QED
    BY <2>1, <2>3, <2>4, <2>5
<1>5. ASSUME NEW m \in Managers, Site!FailRow(m)
      PROVE  SiteInv'
  <2>1. /\ UNCHANGED <<store, welcome, settings>> /\ logo' \subseteq {"file", "row"}
        /\ manager' \in [Managers -> {Site!Free} \cup (Site!Tables \X {0, 1})]
    BY <1>5 DEF Site!FailRow
  <2>2. \A u \in Site!Tables : Creating(u)' \subseteq Creating(u)
    BY <1>5 DEF Site!FailRow, Creating
  <2>3. \A u \in Site!Tables : settings'[u] + Cardinality(Creating(u)') <= Cardinality(Managers)
    BY <2>1, <2>2, CreatingFacts
  <2> QED
    BY <2>1, <2>3
<1> QED
  BY <1>1, <1>2, <1>3, <1>4, <1>5 DEF Site!Next

LEMMA SiteSafe == Site!Spec => []SiteInv
<1>1. Site!Init => SiteInv
  <2> SUFFICES ASSUME Site!Init PROVE SiteInv
    OBVIOUS
  <2>1. \A t \in Site!Tables : Creating(t) = {}
    BY DEF Site!Init, Creating, Site!Tables, Site!Free
  <2> QED
    BY <2>1, CreatingFacts, FS_EmptySet DEF Site!Init, SiteInv, Site!Tables
<1> QED
  BY <1>1, SiteStep, PTL DEF Site!Spec

LEMMA SiteTypeCorrect == SiteInv => Site!TypeOK
BY CreatingFacts, SameCardinality DEF SiteInv, Site!TypeOK
=============================================================================
