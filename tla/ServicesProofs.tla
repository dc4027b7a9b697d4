---------------------------- MODULE ServicesProofs ----------------------------
(***************************************************************************)
(* Theorems about the task queue, the token of Daraja, the till, the carts *)
(* and the dashboards, and what they and those of StoreProofs and          *)
(* ContractProofs say of the composition. TaskQueue is the module that     *)
(* MCServices extends; the others have a prefix.                           *)
(***************************************************************************)
EXTENDS StoreProofs, ContractProofs, SumLemmas

\* Cardinality and sums are those of each module's own library modules.
LEMMA SameLibrary ==
  /\ \A S : Auth!Cardinality(S) = Cardinality(S)
  /\ \A S : Ana!Cardinality(S) = Cardinality(S)
  /\ \A f, S : Bag!SumFunctionOnSet(f, S) = SumFunctionOnSet(f, S)
  /\ \A f, S : Ana!SumFunctionOnSet(f, S) = SumFunctionOnSet(f, S)
<1>1. \A S : Auth!Cardinality(S) = Cardinality(S) /\ Ana!Cardinality(S) = Cardinality(S)
  BY DEF Auth!Cardinality, Ana!Cardinality, Cardinality
<1>2. /\ \A f, S : Bag!SumFunctionOnSet(f, S) = SumFunctionOnSet(f, S)
      /\ \A f, S : Ana!SumFunctionOnSet(f, S) = SumFunctionOnSet(f, S)
  BY DEF Bag!SumFunctionOnSet, Bag!FoldFunctionOnSet, Bag!MapThenFoldSet,
         Ana!SumFunctionOnSet, Ana!FoldFunctionOnSet, Ana!MapThenFoldSet,
         SumFunctionOnSet, FoldFunctionOnSet, MapThenFoldSet
<1> QED
  BY <1>1, <1>2

-----------------------------------------------------------------------------
(* The queue of tasks *)

Running(t) == \E c \in Children : \E n \in 0 .. MaxRetries : child[c] = <<"run", t, n>>
Settled(t) == t \in completed \cup killed \cup unrecorded \/ Recorded(t)

\* A message that was retried or has ended is of no more use: its call waits again,
\* is executed by another process, or is settled.
QueueInv ==
  /\ TypeOK
  /\ \A t \in Late \cap published : Waiting(t) \/ Running(t) \/ Settled(t)

-----------------------------------------------------------------------------
(* The list of failures *)

\* _publish_to_dlq keeps the length within the cap; the entry that it adds is there
\* afterwards, and one that was there is, unless the list is full.
LEMMA RecordKeeps ==
  ASSUME TypeOK, NEW t \in Calls, Record(t)
  PROVE  /\ dlq' \in Seq(Calls) /\ Len(dlq') <= DlqCap
         /\ unrecorded \subseteq unrecorded' /\ unrecorded' \subseteq Calls
         /\ Recorded(t)' \/ t \in unrecorded'
         /\ \A u \in Calls : Recorded(u) => Recorded(u)'
<1> DEFINE all == Append(dlq, t)
<1>0. DlqCap \in Nat \ {0} /\ dlq \in Seq(Calls) /\ Len(dlq) \in Nat /\ Len(dlq) <= DlqCap
  BY QueueAssumption DEF TypeOK
<1>1. CASE unrecorded' = unrecorded \cup {t} /\ UNCHANGED dlq
  BY <1>0, <1>1 DEF Recorded, TypeOK
<1>2. CASE UNCHANGED unrecorded /\ dlq' = IF Len(all) > DlqCap THEN Tail(all) ELSE all
  <2>1. all \in Seq(Calls) /\ Len(all) = Len(dlq) + 1
    BY <1>0
  <2>2. CASE Len(all) > DlqCap
    <3>1. dlq' = Tail(all) /\ all # <<>>
      BY <1>0, <1>2, <2>1, <2>2
    <3>2. dlq' \in Seq(Calls) /\ Len(dlq') = DlqCap
      BY <1>0, <2>1, <2>2, <3>1
    <3> QED
      BY <1>0, <1>2, <3>2 DEF Recorded, TypeOK
  <2>3. CASE Len(all) <= DlqCap
    <3>1. dlq' = all /\ Len(dlq) < DlqCap
      BY <1>0, <1>2, <2>1, <2>3
    <3>2. DOMAIN dlq = 1 .. Len(dlq) /\ DOMAIN dlq' = 1 .. Len(dlq) + 1
      BY <1>0, <2>1, <3>1
    <3>3. dlq'[Len(dlq) + 1] = t /\ \A i \in 1 .. Len(dlq) : dlq'[i] = dlq[i]
      BY <1>0, <3>1
    <3>4. t \in Range(dlq') /\ Range(dlq) \subseteq Range(dlq')
      BY <1>0, <3>2, <3>3 DEF Range
    <3> QED
      BY <1>0, <1>2, <2>1, <2>3, <3>1, <3>4 DEF Recorded, TypeOK
  <2> QED
    BY <1>0, <2>1, <2>2, <2>3
<1> QED
  BY <1>1, <1>2 DEF Record

-----------------------------------------------------------------------------
(* The messages *)

LEMMA QueueInit == Init => QueueInv
<1> SUFFICES ASSUME Init PROVE QueueInv
  OBVIOUS
<1>1. TypeOK
  BY QueueAssumption DEF Init, TypeOK, Free
<1> QED
  BY <1>1 DEF Init, QueueInv

LEMMA QueueTypeStep ==
  ASSUME TypeOK, [Next]_vars
  PROVE  TypeOK'
<1>0. MaxRetries \in Nat /\ MaxCrashes \in Nat /\ IsFiniteSet(Children)
  BY QueueAssumption
<1>1. ASSUME NEW t \in Calls, Publish(t)
      PROVE  TypeOK'
  <2>1. <<t, 0>> \in Messages
    BY <1>0 DEF Messages
  <2> QED
    BY <1>1, <2>1 DEF Publish, TypeOK
<1>2. ASSUME NEW c \in Children, NEW m \in Messages, Take(c, m) \/ Succeed(c, m) \/ Acknowledge(c, m)
      PROVE  TypeOK'
  <2>1. m[1] \in Calls /\ m[2] \in 0 .. MaxRetries
    BY DEF Messages
  <2>2. CASE Take(c, m)
    <3>1. child' \in [Children -> Taken \cup {Free}]
      BY <2>1, <2>2 DEF Take, TypeOK, Taken
    <3>2. ready' \in [Messages -> Nat]
      BY <2>2 DEF Take, TypeOK
    <3> QED
      BY <2>2, <3>1, <3>2 DEF Take, TypeOK
  <2>3. CASE Succeed(c, m)
    <3>1. child' \in [Children -> Taken \cup {Free}]
      BY <2>1, <2>3 DEF Succeed, TypeOK, Taken
    <3> QED
      BY <2>1, <2>3, <3>1 DEF Succeed, TypeOK
  <2>4. CASE Acknowledge(c, m)
    BY <2>4 DEF Acknowledge, TypeOK
  <2> QED
    BY <1>2, <2>2, <2>3, <2>4
<1>3. ASSUME NEW c \in Children, NEW m \in Messages, Retry(c, m)
      PROVE  TypeOK'
  <2>1. m[1] \in Calls /\ m[2] \in 0 .. MaxRetries /\ m[2] + 1 \in 0 .. MaxRetries
    BY <1>0, <1>3 DEF Messages, Retry
  <2>2. child' \in [Children -> Taken \cup {Free}]
    BY <1>3, <2>1 DEF Retry, TypeOK, Taken
  <2>3. ready' \in [Messages -> Nat]
    <3>1. <<m[1], m[2] + 1>> \in Messages
      BY <2>1 DEF Messages
    <3> QED
      BY <1>3, <3>1 DEF Retry, TypeOK
  <2> QED
    BY <1>3, <2>2, <2>3 DEF Retry, TypeOK
<1>4. ASSUME NEW c \in Children, NEW m \in Messages, Fail(c, m)
      PROVE  TypeOK'
  <2>1. m[1] \in Calls /\ m[2] \in 0 .. MaxRetries
    BY DEF Messages
  <2>2. child' \in [Children -> Taken \cup {Free}]
    BY <1>4, <2>1 DEF Fail, TypeOK, Taken
  <2>3. dlq' \in Seq(Calls) /\ Len(dlq') <= DlqCap /\ unrecorded' \subseteq Calls
    BY <1>4, <2>1, RecordKeeps DEF Fail, TypeOK
  <2> QED
    BY <1>4, <2>2, <2>3 DEF Fail, TypeOK
<1>5. ASSUME WorkerDies
      PROVE  TypeOK'
  <2>1. \A m \in Messages : Cardinality(Holders(m)) \in Nat
    <3> SUFFICES ASSUME NEW m \in Messages PROVE Cardinality(Holders(m)) \in Nat
      OBVIOUS
    <3>1. Holders(m) \in SUBSET Children
      BY DEF Holders
    <3> QED
      BY <1>0, <3>1, FS_Subset, FS_CardinalityType
  <2>2. ready' \in [Messages -> Nat]
    BY <1>5, <2>1 DEF WorkerDies, TypeOK
  <2>3. crashes' \in 0 .. MaxCrashes
    BY <1>0, <1>5 DEF WorkerDies, TypeOK
  <2> QED
    BY <1>5, <2>2, <2>3 DEF WorkerDies, TypeOK
<1>6. ASSUME NEW c \in Children, ChildDies(c)
      PROVE  TypeOK'
  <2>1. child[c] \in Taken /\ child[c][2] \in Calls
    BY <1>6 DEF ChildDies, TypeOK, Taken
  <2>2. crashes' \in 0 .. MaxCrashes
    BY <1>0, <1>6 DEF ChildDies, TypeOK
  <2>3. child' \in [Children -> Taken \cup {Free}]
    BY <1>6 DEF ChildDies, TypeOK
  <2> QED
    BY <1>6, <2>1, <2>2, <2>3 DEF ChildDies, TypeOK
<1>7. CASE UNCHANGED vars
  BY <1>7 DEF vars, TypeOK
<1> QED
  BY <1>1, <1>2, <1>3, <1>4, <1>5, <1>6, <1>7 DEF Next, Execute

LEMMA QueueStep ==
  ASSUME QueueInv, [Next]_vars
  PROVE  QueueInv'
<1>0. TypeOK /\ TypeOK' /\ MaxRetries \in Nat /\ IsFiniteSet(Children)
  BY QueueTypeStep, QueueAssumption DEF QueueInv
<1> SUFFICES ASSUME NEW u \in Late \cap published'
             PROVE  Waiting(u)' \/ Running(u)' \/ Settled(u)'
  BY <1>0 DEF QueueInv
<1> DEFINE Alive == Waiting(u)' \/ Running(u)' \/ Settled(u)'
<1>1. ASSUME NEW t \in Calls, Publish(t)
      PROVE  Alive
  <2>1. <<t, 0>> \in Messages
    BY <1>0 DEF Messages
  <2>2. CASE u = t
    <3>1. ready'[<<u, 0>>] > 0
      BY <1>0, <1>1, <2>1, <2>2 DEF Publish, TypeOK
    <3> QED
      BY <1>0, <3>1 DEF Waiting
  <2>3. CASE u # t
    <3>1. u \in Late \cap published
      BY <1>1, <2>3 DEF Publish
    <3>2. \A n \in 0 .. MaxRetries : ready[<<u, n>>] > 0 => ready'[<<u, n>>] > 0
      <4> TAKE n \in 0 .. MaxRetries
      <4>1. <<u, n>> \in Messages /\ <<u, n>> # <<t, 0>>
        BY <2>3 DEF Messages, Calls
      <4> QED
        BY <1>0, <1>1, <2>1, <4>1 DEF Publish, TypeOK
    <3>3. Waiting(u) => Waiting(u)'
      BY <3>2 DEF Waiting
    <3> QED
      BY <1>1, <3>1, <3>3 DEF Publish, QueueInv, Running, Settled, Recorded
  <2> QED
    BY <2>2, <2>3
<1>2. ASSUME NEW c \in Children, NEW m \in Messages, Take(c, m)
      PROVE  Alive
  <2>1. m[1] \in Calls /\ m[2] \in 0 .. MaxRetries /\ m = <<m[1], m[2]>>
    BY DEF Messages
  <2>2. child'[c] = <<"run", m[1], m[2]>>
    BY <1>0, <1>2 DEF Take, TypeOK
  <2>3. CASE u = m[1]
    BY <2>1, <2>2, <2>3 DEF Running
  <2>4. CASE u # m[1]
    <3>1. \A n \in 0 .. MaxRetries : ready[<<u, n>>] > 0 => ready'[<<u, n>>] > 0
      <4> TAKE n \in 0 .. MaxRetries
      <4>1. <<u, n>> \in Messages /\ <<u, n>> # m
        BY <2>1, <2>4 DEF Messages, Calls
      <4> QED
        BY <1>0, <1>2, <4>1 DEF Take, TypeOK
    <3>2. \A c2 \in Children, n \in 0 .. MaxRetries :
            child[c2] = <<"run", u, n>> => child'[c2] = <<"run", u, n>>
      BY <1>0, <1>2 DEF Take, TypeOK, Free
    <3>3. (Waiting(u) => Waiting(u)') /\ (Running(u) => Running(u)')
      BY <3>1, <3>2 DEF Waiting, Running
    <3> QED
      BY <1>2, <3>3 DEF Take, QueueInv, Settled, Recorded
  <2> QED
    BY <2>3, <2>4
<1>3. ASSUME NEW c \in Children, NEW m \in Messages, Succeed(c, m) \/ Retry(c, m) \/ Fail(c, m)
      PROVE  Alive
  <2>1. m[1] \in Calls /\ m[2] \in 0 .. MaxRetries
    BY DEF Messages
  <2>2. \A x \in Messages : ready[x] > 0 => ready'[x] > 0
    <3>1. CASE Succeed(c, m) \/ Fail(c, m)
      BY <3>1 DEF Succeed, Fail
    <3>2. CASE Retry(c, m)
      <4>1. <<m[1], m[2] + 1>> \in Messages
        BY <1>0, <2>1, <3>2 DEF Retry, Messages
      <4> QED
        BY <1>0, <3>2, <4>1 DEF Retry, TypeOK
    <3> QED
      BY <1>3, <3>1, <3>2
  <2>3. Waiting(u) => Waiting(u)'
    <3>1. \A n \in 0 .. MaxRetries : <<u, n>> \in Messages
      BY DEF Messages, Calls
    <3> QED
      BY <2>2, <3>1 DEF Waiting
  <2>4. Settled(u) => Settled(u)'
    <3>1. CASE Succeed(c, m) \/ Retry(c, m)
      BY <3>1 DEF Succeed, Retry, Settled, Recorded
    <3>2. CASE Fail(c, m)
      <4>1. completed' = completed /\ killed' = killed /\ unrecorded \subseteq unrecorded'
        BY <1>0, <2>1, <3>2, RecordKeeps DEF Fail
      <4>2. Recorded(u) => Recorded(u)'
        BY <1>0, <2>1, <3>2, RecordKeeps DEF Fail, Recorded, Calls
      <4> QED
        BY <4>1, <4>2 DEF Settled
    <3> QED
      BY <1>3, <3>1, <3>2
  <2>5. Running(u) => Running(u)' \/ u = m[1]
    <3>1. \A c2 \in Children \ {c} : child'[c2] = child[c2]
      BY <1>0, <1>3 DEF Succeed, Retry, Fail, TypeOK
    <3>2. \A n \in 0 .. MaxRetries : child[c] = <<"run", u, n>> => u = m[1]
      BY <1>3 DEF Succeed, Retry, Fail
    <3> QED
      BY <3>1, <3>2 DEF Running
  <2>6. u = m[1] => Alive
    <3>1. CASE Succeed(c, m)
      BY <3>1 DEF Succeed, Settled
    <3>2. CASE Retry(c, m) /\ u = m[1]
      <4>1. m[2] + 1 \in 0 .. MaxRetries /\ <<u, m[2] + 1>> \in Messages
        BY <1>0, <2>1, <3>2 DEF Retry, Messages
      <4>2. ready'[<<u, m[2] + 1>>] > 0
        BY <1>0, <3>2, <4>1 DEF Retry, TypeOK
      <4> QED
        BY <4>1, <4>2 DEF Waiting
    <3>3. CASE Fail(c, m) /\ u = m[1]
      BY <1>0, <2>1, <3>3, RecordKeeps DEF Fail, Settled
    <3> QED
      BY <1>3, <3>1, <3>2, <3>3
  <2>7. u \in published
    BY <1>3 DEF Succeed, Retry, Fail
  <2> QED
    BY <2>3, <2>4, <2>5, <2>6, <2>7 DEF QueueInv
<1>4. ASSUME NEW c \in Children, NEW m \in Messages, Acknowledge(c, m)
      PROVE  Alive
  <2>1. \A c2 \in Children, n \in 0 .. MaxRetries :
          child[c2] = <<"run", u, n>> => child'[c2] = <<"run", u, n>>
    BY <1>0, <1>4 DEF Acknowledge, TypeOK
  <2>2. Running(u) => Running(u)'
    BY <2>1 DEF Running
  <2> QED
    BY <1>4, <2>2 DEF Acknowledge, QueueInv, Waiting, Settled, Recorded
<1>5. ASSUME WorkerDies
      PROVE  Alive
  <2>1. \A m \in Messages : m[1] \in Late => ready'[m] = ready[m] + Cardinality(Holders(m))
    BY <1>5 DEF WorkerDies
  <2>2. \A m \in Messages : /\ Cardinality(Holders(m)) \in Nat
                            /\ Holders(m) # {} => Cardinality(Holders(m)) > 0
    <3> TAKE m \in Messages
    <3>1. Holders(m) \in SUBSET Children
      BY DEF Holders
    <3>2. IsFiniteSet(Holders(m)) /\ Cardinality(Holders(m)) \in Nat
      BY <1>0, <3>1, FS_Subset, FS_CardinalityType
    <3>3. Cardinality(Holders(m)) = 0 => Holders(m) = {}
      BY <3>2, FS_EmptySet
    <3> QED
      BY <3>2, <3>3
  <2>3. Waiting(u) \/ Running(u) => Waiting(u)'
    <3>1. ASSUME NEW n \in 0 .. MaxRetries, ready[<<u, n>>] > 0 \/ \E c \in Children : child[c] = <<"run", u, n>>
          PROVE  ready'[<<u, n>>] > 0
      <4>1. <<u, n>> \in Messages /\ <<u, n>>[1] \in Late /\ ready[<<u, n>>] \in Nat
        BY <1>0 DEF Messages, Calls, TypeOK
      <4>2. (\E c \in Children : child[c] = <<"run", u, n>>) => Holders(<<u, n>>) # {}
        BY DEF Holders
      <4> QED
        BY <2>1, <2>2, <3>1, <4>1, <4>2
    <3> QED
      BY <3>1 DEF Waiting, Running
  <2> QED
    BY <1>5, <2>3 DEF WorkerDies, QueueInv, Settled, Recorded
<1>6. ASSUME NEW c \in Children, ChildDies(c)
      PROVE  Alive
  <2>1. \A c2 \in Children \ {c} : child'[c2] = child[c2]
    BY <1>0, <1>6 DEF ChildDies, TypeOK
  <2>2. \A n \in 0 .. MaxRetries : child[c] = <<"run", u, n>> => u \in killed'
    BY <1>6 DEF ChildDies
  <2>3. Running(u) => Running(u)' \/ u \in killed'
    BY <2>1, <2>2 DEF Running
  <2> QED
    BY <1>6, <2>3 DEF ChildDies, QueueInv, Waiting, Settled, Recorded
<1>7. CASE UNCHANGED vars
  BY <1>7 DEF vars, QueueInv, Waiting, Running, Settled, Recorded
<1> QED
  BY <1>1, <1>2, <1>3, <1>4, <1>5, <1>6, <1>7 DEF Next, Execute

-----------------------------------------------------------------------------
LEMMA QueueSafe == Spec => []QueueInv
BY QueueInit, QueueStep, PTL DEF Spec

\* A call of a DLQTask that was published is never lost but to a killed process or a
\* failure that Redis cannot record, for any number of calls, processes, retries and
\* deaths, as long as the list of failures is not full.
THEOREM CallsAreKept == Spec => []NeverLost
<1>1. QueueInv => NeverLost
  <2> SUFFICES ASSUME QueueInv, NEW t \in Late \cap published
               PROVE  \/ Waiting(t) \/ Held(t) \/ t \in completed \cup killed \cup unrecorded
                      \/ Recorded(t)
    BY DEF NeverLost
  <2>1. Running(t) => Held(t)
    BY DEF Running, Held
  <2> QED
    BY <2>1 DEF QueueInv, Settled
<1> QED
  BY <1>1, QueueSafe, PTL

-----------------------------------------------------------------------------
(* The token of Daraja *)

\* Processes that fetch although the lock is not theirs, or no longer: their lock has
\* expired, and it is to them that the overruns are due.
Stray == Auth!Fetching \ owner

AuthInv ==
  /\ cached \in BOOLEAN
  /\ owner = {} \/ \E w \in Processes : owner = {w}
  /\ at \in [Processes -> Auth!Places]
  /\ overruns \in 0 .. MaxOverruns
  /\ Cardinality(Stray) <= overruns

\* Of a set all but the members of another, which has one at most, are left.
LEMMA AllButOne ==
  ASSUME NEW F, IsFiniteSet(F), NEW o, o = {} \/ \E v \in Processes : o = {v}
  PROVE  /\ IsFiniteSet(F \ o)
         /\ Cardinality(F) \in Nat /\ Cardinality(F \ o) \in Nat
         /\ Cardinality(F) - 1 <= Cardinality(F \ o)
<1>1. CASE o = {}
  <2>1. F \ o = F
    BY <1>1
  <2>2. Cardinality(F) \in Nat
    BY FS_CardinalityType
  <2> QED
    BY <2>1, <2>2
<1>2. ASSUME NEW v, o = {v}
      PROVE  /\ IsFiniteSet(F \ o)
             /\ Cardinality(F) \in Nat /\ Cardinality(F \ o) \in Nat
             /\ Cardinality(F) - 1 <= Cardinality(F \ o)
  <2>1. /\ IsFiniteSet(F \ {v})
        /\ Cardinality(F \ {v}) = IF v \in F THEN Cardinality(F) - 1 ELSE Cardinality(F)
    BY FS_RemoveElement
  <2>2. Cardinality(F) \in Nat /\ Cardinality(F \ {v}) \in Nat
    BY <2>1, FS_CardinalityType
  <2> QED
    BY <1>2, <2>1, <2>2
<1> QED
  BY <1>1, <1>2

LEMMA StrayType ==
  /\ IsFiniteSet(Auth!Fetching) /\ IsFiniteSet(Stray) /\ IsFiniteSet(Stray')
  /\ Cardinality(Stray) \in Nat /\ Cardinality(Stray') \in Nat
<1>1. Auth!Fetching \in SUBSET Processes /\ Stray \in SUBSET Processes /\ Stray' \in SUBSET Processes
  BY DEF Stray, Auth!Fetching
<1>2. IsFiniteSet(Auth!Fetching) /\ IsFiniteSet(Stray) /\ IsFiniteSet(Stray')
  BY <1>1, ServicesAssumption, FS_Subset
<1> QED
  BY <1>2, FS_CardinalityType

\* A process that stops fetching leaves no more strays than there were, even when it
\* deletes the lock of another, which becomes one.
LEMMA OneLessFetches ==
  ASSUME AuthInv, NEW w \in Auth!Fetching,
         Auth!Fetching' = Auth!Fetching \ {w}, owner' \in {owner, {}}
  PROVE  Cardinality(Stray') <= Cardinality(Stray)
<1>1. CASE owner' = owner
  <2>1. Stray' \in SUBSET Stray
    BY <1>1 DEF Stray
  <2> QED
    BY <2>1, StrayType, FS_Subset
<1>2. CASE owner' = {}
  <2>1. Stray' = Auth!Fetching \ {w}
    BY <1>2 DEF Stray
  <2>2. Cardinality(Auth!Fetching \ {w}) = Cardinality(Auth!Fetching) - 1
    BY StrayType, FS_RemoveElement
  <2>3. Cardinality(Auth!Fetching) - 1 <= Cardinality(Stray)
    BY StrayType, AllButOne DEF AuthInv, Stray
  <2> QED
    BY <2>1, <2>2, <2>3
<1> QED
  BY <1>1, <1>2

LEMMA AuthInit ==
  ASSUME Auth!Init
  PROVE  AuthInv
<1>1. Stray = {}
  BY DEF Auth!Init, Stray, Auth!Fetching
<1>2. Cardinality(Stray) = 0
  BY <1>1, FS_EmptySet
<1>3. at \in [Processes -> Auth!Places]
  BY DEF Auth!Init, Auth!Places
<1>4. overruns \in 0 .. MaxOverruns /\ Cardinality(Stray) <= overruns
  BY <1>2, ServicesAssumption DEF Auth!Init
<1>5. cached \in BOOLEAN /\ owner = {}
  BY DEF Auth!Init
<1> QED
  BY <1>3, <1>4, <1>5 DEF AuthInv

LEMMA AuthStep ==
  ASSUME AuthInv, [Auth!Next]_(Auth!vars)
  PROVE  AuthInv'
<1> DEFINE Typed == /\ cached' \in BOOLEAN
                    /\ owner' = {} \/ \E v \in Processes : owner' = {v}
                    /\ at' \in [Processes -> Auth!Places]
                    /\ overruns' = overruns
<1>1. ASSUME Typed, Cardinality(Stray') <= Cardinality(Stray)
      PROVE  AuthInv'
  <2>1. Cardinality(Stray') <= overruns'
    BY <1>1, StrayType DEF AuthInv
  <2> QED
    BY <1>1, <2>1 DEF AuthInv
<1>2. ASSUME Typed, Stray' \in SUBSET Stray
      PROVE  AuthInv'
  <2>1. Cardinality(Stray') <= Cardinality(Stray)
    BY <1>2, StrayType, FS_Subset
  <2> QED
    BY <1>1, <1>2, <2>1
<1>3. ASSUME NEW w \in Processes, Auth!Ask(w) \/ Auth!Poll(w) \/ Auth!FetchDirectly(w) \/ Auth!CallDaraja(w) \/ Auth!Die(w)
      PROVE  AuthInv'
  <2>1. Typed
    BY <1>3 DEF Auth!Ask, Auth!Poll, Auth!FetchDirectly, Auth!CallDaraja, Auth!Die,
                Auth!Goes, AuthInv, Auth!Places
  <2>2. Stray' \in SUBSET Stray
    BY <1>3 DEF Auth!Ask, Auth!Poll, Auth!FetchDirectly, Auth!CallDaraja, Auth!Die,
                Auth!Goes, AuthInv, Stray, Auth!Fetching
  <2> QED
    BY <1>2, <2>1, <2>2
<1>4. ASSUME NEW w \in Processes, Auth!Acquire(w)
      PROVE  AuthInv'
  <2>1. Typed
    BY <1>4 DEF Auth!Acquire, Auth!Goes, AuthInv, Auth!Places
  <2>2. Stray' \in SUBSET Stray
    BY <1>4 DEF Auth!Acquire, Auth!Goes, AuthInv, Stray, Auth!Fetching
  <2> QED
    BY <1>2, <2>1, <2>2
<1>5. ASSUME NEW w \in Processes, Auth!StoreToken(w) \/ Auth!FetchFails(w)
      PROVE  AuthInv'
  <2>1. Typed
    BY <1>5 DEF Auth!StoreToken, Auth!FetchFails, Auth!Goes, AuthInv, Auth!Places
  <2>2. w \in Auth!Fetching /\ Auth!Fetching' = Auth!Fetching \ {w} /\ owner' = {}
    BY <1>5 DEF Auth!StoreToken, Auth!FetchFails, Auth!Goes, AuthInv, Auth!Fetching
  <2> QED
    BY <1>1, <2>1, <2>2, OneLessFetches
<1>6. ASSUME NEW w \in Processes, Auth!RedisFails(w)
      PROVE  AuthInv'
  <2>1. Typed
    BY <1>6 DEF Auth!RedisFails, Auth!Goes, AuthInv, Auth!Places
  <2>2. CASE at[w] = "fetching"
    <3>1. w \in Auth!Fetching /\ Auth!Fetching' = Auth!Fetching \ {w} /\ owner' \in {owner, {}}
      BY <1>6, <2>2 DEF Auth!RedisFails, Auth!Goes, AuthInv, Auth!Fetching
    <3> QED
      BY <1>1, <2>1, <3>1, OneLessFetches
  <2>3. CASE at[w] # "fetching"
    <3>1. owner \subseteq owner' /\ Auth!Fetching' = Auth!Fetching
      BY <1>6, <2>3 DEF Auth!RedisFails, Auth!Goes, AuthInv, Auth!Fetching
    <3>2. Stray' \in SUBSET Stray
      BY <3>1 DEF Stray
    <3> QED
      BY <1>2, <2>1, <3>2
  <2> QED
    BY <2>2, <2>3
<1>7. ASSUME Auth!TokenExpires
      PROVE  AuthInv'
  <2>1. Typed /\ Stray' = Stray
    BY <1>7 DEF Auth!TokenExpires, AuthInv, Stray, Auth!Fetching
  <2> QED
    BY <1>2, <2>1
<1>8. ASSUME Auth!LockExpires
      PROVE  AuthInv'
  <2>1. /\ owner' = {} /\ UNCHANGED <<cached, at>> /\ Stray' = Auth!Fetching
        /\ owner \cap Auth!Fetching # {} => overruns < MaxOverruns
        /\ overruns' = IF owner \cap Auth!Fetching # {} THEN overruns + 1 ELSE overruns
    BY <1>8 DEF Auth!LockExpires, Stray, Auth!Fetching
  <2>2. overruns' \in 0 .. MaxOverruns
    BY <2>1, ServicesAssumption DEF AuthInv
  <2>3. Cardinality(Auth!Fetching) \in Nat /\ Cardinality(Auth!Fetching) - 1 <= Cardinality(Stray)
    BY StrayType, AllButOne DEF AuthInv, Stray
  <2>4. owner \cap Auth!Fetching = {} => Stray = Auth!Fetching
    BY DEF Stray
  <2>5. Cardinality(Stray') <= overruns'
    BY <2>1, <2>3, <2>4, StrayType DEF AuthInv
  <2> QED
    BY <2>1, <2>2, <2>5 DEF AuthInv
<1>9. CASE UNCHANGED Auth!vars
  BY <1>9 DEF Auth!vars, AuthInv, Stray, Auth!Fetching
<1> QED
  BY <1>3, <1>4, <1>5, <1>6, <1>7, <1>8, <1>9 DEF Auth!Next

-----------------------------------------------------------------------------
LEMMA AuthSafe == Auth!Spec => []AuthInv
BY AuthInit, AuthStep, PTL DEF Auth!Spec

\* get_access_token sets no lock that is set, and no process is in a place the code
\* has not.
LEMMA AuthTypeCorrect == AuthInv => Auth!TypeOK
<1> SUFFICES ASSUME AuthInv PROVE Auth!TypeOK
  OBVIOUS
<1>1. owner \subseteq Processes /\ Auth!Cardinality(owner) <= 1
  BY SameLibrary, FS_EmptySet, FS_Singleton DEF AuthInv
<1> QED
  BY <1>1 DEF AuthInv, Auth!TypeOK

\* One process fetches a token under the lock, and one more for each lock that has
\* expired under its fetch, for any number of processes.
THEOREM FetchersAreBounded == Auth!Spec => []OneFetcher
<1>1. AuthInv => OneFetcher
  <2> SUFFICES ASSUME AuthInv PROVE OneFetcher
    OBVIOUS
  <2>1. Cardinality(Auth!Fetching) \in Nat /\ Cardinality(Auth!Fetching) - 1 <= Cardinality(Stray)
    BY StrayType, AllButOne DEF AuthInv, Stray
  <2> QED
    BY <2>1, StrayType, SameLibrary DEF AuthInv, OneFetcher, Auth!OneFetcher
<1> QED
  BY <1>1, AuthSafe, PTL

-----------------------------------------------------------------------------
(* The till *)

\* Execution k has taken up receipt r and not announced it yet.
Owes(k, r) == tillTask[k] \in {<<"created", r>>, <<"matched", r>>}

\* It has announced it or will, and it is the one that created the row.
Claims(k, r) == (Owes(k, r) \/ k \in announced[r]) /\ <<k, r>> \notin resumed

\* Only receipts that have a row are claimed, and by one execution at most.
TillInv ==
  /\ C2B!TypeOK
  /\ \A k \in TillTasks, r \in Receipts : Owes(k, r) \/ k \in announced[r] => r \in recorded
  /\ \A k1, k2 \in TillTasks, r \in Receipts : Claims(k1, r) /\ Claims(k2, r) => k1 = k2

LEMMA TillInit == C2B!Init => TillInv
<1> SUFFICES ASSUME C2B!Init PROVE TillInv
  OBVIOUS
<1>1. C2B!TypeOK
  BY DEF C2B!Init, C2B!TypeOK
<1>2. \A k \in TillTasks, r \in Receipts : ~Owes(k, r) /\ k \notin announced[r]
  BY DEF C2B!Init, Owes, C2B!Unused
<1> QED
  BY <1>1, <1>2 DEF TillInv, Claims

\* A step by which no execution comes to owe or to announce a receipt disturbs nothing.
LEMMA NothingClaimed ==
  ASSUME TillInv, C2B!TypeOK', recorded \subseteq recorded', resumed \subseteq resumed',
         \A k \in TillTasks, r \in Receipts :
           Owes(k, r)' \/ k \in announced'[r] => Owes(k, r) \/ k \in announced[r]
  PROVE  TillInv'
<1>1. \A k \in TillTasks, r \in Receipts : Claims(k, r)' => Claims(k, r)
  BY DEF Claims
<1> QED
  BY <1>1 DEF TillInv

LEMMA TillStep == TillInv /\ [C2B!Next]_(C2B!vars) => TillInv'
<1> SUFFICES ASSUME TillInv, [C2B!Next]_(C2B!vars) PROVE TillInv'
  OBVIOUS
<1>t. C2B!TypeOK
  BY DEF TillInv
<1>1. CASE C2B!Register \/ (\E r \in Receipts : C2B!ReverseReceipt(r)) \/ UNCHANGED C2B!vars
  <2>1. UNCHANGED <<recorded, announced, tillTask, resumed>>
    BY <1>1 DEF C2B!Register, C2B!ReverseReceipt, C2B!vars
  <2>2. C2B!TypeOK'
    BY <1>t, <1>1 DEF C2B!Register, C2B!ReverseReceipt, C2B!vars, C2B!TypeOK
  <2> QED
    BY <2>1, <2>2, NothingClaimed DEF Owes
<1>2. ASSUME NEW k \in TillTasks, NEW r \in Receipts,
             \/ C2B!PostC2B(k, r) \/ C2B!RetryReceipt(k, r)
             \/ C2B!MatchByMissingName(k, r) \/ C2B!DropReceipt(k, r)
      PROVE  TillInv'
  <2>1. /\ UNCHANGED <<registered, names, recorded, reversed, applied, announced, resumed>>
        /\ \E next \in {<<"queued", r>>, C2B!Ended} : tillTask' = [tillTask EXCEPT ![k] = next]
        /\ dropped' \in SUBSET Receipts
    BY <1>t, <1>2 DEF C2B!PostC2B, C2B!RetryReceipt, C2B!MatchByMissingName,
                      C2B!DropReceipt, C2B!TypeOK
  <2>2. C2B!TypeOK'
    BY <1>t, <2>1 DEF C2B!TypeOK, C2B!Steps
  <2>3. \A k2 \in TillTasks, x \in Receipts : Owes(k2, x)' => Owes(k2, x)
    BY <1>t, <2>1 DEF C2B!TypeOK, Owes, C2B!Ended
  <2> QED
    BY <2>1, <2>2, <2>3, NothingClaimed
<1>3. ASSUME NEW k \in TillTasks, NEW r \in Receipts, C2B!MatchRetailOrder(k, r) \/ C2B!MatchNothing(k, r)
      PROVE  TillInv'
  <2>1. /\ tillTask[k] = <<"created", r>> /\ tillTask' = [tillTask EXCEPT ![k] = <<"matched", r>>]
        /\ UNCHANGED <<recorded, announced, resumed>>
    BY <1>3 DEF C2B!MatchRetailOrder, C2B!MatchNothing
  <2>2. C2B!TypeOK'
    BY <1>t, <1>3 DEF C2B!MatchRetailOrder, C2B!MatchNothing, C2B!TypeOK, C2B!Steps
  <2>3. \A k2 \in TillTasks, x \in Receipts : Owes(k2, x)' => Owes(k2, x)
    BY <1>t, <2>1 DEF C2B!TypeOK, Owes
  <2> QED
    BY <2>1, <2>2, <2>3, NothingClaimed
<1>4. ASSUME NEW k \in TillTasks, NEW r \in Receipts, C2B!RecordReceipt(k, r)
      PROVE  TillInv'
  <2>1. /\ UNCHANGED <<registered, names, reversed, applied, announced, dropped>>
        /\ recorded' = recorded \cup {r}
        /\ tillTask' = [tillTask EXCEPT ![k] =
                         IF r \in recorded \ reversed THEN C2B!Ended ELSE <<"created", r>>]
        /\ resumed' = IF r \in reversed THEN resumed \cup {<<k, r>>} ELSE resumed
    BY <1>4 DEF C2B!RecordReceipt
  <2>2. C2B!TypeOK'
    BY <1>t, <2>1 DEF C2B!TypeOK, C2B!Steps
  <2>3. \A k2 \in TillTasks, x \in Receipts : (k2 # k \/ x # r) /\ Owes(k2, x)' => Owes(k2, x)
    BY <1>t, <2>1 DEF C2B!TypeOK, Owes, C2B!Ended
  <2>4. \A k2 \in TillTasks, x \in Receipts : Owes(k2, x)' \/ k2 \in announced'[x] => x \in recorded'
    BY <2>1, <2>3 DEF TillInv
  <2>5. \A k2 \in TillTasks, x \in Receipts : (k2 # k \/ x # r) /\ Claims(k2, x)' => Claims(k2, x)
    BY <2>1, <2>3 DEF Claims
  <2>6. Claims(k, r)' => Claims(k, r) \/ r \notin recorded
    <3>1. r \in recorded \ reversed => ~Owes(k, r)'
      BY <1>t, <2>1 DEF C2B!TypeOK, Owes, C2B!Ended
    <3>2. r \in reversed => <<k, r>> \in resumed'
      BY <2>1
    <3> QED
      BY <2>1, <3>1, <3>2 DEF Claims
  <2>7. r \notin recorded => \A k2 \in TillTasks : ~Claims(k2, r)
    BY DEF TillInv, Claims
  <2> QED
    BY <2>2, <2>4, <2>5, <2>6, <2>7 DEF TillInv
<1>5. ASSUME NEW k \in TillTasks, NEW r \in Receipts, C2B!Announce(k, r)
      PROVE  TillInv'
  <2>1. /\ tillTask[k] = <<"matched", r>>
        /\ UNCHANGED <<registered, names, recorded, reversed, applied, resumed, dropped>>
        /\ announced' = [announced EXCEPT ![r] = @ \cup {k}]
        /\ \E next \in {C2B!Ended, <<"queued", r>>} : tillTask' = [tillTask EXCEPT ![k] = next]
    BY <1>5 DEF C2B!Announce
  <2>2. C2B!TypeOK' /\ Owes(k, r)
    BY <1>t, <2>1 DEF C2B!TypeOK, C2B!Steps, Owes
  <2>3. \A k2 \in TillTasks, x \in Receipts : Owes(k2, x)' => Owes(k2, x)
    BY <1>t, <2>1 DEF C2B!TypeOK, Owes, C2B!Ended
  <2>4. \A k2 \in TillTasks, x \in Receipts : k2 \in announced'[x] => k2 \in announced[x] \/ Owes(k2, x)
    BY <1>t, <2>1, <2>2 DEF C2B!TypeOK
  <2> QED
    BY <2>1, <2>2, <2>3, <2>4, NothingClaimed
<1> QED
  BY <1>1, <1>2, <1>3, <1>4, <1>5 DEF C2B!Next

LEMMA TillSafe == C2B!Spec => []TillInv
BY TillInit, TillStep, PTL DEF C2B!Spec

\* The receivers of payment_confirmed hear of a receipt only when it is recorded, and
\* from one execution at most that did not find its payment reversed, for any number
\* of receipts, posts and tasks of C2B callbacks.
THEOREM AnnouncedOnce == C2B!Spec => []ReceiptAnnouncedOnce
<1>1. TillInv => ReceiptAnnouncedOnce
  <2> SUFFICES ASSUME TillInv, NEW r \in Receipts
               PROVE  /\ announced[r] # {} => r \in recorded
                      /\ \A k1, k2 \in {k \in announced[r] : <<k, r>> \notin resumed} : k1 = k2
    BY DEF ReceiptAnnouncedOnce, C2B!ReceiptAnnouncedOnce
  <2>1. announced[r] \in SUBSET TillTasks
    BY DEF TillInv, C2B!TypeOK
  <2>2. \A k \in announced[r] : r \in recorded
    BY <2>1 DEF TillInv
  <2>3. \A k \in {x \in announced[r] : <<x, r>> \notin resumed} : k \in TillTasks /\ Claims(k, r)
    BY <2>1 DEF Claims
  <2> QED
    BY <2>2, <2>3 DEF TillInv
<1> QED
  BY <1>1, TillSafe, PTL

-----------------------------------------------------------------------------
(* The carts. A request that found on its key what the key still holds changes   *)
(* the sum by what is expected of it; a merge that wrote holds the guest's items *)
(* twice until it deletes the one cart.                                          *)

Baskets == [Variants -> 0 .. MaxItems]

LEMMA ItemsFacts ==
  /\ Bag!Empty \in Baskets /\ Bag!Items(Bag!Empty) = 0
  /\ \A c \in Baskets : Bag!Items(c) \in Nat
  /\ \A c \in Baskets, v \in Variants, n \in Nat :
       Bag!Items([c EXCEPT ![v] = n]) = Bag!Items(c) - c[v] + n
  /\ \A c, d \in Baskets :
       Bag!Items([v \in Variants |-> c[v] + d[v]]) = Bag!Items(c) + Bag!Items(d)
<1>0. IsFiniteSet(Variants) /\ MaxItems \in Nat
  BY ServicesAssumption
<1>1. \A c : Bag!Items(c) = SumFunctionOnSet(c, Variants)
  BY SameLibrary DEF Bag!Items
<1>2. \A c \in Baskets : Ints(c, Variants) /\ \A v \in Variants : c[v] \in Nat
  BY <1>0 DEF Baskets, Ints
<1>3. ASSUME NEW c \in Baskets
      PROVE  Bag!Items(c) \in Nat
  <2>1. SumFunctionOnSet(c, Variants) \in Int /\ SumFunctionOnSet(c, Variants) >= 0
    BY <1>0, <1>2, SumType
  <2> QED
    BY <1>1, <2>1
<1>4. ASSUME NEW c \in Baskets, NEW v \in Variants, NEW n \in Nat
      PROVE  Bag!Items([c EXCEPT ![v] = n]) = Bag!Items(c) - c[v] + n
  <2> DEFINE d == [c EXCEPT ![v] = n]
  <2>1. Ints(d, Variants) /\ d[v] = n /\ \A u \in Variants \ {v} : d[u] = c[u]
    BY <1>2 DEF Baskets, Ints
  <2> HIDE DEF d
  <2>2. SumFunctionOnSet(d, Variants) = SumFunctionOnSet(c, Variants) - c[v] + d[v]
    BY <1>0, <1>2, <2>1, SumUpdate
  <2>3. Bag!Items(d) = Bag!Items(c) - c[v] + n
    BY <1>1, <2>1, <2>2
  <2> QED
    BY <2>3 DEF d
<1>5. ASSUME NEW c \in Baskets, NEW d \in Baskets
      PROVE  Bag!Items([v \in Variants |-> c[v] + d[v]]) = Bag!Items(c) + Bag!Items(d)
  <2> DEFINE e == [v \in Variants |-> c[v] + d[v]]
  <2>1. \A v \in Variants : e[v] = c[v] + d[v]
    OBVIOUS
  <2> HIDE DEF e
  <2>2. SumFunctionOnSet(e, Variants) = SumFunctionOnSet(c, Variants) + SumFunctionOnSet(d, Variants)
    BY <1>0, <1>2, <2>1, SumPlus
  <2>3. Bag!Items(e) = Bag!Items(c) + Bag!Items(d)
    BY <1>1, <2>2
  <2> QED
    BY <2>3 DEF e
<1>6. Bag!Empty \in Baskets
  BY <1>0 DEF Bag!Empty, Baskets
<1>7. Bag!Items(Bag!Empty) = 0
  <2>1. [v \in Variants |-> Bag!Empty[v] + Bag!Empty[v]] = Bag!Empty
    BY DEF Bag!Empty
  <2>2. Bag!Items(Bag!Empty) = Bag!Items(Bag!Empty) + Bag!Items(Bag!Empty)
    BY <1>5, <1>6, <2>1
  <2> QED
    BY <1>3, <1>6, <2>2
<1> QED
  BY <1>3, <1>4, <1>5, <1>6, <1>7

Steps == {"nothing", "add", "remove", "merge", "write", "clear", "check out"}
Requests == [next : Steps, key : Bag!Keys, got : Baskets, user : Baskets]

\* The items that request r holds twice.
Again(r) == IF r.next = "clear" THEN Bag!Items(r.got) ELSE 0

BagType ==
  /\ cart \in [Bag!Keys -> Baskets]
  /\ snapshot \subseteq Bag!Keys
  /\ shopper \in [Shoppers -> Requests]
  /\ expected \in Int

BagInv == BagType /\ ItemsAddUp

LEMMA BagIsOfItsType == BagType <=> Bag!TypeOK
BY DEF BagType, Bag!TypeOK, Baskets, Requests, Steps

\* One request moves on, and both carts together change by as much as is expected and
\* as it now holds twice.
LEMMA OneShops ==
  ASSUME BagType, BagType', ItemsAddUp, NEW q \in Shoppers,
         \A p \in Shoppers \ {q} : shopper'[p] = shopper[p],
         expected' # Bag!Unknown =>
           /\ expected # Bag!Unknown
           /\ Bag!Items(cart'["guest"]) + Bag!Items(cart'["user"]) - expected' - Again(shopper'[q])
                = Bag!Items(cart["guest"]) + Bag!Items(cart["user"]) - expected - Again(shopper[q])
  PROVE  ItemsAddUp'
<1> DEFINE f == Bag!Twice
           g == Bag!Twice'
<1>1. /\ \A p \in Shoppers : f[p] = Again(shopper[p]) /\ g[p] = Again(shopper'[p])
      /\ Ints(f, Shoppers) /\ Ints(g, Shoppers)
  <2>1. \A p \in Shoppers : f[p] = Again(shopper[p]) /\ g[p] = Again(shopper'[p])
    BY DEF Bag!Twice, Again, Bag!Does
  <2>2. \A p \in Shoppers : shopper[p] \in Requests /\ shopper'[p] \in Requests
    BY DEF BagType
  <2>3. \A r \in Requests : Again(r) \in Int
    BY ItemsFacts DEF Again, Requests
  <2> HIDE DEF f, g
  <2> QED
    BY <2>1, <2>2, <2>3 DEF Ints
<1>2. Bag!Doubled = SumFunctionOnSet(f, Shoppers) /\ Bag!Doubled' = SumFunctionOnSet(g, Shoppers)
  BY SameLibrary DEF Bag!Doubled
<1> HIDE DEF f, g
<1>3. SumFunctionOnSet(g, Shoppers) = SumFunctionOnSet(f, Shoppers) - f[q] + g[q]
  <2>1. \A p \in Shoppers \ {q} : g[p] = f[p]
    BY <1>1
  <2> QED
    BY <1>1, <2>1, SumUpdate, ServicesAssumption
<1>4. SumFunctionOnSet(f, Shoppers) \in Int /\ f[q] \in Int /\ g[q] \in Int
  BY <1>1, SumType, ServicesAssumption DEF Ints
<1>5. \A k \in Bag!Keys : Bag!Items(cart[k]) \in Int /\ Bag!Items(cart'[k]) \in Int
  BY ItemsFacts DEF BagType
<1>6. expected \in Int /\ expected' \in Int
  BY DEF BagType
<1>7. expected # Bag!Unknown =>
        Bag!Items(cart["guest"]) + Bag!Items(cart["user"]) = expected + Bag!Doubled
  BY DEF ItemsAddUp, Bag!ItemsAddUp
<1>8. expected' # Bag!Unknown =>
        Bag!Items(cart'["guest"]) + Bag!Items(cart'["user"]) = expected' + Bag!Doubled'
  BY <1>1, <1>2, <1>3, <1>4, <1>5, <1>6, <1>7 DEF Bag!Keys
<1> QED
  BY <1>8 DEF ItemsAddUp, Bag!ItemsAddUp, Bag!Items, Bag!Unknown

\* What Write and Expect do when a request over key writes new for what it read.
LEMMA WriteFacts ==
  ASSUME BagType, NEW q \in Shoppers, NEW key \in Bag!Keys, NEW n \in Int,
         NEW read \in Baskets, NEW new \in [Variants -> Nat],
         Bag!Write(q, key, new), Bag!Expect(n, key, read)
  PROVE  /\ new \in Baskets /\ snapshot' = snapshot
         /\ cart' \in [Bag!Keys -> Baskets] /\ cart'[key] = new
         /\ \A k \in Bag!Keys \ {key} : cart'[k] = cart[k]
         /\ expected' \in Int
         /\ expected' # Bag!Unknown => /\ expected # Bag!Unknown /\ cart[key] = read
                                       /\ expected' = expected + n
<1>1. new \in Baskets
  BY ServicesAssumption DEF Bag!Write, Baskets
<1>2. cart' = [cart EXCEPT ![key] = new] /\ snapshot' = snapshot
  BY DEF Bag!Write
<1> QED
  BY <1>1, <1>2 DEF BagType, Bag!Expect, Bag!Unknown

\* A write changes the sum by what is expected of it and what q holds twice from then
\* on, if the key still held what q had read.
LEMMA OneWrites ==
  ASSUME BagInv, NEW q \in Shoppers, NEW key \in Bag!Keys, NEW n \in Int,
         NEW read \in Baskets, NEW new \in [Variants -> Nat],
         Bag!Write(q, key, new), Bag!Expect(n, key, read),
         NEW r \in Requests, shopper' = [shopper EXCEPT ![q] = r],
         Bag!Items(new) - Bag!Items(read) - n = Again(r) - Again(shopper[q])
  PROVE  BagInv'
<1> BagType /\ ItemsAddUp
  BY DEF BagInv
<1>1. /\ new \in Baskets /\ snapshot' = snapshot
      /\ cart' \in [Bag!Keys -> Baskets] /\ cart'[key] = new
      /\ \A k \in Bag!Keys \ {key} : cart'[k] = cart[k]
      /\ expected' \in Int
      /\ expected' # Bag!Unknown => /\ expected # Bag!Unknown /\ cart[key] = read
                                    /\ expected' = expected + n
  BY WriteFacts
<1>2. BagType'
  BY <1>1 DEF BagType
<1>3. shopper'[q] = r /\ \A p \in Shoppers \ {q} : shopper'[p] = shopper[p]
  BY DEF BagType
<1>4. Again(r) \in Int /\ Again(shopper[q]) \in Int
  <2>1. shopper[q] \in Requests
    BY DEF BagType
  <2> QED
    BY <2>1, ItemsFacts DEF Again, Requests
<1>5. /\ Bag!Items(new) \in Nat /\ Bag!Items(read) \in Nat
      /\ Bag!Items(cart["guest"]) \in Nat /\ Bag!Items(cart["user"]) \in Nat
  BY <1>1, ItemsFacts DEF BagType, Bag!Keys
<1>6. ASSUME expected' # Bag!Unknown
      PROVE  /\ expected # Bag!Unknown
             /\ Bag!Items(cart'["guest"]) + Bag!Items(cart'["user"]) - expected' - Again(shopper'[q])
                  = Bag!Items(cart["guest"]) + Bag!Items(cart["user"]) - expected - Again(shopper[q])
  <2>1. expected # Bag!Unknown /\ expected \in Int /\ expected' = expected + n /\ cart[key] = read
    BY <1>1, <1>6 DEF BagType
  <2>2. CASE key = "guest"
    <3>1. cart'["guest"] = new /\ cart'["user"] = cart["user"] /\ cart["guest"] = read
      BY <1>1, <2>1, <2>2 DEF Bag!Keys
    <3> QED
      BY <1>3, <1>4, <1>5, <2>1, <3>1
  <2>3. CASE key = "user"
    <3>1. cart'["user"] = new /\ cart'["guest"] = cart["guest"] /\ cart["user"] = read
      BY <1>1, <2>1, <2>3 DEF Bag!Keys
    <3> QED
      BY <1>3, <1>4, <1>5, <2>1, <3>1
  <2> QED
    BY <2>2, <2>3 DEF Bag!Keys
<1>7. ItemsAddUp'
  BY <1>2, <1>3, <1>6, OneShops
<1> QED
  BY <1>2, <1>7 DEF BagInv

LEMMA BagStep == BagInv /\ [Bag!Next]_(Bag!vars) => BagInv'
<1> SUFFICES ASSUME BagInv, [Bag!Next]_(Bag!vars)
             PROVE  BagInv'
  OBVIOUS
<1> USE DEF BagInv
<1>0. Bag!Outside \in Requests /\ Again(Bag!Outside) = 0 /\ "guest" \in Bag!Keys /\ "user" \in Bag!Keys
  BY ItemsFacts DEF Bag!Outside, Requests, Steps, Bag!Keys, Again
<1>s. ASSUME NEW q \in Shoppers
      PROVE  /\ shopper[q] \in Requests /\ shopper[q].next \in Steps /\ shopper[q].key \in Bag!Keys
             /\ shopper[q].got \in Baskets /\ shopper[q].user \in Baskets
  BY DEF BagType, Requests
<1>i. \A k \in Bag!Keys : cart[k] \in Baskets /\ Bag!Items(cart[k]) \in Nat
  BY ItemsFacts DEF BagType
<1>1. ASSUME NEW q \in Shoppers, NEW r \in Requests, Again(r) = 0, Again(shopper[q]) = 0,
             shopper' = [shopper EXCEPT ![q] = r], UNCHANGED <<cart, expected>>, snapshot' \subseteq Bag!Keys
      PROVE  BagInv'
  <2>1. BagType'
    BY <1>1 DEF BagType
  <2>2. shopper'[q] = r /\ \A p \in Shoppers \ {q} : shopper'[p] = shopper[p]
    BY <1>1 DEF BagType
  <2> QED
    BY <1>1, <2>1, <2>2, OneShops
<1>2. ASSUME NEW q \in Shoppers, NEW next \in {"add", "remove", "check out", "merge"}, NEW key \in Bag!Keys,
             Bag!Open(q, next, key)
      PROVE  BagInv'
  <2>1. PICK got \in Bag!Read(key) :
          shopper' = [shopper EXCEPT ![q] = [Bag!Outside EXCEPT !.next = next, !.key = key, !.got = got]]
    BY <1>2 DEF Bag!Open
  <2> DEFINE r == [Bag!Outside EXCEPT !.next = next, !.key = key, !.got = got]
  <2>2. got \in Baskets
    BY <1>i, ItemsFacts DEF Bag!Read
  <2>3. r \in Requests /\ Again(r) = 0
    BY <1>0, <2>2 DEF Requests, Steps, Again
  <2>4. Again(shopper[q]) = 0 /\ UNCHANGED <<cart, expected, snapshot>>
    BY <1>2 DEF Bag!Open, Again, Bag!Does
  <2>5. snapshot' \subseteq Bag!Keys
    BY <2>4 DEF BagType
  <2> HIDE DEF r
  <2>6. shopper' = [shopper EXCEPT ![q] = r]
    BY <2>1 DEF r
  <2> QED
    BY <1>1, <2>3, <2>4, <2>5, <2>6
<1>3. ASSUME NEW q \in Shoppers, Bag!Leave(q)
      PROVE  BagInv'
  <2>1. CASE Bag!Does(q, "clear")
    <3>1. expected' = Bag!Unknown
      BY <1>3, <2>1 DEF Bag!Leave
    <3>2. BagType'
      BY <1>0, <1>3, <3>1 DEF Bag!Leave, BagType, Bag!Unknown
    <3>3. ItemsAddUp'
      BY <3>1 DEF ItemsAddUp, Bag!ItemsAddUp, Bag!Unknown
    <3> QED
      BY <3>2, <3>3
  <2>2. CASE ~Bag!Does(q, "clear")
    <3>1. Again(shopper[q]) = 0
      BY <2>2 DEF Again, Bag!Does
    <3>2. snapshot' \subseteq Bag!Keys /\ UNCHANGED <<cart, expected>>
      BY <1>3, <2>2 DEF Bag!Leave, BagType
    <3> QED
      BY <1>0, <1>1, <1>3, <3>1, <3>2 DEF Bag!Leave
  <2> QED
    BY <2>1, <2>2
<1>4. ASSUME NEW q \in Shoppers, Bag!CheckOut(q)
      PROVE  BagInv'
  <2>1. Again(shopper[q]) = 0
    BY <1>4 DEF Bag!CheckOut, Again, Bag!Does
  <2>2. snapshot' \subseteq Bag!Keys
    BY <1>4, <1>s DEF Bag!CheckOut, BagType
  <2> QED
    BY <1>0, <1>1, <1>4, <2>1, <2>2 DEF Bag!CheckOut
<1>5. ASSUME NEW q \in Shoppers, Bag!MergeRead(q)
      PROVE  BagInv'
  <2>1. PICK got \in Bag!Read("user") : shopper' = [shopper EXCEPT ![q].next = "write", ![q].user = got]
    BY <1>5 DEF Bag!MergeRead
  <2> DEFINE r == [shopper[q] EXCEPT !.next = "write", !.user = got]
  <2>2. got \in Baskets
    BY <1>0, <1>i, ItemsFacts DEF Bag!Read
  <2>3. r \in Requests /\ Again(r) = 0
    BY <1>s, <2>2 DEF Requests, Steps, Again
  <2>4. Again(shopper[q]) = 0 /\ UNCHANGED <<cart, expected, snapshot>>
    BY <1>5 DEF Bag!MergeRead, Again, Bag!Does
  <2>5. snapshot' \subseteq Bag!Keys
    BY <2>4 DEF BagType
  <2>6. shopper' = [shopper EXCEPT ![q] = r]
    BY <1>s, <2>1 DEF BagType, Requests
  <2> HIDE DEF r
  <2> QED
    BY <1>1, <2>3, <2>4, <2>5, <2>6
<1>6. ASSUME NEW q \in Shoppers, NEW v \in Variants, Bag!Add(q, v)
      PROVE  BagInv'
  <2> DEFINE s == shopper[q]
             new == [s.got EXCEPT ![v] = @ + 1]
  <2>1. /\ s.next = "add" /\ Bag!Write(q, s.key, new) /\ Bag!Expect(1, s.key, s.got)
        /\ shopper' = [shopper EXCEPT ![q] = Bag!Outside]
    BY <1>6 DEF Bag!Add
  <2>2. new \in [Variants -> Nat]
        /\ new = [s.got EXCEPT ![v] = s.got[v] + 1] /\ s.got[v] \in Nat
    BY <1>s, ServicesAssumption DEF Baskets
  <2>3. Bag!Items(new) = Bag!Items(s.got) + 1
    BY <1>s, <2>2, ItemsFacts
  <2>4. Again(s) = 0
    BY <2>1 DEF Again
  <2>5. s.key \in Bag!Keys /\ s.got \in Baskets /\ Bag!Items(s.got) \in Nat
    BY <1>s, ItemsFacts
  <2>6. Bag!Items(new) - Bag!Items(s.got) - 1 = Again(Bag!Outside) - Again(s)
    BY <1>0, <2>3, <2>4, <2>5
  <2> DEFINE one == 1
  <2>7. one \in Int
    OBVIOUS
  <2> HIDE DEF new, one
  <2>8. Bag!Expect(one, s.key, s.got) /\ Bag!Items(new) - Bag!Items(s.got) - one = Again(Bag!Outside) - Again(s)
    BY <2>1, <2>6 DEF one
  <2> QED
    BY <1>0, <2>1, <2>2, <2>5, <2>7, <2>8, OneWrites
<1>7. ASSUME NEW q \in Shoppers, NEW v \in Variants, Bag!Remove(q, v)
      PROVE  BagInv'
  <2> DEFINE s == shopper[q]
             new == [s.got EXCEPT ![v] = 0]
  <2>1. /\ s.next = "remove" /\ Bag!Write(q, s.key, new) /\ Bag!Expect(-s.got[v], s.key, s.got)
        /\ shopper' = [shopper EXCEPT ![q] = Bag!Outside]
    BY <1>7 DEF Bag!Remove
  <2>2. new \in [Variants -> Nat]
        /\ s.got[v] \in Nat
    BY <1>s, ServicesAssumption DEF Baskets
  <2>3. Bag!Items(new) = Bag!Items(s.got) - s.got[v] + 0
    BY <1>s, ItemsFacts
  <2>4. Again(s) = 0
    BY <2>1 DEF Again
  <2>5. s.key \in Bag!Keys /\ s.got \in Baskets /\ Bag!Items(s.got) \in Nat
    BY <1>s, ItemsFacts
  <2>6. Bag!Items(new) - Bag!Items(s.got) - (-s.got[v]) = Again(Bag!Outside) - Again(s)
    BY <1>0, <2>2, <2>3, <2>4, <2>5
  <2>7. -s.got[v] \in Int
    BY <2>2
  <2> HIDE DEF new
  <2> QED
    BY <1>0, <2>1, <2>2, <2>5, <2>6, <2>7, OneWrites
<1>8. ASSUME NEW q \in Shoppers, Bag!MergeWrite(q)
      PROVE  BagInv'
  <2> DEFINE s == shopper[q]
             new == [v \in Variants |-> s.user[v] + s.got[v]]
             r == [s EXCEPT !.next = "clear"]
  <2>1. s.next = "write" /\ Bag!Write(q, "user", new) /\ Bag!Expect(0, "user", s.user)
    BY <1>8 DEF Bag!MergeWrite
  <2>2. shopper' = [shopper EXCEPT ![q] = r] /\ r \in Requests
    BY <1>8, <1>s DEF Bag!MergeWrite, BagType, Requests, Steps
  <2>3. new \in [Variants -> Nat]
    BY <1>s, ServicesAssumption DEF Baskets
  <2>4. Bag!Items(new) = Bag!Items(s.user) + Bag!Items(s.got)
    BY <1>s, ItemsFacts
  <2>5. Again(s) = 0 /\ Again(r) = Bag!Items(s.got)
    <3>1. r.next = "clear" /\ r.got = s.got
      BY <1>s DEF Requests
    <3> QED
      BY <2>1, <3>1 DEF Again
  <2>6. Bag!Items(s.user) \in Nat /\ Bag!Items(s.got) \in Nat /\ s.user \in Baskets
    BY <1>s, ItemsFacts
  <2>7. Bag!Items(new) - Bag!Items(s.user) - 0 = Again(r) - Again(s)
    BY <2>4, <2>5, <2>6
  <2> DEFINE zero == 0
  <2>8. zero \in Int
    OBVIOUS
  <2> HIDE DEF new, r, zero
  <2>9. Bag!Expect(zero, "user", s.user) /\ Bag!Items(new) - Bag!Items(s.user) - zero = Again(r) - Again(s)
    BY <2>1, <2>7 DEF zero
  <2> QED
    BY <1>0, <2>1, <2>2, <2>3, <2>6, <2>8, <2>9, OneWrites
<1>9. ASSUME NEW q \in Shoppers, Bag!MergeClear(q)
      PROVE  BagInv'
  <2> DEFINE s == shopper[q]
             new == Bag!Empty
  <2>1. /\ s.next = "clear" /\ Bag!Write(q, "guest", new) /\ Bag!Expect(0, "guest", s.got)
        /\ shopper' = [shopper EXCEPT ![q] = Bag!Outside]
    BY <1>9 DEF Bag!MergeClear
  <2>2. new \in [Variants -> Nat]
    BY DEF Bag!Empty
  <2>3. Bag!Items(new) = 0 /\ Again(s) = Bag!Items(s.got) /\ s.got \in Baskets /\ Bag!Items(s.got) \in Nat
    BY <1>s, <2>1, ItemsFacts DEF Again
  <2>4. Bag!Items(new) - Bag!Items(s.got) - 0 = Again(Bag!Outside) - Again(s)
    BY <1>0, <2>3
  <2> DEFINE zero == 0
  <2>5. zero \in Int
    OBVIOUS
  <2> HIDE DEF new, zero
  <2>6. Bag!Expect(zero, "guest", s.got) /\ Bag!Items(new) - Bag!Items(s.got) - zero = Again(Bag!Outside) - Again(s)
    BY <2>1, <2>4 DEF zero
  <2> QED
    BY <1>0, <2>1, <2>2, <2>3, <2>5, <2>6, OneWrites
<1>10. ASSUME NEW key \in Bag!Keys, Bag!Expire(key)
       PROVE  BagInv'
  <2>1. /\ cart' = [cart EXCEPT ![key] = Bag!Empty] /\ UNCHANGED <<snapshot, shopper>>
        /\ expected' = IF expected = Bag!Unknown THEN Bag!Unknown ELSE expected - Bag!Items(cart[key])
    BY <1>10 DEF Bag!Expire
  <2>2. BagType'
    BY <1>i, <2>1, ItemsFacts DEF BagType, Bag!Unknown
  <2>3. ASSUME expected' # Bag!Unknown
        PROVE  Bag!Items(cart'["guest"]) + Bag!Items(cart'["user"]) = expected' + Bag!Doubled'
    <3>1. expected # Bag!Unknown /\ expected' = expected - Bag!Items(cart[key]) /\ expected \in Int
      BY <2>1, <2>3 DEF BagType
    <3>2. Bag!Items(cart["guest"]) + Bag!Items(cart["user"]) = expected + Bag!Doubled
      BY <3>1 DEF ItemsAddUp, Bag!ItemsAddUp
    <3>3. Bag!Doubled' = Bag!Doubled /\ Bag!Doubled \in Int
      <4>1. Bag!Doubled' = Bag!Doubled
        BY <2>1 DEF Bag!Doubled, Bag!Twice, Bag!Does
      <4>2. \A p \in Shoppers : Bag!Twice[p] \in Int
        BY <1>s, ItemsFacts DEF Bag!Twice
      <4>3. SumFunctionOnSet(Bag!Twice, Shoppers) \in Int
        BY <4>2, SumType, ServicesAssumption DEF Ints
      <4> QED
        BY <4>1, <4>3, SameLibrary DEF Bag!Doubled
    <3>4. cart'[key] = Bag!Empty /\ \A k \in Bag!Keys \ {key} : cart'[k] = cart[k]
      BY <2>1 DEF BagType
    <3>5. Bag!Items(cart["guest"]) \in Nat /\ Bag!Items(cart["user"]) \in Nat
      BY <1>0, <1>i
    <3>6. CASE key = "guest"
      BY <3>1, <3>2, <3>3, <3>4, <3>5, <3>6, ItemsFacts DEF Bag!Keys
    <3>7. CASE key = "user"
      BY <3>1, <3>2, <3>3, <3>4, <3>5, <3>7, ItemsFacts DEF Bag!Keys
    <3> QED
      BY <3>6, <3>7 DEF Bag!Keys
  <2>4. ItemsAddUp'
    BY <2>3 DEF ItemsAddUp, Bag!ItemsAddUp, Bag!Items, Bag!Unknown
  <2> QED
    BY <2>2, <2>4
<1>11. CASE UNCHANGED Bag!vars
  BY <1>11 DEF Bag!vars, BagType, ItemsAddUp, Bag!ItemsAddUp, Bag!Doubled, Bag!Twice, Bag!Does
<1>12. ASSUME NEW q \in Shoppers, \/ \E key \in Bag!Keys, next \in {"add", "remove", "check out"} :
                                        Bag!Open(q, next, key)
                                  \/ Bag!Open(q, "merge", "guest")
       PROVE  BagInv'
  <2>1. \A key \in Bag!Keys, next \in {"add", "remove", "check out"} : Bag!Open(q, next, key) => BagInv'
    BY <1>2
  <2>2. Bag!Open(q, "merge", "guest") => BagInv'
    BY <1>0, <1>2
  <2> QED
    BY <1>12, <2>1, <2>2
<1> HIDE DEF BagInv
<1> QED
  BY <1>3, <1>4, <1>5, <1>6, <1>7, <1>8, <1>9, <1>10, <1>11, <1>12 DEF Bag!Next

LEMMA BagSafe == Bag!Spec => []BagInv
<1>1. Bag!Init => BagInv
  <2> SUFFICES ASSUME Bag!Init PROVE BagInv
    OBVIOUS
  <2>1. Bag!Outside \in Requests
    BY ItemsFacts DEF Bag!Outside, Requests, Steps, Bag!Keys
  <2>2. BagType
    BY <2>1, ItemsFacts DEF Bag!Init, BagType
  <2>3. \A q \in Shoppers : Bag!Twice[q] = 0
    BY DEF Bag!Init, Bag!Twice, Bag!Does, Bag!Outside
  <2>4. SumFunctionOnSet(Bag!Twice, Shoppers) = 0
    <3>1. Ints(Bag!Twice, Shoppers) /\ \A q \in Shoppers : Bag!Twice[q] = Bag!Twice[q] + Bag!Twice[q]
      BY <2>3 DEF Ints
    <3>2. SumFunctionOnSet(Bag!Twice, Shoppers) \in Int
      BY <3>1, SumType, ServicesAssumption
    <3>3. SumFunctionOnSet(Bag!Twice, Shoppers)
            = SumFunctionOnSet(Bag!Twice, Shoppers) + SumFunctionOnSet(Bag!Twice, Shoppers)
      BY <3>1, SumPlus, ServicesAssumption
    <3> QED
      BY <3>2, <3>3
  <2>5. Bag!Items(cart["guest"]) = 0 /\ Bag!Items(cart["user"]) = 0
    BY ItemsFacts DEF Bag!Init, Bag!Keys
  <2> QED
    BY <2>2, <2>4, <2>5, SameLibrary DEF BagInv, Bag!Init, ItemsAddUp, Bag!ItemsAddUp,
                                         Bag!Doubled
<1> QED
  BY <1>1, BagStep, PTL DEF Bag!Spec

\* What the carts hold is what was added and not removed, before and after a merge,
\* until two requests meet on one key or Redis fails, for any number of requests.
THEOREM CartsAddUp == Bag!Spec => []ItemsAddUp
<1>1. BagInv => ItemsAddUp
  BY DEF BagInv
<1> QED
  BY <1>1, BagSafe, PTL

-----------------------------------------------------------------------------
(* The dashboards. The rows of a day that is over are those of orders that can  *)
(* no longer change; "hours" is run only after "daily" of the same night.        *)

\* From one hour to the next the day stays or is the following one.
LEMMA DayFacts ==
  /\ \A h \in Ana!Hours : h \in Nat /\ Ana!Day(h) \in Nat /\ Ana!Day(h) \in Ana!Days
  /\ \A h \in Nat : Ana!Day(h + 1) \in {Ana!Day(h), Ana!Day(h) + 1}
  /\ Ana!Days \in SUBSET Nat
  /\ IsFiniteSet(Ana!Hours) /\ 0 \in Ana!Hours
<1> DEFINE P == HoursPerDay
<1>0. P \in Nat \ {0} /\ LastHour \in Nat
  BY ServicesAssumption
<1>1. \A h \in Nat : /\ h \div P \in Nat
                     /\ P * (h \div P) <= h /\ h < P * (h \div P) + P
  BY <1>0
<1>2. ASSUME NEW h \in Nat
      PROVE  (h + 1) \div P \in {h \div P, (h \div P) + 1}
  <2> DEFINE a == h \div P
             b == (h + 1) \div P
  <2>1. /\ a \in Nat /\ P * a <= h /\ h < P * a + P
        /\ b \in Nat /\ P * b <= h + 1 /\ h + 1 < P * b + P
    BY <1>1
  <2> HIDE DEF a, b, P
  <2>2. ASSUME b < a PROVE FALSE
    <3>1. PICK k \in Nat : a = b + 1 + k
      <4>1. a - b - 1 \in Nat /\ a = b + 1 + (a - b - 1)
        BY <2>1, <2>2
      <4> QED
        BY <4>1
    <3>2. P * a = P * b + P + P * k /\ P * k \in Nat /\ P * b \in Nat
      BY <1>0, <2>1, <3>1
    <3> QED
      BY <1>0, <2>1, <3>2
  <2>3. ASSUME b > a + 1 PROVE FALSE
    <3>1. PICK k \in Nat : b = a + 2 + k
      <4>1. b - a - 2 \in Nat /\ b = a + 2 + (b - a - 2)
        BY <2>1, <2>3
      <4> QED
        BY <4>1
    <3>2. P * b = P * a + P + P + P * k /\ P * k \in Nat /\ P * a \in Nat
      BY <1>0, <2>1, <3>1
    <3> QED
      BY <1>0, <2>1, <3>2
  <2>4. b = a \/ b = a + 1
    BY <2>1, <2>2, <2>3
  <2> QED
    BY <2>4 DEF a, b
<1>3. Ana!Hours \in SUBSET Nat /\ IsFiniteSet(Ana!Hours) /\ 0 \in Ana!Hours
  BY <1>0, FS_Interval DEF Ana!Hours
<1>4. \A h \in Nat : Ana!Day(h) = h \div P
  BY DEF Ana!Day
<1>5. \A h \in Nat : Ana!Day(h) \in Nat
  BY <1>1, <1>4
<1>6. Ana!Days \in SUBSET Nat /\ \A h \in Ana!Hours : Ana!Day(h) \in Ana!Days
  BY <1>3, <1>5 DEF Ana!Days
<1>7. \A h \in Nat : Ana!Day(h + 1) \in {Ana!Day(h), Ana!Day(h) + 1}
  BY <1>2, <1>4
<1> QED
  BY <1>3, <1>5, <1>6, <1>7

Sold(H) == Cardinality(Ana!Confirmed(H))

LEMMA SoldFacts ==
  /\ \A H : IsFiniteSet(Ana!Confirmed(H)) /\ Sold(H) \in 0 .. Cardinality(Sales)
  /\ Cardinality(Sales) \in Nat
<1> SUFFICES ASSUME NEW H PROVE IsFiniteSet(Ana!Confirmed(H)) /\ Sold(H) \in 0 .. Cardinality(Sales)
                                /\ Cardinality(Sales) \in Nat
  OBVIOUS
<1>1. IsFiniteSet(Sales) /\ Ana!Confirmed(H) \in SUBSET Sales
  BY ServicesAssumption DEF Ana!Confirmed
<1>2. IsFiniteSet(Ana!Confirmed(H)) /\ Cardinality(Ana!Confirmed(H)) <= Cardinality(Sales)
  BY <1>1, FS_Subset
<1>3. Cardinality(Ana!Confirmed(H)) \in Nat /\ Cardinality(Sales) \in Nat
  BY <1>1, <1>2, FS_CardinalityType
<1> QED
  BY <1>2, <1>3 DEF Sold

\* Hours that are counted each for itself add up to the orders of all of them.
LEMMA HoursAddUp ==
  ASSUME NEW fun, NEW H, IsFiniteSet(H), \A h \in H : fun[h] = Sold({h})
  PROVE  SumFunctionOnSet(fun, H) = Sold(H)
<1> DEFINE F(s) == SumFunctionOnSet(fun, s)
           T == {s \in SUBSET H : F(s) # Sold(s)}
<1>1. SUFFICES ASSUME T # {} PROVE FALSE
  OBVIOUS
<1>0. T \in SUBSET SUBSET H
  OBVIOUS
<1> HIDE DEF T
<1>2. PICK s \in T : \A r \in SUBSET s : r # s => r \notin T
  BY <1>0, <1>1, SmallestSet
<1> DEFINE y == First(s)
           r == s \ {y}
<1>3. IsFiniteSet(s) /\ s \in SUBSET H /\ r \in SUBSET H /\ r \in SUBSET s
  BY <1>0, FS_Subset
<1>4. F(s) = IF s = {} THEN 0 ELSE fun[y] + F(r)
  BY <1>3, SumUnfolds
<1>5. s # {}
  <2>1. CASE s = {}
    <3>1. Ana!Confirmed(s) = {}
      BY <2>1 DEF Ana!Confirmed
    <3>2. Sold(s) = 0
      BY <3>1, FS_EmptySet DEF Sold
    <3> QED
      BY <1>2, <1>4, <2>1, <3>2 DEF T
  <2> QED
    BY <2>1
<1>6. y \in s /\ y \in H /\ r # s
  BY <1>3, <1>5, FirstFacts
<1>7. F(r) = Sold(r)
  BY <1>2, <1>3, <1>6 DEF T
<1>8. Sold(s) = Sold(r) + Sold({y})
  <2>1. Ana!Confirmed(s) = Ana!Confirmed(r) \cup Ana!Confirmed({y})
        /\ Ana!Confirmed(r) \cap Ana!Confirmed({y}) = {}
    BY <1>6 DEF Ana!Confirmed
  <2>2. Cardinality(Ana!Confirmed(r) \cup Ana!Confirmed({y}))
          = Cardinality(Ana!Confirmed(r)) + Cardinality(Ana!Confirmed({y})) - Cardinality({})
    BY <2>1, SoldFacts, FS_Union
  <2>3. Cardinality({}) = 0 /\ Sold(r) \in Nat /\ Sold({y}) \in Nat
    BY SoldFacts, FS_EmptySet
  <2> QED
    BY <2>1, <2>2, <2>3 DEF Sold
<1>9. fun[y] = Sold({y}) /\ Sold(r) \in Nat /\ Sold({y}) \in Nat
  BY <1>6, SoldFacts
<1> HIDE DEF F, r, y
<1> QED
  BY <1>2, <1>4, <1>5, <1>7, <1>8, <1>9 DEF T

Yesterday == Ana!Day(hour) - 1
Night == beat \cap {"daily", "hours"}

AnaType ==
  /\ hour \in Ana!Hours
  /\ saleHour \in [Sales -> Ana!Hours \cup {Ana!Never}]
  /\ hourly \in [Ana!Hours -> 0 .. Cardinality(Sales) \cup {Ana!Never}]
  /\ daily \in [Ana!Days -> 0 .. Cardinality(Sales) \cup {Ana!Never}]
  /\ beat \subseteq {"hourly", "daily", "hours"} /\ abandoned \subseteq Ana!Days
  /\ firstTask \in [Sales -> {"none", "queued", "first", "done"}]
  /\ milestone = {} \/ \E o \in Sales : milestone = {o}

\* The rows of day d hold what was sold on it.
DayIsRight(d)   == daily[d] = Sold(Ana!HoursOf(d))
HoursAreRight(d) == \A h \in Ana!HoursOf(d) : hourly[h] = Sold({h})

IsOver(d) == d < Yesterday \/ (d = Yesterday /\ Night = {})

AnaInv ==
  /\ AnaType
  /\ Night # {} => hour # 0 /\ Ana!Day(hour - 1) = Yesterday
  /\ "hours" \in beat => DayIsRight(Yesterday)
  /\ \A d \in Ana!Days : IsOver(d) /\ d \notin abandoned => DayIsRight(d) /\ HoursAreRight(d)

LEMMA AnaStep == AnaInv /\ [Ana!Next]_(Ana!vars) => AnaInv'
<1> SUFFICES ASSUME AnaInv, [Ana!Next]_(Ana!vars)
             PROVE  AnaInv'
  OBVIOUS
<1>t. /\ AnaType /\ hour \in Nat /\ Yesterday \in Int /\ Ana!Days \in SUBSET Nat
      /\ Yesterday = Ana!Day(hour) - 1 /\ Ana!Day(hour) \in Nat
  BY DayFacts DEF AnaInv, AnaType, Yesterday
<1>n. Night # {} => Yesterday \in Ana!Days
  <2>1. ASSUME Night # {} PROVE hour - 1 \in Ana!Hours /\ Ana!Day(hour - 1) = Yesterday
    BY <1>t, <2>1, ServicesAssumption DEF AnaInv, AnaType, Ana!Hours
  <2> QED
    BY <2>1, DayFacts
<1>1. ASSUME NEW o \in Sales, Ana!CheckFirst(o) \/ Ana!RecordFirst(o)
      PROVE  AnaInv'
  <2>1. UNCHANGED <<hour, saleHour, hourly, daily, beat, abandoned>>
    BY <1>1 DEF Ana!CheckFirst, Ana!RecordFirst
  <2>2. firstTask' \in [Sales -> {"none", "queued", "first", "done"}]
    BY <1>1, <1>t DEF Ana!CheckFirst, Ana!RecordFirst, AnaType
  <2>3. milestone' = {} \/ \E x \in Sales : milestone' = {x}
    BY <1>1, <1>t DEF Ana!CheckFirst, Ana!RecordFirst, AnaType
  <2>4. AnaType'
    BY <1>t, <2>1, <2>2, <2>3 DEF AnaType
  <2>5. \A H : Sold(H)' = Sold(H)
    BY <2>1 DEF Sold, Ana!Confirmed
  <2>6. UNCHANGED <<Night, Yesterday>>
    BY <2>1 DEF Night, Yesterday
  <2>7. \A d \in Int : /\ DayIsRight(d) => DayIsRight(d)'
                       /\ HoursAreRight(d) => HoursAreRight(d)'
                       /\ IsOver(d)' => IsOver(d)
    BY <2>1, <2>5, <2>6 DEF IsOver, DayIsRight, HoursAreRight
  <2>8. "hours" \in beat' => DayIsRight(Yesterday)'
    BY <1>t, <2>1, <2>6, <2>7 DEF AnaInv, DayIsRight
  <2>9. \A d \in Ana!Days : IsOver(d)' /\ d \notin abandoned' => DayIsRight(d)' /\ HoursAreRight(d)'
    BY <1>t, <2>1, <2>7 DEF AnaInv
  <2> QED
    BY <2>1, <2>4, <2>6, <2>8, <2>9 DEF AnaInv
<1>2. CASE UNCHANGED Ana!vars
  BY <1>2 DEF Ana!vars, AnaInv, AnaType, Night, Yesterday, IsOver, DayIsRight,
              HoursAreRight, Sold, Ana!Confirmed
<1>3. ASSUME NEW o \in Sales, Ana!Confirm(o)
      PROVE  AnaInv'
  <2>1. /\ saleHour[o] = Ana!Never /\ saleHour' = [saleHour EXCEPT ![o] = hour]
        /\ UNCHANGED <<hour, hourly, daily, beat, abandoned, milestone>>
    BY <1>3 DEF Ana!Confirm
  <2>2. AnaType'
    BY <1>3, <1>t DEF Ana!Confirm, AnaType
  <2>3. ASSUME NEW H, hour \notin H, H \in SUBSET Ana!Hours
        PROVE  Sold(H)' = Sold(H)
    <3>1. Ana!Never \notin H
      BY <2>3, DayFacts DEF Ana!Never
    <3>2. \A x \in Sales : saleHour'[x] \in H <=> saleHour[x] \in H
      BY <1>t, <2>1, <2>3, <3>1 DEF AnaType
    <3>3. Ana!Confirmed(H)' = Ana!Confirmed(H)
      BY <3>2 DEF Ana!Confirmed
    <3> QED
      BY <3>3 DEF Sold
  <2>4. ASSUME NEW d \in Int, d < Ana!Day(hour)
        PROVE  /\ DayIsRight(d) => DayIsRight(d)'
               /\ HoursAreRight(d) => HoursAreRight(d)'
    <3>1. hour \notin Ana!HoursOf(d) /\ Ana!HoursOf(d) \in SUBSET Ana!Hours
      BY <1>t, <2>4 DEF Ana!HoursOf
    <3>2. Sold(Ana!HoursOf(d))' = Sold(Ana!HoursOf(d))
      BY <2>3, <3>1
    <3>3. \A h \in Ana!HoursOf(d) : Sold({h})' = Sold({h})
      BY <2>3, <3>1
    <3> QED
      BY <2>1, <3>2, <3>3 DEF DayIsRight, HoursAreRight
  <2>5. UNCHANGED <<Yesterday, Night>> /\ Ana!Day(hour)' = Ana!Day(hour)
    BY <2>1 DEF Yesterday, Night
  <2>6. "hours" \in beat' => DayIsRight(Yesterday)'
    BY <1>t, <2>1, <2>4, <2>5 DEF AnaInv, DayIsRight
  <2>7. \A d \in Ana!Days : IsOver(d)' => IsOver(d) /\ d \in Int /\ d < Ana!Day(hour)
    BY <1>t, <2>5 DEF IsOver
  <2>8. \A d \in Ana!Days : IsOver(d)' /\ d \notin abandoned' => DayIsRight(d)' /\ HoursAreRight(d)'
    BY <2>1, <2>4, <2>7 DEF AnaInv
  <2> QED
    BY <2>1, <2>2, <2>5, <2>6, <2>8 DEF AnaInv
\* The steps after which no more orders are confirmed than before.
<1>4. ASSUME saleHour' = saleHour, AnaType',
             Night' # {} => hour' # 0 /\ Ana!Day(hour' - 1) = Yesterday',
             "hours" \in beat' => daily'[Yesterday'] = Sold(Ana!HoursOf(Yesterday')),
             \A d \in Ana!Days : IsOver(d)' /\ d \notin abandoned' =>
               /\ daily'[d] = Sold(Ana!HoursOf(d))
               /\ \A h \in Ana!HoursOf(d) : hourly'[h] = Sold({h})
      PROVE  AnaInv'
  <2>1. \A H : Sold(H)' = Sold(H)
    BY <1>4 DEF Sold, Ana!Confirmed
  <2>2. "hours" \in beat' => DayIsRight(Yesterday)'
    BY <1>4, <2>1 DEF DayIsRight
  <2>3. \A d \in Ana!Days : IsOver(d)' /\ d \notin abandoned' => DayIsRight(d)' /\ HoursAreRight(d)'
    BY <1>4, <2>1 DEF DayIsRight, HoursAreRight
  <2> QED
    BY <1>4, <2>2, <2>3 DEF AnaInv
<1>o. \A d \in Ana!Days : IsOver(d) /\ d \notin abandoned =>
               /\ daily[d] = Sold(Ana!HoursOf(d))
               /\ \A h \in Ana!HoursOf(d) : hourly[h] = Sold({h})
  BY DEF AnaInv, DayIsRight, HoursAreRight
<1>b. "hours" \in beat => daily[Yesterday] = Sold(Ana!HoursOf(Yesterday))
  BY DEF AnaInv, DayIsRight
<1>5. CASE Ana!NextHour
  <2>1. /\ hour < LastHour /\ beat = {} /\ hour' = hour + 1
        /\ beat' = {"hourly"} \cup (IF Ana!Day(hour + 1) # Ana!Day(hour) THEN {"daily"} ELSE {})
        /\ UNCHANGED <<saleHour, hourly, daily, abandoned, firstTask, milestone>>
    BY <1>5 DEF Ana!NextHour
  <2>2. AnaType'
    BY <1>t, <2>1, ServicesAssumption DEF AnaType, Ana!Hours
  <2>3. Ana!Day(hour + 1) \in {Ana!Day(hour), Ana!Day(hour) + 1}
    BY <1>t, DayFacts
  <2>4. Night = {} /\ Night' = IF Ana!Day(hour + 1) # Ana!Day(hour) THEN {"daily"} ELSE {}
    BY <2>1 DEF Night
  <2>5. Yesterday' = Ana!Day(hour + 1) - 1
    BY <2>1 DEF Yesterday
  <2>6. Night' # {} => hour' # 0 /\ Ana!Day(hour' - 1) = Yesterday'
    <3>1. hour' # 0 /\ hour' - 1 = hour
      BY <1>t, <2>1
    <3> QED
      BY <1>t, <2>3, <2>4, <2>5, <3>1
  <2>7. \A d \in Ana!Days : IsOver(d)' => IsOver(d)
    BY <1>t, <2>3, <2>4, <2>5 DEF IsOver
  <2> QED
    BY <1>4, <1>o, <2>1, <2>2, <2>6, <2>7
<1>6. CASE Ana!PopulateCurrentHour
  <2>1. /\ hourly' = [hourly EXCEPT ![hour] = Sold({hour})] /\ beat' = beat \ {"hourly"}
        /\ UNCHANGED <<hour, saleHour, daily, abandoned, firstTask, milestone>>
    BY <1>6, SameLibrary DEF Ana!PopulateCurrentHour, Sold
  <2>2. AnaType'
    BY <1>t, <2>1, SoldFacts DEF AnaType
  <2>3. Night' = Night /\ Yesterday' = Yesterday /\ ("hours" \in beat' => "hours" \in beat)
    BY <2>1 DEF Night, Yesterday
  <2>4. \A d \in Ana!Days : IsOver(d)' => IsOver(d) /\ d < Ana!Day(hour)
    BY <1>t, <2>3 DEF IsOver
  <2>5. \A d \in Ana!Days : d < Ana!Day(hour) => \A h \in Ana!HoursOf(d) : hourly'[h] = hourly[h]
    BY <1>t, <2>1 DEF AnaType, Ana!HoursOf
  <2>6. Night' # {} => hour' # 0 /\ Ana!Day(hour' - 1) = Yesterday'
    BY <2>1, <2>3 DEF AnaInv
  <2> QED
    BY <1>4, <1>o, <1>b, <2>1, <2>2, <2>3, <2>4, <2>5, <2>6
<1>7. CASE Ana!SumUpDay
  <2>1. /\ "daily" \in beat /\ daily' = [daily EXCEPT ![Yesterday] = Sold(Ana!HoursOf(Yesterday))]
        /\ beat' = (beat \ {"daily"}) \cup {"hours"}
        /\ UNCHANGED <<hour, saleHour, hourly, abandoned, firstTask, milestone>>
    BY <1>7, SameLibrary DEF Ana!SumUpDay, Sold, Yesterday
  <2>2. AnaType'
    BY <1>t, <2>1, SoldFacts DEF AnaType
  <2>3. Night # {} /\ Night' # {} /\ Yesterday' = Yesterday
    BY <2>1 DEF Night, Yesterday
  <2>4. daily'[Yesterday] = Sold(Ana!HoursOf(Yesterday))
    BY <1>n, <1>t, <2>1, <2>3 DEF AnaType
  <2>5. \A d \in Ana!Days : IsOver(d)' => IsOver(d) /\ daily'[d] = daily[d]
    BY <1>t, <2>1, <2>3 DEF IsOver, AnaType
  <2>6. hour' # 0 /\ Ana!Day(hour' - 1) = Yesterday'
    BY <2>1, <2>3 DEF AnaInv
  <2> QED
    BY <1>4, <1>o, <2>1, <2>2, <2>3, <2>4, <2>5, <2>6
<1>8. CASE Ana!SumUpHours
  <2>1. /\ "hours" \in beat /\ beat' = beat \ {"hours"}
        /\ hourly' = [h \in Ana!Hours |-> IF h \in Ana!HoursOf(Yesterday) THEN Sold({h}) ELSE hourly[h]]
        /\ UNCHANGED <<hour, saleHour, daily, abandoned, firstTask, milestone>>
    BY <1>8, SameLibrary DEF Ana!SumUpHours, Sold, Yesterday
  <2>2. AnaType'
    BY <1>t, <2>1, SoldFacts DEF AnaType
  <2>3. Night # {} /\ Yesterday' = Yesterday
    BY <2>1 DEF Night, Yesterday
  <2>4. Night' # {} => hour' # 0 /\ Ana!Day(hour' - 1) = Yesterday'
    BY <2>1, <2>3 DEF AnaInv
  <2>5. "hours" \notin beat'
    BY <2>1
  <2>6. ASSUME NEW d \in Ana!Days, IsOver(d)', d \notin abandoned'
        PROVE  /\ daily'[d] = Sold(Ana!HoursOf(d))
               /\ \A h \in Ana!HoursOf(d) : hourly'[h] = Sold({h})
    <3>1. CASE d = Yesterday
      <4>1. \A h \in Ana!HoursOf(d) : hourly'[h] = Sold({h})
        BY <2>1, <3>1 DEF Ana!HoursOf
      <4> QED
        BY <1>b, <2>1, <3>1, <4>1
    <3>2. CASE d # Yesterday
      <4>1. IsOver(d)
        BY <2>3, <2>6, <3>2 DEF IsOver
      <4>2. \A h \in Ana!HoursOf(d) : hourly'[h] = hourly[h]
        BY <2>1, <3>2 DEF Ana!HoursOf
      <4> QED
        BY <1>o, <2>1, <2>6, <4>1, <4>2
    <3> QED
      BY <3>1, <3>2
  <2> QED
    BY <1>4, <2>1, <2>2, <2>4, <2>5, <2>6
<1>9. CASE Ana!FailRun
  <2>1. UNCHANGED <<hour, saleHour, hourly, daily, firstTask, milestone>>
    BY <1>9 DEF Ana!FailRun
  <2>2. Yesterday' = Yesterday
    BY <2>1 DEF Yesterday
  <2>3. /\ beat' \subseteq {"hourly", "daily", "hours"} /\ (Night' # {} => Night # {})
        /\ "hours" \in beat' => "hours" \in beat
    BY <1>9, <1>t DEF Ana!FailRun, AnaType, Night
  <2>4. \/ abandoned' = abandoned /\ (Night' = {} => Night = {})
        \/ Night # {} /\ abandoned' = abandoned \cup {Yesterday}
    BY <1>9, <1>t DEF Ana!FailRun, AnaType, Night, Yesterday
  <2>5. AnaType'
    BY <1>n, <1>t, <2>1, <2>3, <2>4 DEF AnaType
  <2>6. Night' # {} => hour' # 0 /\ Ana!Day(hour' - 1) = Yesterday'
    BY <2>1, <2>2, <2>3 DEF AnaInv
  <2>7. \A d \in Ana!Days : IsOver(d)' /\ d \notin abandoned' => IsOver(d) /\ d \notin abandoned
    BY <2>2, <2>4 DEF IsOver
  <2> QED
    BY <1>4, <1>o, <1>b, <2>1, <2>2, <2>3, <2>5, <2>6, <2>7
<1> QED
  BY <1>1, <1>2, <1>3, <1>5, <1>6, <1>7, <1>8, <1>9 DEF Ana!Next

LEMMA AnaSafe == Ana!Spec => []AnaInv
<1>1. Ana!Init => AnaInv
  <2> SUFFICES ASSUME Ana!Init PROVE AnaInv
    OBVIOUS
  <2>1. AnaType
    BY DayFacts DEF Ana!Init, AnaType
  <2>2. Ana!Day(0) = 0
    BY ServicesAssumption DEF Ana!Day
  <2>3. Night = {} /\ Yesterday = -1 /\ "hours" \notin beat
    BY <2>2 DEF Ana!Init, Night, Yesterday
  <2>4. \A d \in Ana!Days : ~IsOver(d)
    BY <2>3, DayFacts DEF IsOver
  <2> QED
    BY <2>1, <2>3, <2>4 DEF AnaInv
<1> QED
  BY <1>1, AnaStep, PTL DEF Ana!Spec

LEMMA AnaTypeCorrect == AnaInv => Ana!TypeOK
<1> SUFFICES ASSUME AnaInv PROVE Ana!TypeOK
  OBVIOUS
<1>1. milestone \subseteq Sales /\ Cardinality(milestone) <= 1
  <2>1. CASE milestone = {}
    BY <2>1, FS_EmptySet
  <2>2. ASSUME NEW o \in Sales, milestone = {o}
        PROVE  milestone \subseteq Sales /\ Cardinality(milestone) <= 1
    BY <2>2, FS_Singleton
  <2> QED
    BY <2>1, <2>2 DEF AnaInv, AnaType
<1> QED
  BY <1>1, SameLibrary DEF AnaInv, AnaType, Ana!TypeOK

\* What the dashboard adds up for a day that is over are the orders confirmed on it,
\* although each of its hours was first counted when it had just begun, unless the run
\* of the night was given up; for any number of orders, hours and days.
THEOREM DaysAreRight == Ana!Spec => []DaysAddUp
<1>1. AnaInv => DaysAddUp
  <2> SUFFICES ASSUME AnaInv, NEW d \in Ana!Days, d \notin abandoned,
                      d < Yesterday \/ (d = Yesterday /\ Night = {})
               PROVE  Ana!Shown(d) = Sold(Ana!HoursOf(d)) /\ daily[d] = Ana!Shown(d)
    BY SameLibrary DEF DaysAddUp, Ana!DaysAddUp, Yesterday, Night, Sold
  <2>1. daily[d] = Sold(Ana!HoursOf(d)) /\ \A h \in Ana!HoursOf(d) : hourly[h] = Sold({h})
    BY DEF AnaInv, IsOver, DayIsRight, HoursAreRight
  <2>2. \A h \in Ana!HoursOf(d) : Ana!Counts[h] = Sold({h})
    BY <2>1, SoldFacts DEF Ana!Counts, Ana!HoursOf, Ana!Never
  <2>3. IsFiniteSet(Ana!HoursOf(d))
    BY DayFacts, FS_Subset DEF Ana!HoursOf
  <2>4. SumFunctionOnSet(Ana!Counts, Ana!HoursOf(d)) = Sold(Ana!HoursOf(d))
    BY <2>2, <2>3, HoursAddUp
  <2> QED
    BY <2>1, <2>4, SameLibrary DEF Ana!Shown
<1> QED
  BY <1>1, AnaSafe, PTL

-----------------------------------------------------------------------------
(* The composition *)

\* A behaviour of all services is one of each of them.
LEMMA ServicesAreTheirParts ==
  ServicesSpec => /\ Spec /\ Con!Spec /\ Sub!Spec /\ Loy!Spec /\ Plan!Spec /\ C2B!Spec /\ Ana!Spec
                  /\ Bag!Spec /\ Item!Spec /\ Pin!Spec /\ User!Spec /\ Site!Spec /\ Auth!Spec
<1> DEFINE all == <<part, vars, conVars, subVars, loyVars, planVars, tillVars,
                    sumVars, cartVars, itemVars, cardVars, userVars, siteVars, authVars>>
<1>1. ServicesInit => /\ Init /\ Con!Init /\ Sub!Init /\ Loy!Init /\ Plan!Init /\ C2B!Init /\ Ana!Init
                      /\ Bag!Init /\ Item!Init /\ Pin!Init /\ User!Init /\ Site!Init /\ Auth!Init
  BY DEF ServicesInit
<1>2. [ServicesNext]_all => [Next]_vars /\ [Con!Next]_(Con!vars) /\ [Sub!Next]_(Sub!vars)
  <2>1. [ServicesNext]_all => [Next]_vars
    BY DEF ServicesNext, Still
  <2>2. [ServicesNext]_all => [Con!Next]_(Con!vars)
    BY DEF ServicesNext, Still, conVars, Con!vars, Con!bookingVars, Con!workVars,
           Con!invVars, Con!invLedger
  <2>3. [ServicesNext]_all => [Sub!Next]_(Sub!vars)
    BY DEF ServicesNext, Still, subVars, Sub!vars, Sub!subVars
  <2> QED
    BY <2>1, <2>2, <2>3
<1>3. [ServicesNext]_all => [Loy!Next]_(Loy!vars) /\ [Plan!Next]_(Plan!vars) /\ [C2B!Next]_(C2B!vars)
  BY DEF ServicesNext, Still, loyVars, planVars, tillVars, Loy!vars, Plan!vars, C2B!vars
<1>4. [ServicesNext]_all => [Ana!Next]_(Ana!vars) /\ [Bag!Next]_(Bag!vars) /\ [Item!Next]_(Item!vars)
  BY DEF ServicesNext, Still, sumVars, cartVars, itemVars, Ana!vars, Bag!vars, Item!vars
<1>5. [ServicesNext]_all => [Pin!Next]_(Pin!vars) /\ [User!Next]_(User!vars)
  BY DEF ServicesNext, Still, cardVars, userVars, Pin!vars, User!vars
<1>6. [ServicesNext]_all => [Site!Next]_(Site!vars) /\ [Auth!Next]_(Auth!vars)
  BY DEF ServicesNext, Still, siteVars, authVars, Site!vars, Auth!vars
<1> HIDE DEF all
<1>7. ServicesSpec => ServicesInit /\ [][ServicesNext]_all
  BY DEF ServicesSpec, all
<1> QED
  BY <1>1, <1>2, <1>3, <1>4, <1>5, <1>6, <1>7, PTL
     DEF Spec, Con!Spec, Sub!Spec, Loy!Spec, Plan!Spec, C2B!Spec, Ana!Spec, Bag!Spec, Item!Spec,
         Pin!Spec, User!Spec, Site!Spec, Auth!Spec

\* The state of every service is of its type: no list, counter or table of theirs grows
\* beyond what its module says.
THEOREM ServicesTypes == ServicesSpec => []ServicesTypeOK
<1>1. /\ QueueInv /\ ConInv /\ SubInv /\ LoyInv /\ PlanInv /\ TillInv /\ AnaInv
      /\ BagInv /\ StockInv /\ CardInv /\ UserInv /\ SiteInv /\ AuthInv
      => ServicesTypeOK
  <2>1. QueueInv /\ ConInv /\ PlanInv /\ TillInv /\ StockInv /\ CardInv
          => TypeOK /\ Con!TypeOK /\ Plan!TypeOK /\ C2B!TypeOK /\ Item!TypeOK /\ Pin!TypeOK
    BY DEF QueueInv, ConInv, PlanInv, TillInv, StockInv, CardInv, CardPlaces
  <2>2. BagInv => Bag!TypeOK
    BY BagIsOfItsType DEF BagInv
  <2> QED
    BY <2>1, <2>2, SubTypeCorrect, LoyTypeCorrect, AnaTypeCorrect, UserTypeCorrect, SiteTypeCorrect, AuthTypeCorrect DEF ServicesTypeOK
<1>2. Con!Spec => []ConInv
  BY ConInit, ConStep, PTL DEF Con!Spec
<1> QED
  BY <1>1, <1>2, QueueSafe, SubSafe, LoySafe, PlanSafe, TillSafe, AnaSafe, BagSafe, StockSafe,
     CardSafe, UserSafe, SiteSafe, AuthSafe, ServicesAreTheirParts, PTL

\* What is shown of each service holds of all of them together.
THEOREM ServicesAreSafe ==
  ServicesSpec => [](/\ NeverLost /\ WorkWasDecided /\ ErasedWasCancelled /\ LedgerAddsUp /\ LimitBound
                     /\ ReceiptAnnouncedOnce /\ DaysAddUp /\ ItemsAddUp /\ StockAddsUp /\ SuccessIsSeen
                     /\ SessionsBound /\ OneFetcher)
BY ServicesAreTheirParts, CallsAreKept, WorkIsDecided, ErasureWasDue, LedgersAddUp, LimitsAreBounded,
   AnnouncedOnce, DaysAreRight, CartsAddUp, StockIsDue, SuccessesAreSeen, SessionsAreBounded,
   FetchersAreBounded, PTL
=============================================================================
