---------------------------- MODULE PaymentProofs ----------------------------
(***************************************************************************)
(* Theorems about Payment for every set of checkouts, requests,            *)
(* reconciliations and reversal tasks, and every value of the bounds.      *)
(***************************************************************************)
EXTENDS PaymentRefinement, FiniteSetTheorems, TLAPS

\* No step writes a value of another type.
LEMMA TypeStep == TypeOK /\ [Next]_vars => TypeOK'
<1> SUFFICES ASSUME TypeOK, [Next]_vars
             PROVE  TypeOK'
  OBVIOUS
<1> USE DEF TypeOK, requestVars, callbackVars, reversalVars
<1>1. ASSUME NEW q \in Requests, Request(q)
      PROVE  TypeOK'
  <2>1. ASSUME NEW r \in References, CountAttempts(q, r) PROVE TypeOK'
    BY <2>1 DEF CountAttempts
  <2>2. CASE ReturnExisting(q)
    BY <2>2 DEF ReturnExisting
  <2>3. ASSUME NEW c \in Checkouts, PushPrompt(q, c) PROVE TypeOK'
    BY <2>3 DEF PushPrompt, Prompts
  <2>4. CASE PushRejected(q)
    BY <2>4 DEF PushRejected
  <2>5. CASE SaveTransaction(q)
    BY <2>5 DEF SaveTransaction, Status, Initiated
  <2>6. CASE LoseRequest(q)
    BY <2>6 DEF LoseRequest
  <2> QED
    BY <1>1, <2>1, <2>2, <2>3, <2>4, <2>5, <2>6 DEF Request, Initiate
<1>2. ASSUME NEW c \in Checkouts, World(c)
      PROVE  TypeOK'
  <2>1. ASSUME NEW result \in Resolved, Answer(c, result) PROVE TypeOK'
    BY <2>1 DEF Answer, Prompts
  <2>2. CASE GrowOlder(c)
    BY <2>2 DEF GrowOlder, Ages, ReconcileCutoff
  <2>3. CASE PostCallback(c)
    BY <2>3 DEF PostCallback
  <2> QED
    BY <1>2, <2>1, <2>2, <2>3 DEF World
<1>3. ASSUME NEW c \in Checkouts, Callback(c)
      PROVE  TypeOK'
  <2>1. CASE SettleByCallback(c)
    BY <2>1 DEF SettleByCallback, ResultStatus, Status
  <2>2. CASE IgnoreCallback(c)
    BY <2>2 DEF IgnoreCallback
  <2>3. CASE LoseCallback(c)
    BY <2>3 DEF LoseCallback
  <2>4. CASE SendConfirmed(c)
    BY <2>4 DEF SendConfirmed
  <2>5. CASE LoseConfirmed(c)
    BY <2>5 DEF LoseConfirmed
  <2> QED
    BY <1>3, <2>1, <2>2, <2>3, <2>4, <2>5 DEF Callback
<1>4. CASE ExpireStale
  BY <1>4 DEF ExpireStale, Status
<1>5. ASSUME NEW w \in Reconcilers, Reconcile(w)
      PROVE  TypeOK'
  <2>1. CASE ReconcileRead(w)
    BY <2>1 DEF ReconcileRead, Unreconciled
  <2>2. ASSUME NEW c \in Checkouts, ReconcileSave(w, c) PROVE TypeOK'
    BY <2>2 DEF ReconcileSave, ResultStatus, Status
  <2>3. ASSUME NEW c \in Checkouts, ReconcileSkip(w, c) PROVE TypeOK'
    BY <2>3 DEF ReconcileSkip
  <2> QED
    BY <1>5, <2>1, <2>2, <2>3 DEF Reconcile
<1>6. ASSUME NEW f \in Refunders, Reversal(f)
      PROVE  TypeOK'
  <2>1. ASSUME NEW c \in Checkouts, RequestReversal(f, c) PROVE TypeOK'
    BY <2>1 DEF RequestReversal
  <2>2. CASE CallReversal(f)
    BY <2>2 DEF CallReversal
  <2>3. CASE SkipReversal(f)
    BY <2>3 DEF SkipReversal
  <2>4. CASE FailReversal(f)
    BY <2>4 DEF FailReversal
  <2>5. CASE SaveReversal(f)
    BY <2>5 DEF SaveReversal, Status
  <2> QED
    BY <1>6, <2>1, <2>2, <2>3, <2>4, <2>5 DEF Reversal
<1>7. CASE UNCHANGED vars
  BY <1>7 DEF vars
<1> QED
  BY <1>1, <1>2, <1>3, <1>4, <1>5, <1>6, <1>7 DEF Next

\* Every variable keeps its type: no handler writes a value of another kind.
THEOREM TypeCorrect == Spec => []TypeOK
<1>1. Init => TypeOK
  BY DEF Init, TypeOK, Status, Prompts, Ages
<1> QED
  BY <1>1, TypeStep, PTL DEF Spec

-----------------------------------------------------------------------------
(* The inductive invariant. What the rows say of the prompts is not inductive  *)
(* by itself: a commit must not hit a row that exists already (a pushed        *)
(* checkout has none), a stale save must know the result it saves (the rows    *)
(* in a snapshot were two hours old, so resolved, and resolved prompts do not  *)
(* change), and a reversal must have been accepted before it is saved.         *)

\* A checkout whose request has not committed has been prompted and has no row,
\* and no two requests hold the same one.
PushedIsFresh ==
  \A q \in Requests : pushed[q] # None =>
    /\ prompt[pushed[q]] # "none"
    /\ row[pushed[q]] = "none"
    /\ \A p \in Requests \ {q} : pushed[p] # pushed[q]

\* Every row is the row of a push Daraja accepted.
RowWasPrompted == \A c \in Checkouts : prompt[c] = "none" => row[c] = "none"

\* Old rows, queued callbacks and reconciliation snapshots are about prompts
\* that have a result.
ResultIsKnown ==
  \A c \in Checkouts :
    \/ prompt[c] \in Resolved
    \/ /\ age[c] < RateWindow
       /\ queued[c] = 0
       /\ \A w \in Reconcilers : c \notin snapshot[w]

SnapshotHasRow ==
  \A w \in Reconcilers : \A c \in snapshot[w] : row[c] # "none"

AcceptedWasCalled ==
  \A f \in accepted : reversing[f] # None /\ calls[reversing[f]] > 0

\* A task holds a transaction that was confirmed when it was queued.
ReversingWasPaid ==
  \A f \in Refunders : reversing[f] # None =>
    /\ prompt[reversing[f]] = "paid"
    /\ row[reversing[f]] \in {"CONFIRMED", "REVERSED"}

IInv ==
  /\ TypeOK
  /\ PushedIsFresh
  /\ RowWasPrompted
  /\ ResultIsKnown
  /\ SnapshotHasRow
  /\ AcceptedWasCalled
  /\ ReversingWasPaid
  /\ ConfirmedWasPaid
  /\ AnnouncedOnce
  /\ AnnouncedStaysPaid
  /\ ReversalWasDue

LEMMA ResultStatusFacts ==
  ASSUME NEW x
  PROVE  /\ x = "paid" => ResultStatus(x) = "CONFIRMED"
         /\ x # "paid" => ResultStatus(x) \in {"EXPIRED", "FAILED"}
BY DEF ResultStatus

LEMMA InvStep == IInv /\ [Next]_vars => IInv'
<1> SUFFICES ASSUME IInv, [Next]_vars
             PROVE  IInv'
  OBVIOUS
<1> TypeOK /\ TypeOK'
  BY TypeStep DEF IInv
<1> USE BoundsAssumption
    DEF IInv, TypeOK, PushedIsFresh, RowWasPrompted, ResultIsKnown,
        SnapshotHasRow, AcceptedWasCalled, ReversingWasPaid, ConfirmedWasPaid,
        AnnouncedOnce, AnnouncedStaysPaid, ReversalWasDue, requestVars,
        callbackVars, reversalVars
<1>1. ASSUME NEW q \in Requests, Request(q)
      PROVE  IInv'
  <2>1. ASSUME NEW r \in References, CountAttempts(q, r) PROVE IInv'
    BY <2>1 DEF CountAttempts
  <2>2. CASE ReturnExisting(q)
    BY <2>2 DEF ReturnExisting
  <2>3. ASSUME NEW c \in Checkouts, PushPrompt(q, c) PROVE IInv'
    BY <2>3 DEF PushPrompt, Resolved
  <2>4. CASE PushRejected(q)
    BY <2>4 DEF PushRejected
  <2>5. CASE SaveTransaction(q)
    BY <2>5 DEF SaveTransaction, Initiated
  <2>6. CASE LoseRequest(q)
    BY <2>6 DEF LoseRequest
  <2> QED
    BY <1>1, <2>1, <2>2, <2>3, <2>4, <2>5, <2>6 DEF Request, Initiate
<1>2. ASSUME NEW c \in Checkouts, World(c)
      PROVE  IInv'
  <2>1. ASSUME NEW result \in Resolved, Answer(c, result) PROVE IInv'
    BY <2>1 DEF Answer, Resolved
  <2>2. CASE GrowOlder(c)
    <3>1. ResultIsKnown'
      <4>1. \A d \in Checkouts \ {c} : age'[d] = age[d]
        BY <2>2 DEF GrowOlder
      <4>2. prompt[c] \in Resolved \/ age'[c] < RateWindow
        BY <2>2 DEF GrowOlder, Ages, RateWindow
      <4> QED
        BY <2>2, <4>1, <4>2 DEF GrowOlder
    <3> QED
      BY <2>2, <3>1 DEF GrowOlder
  <2>3. CASE PostCallback(c)
    BY <2>3 DEF PostCallback
  <2> QED
    BY <1>2, <2>1, <2>2, <2>3 DEF World
<1>3. ASSUME NEW c \in Checkouts, Callback(c)
      PROVE  IInv'
  <2>1. CASE SettleByCallback(c)
    BY <2>1, ResultStatusFacts DEF SettleByCallback, Initiated
  <2>2. CASE IgnoreCallback(c)
    BY <2>2 DEF IgnoreCallback
  <2>3. CASE LoseCallback(c)
    BY <2>3 DEF LoseCallback
  <2>4. CASE SendConfirmed(c)
    BY <2>4 DEF SendConfirmed
  <2>5. CASE LoseConfirmed(c)
    BY <2>5 DEF LoseConfirmed
  <2> QED
    BY <1>3, <2>1, <2>2, <2>3, <2>4, <2>5 DEF Callback
<1>4. CASE ExpireStale
  BY <1>4 DEF ExpireStale, Stale, Initiated, PushTimeout
<1>5. ASSUME NEW w \in Reconcilers, Reconcile(w)
      PROVE  IInv'
  <2>1. CASE ReconcileRead(w)
    <3>1. \A c \in Unreconciled : row[c] # "none" /\ prompt[c] \in Resolved
      BY DEF Unreconciled, Initiated, ReconcileCutoff, RateWindow, Ages
    <3>2. \A v \in Reconcilers : snapshot'[v] \subseteq snapshot[v] \cup Unreconciled
      BY <2>1 DEF ReconcileRead
    <3>3. ResultIsKnown'
      BY <2>1, <3>1, <3>2 DEF ReconcileRead
    <3>4. SnapshotHasRow'
      BY <2>1, <3>1, <3>2 DEF ReconcileRead
    <3> QED
      BY <2>1, <3>3, <3>4 DEF ReconcileRead
  <2>2. ASSUME NEW c \in Checkouts, ReconcileSave(w, c) PROVE IInv'
    BY <2>2, ResultStatusFacts DEF ReconcileSave
  <2>3. ASSUME NEW c \in Checkouts, ReconcileSkip(w, c) PROVE IInv'
    BY <2>3 DEF ReconcileSkip
  <2> QED
    BY <1>5, <2>1, <2>2, <2>3 DEF Reconcile
<1>6. ASSUME NEW f \in Refunders, Reversal(f)
      PROVE  IInv'
  <2>1. ASSUME NEW c \in Checkouts, RequestReversal(f, c) PROVE IInv'
    <3>1. prompt[c] = "paid" /\ row[c] = "CONFIRMED"
      BY <2>1 DEF RequestReversal
    <3> QED
      BY <2>1, <3>1 DEF RequestReversal
  <2>2. CASE CallReversal(f)
    BY <2>2 DEF CallReversal
  <2>3. CASE SkipReversal(f)
    BY <2>3 DEF SkipReversal
  <2>4. CASE FailReversal(f)
    BY <2>4 DEF FailReversal
  <2>5. CASE SaveReversal(f)
    BY <2>5 DEF SaveReversal
  <2> QED
    BY <1>6, <2>1, <2>2, <2>3, <2>4, <2>5 DEF Reversal
<1>7. CASE UNCHANGED vars
  BY <1>7 DEF vars
<1> QED
  BY <1>1, <1>2, <1>3, <1>4, <1>5, <1>6, <1>7 DEF Next

LEMMA Inductive == Spec => []IInv
<1>1. Init => IInv
  <2> SUFFICES ASSUME Init PROVE IInv
    OBVIOUS
  <2>1. TypeOK
    BY DEF Init, TypeOK, Status, Prompts, Ages
  <2>2. PushedIsFresh /\ RowWasPrompted /\ ResultIsKnown /\ SnapshotHasRow
    BY DEF Init, PushedIsFresh, RowWasPrompted, ResultIsKnown, SnapshotHasRow,
           RateWindow
  <2>3. AcceptedWasCalled /\ ReversingWasPaid /\ ReversalWasDue
    BY DEF Init, AcceptedWasCalled, ReversingWasPaid, ReversalWasDue
  <2>4. ConfirmedWasPaid /\ AnnouncedOnce /\ AnnouncedStaysPaid
    BY DEF Init, ConfirmedWasPaid, AnnouncedOnce, AnnouncedStaysPaid
  <2> QED
    BY <2>1, <2>2, <2>3, <2>4 DEF IInv
<1> QED
  BY <1>1, InvStep, PTL DEF Spec

-----------------------------------------------------------------------------
(* What the run of Payment shows on two checkouts, for every instance.         *)

\* A row says CONFIRMED or REVERSED only of a push the customer paid.
THEOREM OnlyPaidIsConfirmed == Spec => []ConfirmedWasPaid
<1>1. IInv => ConfirmedWasPaid
  BY DEF IInv
<1> QED
  BY <1>1, Inductive, PTL

\* payment_confirmed is sent at most once for a checkout, whatever Daraja
\* repeats and whatever the beat tasks write meanwhile.
THEOREM ConfirmationIsSentOnce == Spec => []AnnouncedOnce
<1>1. IInv => AnnouncedOnce
  BY DEF IInv
<1> QED
  BY <1>1, Inductive, PTL

\* A payment the receivers were told of stays paid, or is reversed.
THEOREM ConfirmationStaysTrue == Spec => []AnnouncedStaysPaid
<1>1. IInv => AnnouncedStaysPaid
  BY DEF IInv
<1> QED
  BY <1>1, Inductive, PTL

\* Only paid checkouts are sent back, and REVERSED is written only of those.
THEOREM OnlyPaidIsReversed == Spec => []ReversalWasDue
<1>1. IInv => ReversalWasDue
  BY DEF IInv
<1> QED
  BY <1>1, Inductive, PTL

-----------------------------------------------------------------------------
(* The bounds. What requests read without a lock may be exceeded, but each     *)
(* request in flight adds one row at most: a commit turns one request into one *)
(* row, and all other steps only take requests and rows away. For that the row *)
(* of a commit must be of the reference its request tried, and the rows a      *)
(* reconciliation saves must be older than those the rate limit counts.        *)

\* A request that holds a checkout has prompted it for the reference it tries.
PushedIsTried ==
  \A q \in Requests : pushed[q] # None =>
    /\ trying[q] # None
    /\ refOf[pushed[q]] = trying[q]

\* Rows in a snapshot are past the hour, and rows do not get younger.
SnapshotIsOld ==
  \A w \in Reconcilers : \A c \in snapshot[w] : age[c] >= RateWindow

AttemptInv == IInv /\ PushedIsTried /\ SnapshotIsOld

LEMMA AttemptStep == AttemptInv /\ [Next]_vars => AttemptInv'
<1> SUFFICES ASSUME AttemptInv, [Next]_vars
             PROVE  PushedIsTried' /\ SnapshotIsOld'
  BY InvStep DEF AttemptInv
<1> USE BoundsAssumption
    DEF AttemptInv, IInv, TypeOK, PushedIsFresh, PushedIsTried, SnapshotIsOld,
        requestVars, callbackVars, reversalVars
<1>1. ASSUME NEW q \in Requests, Request(q)
      PROVE  PushedIsTried' /\ SnapshotIsOld'
  <2>1. ASSUME NEW r \in References, CountAttempts(q, r)
        PROVE  PushedIsTried' /\ SnapshotIsOld'
    BY <2>1 DEF CountAttempts
  <2>2. ASSUME NEW c \in Checkouts, PushPrompt(q, c)
        PROVE  PushedIsTried' /\ SnapshotIsOld'
    BY <2>2 DEF PushPrompt
  <2>3. CASE SaveTransaction(q) \/ LoseRequest(q)
    BY <2>3 DEF SaveTransaction, LoseRequest
  <2>4. CASE ReturnExisting(q) \/ PushRejected(q)
    BY <2>4 DEF ReturnExisting, PushRejected
  <2> QED
    BY <1>1, <2>1, <2>2, <2>3, <2>4 DEF Request, Initiate
<1>2. ASSUME NEW c \in Checkouts, World(c)
      PROVE  PushedIsTried' /\ SnapshotIsOld'
  <2>1. CASE GrowOlder(c)
    <3>1. \A d \in Checkouts : age'[d] >= age[d]
      BY <2>1 DEF GrowOlder, Ages
    <3> QED
      BY <2>1, <3>1 DEF GrowOlder, Ages, RateWindow
  <2> QED
    BY <1>2, <2>1 DEF World, Answer, PostCallback
<1>3. ASSUME NEW c \in Checkouts, Callback(c)
      PROVE  PushedIsTried' /\ SnapshotIsOld'
  BY <1>3 DEF Callback, SettleByCallback, IgnoreCallback, LoseCallback,
              SendConfirmed, LoseConfirmed
<1>4. CASE ExpireStale
  BY <1>4 DEF ExpireStale
<1>5. ASSUME NEW w \in Reconcilers, Reconcile(w)
      PROVE  PushedIsTried' /\ SnapshotIsOld'
  <2>1. \A v \in Reconcilers : \A c \in snapshot'[v] :
          c \in snapshot[v] \/ age[c] >= ReconcileCutoff
    BY <1>5 DEF Reconcile, ReconcileRead, ReconcileSave, ReconcileSkip, Unreconciled
  <2>2. \A v \in Reconcilers : \A c \in snapshot'[v] : age[c] >= RateWindow
    <3> SUFFICES ASSUME NEW v \in Reconcilers, NEW c \in snapshot'[v], c \notin snapshot[v]
                 PROVE  age[c] >= RateWindow
      OBVIOUS
    <3>1. c \in Checkouts
      BY <1>5, TypeStep DEF IInv
    <3> QED
      BY <2>1, <3>1 DEF ReconcileCutoff, RateWindow, Ages
  <2> QED
    BY <1>5, <2>2 DEF Reconcile, ReconcileRead, ReconcileSave, ReconcileSkip
<1>6. ASSUME NEW f \in Refunders, Reversal(f)
      PROVE  PushedIsTried' /\ SnapshotIsOld'
  BY <1>6 DEF Reversal, RequestReversal, CallReversal, SkipReversal,
              FailReversal, SaveReversal
<1>7. CASE UNCHANGED vars
  BY <1>7 DEF vars
<1> QED
  BY <1>1, <1>2, <1>3, <1>4, <1>5, <1>6, <1>7 DEF Next

LEMMA AttemptsInductive == Spec => []AttemptInv
<1>1. Init => PushedIsTried /\ SnapshotIsOld
  BY DEF Init, PushedIsTried, SnapshotIsOld
<1>2. Init /\ IInv => AttemptInv
  BY <1>1 DEF AttemptInv
<1> QED
  BY <1>2, AttemptStep, Inductive, PTL DEF Spec

\* The requests of a reference that hold a checkout.
Pushing(r) == {q \in InFlight(r) : pushed[q] # None}

Open(r) == RowsOf(r, {Initiated, "CONFIRMED"})

\* Taking members away from two finite sets does not make them larger, and a
\* member that leaves one for the other leaves their sum as it is.
LEMMA BothShrink ==
  ASSUME NEW A, NEW B, IsFiniteSet(A), IsFiniteSet(B),
         NEW C \in SUBSET A, NEW D \in SUBSET B
  PROVE  Cardinality(C) + Cardinality(D) <= Cardinality(A) + Cardinality(B)
<1>1. /\ Cardinality(A) \in Nat /\ Cardinality(B) \in Nat
      /\ IsFiniteSet(C) /\ Cardinality(C) <= Cardinality(A)
      /\ IsFiniteSet(D) /\ Cardinality(D) <= Cardinality(B)
  BY FS_CardinalityType, FS_Subset
<1>2. Cardinality(C) \in Nat /\ Cardinality(D) \in Nat
  BY <1>1, FS_CardinalityType
<1> QED
  BY <1>1, <1>2

LEMMA OneMoves ==
  ASSUME NEW A, NEW B, IsFiniteSet(A), IsFiniteSet(B), NEW c, NEW q \in B,
         NEW C \in SUBSET (A \cup {c}), NEW D \in SUBSET (B \ {q})
  PROVE  Cardinality(C) + Cardinality(D) <= Cardinality(A) + Cardinality(B)
<1>1. Cardinality(A) \in Nat /\ Cardinality(B) \in Nat
  BY FS_CardinalityType
<1>2. /\ IsFiniteSet(A \cup {c}) /\ IsFiniteSet(B \ {q})
      /\ Cardinality(A \cup {c}) <= Cardinality(A) + 1
      /\ Cardinality(B \ {q}) = Cardinality(B) - 1
  <2>1. /\ IsFiniteSet(A \cup {c})
        /\ Cardinality(A \cup {c}) = IF c \in A THEN Cardinality(A) ELSE Cardinality(A) + 1
    BY FS_AddElement
  <2>2. IsFiniteSet(B \ {q}) /\ Cardinality(B \ {q}) = Cardinality(B) - 1
    BY FS_RemoveElement
  <2> QED
    BY <1>1, <2>1, <2>2
<1>3. Cardinality(A \cup {c}) \in Nat /\ Cardinality(B \ {q}) \in Nat
  BY <1>2, FS_CardinalityType
<1>4. Cardinality(C) + Cardinality(D) <= Cardinality(A \cup {c}) + Cardinality(B \ {q})
  BY <1>2, BothShrink
<1>5. Cardinality(C) \in Nat /\ Cardinality(D) \in Nat
  BY <1>2, FS_Subset, FS_CardinalityType
<1> QED
  BY <1>1, <1>2, <1>3, <1>4, <1>5

\* Only the check of the rate limit adds a request, only a push adds one that
\* holds a checkout, and only the commit of such a request adds a row.
LEMMA AttemptsMove ==
  ASSUME AttemptInv, [Next]_vars, NEW r \in References
  PROVE  \/ \E q \in Requests : /\ CountAttempts(q, r)
                                /\ UNCHANGED <<row, refOf, age, pushed>>
         \/ \E q \in Requests : \E c \in Checkouts :
              /\ PushPrompt(q, c) /\ trying[q] = r /\ Open(r) = {} /\ Open(r)' = {}
              /\ RecentAttempts(r)' = RecentAttempts(r)
              /\ InFlight(r)' = InFlight(r)
         \/ \E q \in Pushing(r) : \E c \in Checkouts :
              /\ Open(r)' \subseteq Open(r) \cup {c}
              /\ RecentAttempts(r)' \subseteq RecentAttempts(r) \cup {c}
              /\ InFlight(r)' \subseteq InFlight(r) \ {q}
              /\ Pushing(r)' \subseteq Pushing(r) \ {q}
         \/ /\ RecentAttempts(r)' \subseteq RecentAttempts(r)
            /\ InFlight(r)' \subseteq InFlight(r)
            /\ Pushing(r)' \subseteq Pushing(r)
            /\ Reconcilers = {} => Open(r)' \subseteq Open(r)
<1> USE BoundsAssumption
    DEF AttemptInv, IInv, TypeOK, InFlight, Pushing, Open, RecentAttempts, RowsOf,
        requestVars, callbackVars, reversalVars
<1> DEFINE Fewer ==
      /\ RecentAttempts(r)' \subseteq RecentAttempts(r)
      /\ InFlight(r)' \subseteq InFlight(r)
      /\ Pushing(r)' \subseteq Pushing(r)
      /\ Reconcilers = {} => Open(r)' \subseteq Open(r)
<1>1. ASSUME NEW q \in Requests, NEW p \in References, CountAttempts(q, p), p # r
      PROVE  Fewer
  BY <1>1 DEF CountAttempts
<1>2. ASSUME NEW q \in Requests, ReturnExisting(q) \/ PushRejected(q) \/ LoseRequest(q)
      PROVE  Fewer
  BY <1>2 DEF ReturnExisting, PushRejected, LoseRequest
<1>3. ASSUME NEW q \in Requests, NEW c \in Checkouts, PushPrompt(q, c)
      PROVE  /\ RecentAttempts(r)' = RecentAttempts(r)
             /\ InFlight(r)' = InFlight(r)
             /\ Open(r)' = Open(r)
             /\ trying[q] = r => Open(r) = {}
             /\ trying[q] # r => Pushing(r)' \subseteq Pushing(r)
  <2>1. row[c] = "none"
    BY <1>3 DEF PushPrompt, RowWasPrompted
  <2>2. \A d \in Checkouts : row'[d] = row[d] /\ (row[d] # "none" => refOf'[d] = refOf[d])
    BY <1>3, <2>1 DEF PushPrompt
  <2> QED
    BY <1>3, <2>2 DEF PushPrompt, Initiated
<1>4. ASSUME NEW q \in Requests, SaveTransaction(q)
      PROVE  \/ /\ q \in Pushing(r)
                /\ Open(r)' \subseteq Open(r) \cup {pushed[q]}
                /\ RecentAttempts(r)' \subseteq RecentAttempts(r) \cup {pushed[q]}
                /\ InFlight(r)' \subseteq InFlight(r) \ {q}
                /\ Pushing(r)' \subseteq Pushing(r) \ {q}
             \/ Fewer
  <2>1. trying[q] # None /\ refOf[pushed[q]] = trying[q]
    BY <1>4 DEF SaveTransaction, PushedIsTried
  <2>2. CASE trying[q] = r
    BY <1>4, <2>1, <2>2 DEF SaveTransaction
  <2>3. CASE trying[q] # r
    BY <1>4, <2>1, <2>3 DEF SaveTransaction
  <2> QED
    BY <2>2, <2>3
<1>5. ASSUME NEW c \in Checkouts, World(c)
      PROVE  Fewer
  <2>1. CASE GrowOlder(c)
    <3>1. \A d \in Checkouts : age'[d] >= age[d]
      BY <2>1 DEF GrowOlder, Ages
    <3> QED
      BY <2>1, <3>1 DEF GrowOlder, Ages, RateWindow
  <2> QED
    BY <1>5, <2>1 DEF World, Answer, PostCallback
<1>6. ASSUME NEW c \in Checkouts, Callback(c)
      PROVE  Fewer
  <2>1. CASE SettleByCallback(c)
    BY <2>1, ResultStatusFacts DEF SettleByCallback, Initiated
  <2> QED
    BY <1>6, <2>1 DEF Callback, IgnoreCallback, LoseCallback, SendConfirmed, LoseConfirmed
<1>7. CASE ExpireStale
  BY <1>7 DEF ExpireStale, Stale, Initiated, Fewer
<1>8. ASSUME NEW w \in Reconcilers, Reconcile(w)
      PROVE  Fewer
  <2>1. ASSUME NEW c \in Checkouts, ReconcileSave(w, c)
        PROVE  Fewer
    <3>1. ~(age[c] < RateWindow)
      BY <2>1 DEF ReconcileSave, SnapshotIsOld, Ages, RateWindow
    <3> QED
      BY <2>1, <3>1 DEF ReconcileSave
  <2> QED
    BY <1>8, <2>1 DEF Reconcile, ReconcileRead, ReconcileSkip
<1>9. ASSUME NEW f \in Refunders, Reversal(f)
      PROVE  Fewer
  <2>1. CASE SaveReversal(f)
    BY <2>1 DEF SaveReversal, Initiated
  <2> QED
    BY <1>9, <2>1 DEF Reversal, RequestReversal, CallReversal, SkipReversal, FailReversal
<1>10. CASE UNCHANGED vars
  BY <1>10 DEF vars
<1>11. ASSUME NEW q \in Requests, CountAttempts(q, r)
       PROVE  UNCHANGED <<row, refOf, age, pushed>>
  BY <1>11 DEF CountAttempts
<1> HIDE DEF AttemptInv, IInv, TypeOK, InFlight, Pushing, Open, RecentAttempts, RowsOf,
        requestVars, callbackVars, reversalVars, Fewer
<1>12. \A q \in Requests : SaveTransaction(q) => pushed[q] \in Checkouts
  BY DEF SaveTransaction, AttemptInv, IInv, TypeOK
<1>13. ASSUME NEW q \in Requests, Request(q)
       PROVE  \/ CountAttempts(q, r)
              \/ \E c \in Checkouts : PushPrompt(q, c)
              \/ SaveTransaction(q)
              \/ Fewer
  BY <1>1, <1>2, <1>13 DEF Request, Initiate
<1> QED
  <2>1. CASE \E q \in Requests : Request(q)
    BY <2>1, <1>3, <1>4, <1>11, <1>12, <1>13 DEF Fewer
  <2>2. CASE Fewer
    BY <2>2 DEF Fewer
  <2>3. CASE \E c \in Checkouts : World(c) \/ Callback(c)
    BY <2>3, <2>2, <1>5, <1>6
  <2>4. CASE \E w \in Reconcilers : Reconcile(w)
    BY <2>4, <2>2, <1>8
  <2>5. CASE \E f \in Refunders : Reversal(f)
    BY <2>5, <2>2, <1>9
  <2> QED
    BY <1>7, <1>10, <2>1, <2>2, <2>3, <2>4, <2>5 DEF Next

\* Requests that pass the rate limit together exceed it by no more than there are
\* of them beside the last one.
THEOREM RateLimitIsBounded ==
  ASSUME IsFiniteSet(Checkouts), IsFiniteSet(Requests)
  PROVE  Spec => []RateLimitOvershoot
<1>1. Cardinality(Requests) \in Nat
  BY FS_CardinalityType
<1>2. \A r : /\ IsFiniteSet(RecentAttempts(r)) /\ Cardinality(RecentAttempts(r)) \in Nat
             /\ IsFiniteSet(InFlight(r)) /\ Cardinality(InFlight(r)) \in Nat
             /\ Cardinality(InFlight(r)) <= Cardinality(Requests)
  <2> SUFFICES ASSUME NEW r
               PROVE  /\ IsFiniteSet(RecentAttempts(r))
                      /\ IsFiniteSet(InFlight(r))
                      /\ Cardinality(InFlight(r)) <= Cardinality(Requests)
    BY FS_CardinalityType
  <2>1. RecentAttempts(r) \in SUBSET Checkouts /\ InFlight(r) \in SUBSET Requests
    BY DEF RecentAttempts, RowsOf, InFlight
  <2> QED
    BY <2>1, FS_Subset
<1>3. Init => RateLimitOvershoot
  <2> SUFFICES ASSUME Init, NEW r \in References
               PROVE  RecentAttempts(r) = {} /\ InFlight(r) = {}
    BY <1>1, FS_EmptySet, BoundsAssumption DEF RateLimitOvershoot
  <2> QED
    BY BoundsAssumption DEF Init, RecentAttempts, RowsOf, InFlight, Initiated
<1>4. AttemptInv /\ RateLimitOvershoot /\ [Next]_vars => RateLimitOvershoot'
  <2> SUFFICES ASSUME AttemptInv, RateLimitOvershoot, [Next]_vars, NEW r \in References
               PROVE  Cardinality(RecentAttempts(r)') + Cardinality(InFlight(r)')
                        <= RateLimit + Cardinality(Requests) - 1
    BY DEF RateLimitOvershoot
  <2>1. InFlight(r)' \in SUBSET Requests
    BY DEF InFlight
  <2>2. /\ Cardinality(InFlight(r)') \in Nat
        /\ Cardinality(InFlight(r)') <= Cardinality(Requests)
    BY <2>1, FS_Subset, FS_CardinalityType
  <2>3. ASSUME NEW q \in Requests, CountAttempts(q, r), UNCHANGED <<row, refOf, age, pushed>>
        PROVE  Cardinality(RecentAttempts(r)') + Cardinality(InFlight(r)')
                 <= RateLimit + Cardinality(Requests) - 1
    <3>1. RecentAttempts(r)' = RecentAttempts(r)
      BY <2>3 DEF RecentAttempts, RowsOf
    <3>2. Cardinality(RecentAttempts(r)) < RateLimit
      BY <2>3 DEF CountAttempts
    <3> QED
      BY <1>1, <1>2, <2>2, <3>1, <3>2, BoundsAssumption
  <2>4. ASSUME NEW q \in InFlight(r), NEW c,
               RecentAttempts(r)' \subseteq RecentAttempts(r) \cup {c},
               InFlight(r)' \subseteq InFlight(r) \ {q}
        PROVE  Cardinality(RecentAttempts(r)') + Cardinality(InFlight(r)')
                 <= Cardinality(RecentAttempts(r)) + Cardinality(InFlight(r))
    BY <1>2, <2>4, OneMoves
  <2>5. ASSUME RecentAttempts(r)' \subseteq RecentAttempts(r), InFlight(r)' \subseteq InFlight(r)
        PROVE  Cardinality(RecentAttempts(r)') + Cardinality(InFlight(r)')
                 <= Cardinality(RecentAttempts(r)) + Cardinality(InFlight(r))
    BY <1>2, <2>5, BothShrink
  <2>6. Cardinality(RecentAttempts(r)) + Cardinality(InFlight(r))
          <= RateLimit + Cardinality(Requests) - 1
    BY DEF RateLimitOvershoot
  <2>7. RecentAttempts(r)' \in SUBSET Checkouts
    BY DEF RecentAttempts, RowsOf
  <2>8. Cardinality(RecentAttempts(r)') \in Nat
    BY <2>7, FS_Subset, FS_CardinalityType
  <2>9. Pushing(r) \subseteq InFlight(r)
    BY DEF Pushing
  <2>10. \/ \E q \in Requests : CountAttempts(q, r) /\ UNCHANGED <<row, refOf, age, pushed>>
         \/ Cardinality(RecentAttempts(r)') + Cardinality(InFlight(r)')
              <= Cardinality(RecentAttempts(r)) + Cardinality(InFlight(r))
    BY <2>4, <2>5, <2>9, AttemptsMove
  <2> QED
    BY <1>1, <1>2, <2>2, <2>3, <2>6, <2>8, <2>10, BoundsAssumption
<1> QED
  BY <1>3, <1>4, AttemptsInductive, PTL DEF Spec

\* A reference has no more open or paid pushes than there are requests at once,
\* where no reconciliation revives one.
THEOREM PushesAreBounded ==
  ASSUME IsFiniteSet(Checkouts), IsFiniteSet(Requests), Reconcilers = {}
  PROVE  Spec => []PushOvershoot
<1>1. Cardinality(Requests) \in Nat
  BY FS_CardinalityType
<1>2. \A r : /\ IsFiniteSet(Open(r)) /\ Cardinality(Open(r)) \in Nat
             /\ IsFiniteSet(Pushing(r)) /\ Cardinality(Pushing(r)) \in Nat
  <2> SUFFICES ASSUME NEW r
               PROVE  IsFiniteSet(Open(r)) /\ IsFiniteSet(Pushing(r))
    BY FS_CardinalityType
  <2>1. Open(r) \in SUBSET Checkouts /\ Pushing(r) \in SUBSET Requests
    BY DEF Open, RowsOf, Pushing, InFlight
  <2> QED
    BY <2>1, FS_Subset
<1>3. PushOvershoot <=> \A r \in References :
        Cardinality(Open(r)) + Cardinality(Pushing(r)) <= Cardinality(Requests)
  BY DEF PushOvershoot, Open, Pushing
<1>4. Init => PushOvershoot
  <2> SUFFICES ASSUME Init, NEW r \in References
               PROVE  Open(r) = {} /\ Pushing(r) = {}
    BY <1>1, <1>3, FS_EmptySet
  <2> QED
    BY BoundsAssumption DEF Init, Open, RowsOf, Pushing, InFlight, Initiated
<1>5. AttemptInv /\ PushOvershoot /\ [Next]_vars => PushOvershoot'
  <2> SUFFICES ASSUME AttemptInv, PushOvershoot, [Next]_vars, NEW r \in References
               PROVE  Cardinality(Open(r)') + Cardinality(Pushing(r)') <= Cardinality(Requests)
    BY DEF PushOvershoot, Open, Pushing
  <2>1. /\ Open(r)' \in SUBSET Checkouts
        /\ Pushing(r)' \in SUBSET Requests
    BY DEF Open, RowsOf, Pushing, InFlight
  <2>2. /\ Cardinality(Open(r)') \in Nat
        /\ Cardinality(Pushing(r)') \in Nat
        /\ Cardinality(Pushing(r)') <= Cardinality(Requests)
    BY <2>1, FS_Subset, FS_CardinalityType
  <2>3. Cardinality(Open(r)) + Cardinality(Pushing(r)) <= Cardinality(Requests)
    BY <1>3
  <2>4. ASSUME NEW q \in Pushing(r), NEW c,
               Open(r)' \subseteq Open(r) \cup {c}, Pushing(r)' \subseteq Pushing(r) \ {q}
        PROVE  Cardinality(Open(r)') + Cardinality(Pushing(r)')
                 <= Cardinality(Open(r)) + Cardinality(Pushing(r))
    BY <1>2, <2>4, OneMoves
  <2>5. ASSUME Open(r)' \subseteq Open(r), Pushing(r)' \subseteq Pushing(r)
        PROVE  Cardinality(Open(r)') + Cardinality(Pushing(r)')
                 <= Cardinality(Open(r)) + Cardinality(Pushing(r))
    BY <1>2, <2>5, BothShrink
  <2>6. ASSUME Open(r)' = {}
        PROVE  Cardinality(Open(r)') + Cardinality(Pushing(r)') <= Cardinality(Requests)
    BY <2>2, <2>6, FS_EmptySet, <1>1
  <2>7. ASSUME NEW q \in Requests, CountAttempts(q, r), UNCHANGED <<row, refOf, age, pushed>>
        PROVE  Open(r)' = Open(r) /\ Pushing(r)' \subseteq Pushing(r)
    <3>1. pushed[q] = None
      BY <2>7, BoundsAssumption DEF AttemptInv, PushedIsTried, CountAttempts
    <3> QED
      BY <2>7, <3>1 DEF Open, RowsOf, Pushing, InFlight, CountAttempts, AttemptInv, IInv, TypeOK
  <2>8. \/ Open(r)' = {}
        \/ Cardinality(Open(r)') + Cardinality(Pushing(r)')
             <= Cardinality(Open(r)) + Cardinality(Pushing(r))
    BY <2>4, <2>5, <2>7, AttemptsMove
  <2> QED
    BY <1>1, <1>2, <2>2, <2>3, <2>6, <2>8
<1> QED
  BY <1>4, <1>5, AttemptsInductive, PTL DEF Spec

\* What acceptance criterion 5 asks for, one transaction per reference, holds of the
\* code where no two requests overlap and no reconciliation revives a push that expired.
THEOREM OneRequestPushesOnce ==
  ASSUME IsFiniteSet(Checkouts), IsFiniteSet(Requests), Cardinality(Requests) = 1, Reconcilers = {}
  PROVE  Spec => []OnePush
<1>1. PushOvershoot => OnePush
  <2> SUFFICES ASSUME PushOvershoot, NEW r \in References
               PROVE  Cardinality(Open(r)) <= 1
    BY DEF OnePush, Open
  <2>1. Open(r) \in SUBSET Checkouts /\ Pushing(r) \in SUBSET Requests
    BY DEF Open, RowsOf, Pushing, InFlight
  <2>2. Cardinality(Open(r)) \in Nat /\ Cardinality(Pushing(r)) \in Nat
    BY <2>1, FS_Subset, FS_CardinalityType
  <2>3. Cardinality(Open(r)) + Cardinality(Pushing(r)) <= 1
    BY DEF PushOvershoot, Open, Pushing
  <2> QED
    BY <2>2, <2>3
<1>2. Spec => []PushOvershoot
  BY PushesAreBounded
<1> QED
  BY <1>1, <1>2, PTL

-----------------------------------------------------------------------------
(* Refinement *)

LEMMA LedgerStateFacts ==
  /\ LedgerState("none") = "absent"
  /\ LedgerState(Initiated) = "open"
  /\ LedgerState("CONFIRMED") = "paid"
  /\ LedgerState("REVERSED") = "refunded"
  /\ LedgerState("EXPIRED") = "closed"
  /\ LedgerState("FAILED") = "closed"
BY DEF LedgerState, Initiated

\* A step that moves the rows of S from one ledger state to another, and tells
\* nobody, is that Move of the ledger.
LEMMA RowMove ==
  ASSUME NEW S \in SUBSET Checkouts, NEW from, NEW to,
         \A c \in S : LedgerState(row[c]) = from /\ LedgerState(row'[c]) = to,
         \A c \in Checkouts \ S : row'[c] = row[c],
         announced' = announced
  PROVE  Ledger!Move(S, from, to)
BY DEF Ledger!Move

LEMMA LedgerStutter ==
  ASSUME row' = row, announced' = announced
  PROVE  UNCHANGED Ledger!ledger
BY DEF Ledger!ledger

LEMMA LedgerStep ==
  ASSUME Reconcilers = {}, IInv, [Next]_vars
  PROVE  [Ledger!Next]_(Ledger!ledger)
<1> USE LedgerStateFacts DEF requestVars, callbackVars, reversalVars
<1> TypeOK
  BY DEF IInv
<1>1. ASSUME NEW q \in Requests, Request(q)
      PROVE  [Ledger!Next]_(Ledger!ledger)
  <2>1. CASE SaveTransaction(q)
    <3>1. pushed[q] \in Checkouts /\ row[pushed[q]] = "none"
      BY <2>1 DEF SaveTransaction, IInv, PushedIsFresh, TypeOK
    <3>2. Ledger!Move({pushed[q]}, "absent", "open")
      BY <2>1, <3>1, RowMove DEF SaveTransaction, TypeOK
    <3> QED
      BY <3>1, <3>2 DEF Ledger!Next, Ledger!Open
  <2>2. CASE ~SaveTransaction(q)
    BY <1>1, <2>2, LedgerStutter
       DEF Request, Initiate, CountAttempts, ReturnExisting, PushPrompt,
           PushRejected, LoseRequest
  <2> QED
    BY <2>1, <2>2
<1>2. ASSUME NEW c \in Checkouts, World(c)
      PROVE  [Ledger!Next]_(Ledger!ledger)
  BY <1>2, LedgerStutter DEF World, Answer, GrowOlder, PostCallback
<1>3. ASSUME NEW c \in Checkouts, Callback(c)
      PROVE  [Ledger!Next]_(Ledger!ledger)
  <2>1. CASE SettleByCallback(c)
    <3>1. CASE prompt[c] = "paid"
      <4>1. ResultStatus(prompt[c]) = "CONFIRMED"
        BY <3>1, ResultStatusFacts
      <4>2. /\ row[c] = Initiated /\ row'[c] = "CONFIRMED"
            /\ \A d \in Checkouts \ {c} : row'[d] = row[d]
            /\ announced' = announced
        BY <2>1, <4>1 DEF SettleByCallback, TypeOK
      <4>3. Ledger!Move({c}, "open", "paid")
        BY <4>2, RowMove
      <4> QED
        BY <4>3 DEF Ledger!Next, Ledger!Settle
    <3>2. CASE prompt[c] # "paid"
      <4>1. ResultStatus(prompt[c]) \in {"EXPIRED", "FAILED"}
        BY <3>2, ResultStatusFacts
      <4>2. /\ row[c] = Initiated /\ row'[c] \in {"EXPIRED", "FAILED"}
            /\ \A d \in Checkouts \ {c} : row'[d] = row[d]
            /\ announced' = announced
        BY <2>1, <4>1 DEF SettleByCallback, TypeOK
      <4>3. Ledger!Move({c}, "open", "closed")
        BY <4>2, RowMove
      <4> QED
        BY <4>3 DEF Ledger!Next, Ledger!Close
    <3> QED
      BY <3>1, <3>2
  <2>2. CASE SendConfirmed(c)
    <3>1. announced[c] = 0 /\ row[c] \in {"CONFIRMED", "REVERSED"}
      BY <2>2 DEF SendConfirmed, IInv, AnnouncedOnce, AnnouncedStaysPaid, TypeOK
    <3>2. {d \in Checkouts : announced'[d] > 0}
            = {d \in Checkouts : announced[d] > 0} \cup {c}
      BY <2>2, <3>1 DEF SendConfirmed, TypeOK
    <3>3. row' = row
      BY <2>2 DEF SendConfirmed
    <3>4. Ledger!Tell(c)
      BY <3>1, <3>2, <3>3 DEF Ledger!Tell
    <3> QED
      BY <3>4 DEF Ledger!Next
  <2>3. CASE IgnoreCallback(c) \/ LoseCallback(c) \/ LoseConfirmed(c)
    BY <2>3, LedgerStutter DEF IgnoreCallback, LoseCallback, LoseConfirmed
  <2> QED
    BY <1>3, <2>1, <2>2, <2>3 DEF Callback
<1>4. CASE ExpireStale
  <2>1. Ledger!Move(Stale, "open", "closed")
    BY <1>4, RowMove DEF ExpireStale, Stale, TypeOK
  <2> QED
    BY <2>1 DEF Ledger!Next, Ledger!Close, Stale
<1>5. ASSUME NEW f \in Refunders, Reversal(f)
      PROVE  [Ledger!Next]_(Ledger!ledger)
  <2>1. CASE SaveReversal(f)
    <3>1. /\ reversing[f] \in Checkouts
          /\ row[reversing[f]] \in {"CONFIRMED", "REVERSED"}
      BY <2>1 DEF SaveReversal, IInv, AcceptedWasCalled, ReversingWasPaid, TypeOK
    <3>2. CASE row[reversing[f]] = "CONFIRMED"
      <4>1. Ledger!Move({reversing[f]}, "paid", "refunded")
        BY <2>1, <3>1, <3>2, RowMove DEF SaveReversal, TypeOK
      <4> QED
        BY <3>1, <4>1 DEF Ledger!Next, Ledger!Refund
    <3>3. CASE row[reversing[f]] = "REVERSED"
      BY <2>1, <3>1, <3>3, LedgerStutter DEF SaveReversal, TypeOK
    <3> QED
      BY <3>1, <3>2, <3>3
  <2>2. CASE ~SaveReversal(f)
    BY <1>5, <2>2, LedgerStutter
       DEF Reversal, RequestReversal, CallReversal, SkipReversal, FailReversal
  <2> QED
    BY <2>1, <2>2
<1>6. CASE UNCHANGED vars
  BY <1>6, LedgerStutter DEF vars
<1> QED
  BY <1>1, <1>2, <1>3, <1>4, <1>5, <1>6 DEF Next

\* Where no reconciliation overlaps the other writers, the rows and the signals
\* sent about them are the ledger: every step is one of its steps or none.
THEOREM PaymentImplementsLedger ==
  ASSUME Reconcilers = {}
  PROVE  Spec => ImplementsLedger
<1>1. Init => Ledger!Init
  BY LedgerStateFacts DEF Init, Ledger!Init
<1>2. IInv /\ [Next]_vars => [Ledger!Next]_(Ledger!ledger)
  BY LedgerStep
<1> QED
  BY <1>1, <1>2, Inductive, PTL DEF Spec, ImplementsLedger, Ledger!Spec
=============================================================================
