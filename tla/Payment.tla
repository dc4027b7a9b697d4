------------------------------- MODULE Payment -------------------------------
(***************************************************************************)
(* The M-Pesa STK push payment of apps/payment: one MpesaTransaction row   *)
(* per CheckoutRequestID, written by                                       *)
(*   - HTTP requests inside initiate_payment (services.py),                *)
(*   - process_mpesa_callback tasks (tasks.py), fed by Daraja's webhook,   *)
(*   - the beat tasks expire_stale_stk_pushes and reconcile_payments,      *)
(*   - initiate_reversal tasks running reverse_payment.                    *)
(* A row exists for other sessions only once its request has committed     *)
(* (ATOMIC_REQUESTS), while the customer is prompted as soon as Daraja     *)
(* accepts the push: the two are different steps here.                     *)
(***************************************************************************)
EXTENDS Naturals, FiniteSets

CONSTANTS
  Checkouts,    \* Daraja's CheckoutRequestIDs, one MpesaTransaction each
  References,   \* the (store, reference) pairs that are paid for
  Requests,     \* HTTP requests that may be inside initiate_payment at once
  Reconcilers,  \* runs of reconcile_payments that may overlap
  Refunders,    \* initiate_reversal tasks that may overlap
  RateLimit,    \* _RATE_LIMIT_MAX_ATTEMPTS
  MaxPosts,     \* bound: how often Daraja posts the result of one checkout
  MaxCalls,     \* bound: reversal calls per checkout after which none is asked
  None

ASSUME BoundsAssumption ==
  /\ RateLimit \in Nat \ {0}
  /\ MaxPosts \in Nat
  /\ MaxCalls \in Nat
  /\ None \notin Checkouts \cup References

VARIABLES
  row,        \* MpesaTransaction.status of the committed row, or "none"
  refOf,      \* MpesaTransaction.reference of the push
  age,        \* how long ago the row was initiated, in steps of Ages
  prompt,     \* what Daraja and the customer did with the push
  trying,     \* reference a request passed the rate limit for
  pushed,     \* checkout a request was given by Daraja and has not committed
  posts,      \* webhook posts Daraja has made of a checkout's result
  queued,     \* process_mpesa_callback tasks waiting for a checkout
  onCommit,   \* confirmations committed, payment_confirmed not yet sent
  announced,  \* times payment_confirmed was sent
  snapshot,   \* rows a run of reconcile_payments read and has yet to save
  reversing,  \* transaction an initiate_reversal task holds
  accepted,   \* tasks whose reversal Daraja accepted, row not yet saved
  calls       \* reversals Daraja accepted per checkout

vars == <<row, refOf, age, prompt, trying, pushed, posts, queued, onCommit,
          announced, snapshot, reversing, accepted, calls>>

requestVars  == <<trying, pushed>>
callbackVars == <<posts, queued, onCommit, announced>>
reversalVars == <<reversing, accepted, calls>>

-----------------------------------------------------------------------------
Initiated == "STK_PUSH_INITIATED"

\* models.py MpesaTransactionStatus.
Status == {Initiated, "CONFIRMED", "EXPIRED", "FAILED", "REVERSED"}

\* tasks.py _TERMINAL_STATUSES.
Terminal == Status \ {Initiated}

\* Age thresholds the code compares initiated_at with: 5 minutes
\* (_STK_PUSH_TIMEOUT_MINUTES), 1 hour (the rate window), 2 hours (reconcile).
PushTimeout     == 1
RateWindow      == 2
ReconcileCutoff == 3
Ages == 0..3

Resolved == {"paid", "cancelled", "failed"}
Prompts  == Resolved \cup {"none", "pending"}

\* Mutants: an unknown code is stored as it is; only a cancelled prompt is not
\* taken for a payment.
ResultStatusRaw(result) ==
  CASE result = "paid"      -> "CONFIRMED"
    [] result = "cancelled" -> "EXPIRED"
    [] OTHER                -> result

ResultStatusLax(result) == IF result = "cancelled" THEN "EXPIRED" ELSE "CONFIRMED"

\* The status a result code is mapped to: 0 is paid, 1032 and 1037 are a prompt
\* the customer cancelled or left unanswered, any other code is a failure.
ResultStatus(result) ==
  CASE result = "paid"      -> "CONFIRMED"
    [] result = "cancelled" -> "EXPIRED"
    [] OTHER                -> "FAILED"

RowsOf(r, statuses) == {c \in Checkouts : refOf[c] = r /\ row[c] \in statuses}

\* Rows the rate limit of initiate_payment counts.
RecentAttempts(r) ==
  {c \in RowsOf(r, {Initiated, "EXPIRED"}) : age[c] < RateWindow}

-----------------------------------------------------------------------------
Init ==
  /\ row       = [c \in Checkouts |-> "none"]
  /\ refOf     = [c \in Checkouts |-> None]
  /\ age       = [c \in Checkouts |-> 0]
  /\ prompt    = [c \in Checkouts |-> "none"]
  /\ trying    = [q \in Requests |-> None]
  /\ pushed    = [q \in Requests |-> None]
  /\ posts     = [c \in Checkouts |-> 0]
  /\ queued    = [c \in Checkouts |-> 0]
  /\ onCommit  = {}
  /\ announced = [c \in Checkouts |-> 0]
  /\ snapshot  = [w \in Reconcilers |-> {}]
  /\ reversing = [f \in Refunders |-> None]
  /\ accepted  = {}
  /\ calls     = [c \in Checkouts |-> 0]

-----------------------------------------------------------------------------
(* initiate_payment *)

\* Mutant: one attempt too many.
CountOneMore(q, r) ==
  /\ trying[q] = None
  /\ Cardinality(RecentAttempts(r)) <= RateLimit
  /\ trying' = [trying EXCEPT ![q] = r]
  /\ UNCHANGED <<row, refOf, age, prompt, pushed, snapshot>>
  /\ UNCHANGED <<callbackVars, reversalVars>>

\* The rate limit check, before the atomic block and without a lock.
CountAttempts(q, r) ==
  /\ trying[q] = None
  /\ Cardinality(RecentAttempts(r)) < RateLimit
  /\ trying' = [trying EXCEPT ![q] = r]
  /\ UNCHANGED <<row, refOf, age, prompt, pushed, snapshot>>
  /\ UNCHANGED <<callbackVars, reversalVars>>

\* SELECT ... FOR UPDATE finds an open or paid row: it is returned as it is.
ReturnExisting(q) ==
  /\ trying[q] # None /\ pushed[q] = None
  /\ RowsOf(trying[q], {Initiated, "CONFIRMED"}) # {}
  /\ trying' = [trying EXCEPT ![q] = None]
  /\ UNCHANGED <<row, refOf, age, prompt, pushed, snapshot>>
  /\ UNCHANGED <<callbackVars, reversalVars>>

\* Mutant: the existing transaction is not looked for.
PushUnchecked(q, c) ==
  /\ trying[q] # None /\ pushed[q] = None
  /\ prompt[c] = "none"
  /\ prompt' = [prompt EXCEPT ![c] = "pending"]
  /\ refOf'  = [refOf EXCEPT ![c] = trying[q]]
  /\ pushed' = [pushed EXCEPT ![q] = c]
  /\ UNCHANGED <<row, age, trying, snapshot>>
  /\ UNCHANGED <<callbackVars, reversalVars>>

\* SELECT ... FOR UPDATE finds no row, so locks nothing, and Daraja prompts the
\* customer.
PushPrompt(q, c) ==
  /\ trying[q] # None /\ pushed[q] = None
  /\ RowsOf(trying[q], {Initiated, "CONFIRMED"}) = {}
  /\ prompt[c] = "none"
  /\ prompt' = [prompt EXCEPT ![c] = "pending"]
  /\ refOf'  = [refOf EXCEPT ![c] = trying[q]]
  /\ pushed' = [pushed EXCEPT ![q] = c]
  /\ UNCHANGED <<row, age, trying, snapshot>>
  /\ UNCHANGED <<callbackVars, reversalVars>>

\* StkPushInitiationError: Daraja refuses, nothing is saved.
PushRejected(q) ==
  /\ trying[q] # None /\ pushed[q] = None
  /\ RowsOf(trying[q], {Initiated, "CONFIRMED"}) = {}
  /\ trying' = [trying EXCEPT ![q] = None]
  /\ UNCHANGED <<row, refOf, age, prompt, pushed, snapshot>>
  /\ UNCHANGED <<callbackVars, reversalVars>>

\* txn.save() and the commit that makes the row visible.
SaveTransaction(q) ==
  /\ pushed[q] # None
  /\ row'    = [row EXCEPT ![pushed[q]] = Initiated]
  /\ trying' = [trying EXCEPT ![q] = None]
  /\ pushed' = [pushed EXCEPT ![q] = None]
  /\ UNCHANGED <<refOf, age, prompt, snapshot>>
  /\ UNCHANGED <<callbackVars, reversalVars>>

\* Daraja's answer is lost, or the request's transaction rolls back: the
\* customer keeps a prompt that no row knows of.
LoseRequest(q) ==
  /\ pushed[q] # None
  /\ trying' = [trying EXCEPT ![q] = None]
  /\ pushed' = [pushed EXCEPT ![q] = None]
  /\ UNCHANGED <<row, refOf, age, prompt, snapshot>>
  /\ UNCHANGED <<callbackVars, reversalVars>>

-----------------------------------------------------------------------------
(* The customer, Daraja and the clock *)

Answer(c, result) ==
  /\ prompt[c] = "pending"
  /\ prompt' = [prompt EXCEPT ![c] = result]
  /\ UNCHANGED <<row, refOf, age, snapshot>>
  /\ UNCHANGED <<requestVars, callbackVars, reversalVars>>

\* Time passes. Daraja closes an unanswered prompt well within the hour. Only
\* the age of open and expired rows is ever looked at.
GrowOlder(c) ==
  /\ row[c] \in {Initiated, "EXPIRED"}
  /\ age[c] < ReconcileCutoff
  /\ age[c] + 1 >= RateWindow => prompt[c] \in Resolved
  /\ age' = [age EXCEPT ![c] = @ + 1]
  /\ UNCHANGED <<row, refOf, prompt, snapshot>>
  /\ UNCHANGED <<requestVars, callbackVars, reversalVars>>

\* MpesaCallbackView.post: a signed post of the result queues a task. Daraja
\* may post a result again, or never.
PostCallback(c) ==
  /\ prompt[c] \in Resolved
  /\ posts[c] < MaxPosts
  /\ posts'  = [posts EXCEPT ![c] = @ + 1]
  /\ queued' = [queued EXCEPT ![c] = @ + 1]
  /\ UNCHANGED <<row, refOf, age, prompt, snapshot, onCommit, announced>>
  /\ UNCHANGED <<requestVars, reversalVars>>

-----------------------------------------------------------------------------
(* process_mpesa_callback *)

\* Mutant: the terminal check is missing.
SettleAnyRow(c) ==
  /\ queued[c] > 0
  /\ row[c] # "none"
  /\ queued'   = [queued EXCEPT ![c] = @ - 1]
  /\ row'      = [row EXCEPT ![c] = ResultStatus(prompt[c])]
  /\ onCommit' = IF prompt[c] = "paid" THEN onCommit \cup {c} ELSE onCommit
  /\ UNCHANGED <<refOf, age, prompt, snapshot, posts, announced>>
  /\ UNCHANGED <<requestVars, reversalVars>>

\* The atomic block finds an open row and settles it; a confirmation registers
\* payment_confirmed for after the commit.
SettleByCallback(c) ==
  /\ queued[c] > 0
  /\ row[c] = Initiated
  /\ queued'   = [queued EXCEPT ![c] = @ - 1]
  /\ row'      = [row EXCEPT ![c] = ResultStatus(prompt[c])]
  /\ onCommit' = IF prompt[c] = "paid" THEN onCommit \cup {c} ELSE onCommit
  /\ UNCHANGED <<refOf, age, prompt, snapshot, posts, announced>>
  /\ UNCHANGED <<requestVars, reversalVars>>

\* The row is unknown (its request has not committed) or terminal: the task
\* returns, and the post was already answered with 200.
IgnoreCallback(c) ==
  /\ queued[c] > 0
  /\ row[c] # Initiated
  /\ queued' = [queued EXCEPT ![c] = @ - 1]
  /\ UNCHANGED <<row, refOf, age, prompt, snapshot, posts, onCommit, announced>>
  /\ UNCHANGED <<requestVars, reversalVars>>

\* The task, acknowledged when it was fetched, dies with its worker, or its
\* fifth retry fails.
LoseCallback(c) ==
  /\ queued[c] > 0
  /\ queued' = [queued EXCEPT ![c] = @ - 1]
  /\ UNCHANGED <<row, refOf, age, prompt, snapshot, posts, onCommit, announced>>
  /\ UNCHANGED <<requestVars, reversalVars>>

\* The on_commit hook sends payment_confirmed to the receivers.
SendConfirmed(c) ==
  /\ c \in onCommit
  /\ onCommit'  = onCommit \ {c}
  /\ announced' = [announced EXCEPT ![c] = @ + 1]
  /\ UNCHANGED <<row, refOf, age, prompt, snapshot, posts, queued>>
  /\ UNCHANGED <<requestVars, reversalVars>>

\* The worker dies between the commit and the hook.
LoseConfirmed(c) ==
  /\ c \in onCommit
  /\ onCommit' = onCommit \ {c}
  /\ UNCHANGED <<row, refOf, age, prompt, snapshot, posts, queued, announced>>
  /\ UNCHANGED <<requestVars, reversalVars>>

-----------------------------------------------------------------------------
(* Beat tasks *)

\* Mutants: the status is not filtered; the comparison is the wrong way round.
StaleAnyStatus == {c \in Checkouts : row[c] # "none" /\ age[c] >= PushTimeout}
StaleYoung     == {c \in Checkouts : row[c] = Initiated /\ age[c] < PushTimeout}

Stale == {c \in Checkouts : row[c] = Initiated /\ age[c] >= PushTimeout}

\* expire_stale_stk_pushes: one UPDATE over every stale open row.
ExpireStale ==
  /\ Stale # {}
  /\ row' = [c \in Checkouts |-> IF c \in Stale THEN "EXPIRED" ELSE row[c]]
  /\ UNCHANGED <<refOf, age, prompt, snapshot>>
  /\ UNCHANGED <<requestVars, callbackVars, reversalVars>>

Unreconciled ==
  {c \in Checkouts : row[c] = Initiated /\ age[c] >= ReconcileCutoff}

\* reconcile_payments reads its rows once, through an iterator.
ReconcileRead(w) ==
  /\ snapshot[w] = {} /\ Unreconciled # {}
  /\ snapshot' = [snapshot EXCEPT ![w] = Unreconciled]
  /\ UNCHANGED <<row, refOf, age, prompt>>
  /\ UNCHANGED <<requestVars, callbackVars, reversalVars>>

\* ... asks Daraja for each of them and saves the answer, whatever the row has
\* become since. No signal is sent.
ReconcileSave(w, c) ==
  /\ c \in snapshot[w]
  /\ row' = [row EXCEPT ![c] = ResultStatus(prompt[c])]
  /\ snapshot' = [snapshot EXCEPT ![w] = @ \ {c}]
  /\ UNCHANGED <<refOf, age, prompt>>
  /\ UNCHANGED <<requestVars, callbackVars, reversalVars>>

\* TransactionStatusQueryError: the row is left for the next day's run.
ReconcileSkip(w, c) ==
  /\ c \in snapshot[w]
  /\ snapshot' = [snapshot EXCEPT ![w] = @ \ {c}]
  /\ UNCHANGED <<row, refOf, age, prompt>>
  /\ UNCHANGED <<requestVars, callbackVars, reversalVars>>

-----------------------------------------------------------------------------
(* Reversal *)

\* ReversePaymentView.post: a confirmed transaction is queued for reversal.
RequestReversal(f, c) ==
  /\ reversing[f] = None
  /\ row[c] = "CONFIRMED"
  /\ calls[c] < MaxCalls
  /\ reversing' = [reversing EXCEPT ![f] = c]
  /\ UNCHANGED <<row, refOf, age, prompt, snapshot, accepted, calls>>
  /\ UNCHANGED <<requestVars, callbackVars>>

\* reverse_payment reads CONFIRMED and Daraja accepts the reversal.
CallReversal(f) ==
  /\ reversing[f] # None /\ f \notin accepted
  /\ row[reversing[f]] = "CONFIRMED"
  /\ calls' = [calls EXCEPT ![reversing[f]] = @ + 1]
  /\ accepted' = accepted \cup {f}
  /\ UNCHANGED <<row, refOf, age, prompt, snapshot, reversing>>
  /\ UNCHANGED <<requestVars, callbackVars>>

\* The row is REVERSED already, or no longer CONFIRMED: the task returns.
SkipReversal(f) ==
  /\ reversing[f] # None /\ f \notin accepted
  /\ row[reversing[f]] # "CONFIRMED"
  /\ reversing' = [reversing EXCEPT ![f] = None]
  /\ UNCHANGED <<row, refOf, age, prompt, snapshot, accepted, calls>>
  /\ UNCHANGED <<requestVars, callbackVars>>

\* Daraja refuses or its answer is lost (PaymentReversalError is logged and not
\* retried), or the worker dies: nothing is saved, whatever Daraja did.
FailReversal(f) ==
  /\ reversing[f] # None
  /\ reversing' = [reversing EXCEPT ![f] = None]
  /\ accepted'  = accepted \ {f}
  /\ UNCHANGED <<row, refOf, age, prompt, snapshot, calls>>
  /\ UNCHANGED <<requestVars, callbackVars>>

\* Mutant: a refused reversal is saved too.
SaveRefused(f) ==
  /\ reversing[f] # None
  /\ row' = [row EXCEPT ![reversing[f]] = "REVERSED"]
  /\ reversing' = [reversing EXCEPT ![f] = None]
  /\ accepted' = accepted \ {f}
  /\ UNCHANGED <<refOf, age, prompt, snapshot, calls>>
  /\ UNCHANGED <<requestVars, callbackVars>>

\* txn.status = REVERSED; txn.save(), whatever the row has become since.
SaveReversal(f) ==
  /\ f \in accepted
  /\ row' = [row EXCEPT ![reversing[f]] = "REVERSED"]
  /\ reversing' = [reversing EXCEPT ![f] = None]
  /\ accepted' = accepted \ {f}
  /\ UNCHANGED <<refOf, age, prompt, snapshot, calls>>
  /\ UNCHANGED <<requestVars, callbackVars>>

-----------------------------------------------------------------------------
Initiate(q) ==
  \/ \E r \in References : CountAttempts(q, r)
  \/ ReturnExisting(q)
  \/ \E c \in Checkouts : PushPrompt(q, c)
  \/ PushRejected(q)
  \/ SaveTransaction(q)

Request(q) == Initiate(q) \/ LoseRequest(q)

World(c) ==
  \/ \E result \in Resolved : Answer(c, result)
  \/ GrowOlder(c)
  \/ PostCallback(c)

Callback(c) ==
  \/ SettleByCallback(c)
  \/ IgnoreCallback(c)
  \/ LoseCallback(c)
  \/ SendConfirmed(c)
  \/ LoseConfirmed(c)

Reconcile(w) ==
  \/ ReconcileRead(w)
  \/ \E c \in Checkouts : ReconcileSave(w, c) \/ ReconcileSkip(w, c)

Reversal(f) ==
  \/ \E c \in Checkouts : RequestReversal(f, c)
  \/ CallReversal(f)
  \/ SkipReversal(f)
  \/ FailReversal(f)
  \/ SaveReversal(f)

Next ==
  \/ \E q \in Requests : Request(q)
  \/ \E c \in Checkouts : World(c) \/ Callback(c)
  \/ ExpireStale
  \/ \E w \in Reconcilers : Reconcile(w)
  \/ \E f \in Refunders : Reversal(f)

Spec == Init /\ [][Next]_vars

-----------------------------------------------------------------------------
(* Fairness. Beat runs expire_stale_stk_pushes every 2 minutes, time passes,   *)
(* and an on_commit hook runs right after its commit: nothing here says that a *)
(* webhook arrives or that a customer answers.                                 *)
FairSpec ==
  /\ Spec
  /\ WF_vars(ExpireStale)
  /\ \A c \in Checkouts :
       /\ WF_vars(GrowOlder(c))
       /\ WF_vars(\E result \in Resolved : Answer(c, result))

(* Nothing is ever lost: every worker lives, every request commits, Daraja     *)
(* posts every result and every task and beat run finishes.                    *)
ReliableNext ==
  \/ \E q \in Requests : Initiate(q)
  \/ \E c \in Checkouts : World(c) \/ SettleByCallback(c) \/ IgnoreCallback(c)
                           \/ SendConfirmed(c)
  \/ ExpireStale
  \/ \E w \in Reconcilers : \/ ReconcileRead(w)
                             \/ \E c \in Checkouts : ReconcileSave(w, c)

ReliableSpec ==
  /\ Init /\ [][ReliableNext]_vars
  /\ WF_vars(ExpireStale)
  /\ \A q \in Requests : WF_vars(SaveTransaction(q))
  /\ \A c \in Checkouts :
       /\ WF_vars(GrowOlder(c))
       /\ WF_vars(PostCallback(c))
       /\ WF_vars(SettleByCallback(c) \/ IgnoreCallback(c))
       /\ WF_vars(SendConfirmed(c))
  /\ \A w \in Reconcilers : WF_vars(Reconcile(w))

-----------------------------------------------------------------------------
(* Properties *)

TypeOK ==
  /\ row \in [Checkouts -> Status \cup {"none"}]
  /\ refOf \in [Checkouts -> References \cup {None}]
  /\ age \in [Checkouts -> Ages]
  /\ prompt \in [Checkouts -> Prompts]
  /\ trying \in [Requests -> References \cup {None}]
  /\ pushed \in [Requests -> Checkouts \cup {None}]
  /\ posts \in [Checkouts -> Nat]
  /\ queued \in [Checkouts -> Nat]
  /\ onCommit \in SUBSET Checkouts
  /\ announced \in [Checkouts -> Nat]
  /\ snapshot \in [Reconcilers -> SUBSET Checkouts]
  /\ reversing \in [Refunders -> Checkouts \cup {None}]
  /\ accepted \in SUBSET Refunders
  /\ calls \in [Checkouts -> Nat]

\* A row says CONFIRMED or REVERSED only when the customer paid, whichever of
\* the callback and the reconciliation wrote it, in whatever order.
ConfirmedWasPaid ==
  \A c \in Checkouts : row[c] \in {"CONFIRMED", "REVERSED"} => prompt[c] = "paid"

\* payment_confirmed is sent at most once for a checkout, however often Daraja
\* posts its result and whatever the beat tasks write in between: the receivers
\* (orders, tabs, loyalty points, subscriptions) do not deduplicate it.
AnnouncedOnce ==
  \A c \in Checkouts :
    announced[c] + (IF c \in onCommit THEN 1 ELSE 0) <= 1

\* What the receivers were told stays true of the row: no expiry, late callback
\* or stale reconciliation save turns an announced payment into an unpaid one.
AnnouncedStaysPaid ==
  \A c \in Checkouts :
    announced[c] > 0 \/ c \in onCommit => row[c] \in {"CONFIRMED", "REVERSED"}

\* Money is sent back only for a checkout that was paid, and a row says
\* REVERSED only when Daraja accepted a reversal of it.
ReversalWasDue ==
  \A c \in Checkouts :
    /\ calls[c] > 0 => prompt[c] = "paid"
    /\ row[c] = "REVERSED" => calls[c] > 0

InFlight(r) == {q \in Requests : trying[q] = r}

\* The rate limit is read without a lock, so concurrent requests may exceed it,
\* by no more than the requests that are in flight beside the last one.
RateLimitOvershoot ==
  \A r \in References :
    Cardinality(RecentAttempts(r)) + Cardinality(InFlight(r))
      <= RateLimit + Cardinality(Requests) - 1

\* SELECT ... FOR UPDATE locks no row when there is none to lock: a reference may
\* have as many open or paid pushes as there are requests at once, and with one
\* request at a time it has one. (Without a reconciliation that revives a row.)
PushOvershoot ==
  \A r \in References :
    Cardinality(RowsOf(r, {Initiated, "CONFIRMED"}))
      + Cardinality({q \in InFlight(r) : pushed[q] # None})
      <= Cardinality(Requests)

\* "Only one MpesaTransaction record is ever created per reference": no two
\* pushes of a reference are open or paid.
OnePush ==
  \A r \in References : Cardinality(RowsOf(r, {Initiated, "CONFIRMED"})) <= 1

\* An open row does not stay open: the callback, or else the beat, closes it.
OpenPushSettles ==
  \A c \in Checkouts : row[c] = Initiated ~> row[c] \in Terminal

\* A push the customer paid ends up confirmed, by its webhook or by the
\* reconciliation that is there because webhooks cannot be relied on.
PaidIsConfirmed ==
  \A c \in Checkouts :
    prompt[c] = "paid" /\ row[c] # "none" ~> row[c] \in {"CONFIRMED", "REVERSED"}
=============================================================================
