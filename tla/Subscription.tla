---------------------------- MODULE Subscription ----------------------------
(***************************************************************************)
(* The subscription of one store (apps/saas): a trial, periods that are    *)
(* paid by M-Pesa, and a pipeline of daily tasks that suspends, cancels    *)
(* and erases. Administrators, tasks and the receiver of payment_confirmed *)
(* each read the row and save the fields they change a moment later.       *)
(* Every payment has the same reference, "subscription-{store_id}".        *)
(***************************************************************************)
EXTENDS Integers

CONSTANTS
  TrialDays,   \* Plan.trial_days
  BillingDays, \* 30 for a monthly plan, 365 for an annual one
  NoticeDays,  \* 3: days before the end the reminder is due
  GraceDays,   \* 7: days past due before the suspension
  EraseDays,   \* 30: days cancelled before personal data are erased
  LastDay      \* bound: the days a behaviour lasts

VARIABLES
  today,
  subStatus, paidPlan, periodEnd, trialEnds, pastDue, cancelled, \* StoreSubscription
  writing,  \* what each actor is about to save
  push,     \* the row initiate_payment would find for the reference
  answer,   \* what the last request to renew was told
  erased,   \* the orders of the store carry no personal data any more
  ripe      \* history: the store once was CANCELLED for EraseDays

subVars == <<subStatus, paidPlan, periodEnd, trialEnds, pastDue, cancelled>>
vars == <<today, subVars, writing, push, answer, erased, ripe>>

SubStatus == {"trial", "active", "past_due", "suspended", "cancelled"}
Actors    == {"admin", "suspend", "expire", "receiver", "erase"}
Never     == -1
Nothing   == <<"nothing">>

\* VALID_SUBSCRIPTION_TRANSITIONS
SubMoves ==
  ({"trial"} \X {"active", "cancelled"}) \cup ({"active"} \X {"past_due", "cancelled"})
    \cup ({"past_due"} \X {"active", "suspended", "cancelled"})
    \cup ({"suspended"} \X {"active", "cancelled"})

Init ==
  /\ today = 0
  /\ subStatus = "trial" /\ paidPlan \in BOOLEAN
  /\ periodEnd = Never /\ trialEnds = Never /\ pastDue = Never /\ cancelled = Never
  /\ writing = [a \in Actors |-> Nothing]
  /\ push = "none" /\ answer = "none"
  /\ erased = FALSE /\ ripe = FALSE

Tomorrow ==
  /\ today < LastDay
  /\ today' = today + 1
  /\ ripe'  = (ripe \/ (subStatus = "cancelled" /\ cancelled + EraseDays <= today + 1))
  /\ UNCHANGED <<subVars, writing, push, answer, erased>>

-----------------------------------------------------------------------------
(* Readers: a is about to save what follows from the row as it is. *)

Intend(a, what) ==
  /\ writing[a] = Nothing
  /\ writing' = [writing EXCEPT ![a] = what]
  /\ UNCHANGED <<today, subVars, push, answer, erased, ripe>>

\* PlatformSubscriptionDetailView.patch
ReadAdmin == \E new \in SubStatus : <<subStatus, new>> \in SubMoves /\ Intend("admin", <<new>>)

\* suspend_past_due_subscriptions
ReadSuspend ==
  subStatus = "past_due" /\ pastDue + GraceDays <= today /\ Intend("suspend", <<"suspended">>)

\* expire_trials: the trial of a paid plan should become past_due, which the table
\* does not allow; the exception is swallowed and the trial goes on.
ReadExpire ==
  /\ subStatus = "trial" /\ trialEnds # Never /\ trialEnds <= today
  /\ LET new == IF paidPlan THEN "past_due" ELSE "cancelled"
     IN  <<subStatus, new>> \in SubMoves /\ Intend("expire", <<new>>)

\* Mutant: any store that was cancelled long ago is erased.
ReadEraseAny == cancelled # Never /\ cancelled + EraseDays <= today /\ Intend("erase", <<"erase">>)

\* anonymise_cancelled_store_pii
ReadErase ==
  subStatus = "cancelled" /\ cancelled + EraseDays <= today /\ Intend("erase", <<"erase">>)

\* The receiver of payment_confirmed: the period goes on from its end when the
\* subscription is active and not past it, else it begins today.
ReadPaid ==
  /\ push = "paid"
  /\ LET start == IF subStatus = "active" /\ periodEnd >= today THEN periodEnd + 1 ELSE today
     IN  writing' = [writing EXCEPT !["receiver"] = <<start + BillingDays, subStatus>>]
  /\ writing["receiver"] = Nothing
  /\ push' = "told"
  /\ UNCHANGED <<today, subVars, answer, erased, ripe>>

-----------------------------------------------------------------------------
(* Writers *)

\* transition_status saves the status with its date.
SaveStatus(a) ==
  /\ writing[a] # Nothing /\ a \in {"admin", "suspend", "expire"}
  /\ LET new == writing[a][1]
     IN  /\ subStatus' = new
         /\ pastDue'   = CASE new = "past_due" -> today [] new = "active" -> Never [] OTHER -> pastDue
         /\ cancelled' = IF new = "cancelled" THEN today ELSE cancelled
  /\ writing' = [writing EXCEPT ![a] = Nothing]
  /\ UNCHANGED <<today, paidPlan, periodEnd, trialEnds, push, answer, erased, ripe>>

\* The receiver asks no table: a cancelled store becomes active again. A status
\* that was active when it was read is not saved.
SavePaid ==
  /\ writing["receiver"] # Nothing
  /\ LET end  == writing["receiver"][1]
         read == writing["receiver"][2]
     IN  /\ periodEnd' = end
         /\ subStatus' = IF read = "active" THEN subStatus ELSE "active"
         /\ pastDue'   = IF read = "active" THEN pastDue ELSE Never
  /\ writing' = [writing EXCEPT !["receiver"] = Nothing]
  /\ UNCHANGED <<today, paidPlan, trialEnds, cancelled, push, answer, erased, ripe>>

Erase ==
  /\ writing["erase"] # Nothing
  /\ erased'  = TRUE
  /\ writing' = [writing EXCEPT !["erase"] = Nothing]
  /\ UNCHANGED <<today, subVars, push, answer, ripe>>

\* activate_trial_subscriptions
StartTrial ==
  /\ subStatus = "trial" /\ trialEnds = Never
  /\ trialEnds' = today + TrialDays
  /\ UNCHANGED <<today, subStatus, paidPlan, periodEnd, pastDue, cancelled>>
  /\ UNCHANGED <<writing, push, answer, erased, ripe>>

AssignPlan ==
  /\ paidPlan' = ~paidPlan
  /\ UNCHANGED <<today, subStatus, periodEnd, trialEnds, pastDue, cancelled>>
  /\ UNCHANGED <<writing, push, answer, erased, ripe>>

-----------------------------------------------------------------------------
(* Payments. initiate_payment returns the row it finds open or confirmed. *)

Initiate == push' = IF push \in {"none", "closed"} THEN "open" ELSE push

\* SubscriptionRenewView: 202, "STK Push sent."
Renew ==
  /\ paidPlan
  /\ periodEnd <= LastDay \* bound: nobody pays further ahead
  /\ Initiate
  /\ answer' = "sent"
  /\ UNCHANGED <<today, subVars, writing, erased, ripe>>

\* send_subscription_renewal_reminder and the send_billing_reminder it sends: an
\* active store with days left, such as every active one the scan finds, is skipped.
Remind ==
  /\ subStatus \in {"active", "trial", "past_due"} /\ periodEnd = today + NoticeDays
  /\ ~(subStatus = "active" /\ periodEnd >= today) /\ paidPlan
  /\ Initiate /\ push' # push
  /\ UNCHANGED <<today, subVars, writing, answer, erased, ripe>>

\* The push is confirmed, or fails or expires; a payment is reversed.
Answered ==
  /\ push' \in {new \in {"paid", "closed"} :
               <<push, new>> \in {<<"open", "paid">>, <<"open", "closed">>, <<"told", "closed">>}}
  /\ answer' = "none"
  /\ UNCHANGED <<today, subVars, writing, erased, ripe>>

-----------------------------------------------------------------------------
Next ==
  \/ Tomorrow \/ StartTrial \/ AssignPlan
  \/ ReadAdmin \/ ReadSuspend \/ ReadExpire \/ ReadErase \/ ReadPaid
  \/ (\E a \in Actors : SaveStatus(a)) \/ SavePaid \/ Erase
  \/ Renew \/ Remind \/ Answered

Spec == Init /\ [][Next]_vars

TypeOK ==
  /\ today \in 0 .. LastDay
  /\ subStatus \in SubStatus /\ paidPlan \in BOOLEAN
  /\ {periodEnd, trialEnds, pastDue, cancelled} \ {Never} \subseteq Nat
  /\ push \in {"none", "open", "paid", "told", "closed"}
  /\ answer \in {"none", "sent"}
  /\ erased \in BOOLEAN /\ ripe \in BOOLEAN

\* "anonymise PII for stores that have been cancelled for more than 30 days": the
\* data of customers are erased only when the store has been cancelled that long,
\* not when it was reactivated by a late payment before that.
ErasedWasCancelled == erased => ripe

\* A request to renew that is answered "STK Push sent" has a push
\* that is to be answered, or an answer that is still to be taken into account.
RenewalIsPushed == answer = "sent" => push \in {"open", "paid"}
=============================================================================
