----------------------------- MODULE MCServices -----------------------------
(***************************************************************************)
(* The services around the sale. They share no state, so that a behaviour  *)
(* is one of them, as part says, and the others stand still.               *)
(***************************************************************************)
EXTENDS TaskQueue

CONSTANTS
  Slots, Works, Clerks,                                              \* Contract
  TrialDays, BillingDays, NoticeDays, GraceDays, EraseDays, LastDay, \* Subscription
  Purchases, Required, Redemptions, Repeats,                         \* Loyalty
  Callers, Limit, FileRows,                                          \* PlanLimit
  Receipts, TillTasks,                                               \* Till
  Sales, HoursPerDay, LastHour,                                      \* Analytics
  Variants, Shoppers, MaxItems,                                      \* Cart
  Editors, MaxStock, Threshold,                                      \* Stock
  Intents, Hooks, MaxEvents,                                         \* Card
  Tokens, Devices,                                                   \* Account
  Managers,                                                          \* StoreAdmin
  Processes, MaxOverruns                                             \* AccessToken

ASSUME ServicesAssumption ==
  /\ TrialDays \in Nat /\ BillingDays \in Nat /\ EraseDays \in Nat \ {0} /\ LastDay \in Nat
  /\ IsFiniteSet(Purchases) /\ Redemptions \in Nat /\ Repeats \in Nat
  /\ IsFiniteSet(Callers) /\ Callers # {} /\ Limit \in Nat /\ FileRows \in Nat \ {0}
  /\ IsFiniteSet(Sales) /\ HoursPerDay \in Nat \ {0} /\ LastHour \in Nat
  /\ IsFiniteSet(Variants) /\ IsFiniteSet(Shoppers) /\ MaxItems \in Nat
  /\ MaxStock \in Nat
  /\ MaxEvents \in Nat
  /\ IsFiniteSet(Tokens)
  /\ IsFiniteSet(Managers)
  /\ IsFiniteSet(Processes) /\ MaxOverruns \in Nat

VARIABLES
  part,
  booking, isBooked, enquiry, quote, job, invoice, pdf, clerk, settling, invState, invTold,
  today, subStatus, paidPlan, periodEnd, trialEnds, pastDue, cancelled,
  writing, push, answer, erased, ripe,
  kind, value, spent, rewards, rows, task, repeats, torn,
  limited, counted, tables, caller,
  registered, names, recorded, reversed, applied, announced, tillTask, resumed, dropped,
  hour, saleHour, hourly, daily, beat, abandoned, firstTask, milestone,
  cart, snapshot, shopper, expected,
  count, removed, editor, due, alert, informed,
  events, card, paidAt, hook, newest, last,
  account, edited, token, device, signIns, forks,
  store, welcome, settings, manager, logo,
  cached, owner, at, overruns

conVars  == <<booking, isBooked, enquiry, quote, job, invoice, pdf, clerk, settling, invState, invTold>>
subVars  == <<today, subStatus, paidPlan, periodEnd, trialEnds, pastDue, cancelled,
             writing, push, answer, erased, ripe>>
loyVars  == <<kind, value, spent, rewards, rows, task, repeats, torn>>
planVars == <<limited, counted, tables, caller>>
tillVars == <<registered, names, recorded, reversed, applied, announced, tillTask, resumed,
              dropped>>
sumVars  == <<hour, saleHour, hourly, daily, beat, abandoned, firstTask, milestone>>
cartVars == <<cart, snapshot, shopper, expected>>
itemVars == <<count, removed, editor, due, alert, informed>>
cardVars == <<events, card, paidAt, hook, newest, last>>
userVars == <<account, edited, token, device, signIns, forks>>
siteVars == <<store, welcome, settings, manager, logo>>
authVars == <<cached, owner, at, overruns>>

Con  == INSTANCE Contract
Sub  == INSTANCE Subscription
Loy  == INSTANCE Loyalty
Plan == INSTANCE PlanLimit
C2B  == INSTANCE Till
Ana  == INSTANCE Analytics
Bag  == INSTANCE Cart
Item == INSTANCE Stock
Pin  == INSTANCE Card
User == INSTANCE Account
Site == INSTANCE StoreAdmin
Auth == INSTANCE AccessToken

Parts == {"queue", "contract", "subscription", "loyalty", "limit", "till", "analytics",
          "cart", "stock", "card", "account", "store", "token"}

\* A part that stands still starts in one way only.
ServicesInit ==
  /\ part \in Parts
  /\ Init /\ Con!Init /\ Sub!Init /\ Loy!Init /\ Plan!Init /\ C2B!Init /\ Ana!Init
  /\ Bag!Init /\ Item!Init /\ Pin!Init /\ User!Init /\ Site!Init /\ Auth!Init
  /\ part = "subscription" \/ paidPlan
  /\ part = "loyalty" \/ kind = "points"
  /\ part = "limit" \/ limited = "orders"
  /\ part = "till" \/ names = [r \in Receipts |-> "other"]

Still(p, v) == part # p /\ UNCHANGED v

ServicesNext ==
  /\ UNCHANGED part
  /\ (part = "queue" /\ Next) \/ Still("queue", vars)
  /\ (part = "contract" /\ Con!Next) \/ Still("contract", conVars)
  /\ (part = "subscription" /\ Sub!Next) \/ Still("subscription", subVars)
  /\ (part = "loyalty" /\ Loy!Next) \/ Still("loyalty", loyVars)
  /\ (part = "limit" /\ Plan!Next) \/ Still("limit", planVars)
  /\ (part = "till" /\ C2B!Next) \/ Still("till", tillVars)
  /\ (part = "analytics" /\ Ana!Next) \/ Still("analytics", sumVars)
  /\ (part = "cart" /\ Bag!Next) \/ Still("cart", cartVars)
  /\ (part = "stock" /\ Item!Next) \/ Still("stock", itemVars)
  /\ (part = "card" /\ Pin!Next) \/ Still("card", cardVars)
  /\ (part = "account" /\ User!Next) \/ Still("account", userVars)
  /\ (part = "store" /\ Site!Next) \/ Still("store", siteVars)
  /\ (part = "token" /\ Auth!Next) \/ Still("token", authVars)

ServicesSpec ==
  ServicesInit /\ [][ServicesNext]_<<part, vars, conVars, subVars, loyVars, planVars, tillVars,
                                       sumVars, cartVars, itemVars, cardVars, userVars, siteVars, authVars>>

\* The states of all parts are of their types.
ServicesTypeOK ==
  /\ TypeOK /\ Con!TypeOK /\ Sub!TypeOK /\ Loy!TypeOK /\ Plan!TypeOK /\ C2B!TypeOK /\ Ana!TypeOK
  /\ Bag!TypeOK /\ Item!TypeOK /\ Pin!TypeOK /\ User!TypeOK /\ Site!TypeOK /\ Auth!TypeOK

\* Work is done only for requests that are closed (Contract).
WorkWasDecided == Con!WorkWasDecided

\* Personal data are erased only of a store long cancelled (Subscription).
ErasedWasCancelled == Sub!ErasedWasCancelled

\* The ledger of points or stamps adds up to the balance (Loyalty).
LedgerAddsUp == Loy!LedgerAddsUp

\* A plan's limit is exceeded by no more than the requests at once (PlanLimit).
LimitBound == Plan!LimitBound

\* A receipt of the till is announced once, but by executions that find its payment
\* reversed (Till).
ReceiptAnnouncedOnce == C2B!ReceiptAnnouncedOnce

\* The hours of a day that is over add up to the day (Analytics).
DaysAddUp == Ana!DaysAddUp

\* Carts hold what was added, unless requests met or Redis failed (Cart).
ItemsAddUp == Bag!ItemsAddUp

\* A variant has the stock it was given less what was sold, unless an edit that gave
\* none met a sale (Stock).
StockAddsUp == Item!StockAddsUp

\* A card payment that succeeded says so, unless an earlier event came later (Card).
SuccessIsSeen == Pin!SuccessIsSeen

\* An account has no more sessions than sign-ins and overlapping refreshes (Account).
SessionsBound == User!SessionsBound

\* One process at a time fetches a token of Daraja, and one more for each lock that
\* has expired under its fetch (AccessToken).
OneFetcher == Auth!OneFetcher
=============================================================================
