----------------------------- MODULE RetailOrder -----------------------------
(***************************************************************************)
(* The retail checkout of apps/order, on top of the payment ledger.        *)
(* CheckoutView.post is one request and, with ATOMIC_REQUESTS, one         *)
(* READ COMMITTED transaction: it validates against what is committed,     *)
(* then updates the coupon and each variant, whose rows stay locked until  *)
(* the request, its call of Daraja included, commits or rolls back.        *)
(* The order is then confirmed by the receiver of payment_confirmed        *)
(* (apps.py) or by the staff (OrderConfirmView), which both read the       *)
(* order, check its status and save it without a lock.                     *)
(***************************************************************************)
EXTENDS Integers, FiniteSets, Sequences, FiniteSetsExt, Functions

CONSTANTS
  Orders,     \* checkout requests, each of which creates one order
  Variants,   \* product variants
  Cart,       \* Cart[o]: the lines of o's cart, a sequence of variants
  Quantity,   \* Quantity[o]: the quantity of each of its lines
  WithCoupon, \* the checkouts that carry the store's coupon
  InitStock,  \* Variant.inventory_count at the start
  MaxUses,    \* Coupon.max_uses
  Workers,    \* checkout requests the server works on at once
  Staff,      \* staff members that may be inside OrderConfirmView
  Pushes      \* STK pushes <<o, n>> of the orders: n = 1 is the checkout's own,
              \* any other one a retry

Coupon == "coupon"

ASSUME CheckoutAssumption ==
  /\ IsFiniteSet(Orders) /\ Orders # {}
  /\ Workers \in Nat \ {0} /\ MaxUses \in Nat
  /\ InitStock \in [Variants -> Nat]
  /\ Quantity \in [Orders -> Nat \ {0}]
  /\ Cart \in [Orders -> Seq(Variants)]
  /\ Pushes \subseteq Orders \X Nat
  /\ \A o \in Orders : <<o, 1>> \in Pushes
  /\ Coupon \notin Variants

VARIABLES
  stock,     \* Variant.inventory_count, committed
  used,      \* Coupon.times_used, committed
  phase,     \* where a checkout request is
  written,   \* how many rows of Rows(o) the request has updated and locked
  order,     \* Order.status of the committed row, or "none"
  handling,  \* receivers of payment_confirmed that read a pending order
  lost,      \* receivers whose worker died before the save
  deciding,  \* orders a staff member read as pending and has yet to save
  byStaff,   \* orders the staff confirmed
  state,     \* PaymentLedger: life of each push
  told       \* PaymentLedger: pushes the receiver was told of

checkoutVars == <<stock, used, phase, written>>
orderVars    == <<order, handling, lost, deciding, byStaff>>
ledgerVars   == <<state, told>>
vars == <<checkoutVars, orderVars, ledgerVars>>

Pay == INSTANCE PaymentLedger WITH Checkouts <- Pushes

-----------------------------------------------------------------------------
\* Rows the transaction of o updates, in order: the coupon inside the inner
\* atomic block, then the variants in the order of the cart.
Rows(o) == IF o \in WithCoupon THEN <<Coupon>> \o Cart[o] ELSE Cart[o]

LinesOf(o, v) == {i \in DOMAIN Cart[o] : Cart[o][i] = v}
Demand(o, v) == Quantity[o] * Cardinality(LinesOf(o, v))

InFlight == {o \in Orders : phase[o] = "writing"}

\* Rows o has locked, and the request that keeps o from the next one.
Locked(o) == IF phase[o] = "writing" THEN {Rows(o)[i] : i \in 1..written[o]} ELSE {}
Finished(o) == written[o] = Len(Rows(o))
Blocks(p, o) ==
  /\ p # o /\ phase[o] = "writing" /\ ~Finished(o)
  /\ Rows(o)[written[o] + 1] \in Locked(p)

\* o is on a cycle of requests each of which waits for another of them.
Deadlocked(o) ==
  \E S \in SUBSET InFlight :
    /\ o \in S
    /\ \A p \in S : /\ \E q \in S : Blocks(q, p)
                    /\ \E q \in S : Blocks(p, q)

Init ==
  /\ stock    = InitStock
  /\ used     = 0
  /\ phase    = [o \in Orders |-> "cart"]
  /\ written  = [o \in Orders |-> 0]
  /\ order    = [o \in Orders |-> "none"]
  /\ handling = {}
  /\ lost     = {}
  /\ deciding = [s \in Staff |-> {}]
  /\ byStaff  = {}
  /\ Pay!Init

-----------------------------------------------------------------------------
(* CheckoutView.post *)

\* Mutants: some stock is enough; max_uses itself may still be exceeded by one.
SellableAnyStock(o) ==
  /\ \A v \in Variants : Demand(o, v) > 0 => stock[v] > 0
  /\ o \in WithCoupon => used < MaxUses

SellableOnceMore(o) ==
  /\ \A v \in Variants : Demand(o, v) > 0 => stock[v] >= Demand(o, v)
  /\ o \in WithCoupon => used <= MaxUses

Sellable(o) ==
  /\ \A v \in Variants : Demand(o, v) > 0 => stock[v] >= Demand(o, v)
  /\ o \in WithCoupon => used < MaxUses

\* Stock and coupon are checked against what is committed, without a lock.
Validate(o) ==
  /\ phase[o] = "cart" /\ Cardinality(InFlight) < Workers
  /\ Sellable(o)
  /\ phase' = [phase EXCEPT ![o] = "writing"]
  /\ UNCHANGED <<stock, used, written, orderVars, ledgerVars>>

\* VARIANT_OUT_OF_STOCK or COUPON_INVALID.
Refuse(o) ==
  /\ phase[o] = "cart" /\ Cardinality(InFlight) < Workers
  /\ ~Sellable(o)
  /\ phase' = [phase EXCEPT ![o] = "refused"]
  /\ UNCHANGED <<stock, used, written, orderVars, ledgerVars>>

\* Mutants: one row more than there are; a coupon is not updated before a use of
\* it is left.
UpdateOneMore(o) ==
  /\ phase[o] = "writing" /\ written[o] <= Len(Rows(o))
  /\ \A p \in Orders : ~Blocks(p, o)
  /\ written' = [written EXCEPT ![o] = @ + 1]
  /\ UNCHANGED <<stock, used, phase, orderVars, ledgerVars>>

UpdateWhenLeft(o) ==
  /\ phase[o] = "writing" /\ ~Finished(o)
  /\ \A p \in Orders : ~Blocks(p, o)
  /\ Rows(o)[written[o] + 1] = Coupon => used < MaxUses
  /\ written' = [written EXCEPT ![o] = @ + 1]
  /\ UNCHANGED <<stock, used, phase, orderVars, ledgerVars>>

\* record_use, or the F() update of the next variant: waits for the row's lock.
UpdateRow(o) ==
  /\ phase[o] = "writing" /\ ~Finished(o)
  /\ \A p \in Orders : ~Blocks(p, o)
  /\ written' = [written EXCEPT ![o] = @ + 1]
  /\ UNCHANGED <<stock, used, phase, orderVars, ledgerVars>>

\* The request ends and commits, with the push that Daraja accepted or, when
\* initiate_payment failed and a 4xx or 502 is returned, without any.
Commit(o) ==
  /\ phase[o] = "writing" /\ Finished(o)
  /\ stock' = [v \in Variants |-> stock[v] - Demand(o, v)]
  /\ used'  = used + (IF o \in WithCoupon THEN 1 ELSE 0)
  /\ order' = [order EXCEPT ![o] = "pending"]
  /\ phase' = [phase EXCEPT ![o] = "done"]
  /\ written' = [written EXCEPT ![o] = 0]
  /\ Pay!Open(<<o, 1>>) \/ UNCHANGED ledgerVars
  /\ UNCHANGED <<handling, lost, deciding, byStaff>>

\* Everything the request wrote is rolled back and its locks are released.
RollBack(o) ==
  /\ phase'   = [phase EXCEPT ![o] = "aborted"]
  /\ written' = [written EXCEPT ![o] = 0]
  /\ UNCHANGED <<stock, used, orderVars, ledgerVars>>

\* An exception, or the death of the worker.
Crash(o) == phase[o] = "writing" /\ RollBack(o)

\* PostgreSQL finds a cycle of waiting requests and fails one of them.
BreakDeadlock(o) == Deadlocked(o) /\ RollBack(o)

\* InitiateStkPushView.post with the order's reference, when an earlier push has
\* expired. Two such requests may overlap (module Payment).
Retry(p) ==
  /\ order[p[1]] # "none" /\ p[2] # 1
  /\ Pay!Open(p)
  /\ UNCHANGED <<checkoutVars, orderVars>>

-----------------------------------------------------------------------------
(* The payment, and the receiver of its signal *)

Payment(p) ==
  /\ Pay!Settle(p) \/ Pay!Close({p}) \/ Pay!Refund(p)
  /\ UNCHANGED <<checkoutVars, orderVars>>

\* Mutants: only the checkout's own push is looked for; the signal is taken for a
\* confirmation whatever became of the push.
ReceiveFirstOnly(p) ==
  /\ Pay!Tell(p)
  /\ handling' = IF order[p[1]] = "pending" /\ p[2] = 1 THEN handling \cup {p} ELSE handling
  /\ UNCHANGED <<checkoutVars, order, lost, deciding, byStaff>>

ReceiveAny(p) ==
  /\ p \notin told /\ state[p] # "absent"
  /\ told' = told \cup {p}
  /\ handling' = IF order[p[1]] = "pending" THEN handling \cup {p} ELSE handling
  /\ UNCHANGED <<checkoutVars, state, order, lost, deciding, byStaff>>

\* payment_confirmed is received: Order.objects.get(id, status=PENDING).
Receive(p) ==
  /\ Pay!Tell(p)
  /\ handling' = IF order[p[1]] = "pending" THEN handling \cup {p} ELSE handling
  /\ UNCHANGED <<checkoutVars, order, lost, deciding, byStaff>>

\* The payment is linked and the order saved as confirmed.
ConfirmPaid(p) ==
  /\ p \in handling
  /\ order'    = [order EXCEPT ![p[1]] = "confirmed"]
  /\ handling' = handling \ {p}
  /\ UNCHANGED <<checkoutVars, ledgerVars, lost, deciding, byStaff>>

LoseReceiver(p) ==
  /\ p \in handling
  /\ handling' = handling \ {p}
  /\ lost' = lost \cup {p}
  /\ UNCHANGED <<checkoutVars, ledgerVars, order, deciding, byStaff>>

-----------------------------------------------------------------------------
(* OrderConfirmView.post *)

StaffRead(s, o) ==
  /\ deciding[s] = {} /\ order[o] = "pending"
  /\ deciding' = [deciding EXCEPT ![s] = {o}]
  /\ UNCHANGED <<checkoutVars, ledgerVars, order, handling, lost, byStaff>>

StaffSave(s) ==
  /\ deciding[s] # {}
  /\ order' = [o \in Orders |-> IF o \in deciding[s] THEN "confirmed" ELSE order[o]]
  /\ byStaff' = byStaff \cup deciding[s]
  /\ deciding' = [deciding EXCEPT ![s] = {}]
  /\ UNCHANGED <<checkoutVars, ledgerVars, handling, lost>>

-----------------------------------------------------------------------------
Checkout(o) ==
  \/ Validate(o) \/ Refuse(o) \/ UpdateRow(o) \/ Commit(o)
  \/ Crash(o) \/ BreakDeadlock(o)

Push(p) == Retry(p) \/ Payment(p) \/ Receive(p) \/ ConfirmPaid(p) \/ LoseReceiver(p)

Next ==
  \/ \E o \in Orders : Checkout(o)
  \/ \E p \in Pushes : Push(p)
  \/ \E s \in Staff : StaffSave(s) \/ \E o \in Orders : StaffRead(s, o)

Spec == Init /\ [][Next]_vars

\* A request that is not waiting goes on (the push has a timeout), and the
\* database looks for deadlocks: this is all that is assumed.
Fairness ==
  \A o \in Orders : WF_vars(UpdateRow(o)) /\ WF_vars(Commit(o)) /\ WF_vars(BreakDeadlock(o))
FairSpec == Spec /\ Fairness

-----------------------------------------------------------------------------
(* Properties *)

TypeOK ==
  /\ stock \in [Variants -> Int]
  /\ used \in Nat
  /\ phase \in [Orders -> {"cart", "refused", "writing", "done", "aborted"}]
  /\ written \in [Orders -> Nat]
  /\ \A o \in Orders : written[o] <= Len(Rows(o))
  /\ order \in [Orders -> {"none", "pending", "confirmed"}]
  /\ handling \subseteq Pushes /\ lost \subseteq Pushes
  /\ deciding \in [Staff -> SUBSET Orders]
  /\ byStaff \subseteq Orders
  /\ state \in [Pushes -> Pay!States]
  /\ told \subseteq Pushes

\* Stock is checked without a lock, so it may be sold below zero, but by no more
\* than what the other requests that were being served at once may take.
OversellBound ==
  \A v \in Variants :
    LET demand == [o \in Orders |-> Demand(o, v)]
        most == Max({Demand(o, v) : o \in Orders})
    IN  stock[v] - SumFunctionOnSet(demand, InFlight) >= -((Workers - 1) * most)

\* A coupon is redeemed beyond max_uses at most once for each of the other
\* requests that were being served at once.
CouponBound ==
  used + Cardinality(InFlight \cap WithCoupon) <= MaxUses + Workers - 1

\* No announced payment misses its order: the order is there and pending when
\* the receiver looks for it, or has been confirmed already. Only the death of
\* the worker loses one.
AnnouncedIsConfirmed ==
  \A p \in told : order[p[1]] = "confirmed" \/ p \in handling \cup lost

\* An order is confirmed only for a payment that was made, or by the staff.
ConfirmedHasCause ==
  \A o \in Orders : order[o] = "confirmed" =>
    \/ o \in byStaff
    \/ \E p \in Pushes : p[1] = o /\ state[p] \in {"paid", "refunded"}

\* Two requests that lock the same variants in the order of their carts may wait
\* for each other, yet each ends: it commits, or the database rolls it back.
CheckoutEnds == \A o \in Orders : phase[o] = "writing" ~> phase[o] # "writing"
=============================================================================
