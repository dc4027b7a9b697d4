------------------------------ MODULE Takeaway ------------------------------
(***************************************************************************)
(* Takeaway orders of one store of apps/restaurant, and the reference the  *)
(* customer shows to pick one up: when its payment is confirmed, a task    *)
(* names the order after the number of takeaway orders there are then. The *)
(* kitchen's ticket of an order is that of TableSession; the payment is    *)
(* that of the ledger.                                                     *)
(***************************************************************************)
EXTENDS Naturals, FiniteSets

CONSTANT Takeaways \* DineInOrder rows whose order_type is takeaway

VARIABLES
  placed, \* the orders there are
  pickup, \* number in DineInOrder.pickup_reference, 0 while it is blank
  naming, \* where send_takeaway_pickup_reference is with an order
  count,  \* orders it has counted
  state,  \* PaymentLedger: life of each order's push
  told    \* PaymentLedger: pushes the receiver was told of

ledgerVars == <<state, told>>
vars == <<placed, pickup, naming, count, ledgerVars>>

Pay == INSTANCE PaymentLedger WITH Checkouts <- Takeaways

Init ==
  /\ placed = {}
  /\ pickup = [o \in Takeaways |-> 0]
  /\ naming = [o \in Takeaways |-> "idle"]
  /\ count  = [o \in Takeaways |-> 0]
  /\ Pay!Init

\* TakeawayOrderView commits the order and its ticket, which the kitchen sees
\* whether it is paid for or not.
Place(o) ==
  /\ o \notin placed
  /\ placed' = placed \cup {o}
  /\ UNCHANGED <<pickup, naming, count, ledgerVars>>

\* TakeawayOrderPayView, whatever the status of the order, unless Daraja refuses.
Push(o) ==
  /\ o \in placed
  /\ Pay!Open(o) \/ Pay!Move({o}, "closed", "open")
  /\ UNCHANGED <<placed, pickup, naming, count>>

\* The push is answered, or closed and may be repeated, or its payment is reversed.
Payment(o) ==
  /\ Pay!Settle(o) \/ Pay!Close({o}) \/ Pay!Refund(o)
  /\ UNCHANGED <<placed, pickup, naming, count>>

\* The receiver of payment_confirmed queues the task, or the broker fails, which is
\* logged and forgotten.
Receive(o) ==
  /\ Pay!Tell(o)
  /\ naming' \in {[naming EXCEPT ![o] = "queued"], naming}
  /\ UNCHANGED <<placed, pickup, count>>

\* The takeaway orders of the store, the unpaid ones too.
CountOrders(o) ==
  /\ naming[o] = "queued" /\ pickup[o] = 0
  /\ naming' = [naming EXCEPT ![o] = "counted"]
  /\ count'  = [count EXCEPT ![o] = Cardinality(placed)]
  /\ UNCHANGED <<placed, pickup, ledgerVars>>

\* The customer is sent nothing: no takeaway order has a payment_transaction, from
\* which the task would take the phone.
SaveReference(o) ==
  /\ naming[o] = "counted"
  /\ pickup' = [pickup EXCEPT ![o] = count[o]]
  /\ naming' = [naming EXCEPT ![o] = "idle"]
  /\ count'  = [count EXCEPT ![o] = 0]
  /\ UNCHANGED <<placed, ledgerVars>>

\* An error or the death of the worker: nothing repeats the task.
LoseTask(o) ==
  /\ naming[o] # "idle"
  /\ naming' = [naming EXCEPT ![o] = "idle"]
  /\ count'  = [count EXCEPT ![o] = 0]
  /\ UNCHANGED <<placed, pickup, ledgerVars>>

Next == \E o \in Takeaways :
  \/ Place(o) \/ Push(o) \/ Payment(o) \/ Receive(o)
  \/ CountOrders(o) \/ SaveReference(o) \/ LoseTask(o)

Spec == Init /\ [][Next]_vars

-----------------------------------------------------------------------------
TypeOK ==
  /\ placed \subseteq Takeaways
  /\ {pickup[o] : o \in Takeaways} \cup {count[o] : o \in Takeaways} \subseteq 0 .. Cardinality(Takeaways)
  /\ naming \in [Takeaways -> {"idle", "queued", "counted"}]
  /\ state \in [Takeaways -> Pay!States]
  /\ told \subseteq placed

\* "Unique pickup reference for takeaway orders" (DineInOrder.pickup_reference): no
\* two orders of a store are picked up with one reference.
PickupReferenceUnique ==
  \A o, p \in Takeaways : pickup[o] # 0 /\ pickup[o] = pickup[p] => o = p
=============================================================================
