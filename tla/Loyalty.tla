------------------------------ MODULE Loyalty ------------------------------
(***************************************************************************)
(* What a confirmed order earns its customer (apps/loyalty). The receiver  *)
(* of payment_confirmed sends three tasks, for the points of an account,   *)
(* the stamps of a card and the totals of a profile. Each reads a row,     *)
(* saves what it computed and, but for the profile, appends to a ledger;   *)
(* each query commits by itself, and a task that fails is repeated as a    *)
(* whole. The three touch different rows: a behaviour is about one kind.   *)
(***************************************************************************)
EXTENDS Integers, FiniteSets

CONSTANTS
  Purchases,    \* orders that may be confirmed
  Required,     \* StampCard.stamps_required
  Redemptions,  \* bound: points redeemed
  Repeats       \* bound: times a task is repeated

VARIABLES
  kind,    \* the rows this behaviour is about
  value,   \* points_balance, stamps_count or order_count
  spent,   \* points redeemed, or stamps given for a reward
  rewards, \* redeemed_count
  rows,    \* sum of PointsTransaction.delta earned, or CustomerStamp rows
  task,    \* the task of each order and the value it has read
  repeats, \* tasks that were repeated
  torn     \* history: a value was lost, or saved and not appended

vars == <<kind, value, spent, rewards, rows, task, repeats, torn>>

Kinds == {"points", "stamps", "profile"}
None  == -1
At(step, read) == [step |-> step, read |-> read]
Idle == At("none", None)

Init ==
  /\ kind \in Kinds
  /\ value = 0 /\ spent = 0 /\ rewards = 0 /\ rows = 0
  /\ task = [o \in Purchases |-> Idle]
  /\ repeats = 0 /\ torn = FALSE

\* The receiver, once the confirmation of the order has committed.
Publish(o) ==
  /\ task[o] = Idle
  /\ task' = [task EXCEPT ![o] = At("queued", None)]
  /\ UNCHANGED <<kind, value, spent, rewards, rows, repeats, torn>>

\* get_or_create
Read(o) ==
  /\ task[o].step = "queued"
  /\ task' = [task EXCEPT ![o] = At("read", value)]
  /\ UNCHANGED <<kind, value, spent, rewards, rows, repeats, torn>>

\* Mutant: the count is set back before the stamp is saved.
SaveForReward(o) ==
  /\ task[o].step = "read"
  /\ LET new == task[o].read + 1
     IN  /\ value' = IF kind = "stamps" /\ new >= Required THEN 0 ELSE new
         /\ task'  = [task EXCEPT ![o] = At(IF kind = "profile" THEN "done" ELSE "saved", new)]
  /\ torn' = (torn \/ value # task[o].read)
  /\ UNCHANGED <<kind, spent, rewards, rows, repeats>>

\* earn, add_stamp and record_order save what they have read and one more. What
\* was saved in between is lost. There is no ledger of a profile.
Save(o) ==
  /\ task[o].step = "read"
  /\ LET new == task[o].read + 1
     IN  /\ value' = new
         /\ task'  = [task EXCEPT ![o] = At(IF kind = "profile" THEN "done" ELSE "saved", new)]
  /\ torn' = (torn \/ value # task[o].read)
  /\ UNCHANGED <<kind, spent, rewards, rows, repeats>>

\* The PointsTransaction or CustomerStamp is created, and a card that is full is
\* begun again, with a reward of which the customer is told.
Append(o) ==
  /\ task[o].step = "saved"
  /\ rows' = rows + 1
  /\ task' = [task EXCEPT ![o] =
       IF kind = "stamps" /\ task[o].read >= Required THEN At("full", task[o].read) ELSE At("done", None)]
  /\ UNCHANGED <<kind, value, spent, rewards, repeats, torn>>

Reward(o) ==
  /\ task[o].step = "full"
  /\ value'   = 0
  /\ spent'   = spent + task[o].read
  /\ rewards' = rewards + 1
  /\ torn'    = (torn \/ value # task[o].read)
  /\ task'    = [task EXCEPT ![o] = At("done", None)]
  /\ UNCHANGED <<kind, rows, repeats>>

\* An exception, or the death of the worker: the task begins anew, after what it
\* has committed. Nothing looks for an earlier award of the order.
Repeat(o) ==
  /\ task[o].step \in {"read", "saved", "full"} /\ repeats < Repeats
  /\ task' = [task EXCEPT ![o] = At("queued", None)]
  /\ repeats' = repeats + 1
  /\ torn' = (torn \/ task[o].step \in {"saved", "full"})
  /\ UNCHANGED <<kind, value, spent, rewards, rows>>

\* RedeemPointsView locks the account: the balance is the current one.
Redeem(n) ==
  /\ kind = "points" /\ n <= value /\ spent + n <= Redemptions
  /\ value' = value - n
  /\ spent' = spent + n
  /\ UNCHANGED <<kind, rewards, rows, task, repeats, torn>>

Next ==
  \/ \E o \in Purchases :
       Publish(o) \/ Read(o) \/ Save(o) \/ Append(o) \/ Reward(o) \/ Repeat(o)
  \/ \E n \in 1 .. Redemptions : Redeem(n)

Spec == Init /\ [][Next]_vars

-----------------------------------------------------------------------------
Most == Cardinality(Purchases) + Repeats

TypeOK ==
  /\ kind \in Kinds
  /\ value \in 0 .. Most /\ rows \in 0 .. Most /\ rewards \in 0 .. Most
  /\ spent \in Nat /\ repeats \in 0 .. Repeats /\ torn \in BOOLEAN
  /\ \A o \in Purchases :
       task[o] \in [step : {"none", "queued", "read", "saved", "full", "done"},
                    read : 0 .. Most \cup {None}]

\* "Append-only ledger of all points movements": what the ledger adds up to is
\* the balance and what was spent of it, although each is saved by itself, unless
\* two movements met on one row or a task was repeated after it had saved.
Unwritten == {o \in Purchases : task[o].step = "saved"}
LedgerAddsUp ==
  kind # "profile" /\ ~torn => rows + Cardinality(Unwritten) = value + spent
=============================================================================
