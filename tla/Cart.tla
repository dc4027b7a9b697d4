-------------------------------- MODULE Cart --------------------------------
(***************************************************************************)
(* The carts of one customer (apps/order/cart.py): a list of items under a *)
(* key of Redis for the guest and, after the login, one for the user. Each *)
(* request reads a key, edits what it got and writes it back, without a    *)
(* lock. A read that fails is taken for an empty cart, a delete that fails *)
(* is forgotten. A checkout copies the cart and leaves it as it is.        *)
(***************************************************************************)
EXTENDS Integers, FiniteSets, Functions

CONSTANTS
  Variants, \* variants of products
  Shoppers, \* requests that may be in progress at once
  MaxItems  \* bound: how many of a variant are in a cart

VARIABLES
  cart,     \* how many of each variant a key holds
  snapshot, \* keys with a CartSnapshot
  shopper,  \* what a request is about to write, and what it has read for it
  expected  \* history: items added and not removed, until requests met or Redis failed

vars == <<cart, snapshot, shopper, expected>>

Keys  == {"guest", "user"}
Empty == [v \in Variants |-> 0]
Unknown == -1
Items(c) == SumFunctionOnSet(c, Variants)

Outside == [next |-> "nothing", key |-> "guest", got |-> Empty, user |-> Empty]
Does(q, next) == shopper[q].next = next

Init ==
  /\ cart     = [k \in Keys |-> Empty]
  /\ snapshot = {}
  /\ shopper  = [q \in Shoppers |-> Outside]
  /\ expected = 0

\* n more items are expected, when key holds what q has read of it.
Expect(n, key, read) ==
  expected' = IF expected = Unknown \/ cart[key] # read THEN Unknown ELSE expected + n

\* get_cart: [] when there is no key, and when Redis fails.
Read(key) == {cart[key], Empty}

\* CartView, CartMergeView and CheckoutView begin with the cart of a key; there is
\* nothing to merge from, or to check out of, an empty one.
Open(q, next, key) ==
  /\ Does(q, "nothing")
  /\ \E got \in Read(key) :
       /\ next \in {"merge", "check out"} => got # Empty
       /\ shopper' = [shopper EXCEPT ![q] = [Outside EXCEPT !.next = next, !.key = key, !.got = got]]
  /\ UNCHANGED <<cart, snapshot, expected>>

\* The write fails, the stock is short, or the worker dies. A merge that has
\* written the one cart does not delete the other then.
Leave(q) ==
  /\ ~Does(q, "nothing")
  /\ shopper'  = [shopper EXCEPT ![q] = Outside]
  /\ expected' = IF Does(q, "clear") THEN Unknown ELSE expected
  /\ UNCHANGED <<cart, snapshot>>

\* set_cart, over whatever the key holds by now.
Write(q, key, new) ==
  /\ \A v \in Variants : new[v] <= MaxItems
  /\ cart' = [cart EXCEPT ![key] = new]
  /\ UNCHANGED snapshot

\* Mutant: the item is added to nothing.
AddAlone(q, v) ==
  LET s == shopper[q]
  IN  /\ s.next = "add"
      /\ Write(q, s.key, [Empty EXCEPT ![v] = 1])
      /\ Expect(1, s.key, s.got)
      /\ shopper' = [shopper EXCEPT ![q] = Outside]

\* add_to_cart
Add(q, v) ==
  LET s == shopper[q]
  IN  /\ s.next = "add"
      /\ Write(q, s.key, [s.got EXCEPT ![v] = @ + 1])
      /\ Expect(1, s.key, s.got)
      /\ shopper' = [shopper EXCEPT ![q] = Outside]

\* remove_from_cart
Remove(q, v) ==
  LET s == shopper[q]
  IN  /\ s.next = "remove"
      /\ Write(q, s.key, [s.got EXCEPT ![v] = 0])
      /\ Expect(-s.got[v], s.key, s.got)
      /\ shopper' = [shopper EXCEPT ![q] = Outside]

\* merge_carts reads the cart of the user after the guest's, ...
MergeRead(q) ==
  /\ Does(q, "merge")
  /\ \E got \in Read("user") : shopper' = [shopper EXCEPT ![q].next = "write", ![q].user = got]
  /\ UNCHANGED <<cart, snapshot, expected>>

\* ... writes their sum, ...
MergeWrite(q) ==
  LET s == shopper[q]
  IN  /\ s.next = "write"
      /\ Write(q, "user", [v \in Variants |-> s.user[v] + s.got[v]])
      /\ Expect(0, "user", s.user)
      /\ shopper' = [shopper EXCEPT ![q].next = "clear"]

\* ... and deletes the cart of the guest, unless Redis fails (Leave).
MergeClear(q) ==
  LET s == shopper[q]
  IN  /\ s.next = "clear"
      /\ Write(q, "guest", Empty)
      /\ Expect(0, "guest", s.got)
      /\ shopper' = [shopper EXCEPT ![q] = Outside]

\* write_cart_snapshot, with the order: the cart is as full as before.
CheckOut(q) ==
  /\ Does(q, "check out")
  /\ snapshot' = snapshot \cup {shopper[q].key}
  /\ shopper'  = [shopper EXCEPT ![q] = Outside]
  /\ UNCHANGED <<cart, expected>>

\* CART_TTL_SECONDS after the last write.
Expire(key) ==
  /\ cart[key] # Empty
  /\ cart' = [cart EXCEPT ![key] = Empty]
  /\ expected' = IF expected = Unknown THEN Unknown ELSE expected - Items(cart[key])
  /\ UNCHANGED <<snapshot, shopper>>

Next ==
  \/ \E q \in Shoppers :
       \/ \E key \in Keys, next \in {"add", "remove", "check out"} : Open(q, next, key)
       \/ Open(q, "merge", "guest") \/ MergeRead(q) \/ MergeWrite(q) \/ MergeClear(q)
       \/ \E v \in Variants : Add(q, v) \/ Remove(q, v)
       \/ CheckOut(q) \/ Leave(q)
  \/ \E key \in Keys : Expire(key)

Spec == Init /\ [][Next]_vars

-----------------------------------------------------------------------------
TypeOK ==
  /\ cart \in [Keys -> [Variants -> 0 .. MaxItems]]
  /\ snapshot \subseteq Keys
  /\ shopper \in [Shoppers ->
       [next : {"nothing", "add", "remove", "merge", "write", "clear", "check out"},
        key : Keys, got : [Variants -> 0 .. MaxItems], user : [Variants -> 0 .. MaxItems]]]
  /\ expected \in Int

\* What the carts hold is what the customer has added and not removed, before and
\* after the merge, unless two requests met on one key or Redis failed. A merge
\* holds the items of the guest twice until it deletes the one cart.
Twice == [q \in Shoppers |-> IF Does(q, "clear") THEN Items(shopper[q].got) ELSE 0]
Doubled == SumFunctionOnSet(Twice, Shoppers)
ItemsAddUp ==
  expected # Unknown => Items(cart["guest"]) + Items(cart["user"]) = expected + Doubled
=============================================================================
