------------------------------ MODULE PlanLimit ------------------------------
(***************************************************************************)
(* The limits of a store's plan on products and on orders of a month. A    *)
(* request counts the rows, goes on when they are below the limit, and     *)
(* inserts later: one product, the rows of a file, or one order. No lock   *)
(* is taken. Orders of the restaurant are stopped by the limit, but they   *)
(* are not among the rows that are counted.                                *)
(***************************************************************************)
EXTENDS Naturals, FiniteSets

CONSTANTS
  Callers, \* requests that may be in progress at once
  Limit,   \* Plan.max_products or Plan.max_orders_per_month
  FileRows \* bound: rows of an imported file

VARIABLES
  limited, \* what this behaviour counts: "products" or "orders"
  counted, \* Product rows of the store, or Order rows of this month
  tables,  \* orders of the restaurant this month
  caller   \* what a request is about to insert

vars == <<limited, counted, tables, caller>>

Inserts == {"product", "file", "order", "table"}
Allowed(what) == what \in (IF limited = "products" THEN {"product", "file"} ELSE {"order", "table"})
InHand  == {c \in Callers : caller[c] \in {"product", "file", "order"}}

Init ==
  /\ limited \in {"products", "orders"}
  /\ counted = 0 /\ tables = 0
  /\ caller = [c \in Callers |-> "idle"]

\* Mutant: the limit itself is still allowed.
CheckLimitInclusive(c, what) ==
  /\ caller[c] = "idle" /\ Allowed(what)
  /\ counted <= Limit
  /\ caller' = [caller EXCEPT ![c] = what]
  /\ UNCHANGED <<limited, counted, tables>>

\* check_product_limit and check_monthly_order_limit
CheckLimit(c, what) ==
  /\ caller[c] = "idle" /\ Allowed(what)
  /\ counted < Limit
  /\ caller' = [caller EXCEPT ![c] = what]
  /\ UNCHANGED <<limited, counted, tables>>

Commit(c, what) ==
  /\ caller[c] = what
  /\ caller' = [caller EXCEPT ![c] = "idle"]

\* A request that fails inserts nothing; a file of which one row is malformed
\* is rolled back as a whole.
GiveUp(c) ==
  /\ caller[c] # "idle"
  /\ caller' = [caller EXCEPT ![c] = "idle"]
  /\ UNCHANGED <<limited, counted, tables>>

CreateProduct(c) ==
  /\ Commit(c, "product")
  /\ counted' = counted + 1
  /\ UNCHANGED <<limited, tables>>

\* ProductImportView asks once, and creates a product for each row it can read.
ImportProducts(c) ==
  /\ Commit(c, "file")
  /\ \E n \in 0 .. FileRows : counted' = counted + n
  /\ UNCHANGED <<limited, tables>>

CheckoutOrder(c) ==
  /\ Commit(c, "order")
  /\ counted' = counted + 1
  /\ UNCHANGED <<limited, tables>>

\* TakeawayOrderView, DineInOrderView and PendingOrderCreateView
TableOrder(c) ==
  /\ Commit(c, "table")
  /\ tables < Limit \* bound
  /\ tables' = tables + 1
  /\ UNCHANGED <<limited, counted>>

DeleteProduct ==
  /\ limited = "products" /\ counted > 0
  /\ counted' = counted - 1
  /\ UNCHANGED <<limited, tables, caller>>

NewMonth ==
  /\ limited = "orders"
  /\ counted' = 0 /\ tables' = 0
  /\ UNCHANGED <<limited, caller>>

Next ==
  \/ \E c \in Callers :
       \/ \E what \in Inserts : CheckLimit(c, what)
       \/ CreateProduct(c) \/ ImportProducts(c) \/ CheckoutOrder(c) \/ TableOrder(c) \/ GiveUp(c)
  \/ DeleteProduct \/ NewMonth

Spec == Init /\ [][Next]_vars

-----------------------------------------------------------------------------
TypeOK ==
  /\ limited \in {"products", "orders"}
  /\ counted \in Nat /\ tables \in Nat
  /\ caller \in [Callers -> Inserts \cup {"idle"}]

\* The check is not repeated when the rows are inserted, so that a plan's limit is
\* exceeded, but by no more than what the requests there are at once insert
\* together: a file each, or an order each.
AtOnce == IF limited = "products" THEN FileRows ELSE 1
LimitBound ==
  counted + AtOnce * Cardinality(InHand) < Limit + AtOnce * Cardinality(Callers)
=============================================================================
