------------------------------- MODULE Stock -------------------------------
(***************************************************************************)
(* A variant of apps/product between the merchant who edits it and the     *)
(* checkouts that sell it. An edit reads the row, and saves all of it with *)
(* the count it has read unless a new one was given; a sale takes from the *)
(* count that is there. The alert for low stock is sent after an edit, or  *)
(* by check_low_stock, never after a sale.                                 *)
(***************************************************************************)
EXTENDS Integers

CONSTANTS
  Editors,   \* requests that may be in progress at once
  MaxStock,  \* bound: highest count a merchant gives, and what is oversold
  Threshold  \* StoreSettings.low_stock_threshold

VARIABLES
  count,    \* Variant.inventory_count, or NoRow
  removed,  \* the row was deleted softly
  editor,   \* what a request is about to do, the count it read, the one it writes
  due,      \* history: last count given, less what was sold, until an edit met a sale
  alert,    \* send_low_stock_alert: it is queued or not
  informed  \* the owner was sent an alert

vars == <<count, removed, editor, due, alert, informed>>

NoRow   == -99
Unknown == -100
Counts  == 0 .. MaxStock
Away    == [does |-> "nothing", read |-> 0, new |-> 0]
Does(c, what) == editor[c].does = what

Init ==
  /\ count = NoRow /\ removed = FALSE
  /\ editor = [c \in Editors |-> Away]
  /\ due = NoRow
  /\ alert = FALSE /\ informed = FALSE

\* Variant.save: after the commit, when the count it has saved is low.
Alerted(n) == alert' = (alert \/ n <= Threshold)

\* VariantViewSet.create, or a row of ProductImportView.
CreateVariant(n) ==
  /\ count = NoRow
  /\ count' = n /\ due' = n
  /\ Alerted(n)
  /\ UNCHANGED <<removed, editor, informed>>

Read(c, what, new) ==
  /\ Does(c, "nothing") /\ count # NoRow /\ ~removed
  /\ editor' = [editor EXCEPT ![c] = [does |-> what, read |-> count, new |-> new]]
  /\ UNCHANGED <<count, removed, due, alert, informed>>

ReadVariant(c) ==
  \/ \E n \in Counts : Read(c, "edit", n)
  \/ Read(c, "edit", count)
  \/ Read(c, "remove", count)

\* CheckoutView finds enough of it.
ReadToSell(c) == count > 0 /\ Read(c, "sell", count)

Leave(c) ==
  /\ ~Does(c, "nothing")
  /\ editor' = [editor EXCEPT ![c] = Away]
  /\ UNCHANGED <<count, removed, due, alert, informed>>

\* VariantViewSet.update, and destroy, which marks the row and saves it. The whole row
\* is saved, so that an update restores a row that was removed since it was read.
SaveVariant(c) ==
  LET e == editor[c]
  IN  /\ e.does \in {"edit", "remove"}
      /\ count'   = e.new
      /\ removed' = (e.does = "remove")
      /\ due'     = IF e.new = e.read /\ due # e.read THEN Unknown ELSE e.new
      /\ Alerted(e.new)
      /\ editor'  = [editor EXCEPT ![c] = Away]
      /\ UNCHANGED informed

\* Mutant: the count that was read is decremented.
SellStale(c) ==
  /\ Does(c, "sell") /\ count > -MaxStock \* bound
  /\ count'  = IF removed THEN count ELSE editor[c].read - 1
  /\ due'    = IF due = Unknown \/ removed THEN due ELSE due - 1
  /\ editor' = [editor EXCEPT ![c] = Away]
  /\ UNCHANGED <<removed, alert, informed>>

\* update(inventory_count=F("inventory_count") - quantity), which finds no row when
\* the variant was removed since.
Sell(c) ==
  /\ Does(c, "sell") /\ count > -MaxStock \* bound
  /\ count'  = IF removed THEN count ELSE count - 1
  /\ due'    = IF due = Unknown \/ removed THEN due ELSE due - 1
  /\ editor' = [editor EXCEPT ![c] = Away]
  /\ UNCHANGED <<removed, alert, informed>>

\* check_low_stock
CheckLowStock ==
  /\ count \in (-MaxStock) .. Threshold /\ ~removed
  /\ alert' = TRUE
  /\ UNCHANGED <<count, removed, editor, due, informed>>

\* send_low_stock_alert looks for the row again, and gives up without it.
SendAlert ==
  /\ alert
  /\ alert' = FALSE
  /\ informed' = (informed \/ ~removed)
  /\ UNCHANGED <<count, removed, editor, due>>

Next ==
  \/ \E n \in Counts : CreateVariant(n)
  \/ \E c \in Editors : ReadVariant(c) \/ ReadToSell(c) \/ SaveVariant(c) \/ Sell(c) \/ Leave(c)
  \/ CheckLowStock \/ SendAlert

Spec == Init /\ [][Next]_vars

-----------------------------------------------------------------------------
Stocks == (-MaxStock) .. MaxStock

TypeOK ==
  /\ count \in Stocks \cup {NoRow} /\ due \in Stocks \cup {NoRow, Unknown}
  /\ editor \in [Editors -> [does : {"nothing", "edit", "remove", "sell"}, read : Stocks, new : Stocks]]
  /\ {removed, alert, informed} \subseteq BOOLEAN

\* The stock of a variant is what the merchant gave last, less what was sold since,
\* however many sales overlap, unless an edit that gave no count met one of them.
StockAddsUp == due # Unknown => count = due
=============================================================================
