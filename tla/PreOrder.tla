------------------------------ MODULE PreOrder ------------------------------
(***************************************************************************)
(* Orders placed before arrival (PendingOrder of apps/restaurant): paid in *)
(* advance or not, converted by a waiter to an order of the table, or      *)
(* purged a day later. The views, the receiver of payment_confirmed and    *)
(* the hourly purge read a row, and write it later as they read it; no one *)
(* takes a lock. The payment of a row is that of the ledger.               *)
(***************************************************************************)
EXTENDS Naturals, FiniteSets

CONSTANTS
  Rows,     \* PendingOrder rows
  Requests, \* requests that may be in progress at once
  MaxDeaths \* bound: purges whose worker dies

VARIABLES
  row,      \* PendingOrder.status, or "none"
  due,      \* rows past expires_at
  gone,     \* rows deleted softly: no query finds them any more
  kept,     \* rows the receiver wrote PAID to before a purge read them as EXPIRED
  made,     \* how many DineInOrders a row was converted to
  linked,   \* rows whose order carries their payment
  doing,    \* what a request has read: the row and its status
  receiver, \* receivers that have read their row as PENDING
  purge,    \* where the purge is
  doomed,   \* rows the purge has read as EXPIRED
  deaths,   \* purges whose worker died
  state,    \* PaymentLedger: life of each row's push
  told      \* PaymentLedger: pushes the receiver was told of

rowVars    == <<row, due, gone, kept>>
orderVars  == <<made, linked>>
purgeVars  == <<purge, doomed, deaths>>
ledgerVars == <<state, told>>
vars == <<rowVars, orderVars, doing, receiver, purgeVars, ledgerVars>>

Pay == INSTANCE PaymentLedger WITH Checkouts <- Rows

Status == {"PENDING", "PAID", "CONVERTED", "EXPIRED"}
Idle   == <<"idle">>

Init ==
  /\ row      = [p \in Rows |-> "none"]
  /\ due      = {}
  /\ gone     = {}
  /\ kept     = {}
  /\ made     = [p \in Rows |-> 0]
  /\ linked   = {}
  /\ doing    = [q \in Requests |-> Idle]
  /\ receiver = {}
  /\ purge    = "idle"
  /\ doomed   = {}
  /\ deaths   = 0
  /\ Pay!Init

\* A query that asks for rows of some statuses.
Finds(p, statuses) == row[p] \in statuses /\ p \notin gone

-----------------------------------------------------------------------------
(* The customer *)

\* PendingOrderCreateView: the items and the plan's limit allow it.
Create(p) ==
  /\ row[p] = "none"
  /\ row' = [row EXCEPT ![p] = "PENDING"]
  /\ UNCHANGED <<due, gone, kept, orderVars, doing, receiver, purgeVars, ledgerVars>>

\* PendingOrderPayView: the row was PENDING when it was read, which every row has
\* been, and the push goes out whatever became of it since.
Push(p) ==
  /\ row[p] # "none"
  /\ Pay!Open(p) \/ Pay!Move({p}, "closed", "open")
  /\ UNCHANGED <<rowVars, orderVars, doing, receiver, purgeVars>>

\* The push is answered, or closed and may be repeated, or its payment is reversed.
Payment(p) ==
  /\ Pay!Settle(p) \/ Pay!Close({p}) \/ Pay!Refund(p)
  /\ UNCHANGED <<rowVars, orderVars, doing, receiver, purgeVars>>

-----------------------------------------------------------------------------
(* The waiter *)

\* PendingOrderLookupView and the first query of PendingOrderConvertView.
ReadToConvert(q, p) ==
  /\ doing[q] = Idle
  /\ Finds(p, {"PENDING", "PAID"})
  /\ doing' = [doing EXCEPT ![q] = <<p, row[p]>>]
  /\ UNCHANGED <<rowVars, orderVars, receiver, purgeVars, ledgerVars>>

\* The request is refused for its session, or fails: it has written nothing.
Leave(q) ==
  /\ doing[q] # Idle
  /\ doing' = [doing EXCEPT ![q] = Idle]
  /\ UNCHANGED <<rowVars, orderVars, receiver, purgeVars, ledgerVars>>

\* Mutant: the row is left as it was.
ConvertAgain(q, p, read) ==
  /\ doing[q] = <<p, read>>
  /\ doing'  = [doing EXCEPT ![q] = Idle]
  /\ row' = row
  /\ made'   = [made EXCEPT ![p] = @ + 1]
  /\ linked' = IF read = "PAID" /\ state[p] = "paid" THEN linked \cup {p} ELSE linked
  /\ UNCHANGED <<due, gone, kept, receiver, purgeVars, ledgerVars>>

\* The order of the table and its ticket are created; a confirmed payment is
\* linked to it when the row was read as PAID.
Convert(q, p, read) ==
  /\ doing[q] = <<p, read>>
  /\ doing'  = [doing EXCEPT ![q] = Idle]
  /\ row'    = [row EXCEPT ![p] = "CONVERTED"]
  /\ made'   = [made EXCEPT ![p] = @ + 1]
  /\ linked' = IF read = "PAID" /\ state[p] = "paid" THEN linked \cup {p} ELSE linked
  /\ UNCHANGED <<due, gone, kept, receiver, purgeVars, ledgerVars>>

-----------------------------------------------------------------------------
(* The receiver of payment_confirmed, for a "pending-" reference *)

\* A row that is not PENDING is not found: the payment is linked to nothing.
Receive(p) ==
  /\ Pay!Tell(p)
  /\ receiver' = IF Finds(p, {"PENDING"}) THEN receiver \cup {p} ELSE receiver
  /\ UNCHANGED <<rowVars, orderVars, doing, purgeVars>>

\* The status is saved over whatever was written since.
MarkPaid(p) ==
  /\ p \in receiver
  /\ receiver' = receiver \ {p}
  /\ row'  = [row EXCEPT ![p] = "PAID"]
  /\ kept' = kept \cup ({p} \ (gone \cup doomed))
  /\ UNCHANGED <<due, gone, orderVars, doing, purgeVars, ledgerVars>>

LoseReceiver(p) ==
  /\ p \in receiver
  /\ receiver' = receiver \ {p}
  /\ UNCHANGED <<rowVars, orderVars, doing, purgeVars, ledgerVars>>

-----------------------------------------------------------------------------
(* purge_expired_pending_orders *)

Expire(p) ==
  /\ row[p] # "none" /\ p \notin due
  /\ due' = due \cup {p}
  /\ UNCHANGED <<row, gone, kept, orderVars, doing, receiver, purgeVars, ledgerVars>>

PurgeMark ==
  /\ purge = "idle"
  /\ \E p \in due : Finds(p, {"PENDING", "EXPIRED"})
  /\ purge' = "marked"
  /\ row' = [p \in Rows |-> IF p \in due /\ Finds(p, {"PENDING"}) THEN "EXPIRED" ELSE row[p]]
  /\ UNCHANGED <<due, gone, kept, orderVars, doing, receiver, doomed, deaths, ledgerVars>>

\* Mutant: a purge goes on with the rows it has marked itself.
PurgeReadUnpaid ==
  /\ purge = "marked"
  /\ purge'  = "deleting"
  /\ doomed' = {p \in due : Finds(p, {"EXPIRED", "PAID"})}
  /\ UNCHANGED <<rowVars, orderVars, doing, receiver, deaths, ledgerVars>>

\* Every expired row is read, those included that an earlier purge has left.
PurgeRead ==
  /\ purge = "marked"
  /\ purge'  = "deleting"
  /\ doomed' = {p \in due : Finds(p, {"EXPIRED"})}
  /\ UNCHANGED <<rowVars, orderVars, doing, receiver, deaths, ledgerVars>>

\* The soft delete saves the whole row as it was read.
PurgeDelete(p) ==
  /\ purge = "deleting" /\ p \in doomed
  /\ doomed' = doomed \ {p}
  /\ row'  = [row EXCEPT ![p] = "EXPIRED"]
  /\ gone' = gone \cup {p}
  /\ UNCHANGED <<due, kept, orderVars, doing, receiver, purge, deaths, ledgerVars>>

PurgeEnd ==
  /\ purge = "deleting" /\ doomed = {}
  /\ purge' = "idle"
  /\ UNCHANGED <<rowVars, orderVars, doing, receiver, doomed, deaths, ledgerVars>>

PurgeDies ==
  /\ purge # "idle" /\ deaths < MaxDeaths
  /\ purge'  = "idle"
  /\ doomed' = {}
  /\ deaths' = deaths + 1
  /\ UNCHANGED <<rowVars, orderVars, doing, receiver, ledgerVars>>

Purge == PurgeMark \/ PurgeRead \/ (\E p \in Rows : PurgeDelete(p)) \/ PurgeEnd

-----------------------------------------------------------------------------
Request(q, p) ==
  ReadToConvert(q, p) \/ \E read \in Status : Convert(q, p, read)

Next ==
  \/ \E q \in Requests : Leave(q) \/ \E p \in Rows : Request(q, p)
  \/ \E p \in Rows :
       Create(p) \/ Push(p) \/ Payment(p) \/ Receive(p) \/ MarkPaid(p) \/ LoseReceiver(p) \/ Expire(p)
  \/ Purge \/ PurgeDies

Spec == Init /\ [][Next]_vars

-----------------------------------------------------------------------------
TypeOK ==
  /\ row \in [Rows -> Status \cup {"none"}]
  /\ due \subseteq Rows /\ gone \subseteq Rows /\ kept \subseteq Rows
  /\ made \in [Rows -> 0 .. 2 * Cardinality(Requests)]
  /\ linked \subseteq Rows
  /\ doing \in [Requests -> {Idle} \cup (Rows \X Status)]
  /\ receiver \subseteq Rows
  /\ purge \in {"idle", "marked", "deleting"}
  /\ doomed \subseteq Rows
  /\ deaths \in 0 .. MaxDeaths
  /\ state \in [Rows -> Pay!States]
  /\ told \subseteq Rows

\* The requests that may still convert p with what they have read.
Converting(p) == {q \in Requests : \E read \in Status : doing[q] = <<p, read>>}

\* The kitchen cooks a pre-order once, and once more for each request that had
\* read it before the first one committed. When the receiver had read it too, its
\* PAID undoes CONVERTED, once, and the same may happen again.
ConvertBound ==
  \A p \in Rows :
    LET n == Cardinality(Requests)
    IN  made[p] + Cardinality(Converting(p)) <= IF p \in told \ receiver THEN 2 * n ELSE n

\* A row the receiver has marked as paid, whatever it was by then, is neither purged
\* nor expired, but when the purge had already read it as expired: not by a purge that
\* marked it and died, nor by one that has marked it and is about to read.
PaidIsKept == \A p \in kept : p \notin gone \cup doomed /\ row[p] \in {"PAID", "CONVERTED"}

\* "PAID orders past expires_at are NOT auto-deleted": no row is deleted while it
\* says PAID.
PaidIsNotPurged == [][\A p \in Rows : row[p] = "PAID" => p \notin gone' \ gone]_vars
=============================================================================
