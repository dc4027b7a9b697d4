-------------------------------- MODULE Till --------------------------------
(***************************************************************************)
(* Payments to the store's till or paybill number (C2B): Safaricom posts   *)
(* each receipt, perhaps more than once, and a task records it, finds what *)
(* its reference names, and announces it. Each query of the task commits   *)
(* by itself; a task that raises is repeated from the start.               *)
(***************************************************************************)
EXTENDS Naturals

CONSTANTS
  Receipts,  \* TransID of the payments
  TillTasks  \* executions of process_c2b_callback

VARIABLES
  registered, \* the URLs are known to Safaricom
  names,      \* what the reference of a receipt names
  recorded,   \* receipts with an MpesaTransaction, CONFIRMED or REVERSED
  reversed,   \* those that are REVERSED
  applied,    \* receipts whose order, pre-order or tab was marked
  announced,  \* executions that sent payment_confirmed, per receipt
  tillTask,   \* where an execution is, and its receipt
  resumed,    \* history: executions that found their receipt reversed
  dropped     \* history: receipts an execution of which was given up

vars == <<registered, names, recorded, reversed, applied, announced, tillTask, resumed, dropped>>

Prefixes == {"ORDER-", "PENDING-", "DINEIN-", "TAB-", "other"}
Steps    == {"queued", "created", "matched"}
Unused   == <<"unused">>
Ended    == <<"ended">>

Init ==
  /\ registered = FALSE
  /\ names     \in [Receipts -> Prefixes]
  /\ recorded  = {}
  /\ reversed  = {}
  /\ applied   = {}
  /\ announced = [r \in Receipts |-> {}]
  /\ tillTask  = [k \in TillTasks |-> Unused]
  /\ resumed   = {}
  /\ dropped   = {}

\* C2BRegisterView: Safaricom knows the URLs, or refuses them (502).
Register ==
  /\ ~registered
  /\ registered' = TRUE
  /\ UNCHANGED <<names, recorded, reversed, applied, announced, tillTask, resumed, dropped>>

\* C2BValidationView accepts every payment, and C2BCallbackView queues each call.
PostC2B(k, r) ==
  /\ registered /\ tillTask[k] = Unused
  /\ tillTask' = [tillTask EXCEPT ![k] = <<"queued", r>>]
  /\ UNCHANGED <<registered, names, recorded, reversed, applied, announced, resumed, dropped>>

\* Mutant: a receipt that is recorded already is taken up all the same.
RecordReceiptAnyway(k, r) ==
  /\ tillTask[k] = <<"queued", r>>
  /\ recorded' = recorded \cup {r}
  /\ tillTask' = [tillTask EXCEPT ![k] = <<"created", r>>]
  /\ resumed'  = IF r \in reversed THEN resumed \cup {<<k, r>>} ELSE resumed
  /\ UNCHANGED <<registered, names, reversed, applied, announced, dropped>>

\* get_or_create on the receipt, which is unique. One that was recorded before is
\* "already processed" while it is CONFIRMED; when it has been reversed since, the
\* execution goes on as if it were new.
RecordReceipt(k, r) ==
  /\ tillTask[k] = <<"queued", r>>
  /\ recorded' = recorded \cup {r}
  /\ tillTask' = [tillTask EXCEPT ![k] =
                    IF r \in recorded \ reversed THEN Ended ELSE <<"created", r>>]
  /\ resumed'  = IF r \in reversed THEN resumed \cup {<<k, r>>} ELSE resumed
  /\ UNCHANGED <<registered, names, reversed, applied, announced, dropped>>

\* The manager asks for the reversal of a CONFIRMED payment, and Daraja accepts it.
ReverseReceipt(r) ==
  /\ r \in recorded \ reversed
  /\ reversed' = reversed \cup {r}
  /\ UNCHANGED <<registered, names, recorded, applied, announced, tillTask, resumed, dropped>>

\* A retail order is confirmed, unless there is none or its status forbids it.
MatchRetailOrder(k, r) ==
  /\ tillTask[k] = <<"created", r>> /\ names[r] = "ORDER-"
  /\ applied'  = applied \cup {r}
  /\ tillTask' = [tillTask EXCEPT ![k] = <<"matched", r>>]
  /\ UNCHANGED <<registered, names, recorded, reversed, announced, resumed, dropped>>

\* The modules have no PendingOrderStatus, DineInOrderStatus or TabStatus: the
\* import raises, and the task is repeated.
MatchByMissingName(k, r) ==
  /\ tillTask[k] = <<"created", r>> /\ names[r] \in {"PENDING-", "DINEIN-", "TAB-"}
  /\ tillTask' = [tillTask EXCEPT ![k] = <<"queued", r>>]
  /\ UNCHANGED <<registered, names, recorded, reversed, applied, announced, resumed, dropped>>

MatchNothing(k, r) ==
  /\ tillTask[k] = <<"created", r>> /\ names[r] = "other"
  /\ tillTask' = [tillTask EXCEPT ![k] = <<"matched", r>>]
  /\ UNCHANGED <<registered, names, recorded, reversed, applied, announced, resumed, dropped>>

\* The signal is sent. A receiver that raises makes the task begin again.
Announce(k, r) ==
  /\ tillTask[k] = <<"matched", r>>
  /\ announced' = [announced EXCEPT ![r] = @ \cup {k}]
  /\ \E next \in {Ended, <<"queued", r>>} : tillTask' = [tillTask EXCEPT ![k] = next]
  /\ UNCHANGED <<registered, names, recorded, reversed, applied, resumed, dropped>>

\* A query fails and the task is repeated.
RetryReceipt(k, r) ==
  /\ tillTask[k] \in {<<step, r>> : step \in Steps \ {"queued"}}
  /\ tillTask' = [tillTask EXCEPT ![k] = <<"queued", r>>]
  /\ dropped'  = dropped \cup {r}
  /\ UNCHANGED <<registered, names, recorded, reversed, applied, announced, resumed>>

\* The worker dies, or no retry is left.
DropReceipt(k, r) ==
  /\ tillTask[k] \in {<<step, r>> : step \in Steps}
  /\ tillTask' = [tillTask EXCEPT ![k] = Ended]
  /\ dropped'  = dropped \cup {r}
  /\ UNCHANGED <<registered, names, recorded, reversed, applied, announced, resumed>>

Next ==
  \/ Register
  \/ \E r \in Receipts : ReverseReceipt(r)
  \/ \E k \in TillTasks, r \in Receipts :
       \/ PostC2B(k, r) \/ RecordReceipt(k, r) \/ Announce(k, r)
       \/ MatchRetailOrder(k, r) \/ MatchByMissingName(k, r) \/ MatchNothing(k, r)
       \/ RetryReceipt(k, r) \/ DropReceipt(k, r)

Spec == Init /\ [][Next]_vars

-----------------------------------------------------------------------------
TypeOK ==
  /\ registered \in BOOLEAN
  /\ names \in [Receipts -> Prefixes]
  /\ recorded \subseteq Receipts /\ reversed \subseteq recorded /\ applied \subseteq Receipts
  /\ announced \in [Receipts -> SUBSET TillTasks]
  /\ tillTask \in [TillTasks -> {Unused, Ended} \cup (Steps \X Receipts)]
  /\ resumed \subseteq TillTasks \X Receipts
  /\ dropped \subseteq Receipts

\* However often a receipt is posted, and whichever of its executions overlap, fail
\* or begin again, one of them at most announces it, but for those that found its
\* payment reversed; and none before the receipt is recorded.
ReceiptAnnouncedOnce ==
  \A r \in Receipts :
    /\ announced[r] # {} => r \in recorded
    /\ \A k1, k2 \in {k \in announced[r] : <<k, r>> \notin resumed} : k1 = k2

\* "receive callbacks, match to pending orders": once a receipt is recorded and no
\* task of it is left, what its reference names has been marked, unless a task of it
\* was given up or interrupted.
InHand(r) == \E k \in TillTasks : \E step \in Steps : tillTask[k] = <<step, r>>
ReceiptIsApplied ==
  \A r \in recorded \ dropped : InHand(r) \/ names[r] = "other" \/ r \in applied
=============================================================================
