---------------------------- MODULE TableSession ----------------------------
(***************************************************************************)
(* The sessions of one table of apps/restaurant: opened by staff or for a  *)
(* reservation that is seated, ordered for, billed and closed by a view or *)
(* by the receiver of payment_confirmed. Every view reads its row, checks  *)
(* the status it read and commits later what it writes (ATOMIC_REQUESTS),  *)
(* without a lock; the receiver runs in a Celery worker, where each query  *)
(* commits by itself. Payments are those of the ledger.                    *)
(***************************************************************************)
EXTENDS Naturals, FiniteSets

CONSTANTS
  Sessions,     \* TableSession rows that may be created for the table
  Orders,       \* DineInOrder rows, each with its KitchenTicket
  Shares,       \* BillShare rows
  Reservations, \* Reservation rows of the table
  Requests,     \* requests that may be in progress at once
  None

VARIABLES
  session,  \* TableSession.status, or "none"
  ticket,   \* KitchenTicket.status, or "none"
  order,    \* DineInOrder.status, or "none"
  late,     \* sessions with the orders placed when they were no longer open
  booking,  \* Reservation.status, or "none"
  seated,   \* Reservation.session
  share,    \* BillShare.status, or "none"
  bill,     \* BillShare.session
  doing,    \* what a request has read its row for
  receiver, \* where the receiver is with the payment of a share
  seen,     \* TableSession.status the receiver read with the share
  state,    \* PaymentLedger: life of each share's push
  told      \* PaymentLedger: pushes the receiver was told of

kitchenVars  == <<ticket, order, late>>
bookingVars  == <<booking, seated>>
billVars     == <<share, bill>>
receiverVars == <<receiver, seen>>
ledgerVars   == <<state, told>>
vars == <<session, kitchenVars, bookingVars, billVars, doing, receiverVars, ledgerVars>>

Pay == INSTANCE PaymentLedger WITH Checkouts <- Shares

\* The VALID_TRANSITIONS of the models.
SessionMoves == {<<"OPEN", "BILL_REQUESTED">>, <<"BILL_REQUESTED", "CLOSED">>}
TicketMoves  == ({"PENDING"} \X {"IN_PROGRESS", "CANCELLED"})
                  \cup ({"IN_PROGRESS"} \X {"COMPLETED", "CANCELLED"})
BookingMoves == {<<"PENDING", "CONFIRMED">>, <<"CONFIRMED", "SEATED">>,
                 <<"CONFIRMED", "NO_SHOW">>}

\* Mutant: the status of the ticket itself.
MirrorTicket(status) == status

\* status_map of KitchenTicketUpdateView; a new ticket and its order are PENDING.
Mirror(status) ==
  CASE status = "IN_PROGRESS" -> "CONFIRMED"
    [] status = "COMPLETED"   -> "READY"
    [] OTHER                  -> status

\* UniqueConstraint rst_tsess_one_open: another OPEN session cannot be inserted.
Vacant == \A s \in Sessions : session[s] # "OPEN"

Idle == <<"idle">>
Jobs ==
  ({"assign", "bill", "close", "pay", "split", "order"} \X Sessions)
    \cup ({"CONFIRMED", "SEATED", "NO_SHOW"} \X Reservations)
    \cup ({"IN_PROGRESS", "COMPLETED", "CANCELLED"} \X Orders)

Init ==
  /\ session  = [s \in Sessions |-> "none"]
  /\ ticket   = [o \in Orders |-> "none"]
  /\ order    = [o \in Orders |-> "none"]
  /\ late     = {}
  /\ booking  = [r \in Reservations |-> "none"]
  /\ seated   = [r \in Reservations |-> None]
  /\ share    = [x \in Shares |-> "none"]
  /\ bill     = [x \in Shares |-> None]
  /\ doing    = [q \in Requests |-> Idle]
  /\ receiver = [x \in Shares |-> "idle"]
  /\ seen     = [x \in Shares |-> "none"]
  /\ Pay!Init

-----------------------------------------------------------------------------
(* Requests *)

\* A view reads its row and goes on when the status allows it.
Begin(q, job, allowed) ==
  /\ doing[q] = Idle /\ allowed
  /\ doing' = [doing EXCEPT ![q] = job]
  /\ UNCHANGED <<session, kitchenVars, bookingVars, billVars, receiverVars, ledgerVars>>

\* Mutant: an order is accepted for a session whose bill has been requested.
BeginSessionUnclosed(q, s) ==
  \/ Begin(q, <<"assign", s>>, session[s] = "OPEN")
  \/ Begin(q, <<"order", s>>, session[s] \in {"OPEN", "BILL_REQUESTED"})
  \/ Begin(q, <<"bill", s>>, session[s] = "OPEN")
  \/ Begin(q, <<"close", s>>, session[s] = "BILL_REQUESTED")
  \/ Begin(q, <<"pay", s>>, session[s] \in {"OPEN", "BILL_REQUESTED"})
  \/ Begin(q, <<"split", s>>, session[s] # "none")

BeginSession(q, s) ==
  \/ Begin(q, <<"assign", s>>, session[s] = "OPEN")
  \/ Begin(q, <<"order", s>>, session[s] = "OPEN")
  \/ Begin(q, <<"bill", s>>, <<session[s], "BILL_REQUESTED">> \in SessionMoves)
  \/ Begin(q, <<"close", s>>, <<session[s], "CLOSED">> \in SessionMoves)
  \/ Begin(q, <<"pay", s>>, session[s] \in {"OPEN", "BILL_REQUESTED"})
  \/ Begin(q, <<"split", s>>, session[s] # "none")

BeginTicket(q, o) ==
  \E new \in {"IN_PROGRESS", "COMPLETED", "CANCELLED"} :
    Begin(q, <<new, o>>, <<ticket[o], new>> \in TicketMoves)

BeginBooking(q, r) ==
  \E new \in {"CONFIRMED", "SEATED", "NO_SHOW"} :
    Begin(q, <<new, r>>, <<booking[r], new>> \in BookingMoves)

\* An error, the death of the worker, or a session that cannot be inserted for
\* the reservation that was to be seated: all the request wrote is rolled back.
Leave(q) ==
  /\ doing[q] # Idle
  /\ doing' = [doing EXCEPT ![q] = Idle]
  /\ UNCHANGED <<session, kitchenVars, bookingVars, billVars, receiverVars, ledgerVars>>

Commit(q, job) ==
  /\ doing[q] = job
  /\ doing' = [doing EXCEPT ![q] = Idle]

-----------------------------------------------------------------------------
(* Sessions and their orders *)

\* TableSessionViewSet.perform_create
OpenSession(s) ==
  /\ session[s] = "none" /\ Vacant
  /\ session' = [session EXCEPT ![s] = "OPEN"]
  /\ UNCHANGED <<kitchenVars, bookingVars, billVars, doing, receiverVars, ledgerVars>>

\* Mutant: the whole row is saved, with the status as it was read.
AssignWaiterSaveAll(q, s) ==
  /\ Commit(q, <<"assign", s>>)
  /\ session' = [session EXCEPT ![s] = "OPEN"]
  /\ UNCHANGED <<kitchenVars, bookingVars, billVars, receiverVars, ledgerVars>>

AssignWaiter(q, s) ==
  /\ Commit(q, <<"assign", s>>)
  /\ UNCHANGED <<session, kitchenVars, bookingVars, billVars, receiverVars, ledgerVars>>

RequestBill(q, s) ==
  /\ Commit(q, <<"bill", s>>)
  /\ session' = [session EXCEPT ![s] = "BILL_REQUESTED"]
  /\ UNCHANGED <<kitchenVars, bookingVars, billVars, receiverVars, ledgerVars>>

CloseSession(q, s) ==
  /\ Commit(q, <<"close", s>>)
  /\ session' = [session EXCEPT ![s] = "CLOSED"]
  /\ UNCHANGED <<kitchenVars, bookingVars, billVars, receiverVars, ledgerVars>>

\* DineInOrderView.post creates the order and its ticket in one transaction. So
\* does PendingOrderConvertView.post for an order placed before arrival.
PlaceOrder(q, s, o) ==
  /\ Commit(q, <<"order", s>>)
  /\ order[o] = "none"
  /\ order'  = [order EXCEPT ![o] = "PENDING"]
  /\ ticket' = [ticket EXCEPT ![o] = "PENDING"]
  /\ late'   = IF session[s] = "OPEN" THEN late ELSE late \cup {<<s, o>>}
  /\ UNCHANGED <<session, bookingVars, billVars, receiverVars, ledgerVars>>

\* Mutant: the order follows the ticket only when the kitchen completes it.
UpdateTicketOnly(q, o) ==
  \E new \in {"IN_PROGRESS", "COMPLETED", "CANCELLED"} :
    /\ Commit(q, <<new, o>>)
    /\ ticket' = [ticket EXCEPT ![o] = new]
    /\ order'  = IF new = "CANCELLED" THEN order ELSE [order EXCEPT ![o] = Mirror(new)]
    /\ UNCHANGED <<session, late, bookingVars, billVars, receiverVars, ledgerVars>>

\* KitchenTicketUpdateView.patch writes the ticket, whose row lock makes another
\* update of it wait for the commit, and then the order.
UpdateTicket(q, o) ==
  \E new \in {"IN_PROGRESS", "COMPLETED", "CANCELLED"} :
    /\ Commit(q, <<new, o>>)
    /\ ticket' = [ticket EXCEPT ![o] = new]
    /\ order'  = [order EXCEPT ![o] = Mirror(new)]
    /\ UNCHANGED <<session, late, bookingVars, billVars, receiverVars, ledgerVars>>

-----------------------------------------------------------------------------
(* Reservations *)

Reserve(r) ==
  /\ booking[r] = "none"
  /\ booking' = [booking EXCEPT ![r] = "PENDING"]
  /\ UNCHANGED <<session, kitchenVars, seated, billVars, doing, receiverVars, ledgerVars>>

ConfirmBooking(q, r) ==
  /\ Commit(q, <<"CONFIRMED", r>>)
  /\ booking' = [booking EXCEPT ![r] = "CONFIRMED"]
  /\ UNCHANGED <<session, kitchenVars, seated, billVars, receiverVars, ledgerVars>>

\* The reservation is seated and its session inserted, in one transaction. When
\* the table has an open session nothing of it commits (409, Leave).
Seat(q, r, s) ==
  /\ Commit(q, <<"SEATED", r>>)
  /\ session[s] = "none" /\ Vacant
  /\ booking' = [booking EXCEPT ![r] = "SEATED"]
  /\ session' = [session EXCEPT ![s] = "OPEN"]
  /\ seated'  = [seated EXCEPT ![r] = s]
  /\ UNCHANGED <<kitchenVars, billVars, receiverVars, ledgerVars>>

NoShow(q, r) ==
  /\ Commit(q, <<"NO_SHOW", r>>)
  /\ booking' = [booking EXCEPT ![r] = "NO_SHOW"]
  /\ UNCHANGED <<session, kitchenVars, seated, billVars, receiverVars, ledgerVars>>

-----------------------------------------------------------------------------
(* The bill. A share is committed even when Daraja refuses its push; it stays  *)
(* PENDING then, and nothing relates the amounts of the shares to the orders.  *)

PayBill(q, s, x) ==
  /\ Commit(q, <<"pay", s>>)
  /\ share[x] = "none"
  /\ share' = [share EXCEPT ![x] = "PENDING"]
  /\ bill'  = [bill EXCEPT ![x] = s]
  /\ Pay!Open(x) \/ UNCHANGED ledgerVars
  /\ UNCHANGED <<session, kitchenVars, bookingVars, receiverVars>>

\* Shares S are created one by one, and Daraja refuses those of F.
SplitBill(q, s, S, F) ==
  /\ Commit(q, <<"split", s>>)
  /\ S # {} /\ F \subseteq S /\ \A x \in S : share[x] = "none"
  /\ share' = [x \in Shares |-> IF x \in S THEN "PENDING" ELSE share[x]]
  /\ bill'  = [x \in Shares |-> IF x \in S THEN s ELSE bill[x]]
  /\ Pay!Move(S \ F, "absent", "open")
  /\ UNCHANGED <<session, kitchenVars, bookingVars, receiverVars>>

\* The push of a share and its repetition by InitiateStkPushView.
Payment(x) ==
  /\ Pay!Settle(x) \/ Pay!Close({x}) \/ Pay!Refund(x)
     \/ (share[x] # "none" /\ (Pay!Open(x) \/ Pay!Move({x}, "closed", "open")))
  /\ UNCHANGED <<session, kitchenVars, bookingVars, billVars, doing, receiverVars>>

-----------------------------------------------------------------------------
(* The receiver of payment_confirmed, for a "bill-share-" reference *)

Receive(x) ==
  /\ Pay!Tell(x)
  /\ receiver' = [receiver EXCEPT ![x] = "read"]
  /\ seen' = [seen EXCEPT ![x] = session[bill[x]]]
  /\ UNCHANGED <<session, kitchenVars, bookingVars, billVars, doing>>

MarkPaid(x) ==
  /\ receiver[x] = "read"
  /\ share' = [share EXCEPT ![x] = "PAID"]
  /\ receiver' = [receiver EXCEPT ![x] = "marked"]
  /\ UNCHANGED <<session, kitchenVars, bookingVars, bill, doing, seen, ledgerVars>>

Unpaid(s) == {x \in Shares : bill[x] = s /\ share[x] = "PENDING"}

CheckUnpaid(x) ==
  /\ receiver[x] = "marked"
  /\ LET last == Unpaid(bill[x]) = {}
     IN  /\ receiver' = [receiver EXCEPT ![x] = IF last THEN "closing" ELSE "idle"]
         /\ seen' = IF last THEN seen ELSE [seen EXCEPT ![x] = "none"]
  /\ UNCHANGED <<session, kitchenVars, bookingVars, billVars, doing, ledgerVars>>

\* session.transition(CLOSED), on the session as it was read; an illegal
\* transition is logged and forgotten.
AutoClose(x) ==
  /\ receiver[x] = "closing"
  /\ session' = IF <<seen[x], "CLOSED">> \in SessionMoves
                THEN [session EXCEPT ![bill[x]] = "CLOSED"] ELSE session
  /\ receiver' = [receiver EXCEPT ![x] = "idle"]
  /\ seen' = [seen EXCEPT ![x] = "none"]
  /\ UNCHANGED <<kitchenVars, bookingVars, billVars, doing, ledgerVars>>

LoseReceiver(x) ==
  /\ receiver[x] # "idle"
  /\ receiver' = [receiver EXCEPT ![x] = "idle"]
  /\ seen' = [seen EXCEPT ![x] = "none"]
  /\ UNCHANGED <<session, kitchenVars, bookingVars, billVars, doing, ledgerVars>>

-----------------------------------------------------------------------------
SessionRequest(q, s) ==
  \/ BeginSession(q, s) \/ AssignWaiter(q, s) \/ RequestBill(q, s) \/ CloseSession(q, s)
  \/ \E o \in Orders : PlaceOrder(q, s, o)
  \/ \E x \in Shares : PayBill(q, s, x)
  \/ \E S \in SUBSET Shares : \E F \in SUBSET S : SplitBill(q, s, S, F)

BookingRequest(q, r) ==
  \/ BeginBooking(q, r) \/ ConfirmBooking(q, r) \/ NoShow(q, r)
  \/ \E s \in Sessions : Seat(q, r, s)

Request(q) ==
  \/ \E s \in Sessions : SessionRequest(q, s)
  \/ \E r \in Reservations : BookingRequest(q, r)
  \/ \E o \in Orders : BeginTicket(q, o) \/ UpdateTicket(q, o)
  \/ Leave(q)

Receiver(x) == MarkPaid(x) \/ CheckUnpaid(x) \/ AutoClose(x)

Next ==
  \/ \E q \in Requests : Request(q)
  \/ \E s \in Sessions : OpenSession(s)
  \/ \E r \in Reservations : Reserve(r)
  \/ \E x \in Shares : Payment(x) \/ Receive(x) \/ Receiver(x) \/ LoseReceiver(x)

Spec == Init /\ [][Next]_vars

-----------------------------------------------------------------------------
(* Properties *)

TypeOK ==
  /\ session \in [Sessions -> {"none", "OPEN", "BILL_REQUESTED", "CLOSED"}]
  /\ ticket \in [Orders -> {"none", "PENDING", "IN_PROGRESS", "COMPLETED", "CANCELLED"}]
  /\ order \in [Orders -> {"none", "PENDING", "CONFIRMED", "READY", "CANCELLED"}]
  /\ late \subseteq Sessions \X Orders
  /\ booking \in [Reservations -> {"none", "PENDING", "CONFIRMED", "SEATED", "NO_SHOW"}]
  /\ seated \in [Reservations -> Sessions \cup {None}]
  /\ share \in [Shares -> {"none", "PENDING", "PAID"}]
  /\ bill \in [Shares -> Sessions \cup {None}]
  /\ \A x \in Shares : share[x] # "none" => bill[x] \in Sessions
  /\ doing \in [Requests -> Jobs \cup {Idle}]
  /\ receiver \in [Shares -> {"idle", "read", "marked", "closing"}]
  /\ seen \in [Shares -> {"none", "OPEN", "BILL_REQUESTED", "CLOSED"}]
  /\ state \in [Shares -> Pay!States]
  /\ told \subseteq Shares

\* The customer's screen polls the order, the kitchen works on the ticket: they
\* agree whichever updates of one ticket overlap.
TicketMirrorsOrder == \A o \in Orders : order[o] = Mirror(ticket[o])

\* Orders are placed in open sessions, but for those in hand when the bill was
\* requested: fewer than the requests there are at once, and not on its total.
LateOf(s) == {o \in Orders : <<s, o>> \in late}
Stale(s)  == IF session[s] = "OPEN" THEN {} ELSE {q \in Requests : doing[q] = <<"order", s>>}
LateOrders ==
  \A s \in Sessions : Cardinality(LateOf(s)) + Cardinality(Stale(s)) < Cardinality(Requests)

\* No view or receiver that read a session earlier opens it again, so that a table
\* is never open twice; and of all of them only a request for the bill, which had
\* read the session open, takes a closed one back.
NeverReopened ==
  [][\A s \in Sessions :
       /\ session[s] \in {"BILL_REQUESTED", "CLOSED"} => session'[s] # "OPEN"
       /\ session[s] = "CLOSED" /\ session'[s] # "CLOSED" =>
            \E q \in Requests : RequestBill(q, s)]_vars
=============================================================================
