-------------------------- MODULE RestaurantProofs --------------------------
(***************************************************************************)
(* Theorems about the table, the orders placed before arrival and those    *)
(* that are picked up, for every set of sessions, orders, shares,          *)
(* reservations, pre-orders and takeaway orders, and any finite number of  *)
(* requests at once. MCRestaurant names the table's definitions with       *)
(* Table!, those of PreOrder with Pre! and those of Takeaway with Go!.     *)
(***************************************************************************)
EXTENDS MCRestaurant, FiniteSetTheorems, TLAPS

SessionStatus == {"none", "OPEN", "BILL_REQUESTED", "CLOSED"}
TicketStatus  == {"none", "PENDING", "IN_PROGRESS", "COMPLETED", "CANCELLED"}

LEMMA InitType == Table!Init => Table!TypeOK
BY DEF Table!Init, Table!TypeOK, Table!Pay!Init, Table!Pay!States, Table!Idle

-----------------------------------------------------------------------------
(* Types. A request takes an errand of Jobs and drops it; what else a step      *)
(* writes is a status of its model.                                             *)

LEMMA BeginType ==
  ASSUME Table!TypeOK, NEW q \in Requests, NEW job \in Table!Jobs, NEW allowed, Table!Begin(q, job, allowed)
  PROVE  Table!TypeOK' /\ doing' = [doing EXCEPT ![q] = job] /\ allowed
         /\ UNCHANGED <<session, ticket, order, late, booking, seated, share, bill, receiver, seen, state, told>>
<1>1. UNCHANGED <<session, ticket, order, late, booking, seated, share, bill, receiver, seen, state, told>>
  BY DEF Table!Begin, Table!kitchenVars, Table!bookingVars, Table!billVars,
         Table!receiverVars, Table!ledgerVars
<1>2. doing' = [doing EXCEPT ![q] = job] /\ allowed
  BY DEF Table!Begin
<1>3. doing' \in [Requests -> Table!Jobs \cup {Table!Idle}]
  BY <1>2 DEF Table!TypeOK
<1> QED
  BY <1>1, <1>2, <1>3 DEF Table!TypeOK

LEMMA IdleType ==
  ASSUME Table!TypeOK, NEW q \in Requests, doing' = [doing EXCEPT ![q] = Table!Idle]
  PROVE  doing' \in [Requests -> Table!Jobs \cup {Table!Idle}]
BY DEF Table!TypeOK

\* What a commit that concerns the session or its orders does.
LEMMA SessionCommits ==
  ASSUME Table!TypeOK, NEW q \in Requests, NEW s \in Sessions,
         Table!AssignWaiter(q, s) \/ Table!RequestBill(q, s) \/ Table!CloseSession(q, s)
  PROVE  /\ Table!TypeOK' /\ doing' = [doing EXCEPT ![q] = Table!Idle]
         /\ UNCHANGED <<ticket, order, late, booking, seated, share, bill, receiver, seen, state, told>>
         /\ \/ session' = session
            \/ session' = [session EXCEPT ![s] = "BILL_REQUESTED"]
            \/ session' = [session EXCEPT ![s] = "CLOSED"]
<1>1. /\ UNCHANGED <<ticket, order, late, booking, seated, share, bill, receiver, seen, state, told>>
      /\ doing' = [doing EXCEPT ![q] = Table!Idle]
      /\ \/ session' = session
         \/ session' = [session EXCEPT ![s] = "BILL_REQUESTED"]
         \/ session' = [session EXCEPT ![s] = "CLOSED"]
  BY DEF Table!AssignWaiter, Table!RequestBill, Table!CloseSession, Table!Commit,
         Table!kitchenVars, Table!bookingVars, Table!billVars, Table!receiverVars,
         Table!ledgerVars
<1>2. session' \in [Sessions -> SessionStatus]
  BY <1>1 DEF Table!TypeOK, SessionStatus
<1> QED
  BY <1>1, <1>2, IdleType DEF Table!TypeOK, SessionStatus

LEMMA OrderPlaced ==
  ASSUME Table!TypeOK, NEW q \in Requests, NEW s \in Sessions, NEW o \in Orders, Table!PlaceOrder(q, s, o)
  PROVE  /\ Table!TypeOK' /\ doing[q] = <<"order", s>> /\ doing' = [doing EXCEPT ![q] = Table!Idle]
         /\ order[o] = "none"
         /\ order'  = [order EXCEPT ![o] = "PENDING"]
         /\ ticket' = [ticket EXCEPT ![o] = "PENDING"]
         /\ late' = IF session[s] = "OPEN" THEN late ELSE late \cup {<<s, o>>}
         /\ UNCHANGED <<session, booking, seated, share, bill, receiver, seen, state, told>>
<1>1. /\ doing[q] = <<"order", s>> /\ doing' = [doing EXCEPT ![q] = Table!Idle]
      /\ order[o] = "none"
      /\ order'  = [order EXCEPT ![o] = "PENDING"]
      /\ ticket' = [ticket EXCEPT ![o] = "PENDING"]
      /\ late' = IF session[s] = "OPEN" THEN late ELSE late \cup {<<s, o>>}
      /\ UNCHANGED <<session, booking, seated, share, bill, receiver, seen, state, told>>
  BY DEF Table!PlaceOrder, Table!Commit, Table!bookingVars, Table!billVars,
         Table!receiverVars, Table!ledgerVars
<1>2. late' \subseteq Sessions \X Orders
  BY <1>1 DEF Table!TypeOK
<1> QED
  BY <1>1, <1>2, IdleType DEF Table!TypeOK

LEMMA TicketUpdated ==
  ASSUME Table!TypeOK, NEW q \in Requests, NEW o \in Orders, Table!UpdateTicket(q, o)
  PROVE  /\ Table!TypeOK' /\ doing' = [doing EXCEPT ![q] = Table!Idle]
         /\ \E new \in {"IN_PROGRESS", "COMPLETED", "CANCELLED"} :
              /\ ticket' = [ticket EXCEPT ![o] = new]
              /\ order'  = [order EXCEPT ![o] = Table!Mirror(new)]
         /\ UNCHANGED <<session, late, booking, seated, share, bill, receiver, seen, state, told>>
<1>1. /\ doing' = [doing EXCEPT ![q] = Table!Idle]
      /\ UNCHANGED <<session, late, booking, seated, share, bill, receiver, seen, state, told>>
  BY DEF Table!UpdateTicket, Table!Commit, Table!bookingVars, Table!billVars,
         Table!receiverVars, Table!ledgerVars
<1>2. PICK new \in {"IN_PROGRESS", "COMPLETED", "CANCELLED"} :
        ticket' = [ticket EXCEPT ![o] = new] /\ order' = [order EXCEPT ![o] = Table!Mirror(new)]
  BY DEF Table!UpdateTicket
<1>3. Table!Mirror(new) \in {"CONFIRMED", "READY", "CANCELLED"}
  BY DEF Table!Mirror
<1>4. ticket' \in [Orders -> TicketStatus]
      /\ order' \in [Orders -> {"none", "PENDING", "CONFIRMED", "READY", "CANCELLED"}]
  BY <1>2, <1>3 DEF Table!TypeOK, TicketStatus
<1> QED
  BY <1>1, <1>2, <1>4, IdleType DEF Table!TypeOK, TicketStatus

LEMMA BookingCommits ==
  ASSUME Table!TypeOK, NEW q \in Requests, NEW r \in Reservations,
         Table!ConfirmBooking(q, r) \/ Table!NoShow(q, r) \/ \E s \in Sessions : Table!Seat(q, r, s)
  PROVE  /\ Table!TypeOK' /\ doing' = [doing EXCEPT ![q] = Table!Idle]
         /\ session' = session \/ \E s \in Sessions : session[s] = "none" /\ session' = [session EXCEPT ![s] = "OPEN"]
         /\ UNCHANGED <<ticket, order, late, share, bill, receiver, seen, state, told>>
<1>1. /\ doing' = [doing EXCEPT ![q] = Table!Idle]
      /\ UNCHANGED <<ticket, order, late, share, bill, receiver, seen, state, told>>
      /\ session' = session \/ \E s \in Sessions : session[s] = "none" /\ session' = [session EXCEPT ![s] = "OPEN"]
  BY DEF Table!ConfirmBooking, Table!NoShow, Table!Seat, Table!Commit, Table!kitchenVars,
         Table!billVars, Table!receiverVars, Table!ledgerVars
<1>2. session' \in [Sessions -> SessionStatus]
  BY <1>1 DEF Table!TypeOK, SessionStatus
<1>3. booking' \in [Reservations -> {"none", "PENDING", "CONFIRMED", "SEATED", "NO_SHOW"}]
      /\ seated' \in [Reservations -> Sessions \cup {None}]
  BY DEF Table!TypeOK, Table!ConfirmBooking, Table!NoShow, Table!Seat
<1> QED
  BY <1>1, <1>2, <1>3, IdleType DEF Table!TypeOK, SessionStatus

\* New shares are those of one session, and only they get a push.
LEMMA BillCommits ==
  ASSUME Table!TypeOK, NEW q \in Requests, NEW s \in Sessions,
         \/ \E x \in Shares : Table!PayBill(q, s, x)
         \/ \E S \in SUBSET Shares : \E F \in SUBSET S : Table!SplitBill(q, s, S, F)
  PROVE  /\ Table!TypeOK' /\ doing' = [doing EXCEPT ![q] = Table!Idle]
         /\ UNCHANGED <<session, ticket, order, late, booking, seated, receiver, seen>>
         /\ \A x \in Shares :
              /\ share[x] # "none" => share'[x] # "none" /\ bill'[x] = bill[x]
              /\ state'[x] # state[x] => share'[x] # "none"
<1>1. UNCHANGED <<session, ticket, order, late, booking, seated, receiver, seen>>
      /\ doing' = [doing EXCEPT ![q] = Table!Idle]
  BY DEF Table!PayBill, Table!SplitBill, Table!Commit, Table!kitchenVars, Table!bookingVars,
         Table!receiverVars
<1>2. ASSUME NEW x \in Shares, Table!PayBill(q, s, x)
      PROVE  /\ share' \in [Shares -> {"none", "PENDING", "PAID"}] /\ bill' \in [Shares -> Sessions \cup {None}]
             /\ state' \in [Shares -> Table!Pay!States] /\ told' = told
             /\ \A y \in Shares : /\ share'[y] # "none" => bill'[y] \in Sessions
                                  /\ share[y] # "none" => share'[y] # "none" /\ bill'[y] = bill[y]
                                  /\ state'[y] # state[y] => share'[y] # "none"
  <2>1. /\ share[x] = "none" /\ share' = [share EXCEPT ![x] = "PENDING"] /\ bill' = [bill EXCEPT ![x] = s]
        /\ told' = told
        /\ state' = state \/ state' = [y \in Shares |-> IF y \in {x} THEN "open" ELSE state[y]]
    BY <1>2 DEF Table!PayBill, Table!Pay!Open, Table!Pay!Move, Table!ledgerVars
  <2>2. state' \in [Shares -> Table!Pay!States]
    BY <2>1 DEF Table!TypeOK, Table!Pay!States
  <2>3. \A y \in Shares : state'[y] # state[y] => y = x
    BY <2>1
  <2> QED
    BY <2>1, <2>2, <2>3 DEF Table!TypeOK
<1>3. ASSUME NEW S \in SUBSET Shares, NEW F \in SUBSET S, Table!SplitBill(q, s, S, F)
      PROVE  /\ share' \in [Shares -> {"none", "PENDING", "PAID"}] /\ bill' \in [Shares -> Sessions \cup {None}]
             /\ state' \in [Shares -> Table!Pay!States] /\ told' = told
             /\ \A y \in Shares : /\ share'[y] # "none" => bill'[y] \in Sessions
                                  /\ share[y] # "none" => share'[y] # "none" /\ bill'[y] = bill[y]
                                  /\ state'[y] # state[y] => share'[y] # "none"
  <2>1. /\ \A x \in S : share[x] = "none"
        /\ share' = [x \in Shares |-> IF x \in S THEN "PENDING" ELSE share[x]]
        /\ bill'  = [x \in Shares |-> IF x \in S THEN s ELSE bill[x]]
        /\ state' = [x \in Shares |-> IF x \in S \ F THEN "open" ELSE state[x]] /\ told' = told
    BY <1>3 DEF Table!SplitBill, Table!Pay!Move
  <2>2. state' \in [Shares -> Table!Pay!States]
    BY <2>1 DEF Table!TypeOK, Table!Pay!States
  <2>3. \A y \in Shares : state'[y] # state[y] => y \in S
    BY <2>1
  <2> QED
    BY <2>1, <2>2, <2>3 DEF Table!TypeOK
<1> QED
  BY <1>1, <1>2, <1>3, IdleType DEF Table!TypeOK

\* A share that was not created has no push, and no receiver has heard of it.
Opened ==
  \A x \in Shares : share[x] = "none" => state[x] = "absent" /\ receiver[x] = "idle" /\ seen[x] = "none"

\* A step of the receiver or of a push leaves the requests and the kitchen alone, and
\* of the sessions it closes one at most: one that was seen with its bill requested.
LEMMA ShareSteps ==
  ASSUME Table!TypeOK, Opened, NEW x \in Shares, Table!Payment(x) \/ Table!Receive(x) \/ Table!Receiver(x) \/ Table!LoseReceiver(x)
  PROVE  /\ Table!TypeOK' /\ Opened'
         /\ UNCHANGED <<ticket, order, late, booking, seated, doing, bill>>
         /\ \/ session' = session
            \/ /\ seen[x] = "BILL_REQUESTED"
               /\ session' = [session EXCEPT ![bill[x]] = "CLOSED"]
         /\ \A y \in Shares :
              /\ share[y] # "none" => share'[y] # "none"
              /\ \/ seen'[y] \in {seen[y], "none"}
                 \/ seen'[y] = session[bill[y]] /\ state[y] # "absent" /\ session' = session
<1>1. CASE Table!Payment(x)
  <2>1. UNCHANGED <<session, ticket, order, late, booking, seated, doing, bill, share, receiver, seen>>
    BY <1>1 DEF Table!Payment, Table!kitchenVars, Table!bookingVars, Table!billVars,
                Table!receiverVars
  <2>2. /\ told' = told
        /\ \/ \E new \in Table!Pay!States : state[x] # "absent" /\ state' = [c \in Shares |-> IF c \in {x} THEN new ELSE state[c]]
           \/ share[x] # "none" /\ state' = [c \in Shares |-> IF c \in {x} THEN "open" ELSE state[c]]
    BY <1>1 DEF Table!Payment, Table!Pay!Open, Table!Pay!Settle, Table!Pay!Close,
                Table!Pay!Refund, Table!Pay!Move, Table!Pay!States
  <2>3. state' \in [Shares -> Table!Pay!States]
    BY <2>2 DEF Table!TypeOK, Table!Pay!States
  <2>4. \A y \in Shares : share[y] = "none" /\ state[y] = "absent" => state'[y] = "absent"
    BY <2>2
  <2> QED
    BY <2>1, <2>2, <2>3, <2>4 DEF Table!TypeOK, Opened
<1>2. CASE Table!Receive(x)
  <2>1. /\ UNCHANGED <<session, ticket, order, late, booking, seated, doing, bill, share, state>>
        /\ told' = told \cup {x} /\ state[x] # "absent"
        /\ receiver' = [receiver EXCEPT ![x] = "read"]
        /\ seen' = [seen EXCEPT ![x] = session[bill[x]]]
    BY <1>2 DEF Table!Receive, Table!Pay!Tell, Table!kitchenVars, Table!bookingVars,
                Table!billVars
  <2>2. share[x] # "none" /\ session[bill[x]] \in SessionStatus
    BY <2>1 DEF Table!TypeOK, Opened, SessionStatus
  <2>3. seen' \in [Shares -> SessionStatus]
    BY <2>1, <2>2 DEF Table!TypeOK, SessionStatus
  <2>4. Opened'
    BY <2>1, <2>2 DEF Table!TypeOK, Opened
  <2> QED
    BY <2>1, <2>3, <2>4 DEF Table!TypeOK, SessionStatus
<1>3. CASE Table!MarkPaid(x)
  <2>1. /\ UNCHANGED <<session, ticket, order, late, booking, seated, doing, bill, seen, state, told>>
        /\ receiver[x] = "read" /\ receiver' = [receiver EXCEPT ![x] = "marked"]
        /\ share' = [share EXCEPT ![x] = "PAID"]
    BY <1>3 DEF Table!MarkPaid, Table!kitchenVars, Table!bookingVars, Table!ledgerVars
  <2>2. share[x] # "none"
    BY <2>1 DEF Opened
  <2> QED
    BY <2>1, <2>2 DEF Table!TypeOK, Opened
<1>4. CASE Table!CheckUnpaid(x) \/ Table!LoseReceiver(x)
  <2>1. /\ UNCHANGED <<session, ticket, order, late, booking, seated, doing, bill, share, state, told>>
        /\ receiver[x] # "idle"
        /\ \E place \in {"closing", "idle"} : receiver' = [receiver EXCEPT ![x] = place]
        /\ seen' = seen \/ seen' = [seen EXCEPT ![x] = "none"]
    BY <1>4 DEF Table!CheckUnpaid, Table!LoseReceiver, Table!kitchenVars, Table!bookingVars,
                Table!billVars, Table!ledgerVars
  <2>2. Opened'
    BY <2>1 DEF Table!TypeOK, Opened
  <2> QED
    BY <2>1, <2>2 DEF Table!TypeOK
<1>5. CASE Table!AutoClose(x)
  <2>1. /\ UNCHANGED <<ticket, order, late, booking, seated, doing, bill, share, state, told>>
        /\ receiver' = [receiver EXCEPT ![x] = "idle"]
        /\ seen' = [seen EXCEPT ![x] = "none"]
        /\ \/ session' = session
           \/ seen[x] = "BILL_REQUESTED" /\ session' = [session EXCEPT ![bill[x]] = "CLOSED"]
    BY <1>5 DEF Table!AutoClose, Table!SessionMoves, Table!kitchenVars, Table!bookingVars,
                Table!billVars, Table!ledgerVars
  <2>2. session' \in [Sessions -> SessionStatus]
    BY <2>1 DEF Table!TypeOK, SessionStatus
  <2>3. Opened'
    BY <2>1 DEF Table!TypeOK, Opened
  <2> QED
    BY <2>1, <2>2, <2>3 DEF Table!TypeOK, SessionStatus
<1> QED
  BY <1>1, <1>2, <1>3, <1>4, <1>5 DEF Table!Receiver

-----------------------------------------------------------------------------
(* The invariant *)

Ended == {"BILL_REQUESTED", "CLOSED"}

\* A receiver may close the session it has seen: its bill was requested then, and it
\* has not been open since.
Past == \A x \in Shares : seen[x] = "BILL_REQUESTED" => session[bill[x]] \in Ended

\* Late orders are orders.
Placed == \A s \in Sessions, o \in Orders : <<s, o>> \in late => order[o] # "none"

Ordering(s) == {q \in Requests : doing[q] = <<"order", s>>}

\* While a session is open nothing is late. The request for its bill ends when it
\* commits, so that fewer than all requests are left to place an order afterwards;
\* each that does is a request less.
LateInv(s) ==
  /\ IsFiniteSet(Table!LateOf(s))
  /\ session[s] \in {"none", "OPEN"} => Table!LateOf(s) = {}
  /\ session[s] = "none" => Ordering(s) = {}
  /\ Cardinality(Table!LateOf(s)) + Cardinality(Table!Stale(s)) < Cardinality(Requests)

IInv ==
  /\ Table!TypeOK /\ Opened /\ Past /\ Placed /\ Table!TicketMirrorsOrder
  /\ \A s \in Sessions : LateInv(s)

\* Cardinality is that of the module's own FiniteSets.
LEMMA TableCardinality == \A S : Table!Cardinality(S) = Cardinality(S)
BY DEF Table!Cardinality, Cardinality

LEMMA RequestsCount ==
  /\ IsFiniteSet(Requests) /\ Cardinality(Requests) \in Nat /\ Cardinality(Requests) > 0
<1>1. IsFiniteSet(Requests) /\ Cardinality(Requests) \in Nat
  BY RestaurantAssumption, FS_CardinalityType
<1>2. Cardinality(Requests) # 0
  BY <1>1, RestaurantAssumption, FS_EmptySet
<1> QED
  BY <1>1, <1>2

LEMMA StaleCount ==
  ASSUME NEW s \in Sessions
  PROVE  /\ IsFiniteSet(Table!Stale(s)) /\ IsFiniteSet(Table!Stale(s)')
         /\ Cardinality(Table!Stale(s)) \in Nat /\ Cardinality(Table!Stale(s)') \in Nat
<1>1. Table!Stale(s) \in SUBSET Requests /\ Table!Stale(s)' \in SUBSET Requests
  BY DEF Table!Stale
<1>2. IsFiniteSet(Table!Stale(s)) /\ IsFiniteSet(Table!Stale(s)')
  BY <1>1, RequestsCount, FS_Subset
<1> QED
  BY <1>2, FS_CardinalityType

LEMMA InitInv == Table!Init => IInv
<1> SUFFICES ASSUME Table!Init PROVE IInv
  OBVIOUS
<1>1. Table!TypeOK
  BY InitType
<1>2. Opened /\ Past /\ Placed
  BY DEF Table!Init, Table!Pay!Init, Opened, Past, Placed
<1>3. Table!TicketMirrorsOrder
  BY DEF Table!Init, Table!TicketMirrorsOrder, Table!Mirror
<1>4. ASSUME NEW s \in Sessions
      PROVE  LateInv(s)
  <2>1. Table!LateOf(s) = {} /\ Table!Stale(s) = {} /\ Ordering(s) = {}
    BY DEF Table!Init, Table!LateOf, Table!Stale, Ordering, Table!Idle
  <2>2. IsFiniteSet({}) /\ Cardinality({}) = 0
    BY FS_EmptySet
  <2>3. Cardinality(Table!LateOf(s)) + Cardinality(Table!Stale(s)) < Cardinality(Requests)
    BY <2>1, <2>2, RequestsCount
  <2> QED
    BY <2>1, <2>2, <2>3 DEF LateInv
<1> QED
  BY <1>1, <1>2, <1>3, <1>4 DEF IInv

-----------------------------------------------------------------------------
(* Late orders *)

\* No order of a session is placed, and a request that begins one has seen it open.
LEMMA NoLateOrder ==
  ASSUME Table!TypeOK, NEW s \in Sessions, LateInv(s), late' = late,
         \A q \in Requests :
           doing'[q] = <<"order", s>> =>
             doing[q] = <<"order", s>> \/ (session[s] = "OPEN" /\ session'[s] = "OPEN"),
         \/ session'[s] = session[s]
         \/ session[s] \in Ended /\ session'[s] \in Ended
         \/ session[s] = "none" /\ session'[s] = "OPEN"
  PROVE  LateInv(s)'
<1>1. Table!LateOf(s)' = Table!LateOf(s)
  BY DEF Table!LateOf
<1>2. Table!Stale(s)' \in SUBSET Table!Stale(s)
  BY DEF Table!Stale, Ended
<1>3. Cardinality(Table!Stale(s)') <= Cardinality(Table!Stale(s))
  BY <1>2, StaleCount, FS_Subset
<1>4. Cardinality(Table!LateOf(s)) \in Nat
  BY FS_CardinalityType DEF LateInv
<1>5. Cardinality(Table!LateOf(s)') + Cardinality(Table!Stale(s)') < Cardinality(Requests)
  BY <1>1, <1>3, <1>4, StaleCount, RequestsCount DEF LateInv
<1>6. session'[s] \in {"none", "OPEN"} => Table!LateOf(s)' = {}
  BY <1>1 DEF LateInv, Ended
<1>7. session'[s] = "none" => Ordering(s)' = {}
  BY DEF LateInv, Ordering, Ended
<1>8. IsFiniteSet(Table!LateOf(s)')
  BY <1>1 DEF LateInv
<1> QED
  BY <1>5, <1>6, <1>7, <1>8 DEF LateInv

\* The request that closes a session, or asks for its bill, is over.
LEMMA NoMoreOrders ==
  ASSUME Table!TypeOK, NEW s \in Sessions, LateInv(s), NEW q \in Requests, NEW new \in Ended,
         late' = late, session' = [session EXCEPT ![s] = new],
         doing' = [doing EXCEPT ![q] = Table!Idle]
  PROVE  LateInv(s)'
<1>1. Table!LateOf(s)' = Table!LateOf(s) /\ session'[s] \in Ended
  BY DEF Table!LateOf, Table!TypeOK
<1>2. Table!Stale(s)' \in SUBSET (Requests \ {q}) /\ (session[s] \in Ended => Table!Stale(s)' \in SUBSET Table!Stale(s))
  BY DEF Table!Stale, Table!TypeOK, Table!Idle, Ended
<1>3. CASE session[s] \in Ended
  <2>1. Cardinality(Table!Stale(s)') <= Cardinality(Table!Stale(s))
    BY <1>2, <1>3, StaleCount, FS_Subset
  <2>2. Cardinality(Table!LateOf(s)) \in Nat
    BY FS_CardinalityType DEF LateInv
  <2>3. Cardinality(Table!LateOf(s)') + Cardinality(Table!Stale(s)') < Cardinality(Requests)
    BY <1>1, <2>1, <2>2, StaleCount, RequestsCount DEF LateInv
  <2> QED
    BY <1>1, <2>3 DEF LateInv, Ended
<1>4. CASE session[s] \notin Ended
  <2>1. Table!LateOf(s)' = {} /\ Cardinality(Table!LateOf(s)') = 0 /\ IsFiniteSet(Table!LateOf(s)')
    BY <1>1, <1>4, FS_EmptySet DEF LateInv, Table!TypeOK, Ended
  <2>2. Cardinality(Requests \ {q}) = Cardinality(Requests) - 1 /\ IsFiniteSet(Requests \ {q})
    BY RequestsCount, FS_RemoveElement
  <2>3. Cardinality(Table!Stale(s)') <= Cardinality(Requests) - 1
    BY <1>2, <2>2, FS_Subset
  <2>4. Cardinality(Table!LateOf(s)') + Cardinality(Table!Stale(s)') < Cardinality(Requests)
    BY <2>1, <2>3, StaleCount, RequestsCount
  <2> QED
    BY <1>1, <2>1, <2>4 DEF LateInv, Ended
<1> QED
  BY <1>3, <1>4

\* A late order is one request less that may place another.
LEMMA OneLateOrder ==
  ASSUME Table!TypeOK, Placed, NEW s \in Sessions, LateInv(s), NEW q \in Requests, NEW o \in Orders,
         doing[q] = <<"order", s>>, doing' = [doing EXCEPT ![q] = Table!Idle], order[o] = "none",
         session' = session, late' = IF session[s] = "OPEN" THEN late ELSE late \cup {<<s, o>>}
  PROVE  LateInv(s)'
<1>1. Table!Stale(s)' = Table!Stale(s) \ {q}
  BY DEF Table!Stale, Table!TypeOK, Table!Idle
<1>2. CASE session[s] = "OPEN"
  <2>1. Table!LateOf(s)' = Table!LateOf(s) /\ Table!Stale(s)' = {} /\ Table!Stale(s) = {}
    BY <1>2 DEF Table!LateOf, Table!Stale
  <2> QED
    BY <1>2, <2>1 DEF LateInv
<1>3. CASE session[s] # "OPEN"
  <2>1. session[s] \in Ended /\ q \in Table!Stale(s)
    BY <1>3 DEF LateInv, Ordering, Table!Stale, Table!TypeOK, Ended
  <2>2. Cardinality(Table!Stale(s)') = Cardinality(Table!Stale(s)) - 1
    BY <1>1, <2>1, StaleCount, FS_RemoveElement
  <2>3. Table!LateOf(s)' = Table!LateOf(s) \cup {o} /\ o \notin Table!LateOf(s)
    BY <1>3 DEF Table!LateOf, Placed
  <2>4. IsFiniteSet(Table!LateOf(s)') /\ Cardinality(Table!LateOf(s)') = Cardinality(Table!LateOf(s)) + 1
    BY <2>3, FS_AddElement DEF LateInv
  <2>5. Cardinality(Table!LateOf(s)) \in Nat
    BY FS_CardinalityType DEF LateInv
  <2>6. Cardinality(Table!LateOf(s)') + Cardinality(Table!Stale(s)') < Cardinality(Requests)
    BY <2>2, <2>4, <2>5, StaleCount, RequestsCount DEF LateInv
  <2> QED
    BY <1>3, <2>1, <2>4, <2>6 DEF LateInv, Ended
<1> QED
  BY <1>2, <1>3

-----------------------------------------------------------------------------
(* Steps *)

\* What a step may do to a session: of those that end or ended it, only a request for
\* its bill may take back that it was closed.
Moves(s) == \/ session'[s] = session[s]
            \/ session'[s] \in Ended /\ session[s] # "CLOSED"
            \/ session'[s] = "CLOSED"
            \/ session'[s] \in Ended /\ \E q \in Requests : Table!RequestBill(q, s)
            \/ session[s] = "none" /\ session'[s] = "OPEN"

\* A step that places no order, and neither opens nor sees a bill's session anew.
LEMMA Quiet ==
  ASSUME IInv, Table!TypeOK', UNCHANGED <<ticket, order, late, seen, receiver>>,
         \A x \in Shares : share[x] # "none" => share'[x] # "none" /\ bill'[x] = bill[x],
         \A x \in Shares : state'[x] # state[x] => share'[x] # "none",
         \A s \in Sessions : session[s] \in Ended => session'[s] \in Ended
  PROVE  Opened' /\ Past' /\ Placed' /\ Table!TicketMirrorsOrder'
<1>1. Opened'
  BY DEF IInv, Opened
<1>2. Past'
  BY DEF IInv, Opened, Past, Table!TypeOK
<1>3. Placed' /\ Table!TicketMirrorsOrder'
  BY DEF IInv, Placed, Table!TicketMirrorsOrder
<1> QED
  BY <1>1, <1>2, <1>3

LEMMA BeginInv ==
  ASSUME IInv, NEW q \in Requests,
         \/ \E s \in Sessions : Table!BeginSession(q, s)
         \/ \E o \in Orders : Table!BeginTicket(q, o)
         \/ \E r \in Reservations : Table!BeginBooking(q, r)
  PROVE  IInv' /\ session' = session
<1>1. ASSUME NEW job \in Table!Jobs, NEW allowed, Table!Begin(q, job, allowed),
             \A s \in Sessions : job = <<"order", s>> => session[s] = "OPEN"
      PROVE  IInv' /\ session' = session
  <2>1. Table!TypeOK' /\ doing' = [doing EXCEPT ![q] = job]
        /\ UNCHANGED <<session, ticket, order, late, booking, seated, share, bill, receiver, seen, state, told>>
    BY <1>1, BeginType DEF IInv
  <2>2. \A s \in Sessions : LateInv(s)'
    BY <1>1, <2>1, NoLateOrder DEF IInv, Table!TypeOK
  <2>3. Opened' /\ Past' /\ Placed' /\ Table!TicketMirrorsOrder'
    BY <2>1, Quiet
  <2> QED
    BY <2>1, <2>2, <2>3 DEF IInv
<1>2. ASSUME NEW s \in Sessions, Table!BeginSession(q, s)
      PROVE  IInv' /\ session' = session
  <2>1. \A w \in {"assign", "bill", "close", "pay", "split", "order"} : <<w, s>> \in Table!Jobs
    BY DEF Table!Jobs
  <2>2. CASE Table!Begin(q, <<"order", s>>, session[s] = "OPEN")
    <3>1. session[s] = "OPEN"
      BY <2>2 DEF Table!Begin
    <3> QED
      BY <1>1, <2>1, <2>2, <3>1
  <2>3. ASSUME NEW w \in {"assign", "bill", "close", "pay", "split"}, NEW allowed, Table!Begin(q, <<w, s>>, allowed)
        PROVE  IInv' /\ session' = session
    BY <1>1, <2>1, <2>3
  <2> QED
    BY <1>2, <2>2, <2>3 DEF Table!BeginSession
<1>3. ASSUME NEW o \in Orders, Table!BeginTicket(q, o)
      PROVE  IInv' /\ session' = session
  <2>1. PICK new \in {"IN_PROGRESS", "COMPLETED", "CANCELLED"} :
          Table!Begin(q, <<new, o>>, <<ticket[o], new>> \in Table!TicketMoves)
    BY <1>3 DEF Table!BeginTicket
  <2>2. <<new, o>> \in Table!Jobs /\ \A s \in Sessions : <<new, o>> # <<"order", s>>
    BY DEF Table!Jobs
  <2> QED
    BY <1>1, <2>1, <2>2
<1>4. ASSUME NEW r \in Reservations, Table!BeginBooking(q, r)
      PROVE  IInv' /\ session' = session
  <2>1. PICK new \in {"CONFIRMED", "SEATED", "NO_SHOW"} :
          Table!Begin(q, <<new, r>>, <<booking[r], new>> \in Table!BookingMoves)
    BY <1>4 DEF Table!BeginBooking
  <2>2. <<new, r>> \in Table!Jobs /\ \A s \in Sessions : <<new, r>> # <<"order", s>>
    BY DEF Table!Jobs
  <2> QED
    BY <1>1, <2>1, <2>2
<1> QED
  BY <1>2, <1>3, <1>4

\* A request that drops its errand begins no order.
LEMMA Drops ==
  ASSUME Table!TypeOK, NEW q \in Requests, doing' = [doing EXCEPT ![q] = Table!Idle]
  PROVE  \A p \in Requests, s \in Sessions : doing'[p] = <<"order", s>> => doing[p] = <<"order", s>>
BY DEF Table!TypeOK, Table!Idle

LEMMA RequestInv ==
  ASSUME IInv, NEW q \in Requests, Table!Request(q)
  PROVE  IInv' /\ \A s \in Sessions : Moves(s)
<1>t. Table!TypeOK
  BY DEF IInv
<1>1. CASE \/ \E s \in Sessions : Table!BeginSession(q, s)
           \/ \E o \in Orders : Table!BeginTicket(q, o)
           \/ \E r \in Reservations : Table!BeginBooking(q, r)
  BY <1>1, BeginInv DEF Moves
<1>2. ASSUME NEW s \in Sessions, Table!AssignWaiter(q, s) \/ Table!RequestBill(q, s) \/ Table!CloseSession(q, s)
      PROVE  IInv' /\ \A z \in Sessions : Moves(z)
  <2>1. /\ Table!TypeOK' /\ doing' = [doing EXCEPT ![q] = Table!Idle]
        /\ UNCHANGED <<ticket, order, late, booking, seated, share, bill, receiver, seen, state, told>>
        /\ session' = session \/ \E new \in Ended : session' = [session EXCEPT ![s] = new]
    BY <1>t, <1>2, SessionCommits DEF Ended
  <2>2. \A z \in Sessions \ {s} : session'[z] = session[z]
    BY <1>t, <2>1 DEF Table!TypeOK
  <2>3. \A z \in Sessions \ {s} : LateInv(z)'
    BY <1>t, <2>1, <2>2, Drops, NoLateOrder DEF IInv
  <2>4. ASSUME NEW new \in Ended, session' = [session EXCEPT ![s] = new]
        PROVE  LateInv(s)' /\ session'[s] \in Ended
    <3>1. LateInv(s)'
      BY <1>t, <2>1, <2>4, NoMoreOrders DEF IInv
    <3>2. session'[s] = new
      BY <1>t, <2>4 DEF Table!TypeOK
    <3> QED
      BY <3>1, <3>2
  <2>5. LateInv(s)' /\ (session'[s] = session[s] \/ session'[s] \in Ended)
    <3>1. CASE session' = session
      BY <1>t, <2>1, <3>1, Drops, NoLateOrder DEF IInv
    <3> QED
      BY <2>1, <2>4, <3>1
  <2>6. Opened' /\ Past' /\ Placed' /\ Table!TicketMirrorsOrder'
    BY <2>1, <2>2, <2>5, Quiet
  <2>7. Moves(s)
    <3>1. \/ session' = session
          \/ Table!RequestBill(q, s)
          \/ session' = [session EXCEPT ![s] = "CLOSED"]
      BY <1>2 DEF Table!AssignWaiter, Table!CloseSession
    <3> QED
      BY <1>t, <2>5, <3>1 DEF Moves, Table!TypeOK
  <2> QED
    BY <2>1, <2>2, <2>3, <2>5, <2>6, <2>7 DEF IInv, Moves
<1>3. ASSUME NEW s \in Sessions, NEW o \in Orders, Table!PlaceOrder(q, s, o)
      PROVE  IInv' /\ \A z \in Sessions : Moves(z)
  <2>1. /\ Table!TypeOK' /\ doing[q] = <<"order", s>> /\ doing' = [doing EXCEPT ![q] = Table!Idle]
        /\ order[o] = "none"
        /\ order'  = [order EXCEPT ![o] = "PENDING"]
        /\ ticket' = [ticket EXCEPT ![o] = "PENDING"]
        /\ late' = IF session[s] = "OPEN" THEN late ELSE late \cup {<<s, o>>}
        /\ UNCHANGED <<session, booking, seated, share, bill, receiver, seen, state, told>>
    BY <1>t, <1>3, OrderPlaced
  <2>2. LateInv(s)'
    BY <1>t, <2>1, OneLateOrder DEF IInv
  <2>3. ASSUME NEW z \in Sessions, z # s
        PROVE  LateInv(z)'
    <3>1. Table!LateOf(z)' = Table!LateOf(z)
      BY <2>1, <2>3 DEF Table!LateOf
    <3>2. Table!Stale(z)' = Table!Stale(z) /\ Ordering(z)' = Ordering(z)
      <4>1. \A p \in Requests : doing'[p] = <<"order", z>> <=> doing[p] = <<"order", z>>
        <5>1. doing[q] # <<"order", z>>
          BY <2>1, <2>3
        <5>2. Table!Idle # <<"order", z>>
          BY DEF Table!Idle
        <5>3. \A p \in Requests : doing'[p] = IF p = q THEN Table!Idle ELSE doing[p]
          BY <1>t, <2>1 DEF Table!TypeOK
        <5> QED
          BY <5>1, <5>2, <5>3
      <4> QED
        BY <2>1, <4>1 DEF Table!Stale, Ordering
    <3> QED
      BY <2>1, <3>1, <3>2 DEF IInv, LateInv
  <2>4. Opened' /\ Past'
    BY <2>1 DEF IInv, Opened, Past
  <2>5. Placed'
    BY <1>t, <2>1 DEF IInv, Placed, Table!TypeOK
  <2>6. Table!TicketMirrorsOrder'
    BY <1>t, <2>1 DEF IInv, Table!TicketMirrorsOrder, Table!Mirror, Table!TypeOK
  <2> QED
    BY <2>1, <2>2, <2>3, <2>4, <2>5, <2>6 DEF IInv, Moves
<1>4. ASSUME NEW o \in Orders, Table!UpdateTicket(q, o)
      PROVE  IInv' /\ \A z \in Sessions : Moves(z)
  <2>1. /\ Table!TypeOK' /\ doing' = [doing EXCEPT ![q] = Table!Idle]
        /\ UNCHANGED <<session, late, booking, seated, share, bill, receiver, seen, state, told>>
    BY <1>t, <1>4, TicketUpdated
  <2>2. PICK new \in {"IN_PROGRESS", "COMPLETED", "CANCELLED"} :
          ticket' = [ticket EXCEPT ![o] = new] /\ order' = [order EXCEPT ![o] = Table!Mirror(new)]
    BY <1>t, <1>4, TicketUpdated
  <2>3. Table!Mirror(new) # "none"
    BY DEF Table!Mirror
  <2>4. Table!TicketMirrorsOrder' /\ Placed'
    BY <1>t, <2>1, <2>2, <2>3 DEF IInv, Table!TicketMirrorsOrder, Placed, Table!TypeOK
  <2>5. Opened' /\ Past'
    BY <2>1 DEF IInv, Opened, Past
  <2>6. \A s \in Sessions : LateInv(s)'
    BY <1>t, <2>1, Drops, NoLateOrder DEF IInv
  <2> QED
    BY <2>1, <2>4, <2>5, <2>6 DEF IInv, Moves
<1>5. ASSUME NEW r \in Reservations,
             Table!ConfirmBooking(q, r) \/ Table!NoShow(q, r) \/ \E s \in Sessions : Table!Seat(q, r, s)
      PROVE  IInv' /\ \A z \in Sessions : Moves(z)
  <2>1. /\ Table!TypeOK' /\ doing' = [doing EXCEPT ![q] = Table!Idle]
        /\ session' = session \/ \E s \in Sessions : session[s] = "none" /\ session' = [session EXCEPT ![s] = "OPEN"]
        /\ UNCHANGED <<ticket, order, late, share, bill, receiver, seen, state, told>>
    BY <1>t, <1>5, BookingCommits
  <2>2. \A z \in Sessions : session'[z] = session[z] \/ (session[z] = "none" /\ session'[z] = "OPEN")
    BY <1>t, <2>1 DEF Table!TypeOK
  <2>3. \A s \in Sessions : LateInv(s)'
    BY <1>t, <2>1, <2>2, Drops, NoLateOrder DEF IInv
  <2>4. Opened' /\ Past' /\ Placed' /\ Table!TicketMirrorsOrder'
    BY <2>1, <2>2, Quiet DEF Ended
  <2> QED
    BY <2>1, <2>2, <2>3, <2>4 DEF IInv, Moves
<1>6. ASSUME NEW s \in Sessions,
             \/ \E x \in Shares : Table!PayBill(q, s, x)
             \/ \E S \in SUBSET Shares : \E F \in SUBSET S : Table!SplitBill(q, s, S, F)
      PROVE  IInv' /\ \A z \in Sessions : Moves(z)
  <2>1. /\ Table!TypeOK' /\ doing' = [doing EXCEPT ![q] = Table!Idle]
        /\ UNCHANGED <<session, ticket, order, late, booking, seated, receiver, seen>>
        /\ \A x \in Shares :
             /\ share[x] # "none" => share'[x] # "none" /\ bill'[x] = bill[x]
             /\ state'[x] # state[x] => share'[x] # "none"
    BY <1>t, <1>6, BillCommits
  <2>2. \A z \in Sessions : LateInv(z)'
    BY <1>t, <2>1, Drops, NoLateOrder DEF IInv
  <2>3. Opened' /\ Past' /\ Placed' /\ Table!TicketMirrorsOrder'
    BY <2>1, Quiet
  <2> QED
    BY <2>1, <2>2, <2>3 DEF IInv, Moves
<1>7. CASE Table!Leave(q)
  <2>1. /\ doing' = [doing EXCEPT ![q] = Table!Idle]
        /\ UNCHANGED <<session, ticket, order, late, booking, seated, share, bill, receiver, seen, state, told>>
    BY <1>7 DEF Table!Leave, Table!kitchenVars, Table!bookingVars, Table!billVars,
                Table!receiverVars, Table!ledgerVars
  <2>2. Table!TypeOK'
    BY <1>t, <2>1, IdleType DEF Table!TypeOK
  <2>3. \A s \in Sessions : LateInv(s)'
    BY <1>t, <2>1, Drops, NoLateOrder DEF IInv
  <2>4. Opened' /\ Past' /\ Placed' /\ Table!TicketMirrorsOrder'
    BY <2>1, <2>2, Quiet
  <2> QED
    BY <2>1, <2>2, <2>3, <2>4 DEF IInv, Moves
<1> QED
  BY <1>1, <1>2, <1>3, <1>4, <1>5, <1>6, <1>7 DEF Table!Request, Table!SessionRequest,
                                                  Table!BookingRequest

LEMMA NextInv == IInv /\ [Table!Next]_(Table!vars) => IInv' /\ \A s \in Sessions : Moves(s)
<1> SUFFICES ASSUME IInv, [Table!Next]_(Table!vars)
             PROVE  IInv' /\ \A s \in Sessions : Moves(s)
  OBVIOUS
<1>t. Table!TypeOK /\ Opened
  BY DEF IInv
<1>1. ASSUME NEW o \in Sessions, Table!OpenSession(o)
      PROVE  IInv' /\ \A s \in Sessions : Moves(s)
  <2>1. /\ session[o] = "none" /\ session' = [session EXCEPT ![o] = "OPEN"]
        /\ UNCHANGED <<ticket, order, late, booking, seated, doing, share, bill, receiver, seen, state, told>>
    BY <1>1 DEF Table!OpenSession, Table!kitchenVars, Table!bookingVars, Table!billVars,
                Table!receiverVars, Table!ledgerVars
  <2>2. Table!TypeOK'
    BY <1>t, <2>1 DEF Table!TypeOK
  <2>3. \A z \in Sessions : session'[z] = session[z] \/ (session[z] = "none" /\ session'[z] = "OPEN")
    BY <1>t, <2>1 DEF Table!TypeOK
  <2>4. \A s \in Sessions : LateInv(s)'
    BY <1>t, <2>1, <2>3, NoLateOrder DEF IInv
  <2>5. Opened' /\ Past' /\ Placed' /\ Table!TicketMirrorsOrder'
    BY <2>1, <2>2, <2>3, Quiet DEF Ended
  <2> QED
    BY <2>2, <2>3, <2>4, <2>5 DEF IInv, Moves
<1>2. CASE (\E r \in Reservations : Table!Reserve(r)) \/ UNCHANGED Table!vars
  <2>1. /\ UNCHANGED <<session, ticket, order, late, seated, doing, share, bill, receiver, seen, state, told>>
        /\ booking' = booking \/ \E r \in Reservations : booking' = [booking EXCEPT ![r] = "PENDING"]
    BY <1>2 DEF Table!Reserve, Table!vars, Table!kitchenVars, Table!bookingVars,
                Table!billVars, Table!receiverVars, Table!ledgerVars
  <2>2. Table!TypeOK'
    BY <1>t, <2>1 DEF Table!TypeOK
  <2>3. \A s \in Sessions : LateInv(s)'
    BY <1>t, <2>1, NoLateOrder DEF IInv
  <2>4. Opened' /\ Past' /\ Placed' /\ Table!TicketMirrorsOrder'
    BY <2>1, <2>2, Quiet
  <2> QED
    BY <2>1, <2>2, <2>3, <2>4 DEF IInv, Moves
<1>3. ASSUME NEW x \in Shares, Table!Payment(x) \/ Table!Receive(x) \/ Table!Receiver(x) \/ Table!LoseReceiver(x)
      PROVE  IInv' /\ \A s \in Sessions : Moves(s)
  <2>1. /\ Table!TypeOK' /\ Opened'
        /\ UNCHANGED <<ticket, order, late, booking, seated, doing, bill>>
        /\ \/ session' = session
           \/ seen[x] = "BILL_REQUESTED" /\ session' = [session EXCEPT ![bill[x]] = "CLOSED"]
        /\ \A y \in Shares :
             /\ share[y] # "none" => share'[y] # "none"
             /\ \/ seen'[y] \in {seen[y], "none"}
                \/ seen'[y] = session[bill[y]] /\ state[y] # "absent" /\ session' = session
    BY <1>t, <1>3, ShareSteps
  <2>2. \A z \in Sessions : session'[z] = session[z] \/ (session[z] \in Ended /\ session'[z] = "CLOSED")
    BY <1>t, <2>1 DEF IInv, Past, Table!TypeOK, Ended
  <2>3. \A s \in Sessions : LateInv(s)'
    BY <1>t, <2>1, <2>2, NoLateOrder DEF IInv, Ended
  <2>4. ASSUME NEW y \in Shares, seen'[y] = "BILL_REQUESTED"
        PROVE  session'[bill'[y]] \in Ended
    <3>1. CASE seen'[y] = seen[y]
      <4>1. session[bill[y]] \in Ended /\ bill[y] \in Sessions
        BY <1>t, <2>4, <3>1 DEF IInv, Past, Opened, Table!TypeOK
      <4> QED
        BY <2>1, <2>2, <4>1 DEF Ended
    <3>2. CASE seen'[y] = session[bill[y]] /\ session' = session
      BY <2>1, <2>4, <3>2 DEF Ended
    <3> QED
      BY <2>1, <2>4, <3>1, <3>2
  <2>5. Past' /\ Placed' /\ Table!TicketMirrorsOrder'
    BY <2>1, <2>4 DEF IInv, Past, Placed, Table!TicketMirrorsOrder
  <2> QED
    BY <2>1, <2>2, <2>3, <2>5 DEF IInv, Moves
<1> QED
  BY <1>1, <1>2, <1>3, RequestInv DEF Table!Next

-----------------------------------------------------------------------------
\* The order the customer's screen polls agrees with the kitchen's ticket, for any
\* number of orders and of overlapping updates.
THEOREM OrderIsMirrored == Table!Spec => []TicketMirrorsOrder
<1>1. Table!Init => IInv
  BY InitInv
<1>2. IInv /\ [Table!Next]_(Table!vars) => IInv'
  BY NextInv
<1>3. IInv => TicketMirrorsOrder
  BY DEF IInv, TicketMirrorsOrder
<1> QED
  BY <1>1, <1>2, <1>3, PTL DEF Table!Spec

\* Fewer orders of a session are placed after its bill was requested than there are
\* requests at once, for any number of sessions and orders.
THEOREM LateOrdersAreBounded == Table!Spec => []LateOrders
<1>1. Table!Init => IInv
  BY InitInv
<1>2. IInv /\ [Table!Next]_(Table!vars) => IInv'
  BY NextInv
<1>3. IInv => LateOrders
  BY TableCardinality DEF IInv, LateInv, LateOrders, Table!LateOrders
<1> QED
  BY <1>1, <1>2, <1>3, PTL DEF Table!Spec

\* A session whose bill was requested is never open again, and once it is closed only
\* a request for the bill, begun while it was open, may take that back; for any number
\* of views and receivers that have read it earlier.
THEOREM SessionsStayEnded == Table!Spec => NeverReopened
<1>1. Table!Init => IInv
  BY InitInv
<1>2. IInv /\ [Table!Next]_(Table!vars) => IInv'
  BY NextInv
<1>3. IInv /\ [Table!Next]_(Table!vars) =>
        [\A s \in Sessions :
           /\ session[s] \in {"BILL_REQUESTED", "CLOSED"} => session'[s] # "OPEN"
           /\ session[s] = "CLOSED" /\ session'[s] # "CLOSED" =>
                \E q \in Requests : Table!RequestBill(q, s)]_(Table!vars)
  <2> SUFFICES ASSUME IInv, [Table!Next]_(Table!vars), NEW s \in Sessions
               PROVE  /\ session[s] \in {"BILL_REQUESTED", "CLOSED"} => session'[s] # "OPEN"
                      /\ session[s] = "CLOSED" /\ session'[s] # "CLOSED" =>
                           \E q \in Requests : Table!RequestBill(q, s)
    OBVIOUS
  <2>1. Moves(s)
    BY NextInv
  <2> QED
    BY <2>1 DEF Moves, Ended
<1> QED
  BY <1>1, <1>2, <1>3, PTL DEF Table!Spec, NeverReopened, Table!NeverReopened


-----------------------------------------------------------------------------
(* Orders placed before arrival. A request that has read a row converts it      *)
(* once. Reads stop at the first conversion, unless the receiver, which had     *)
(* read the row too, writes PAID over it: that happens once for a row, and when *)
(* it does no more requests than there are had read the row.                    *)

\* A row that no one has written yet is not purged, nor was it ever converted.
Untouched ==
  \A p \in Rows : preRow[p] \in {"none", "PENDING"} =>
    made[p] = 0 /\ p \notin gone \cup doomed

\* PAID is written by the receiver, after which no receiver has the row in hand.
PaidWasTold ==
  /\ preReceiver \subseteq preTold
  /\ \A p \in Rows : preRow[p] = "PAID" =>
       p \in preTold \ preReceiver /\ made[p] <= Cardinality(Requests)

PreType ==
  /\ preRow \in [Rows -> Pre!Status \cup {"none"}]
  /\ due \subseteq Rows /\ gone \subseteq Rows /\ kept \subseteq Rows
  /\ made \in [Rows -> Nat]
  /\ linked \subseteq Rows
  /\ preDoing \in [Requests -> {Pre!Idle} \cup (Rows \X Pre!Status)]
  /\ preReceiver \subseteq Rows
  /\ purge \in {"idle", "marked", "deleting"}
  /\ doomed \subseteq Rows
  /\ deaths \in 0 .. MaxDeaths
  /\ preState \in [Rows -> Pre!Pay!States]
  /\ preTold \subseteq Rows

PreInv == PreType /\ Untouched /\ PaidWasTold /\ ConvertBound /\ PaidIsKept

LEMMA PreMove ==
  ASSUME NEW S \in SUBSET Rows, NEW from, NEW to \in Pre!Pay!States, PreType,
         Pre!Pay!Move(S, from, to)
  PROVE  preState' \in [Rows -> Pre!Pay!States] /\ preTold' = preTold
BY DEF Pre!Pay!Move, PreType

\* A payment's push is opened, answered, closed or reversed.
LEMMA PrePayment ==
  ASSUME PreType, NEW p \in Rows, Pre!Push(p) \/ Pre!Payment(p)
  PROVE  /\ preState' \in [Rows -> Pre!Pay!States] /\ preTold' = preTold
         /\ UNCHANGED <<preRow, due, gone, kept, made, linked, preDoing, preReceiver, purge, doomed, deaths>>
<1>1. \E from : \E to \in Pre!Pay!States : Pre!Pay!Move({p}, from, to)
  BY DEF Pre!Push, Pre!Payment, Pre!Pay!Open, Pre!Pay!Settle, Pre!Pay!Close, Pre!Pay!Refund,
         Pre!Pay!States
<1>2. preState' \in [Rows -> Pre!Pay!States] /\ preTold' = preTold
  BY <1>1, PreMove
<1> QED
  BY <1>2 DEF Pre!Push, Pre!Payment, Pre!rowVars, Pre!orderVars, Pre!purgeVars

LEMMA PreTypeStep == PreType /\ [Pre!Next]_(Pre!vars) => PreType'
<1> SUFFICES ASSUME PreType, [Pre!Next]_(Pre!vars)
             PROVE  PreType'
  OBVIOUS
<1> USE RestaurantAssumption
    DEF PreType, Pre!Status, Pre!rowVars, Pre!orderVars, Pre!purgeVars, Pre!ledgerVars
<1>1. ASSUME NEW q \in Requests, Pre!Leave(q)
      PROVE  PreType'
  BY <1>1 DEF Pre!Leave
<1>2. ASSUME NEW q \in Requests, NEW p \in Rows, Pre!Request(q, p)
      PROVE  PreType'
  <2>1. CASE Pre!ReadToConvert(q, p)
    BY <2>1 DEF Pre!ReadToConvert, Pre!Finds
  <2>2. ASSUME NEW read \in Pre!Status, Pre!Convert(q, p, read)
        PROVE  PreType'
    BY <2>2 DEF Pre!Convert
  <2> QED
    BY <1>2, <2>1, <2>2 DEF Pre!Request
<1>3. ASSUME NEW p \in Rows, Pre!Push(p) \/ Pre!Payment(p)
      PROVE  PreType'
  BY <1>3, PrePayment
<1>4. ASSUME NEW p \in Rows, Pre!Create(p) \/ Pre!Expire(p) \/ Pre!LoseReceiver(p)
      PROVE  PreType'
  BY <1>4 DEF Pre!Create, Pre!Expire, Pre!LoseReceiver
<1>5. ASSUME NEW p \in Rows, Pre!Receive(p)
      PROVE  PreType'
  BY <1>5 DEF Pre!Receive, Pre!Pay!Tell
<1>6. ASSUME NEW p \in Rows, Pre!MarkPaid(p)
      PROVE  PreType'
  BY <1>6 DEF Pre!MarkPaid
<1>7. CASE Pre!Purge
  BY <1>7 DEF Pre!Purge, Pre!PurgeMark, Pre!PurgeRead, Pre!PurgeDelete, Pre!PurgeEnd
<1>8. CASE Pre!PurgeDies
  BY <1>8 DEF Pre!PurgeDies
<1>9. CASE UNCHANGED Pre!vars
  BY <1>9 DEF Pre!vars
<1> QED
  BY <1>1, <1>2, <1>3, <1>4, <1>5, <1>6, <1>7, <1>8, <1>9 DEF Pre!Next

\* There are no more requests that convert a row than there are requests.
LEMMA ConvertingCount ==
  ASSUME NEW p
  PROVE  /\ IsFiniteSet(Pre!Converting(p)) /\ IsFiniteSet(Pre!Converting(p)')
         /\ Cardinality(Pre!Converting(p)) \in 0 .. Cardinality(Requests)
         /\ Cardinality(Pre!Converting(p)') \in 0 .. Cardinality(Requests)
<1>1. Pre!Converting(p) \in SUBSET Requests /\ Pre!Converting(p)' \in SUBSET Requests
  BY DEF Pre!Converting
<1>2. /\ IsFiniteSet(Pre!Converting(p)) /\ IsFiniteSet(Pre!Converting(p)')
      /\ Cardinality(Pre!Converting(p)) <= Cardinality(Requests)
      /\ Cardinality(Pre!Converting(p)') <= Cardinality(Requests)
  BY <1>1, RequestsCount, FS_Subset
<1> QED
  BY <1>2, RequestsCount, FS_CardinalityType

\* The bound that holds of a row.
Most(p) == IF p \in preTold \ preReceiver THEN 2 * Cardinality(Requests) ELSE Cardinality(Requests)

\* Cardinality is that of the module's own FiniteSets.
LEMMA PreCardinality == \A S : Pre!Cardinality(S) = Cardinality(S)
BY DEF Pre!Cardinality, Cardinality

LEMMA ConvertBoundOfRows ==
  ConvertBound <=> \A p \in Rows : made[p] + Cardinality(Pre!Converting(p)) <= Most(p)
BY PreCardinality DEF ConvertBound, Pre!ConvertBound, Most

\* Requests that leave a row, and receivers that are told of one, keep its bound.
LEMMA BoundKept ==
  ASSUME PreInv, NEW p \in Rows, made'[p] = made[p],
         Pre!Converting(p)' \subseteq Pre!Converting(p),
         p \in preTold \ preReceiver => p \in preTold' \ preReceiver'
  PROVE  made'[p] + Cardinality(Pre!Converting(p)') <= Most(p)'
<1>1. made[p] + Cardinality(Pre!Converting(p)) <= Most(p) /\ made[p] \in Nat
  BY ConvertBoundOfRows DEF PreInv, PreType
<1>2. Cardinality(Pre!Converting(p)') <= Cardinality(Pre!Converting(p))
  BY ConvertingCount, FS_Subset
<1>3. Most(p) <= Most(p)' /\ Most(p) \in Nat /\ Most(p)' \in Nat
  BY RequestsCount DEF Most
<1> QED
  BY <1>1, <1>2, <1>3, ConvertingCount

LEMMA PreInvStep == PreInv /\ [Pre!Next]_(Pre!vars) => PreInv'
<1> SUFFICES ASSUME PreInv, [Pre!Next]_(Pre!vars)
             PROVE  Untouched' /\ PaidWasTold' /\ ConvertBound' /\ PaidIsKept'
  BY PreTypeStep DEF PreInv
<1> PreType /\ PreType'
  BY PreTypeStep DEF PreInv
<1> DEFINE Bounded == \A p \in Rows : made'[p] + Cardinality(Pre!Converting(p)') <= Most(p)'
<1>0. SUFFICES Untouched' /\ PaidWasTold' /\ Bounded /\ PaidIsKept'
  BY PreCardinality DEF ConvertBound, Pre!ConvertBound, Most
<1> HIDE DEF Bounded
<1> USE DEF Pre!rowVars, Pre!orderVars, Pre!purgeVars, Pre!ledgerVars
<1>1. ASSUME NEW q \in Requests, Pre!Leave(q)
      PROVE  Untouched' /\ PaidWasTold' /\ Bounded /\ PaidIsKept'
  <2>1. \A p \in Rows : Pre!Converting(p)' \subseteq Pre!Converting(p)
    BY <1>1 DEF Pre!Leave, Pre!Converting, Pre!Idle, PreType
  <2>2. Bounded
    BY <1>1, <2>1, BoundKept DEF Bounded, Pre!Leave
  <2> QED
    BY <1>1, <2>2 DEF PreInv, Untouched, PaidWasTold, PaidIsKept, Pre!PaidIsKept, Pre!Leave
<1>2. ASSUME NEW q \in Requests, NEW p \in Rows, Pre!Request(q, p)
      PROVE  Untouched' /\ PaidWasTold' /\ Bounded /\ PaidIsKept'
  <2>1. CASE Pre!ReadToConvert(q, p)
    <3>1. made[p] <= Cardinality(Requests) /\ (preRow[p] # "PAID" => made[p] = 0)
          /\ (preRow[p] = "PAID" => p \in preTold \ preReceiver)
      BY <2>1, RequestsCount DEF Pre!ReadToConvert, Pre!Finds, PreInv, Untouched, PaidWasTold
    <3>2. made[p] + Cardinality(Pre!Converting(p)') <= Most(p)'
      BY <2>1, <3>1, ConvertingCount, RequestsCount DEF Most, Pre!ReadToConvert, PreType
    <3>3. ASSUME NEW r \in Rows, r # p
          PROVE  Pre!Converting(r)' \subseteq Pre!Converting(r)
      BY <2>1, <3>3 DEF Pre!ReadToConvert, Pre!Converting, PreType
    <3>4. Bounded
      BY <2>1, <3>2, <3>3, BoundKept DEF Bounded, Pre!ReadToConvert
    <3> QED
      BY <2>1, <3>4 DEF PreInv, Untouched, PaidWasTold, PaidIsKept, Pre!PaidIsKept,
                        Pre!ReadToConvert
  <2>2. ASSUME NEW read \in Pre!Status, Pre!Convert(q, p, read)
        PROVE  Untouched' /\ PaidWasTold' /\ Bounded /\ PaidIsKept'
    <3>1. q \in Pre!Converting(p)
      BY <2>2 DEF Pre!Convert, Pre!Converting
    <3>2. \A r \in Rows : Pre!Converting(r)' \subseteq Pre!Converting(r) \ {q}
      BY <2>2 DEF Pre!Convert, Pre!Converting, Pre!Idle, PreType
    <3>3. /\ made'[p] = made[p] + 1
          /\ \A r \in Rows \ {p} : made'[r] = made[r] /\ preRow'[r] = preRow[r]
          /\ preRow'[p] = "CONVERTED"
          /\ UNCHANGED <<due, gone, kept, preReceiver, purge, doomed, deaths, preState, preTold>>
      BY <2>2 DEF Pre!Convert, PreType
    <3>4. made'[p] + Cardinality(Pre!Converting(p)') <= Most(p)'
      <4>1. Cardinality(Pre!Converting(p) \ {q}) = Cardinality(Pre!Converting(p)) - 1
            /\ IsFiniteSet(Pre!Converting(p) \ {q})
        BY <3>1, ConvertingCount, FS_RemoveElement
      <4>2. Cardinality(Pre!Converting(p)') <= Cardinality(Pre!Converting(p)) - 1
        BY <3>2, <4>1, FS_Subset
      <4>3. Most(p)' = Most(p) /\ Most(p) \in Nat
        BY <3>3, RequestsCount DEF Most
      <4>4. made[p] + Cardinality(Pre!Converting(p)) <= Most(p) /\ made[p] \in Nat
        BY ConvertBoundOfRows DEF PreInv, PreType
      <4> QED
        BY <3>3, <4>2, <4>3, <4>4, ConvertingCount
    <3>5. Bounded
      BY <3>2, <3>3, <3>4, BoundKept DEF Bounded
    <3> QED
      BY <3>3, <3>5 DEF PreInv, PreType, Untouched, PaidWasTold, PaidIsKept, Pre!PaidIsKept
  <2> QED
    BY <1>2, <2>1, <2>2 DEF Pre!Request
<1>3. ASSUME UNCHANGED <<made, preDoing>>,
             preTold \subseteq preTold', \A p \in preReceiver' : p \in preReceiver \/ p \notin preTold
      PROVE  Bounded
  <2>1. \A p \in Rows : Pre!Converting(p)' \subseteq Pre!Converting(p)
    BY <1>3 DEF Pre!Converting
  <2> QED
    BY <1>3, <2>1, BoundKept DEF Bounded
<1>4. ASSUME NEW p \in Rows, Pre!Push(p) \/ Pre!Payment(p)
      PROVE  Untouched' /\ PaidWasTold' /\ Bounded /\ PaidIsKept'
  BY <1>3, <1>4, PrePayment DEF PreInv, Untouched, PaidWasTold, PaidIsKept, Pre!PaidIsKept
<1>5. ASSUME NEW p \in Rows, Pre!Create(p) \/ Pre!Expire(p) \/ Pre!LoseReceiver(p)
      PROVE  Untouched' /\ PaidWasTold' /\ Bounded /\ PaidIsKept'
  <2>1. Bounded
    BY <1>3, <1>5 DEF Pre!Create, Pre!Expire, Pre!LoseReceiver
  <2> QED
    BY <1>5, <2>1 DEF Pre!Create, Pre!Expire, Pre!LoseReceiver, PreType, PreInv, Untouched,
                     PaidWasTold, PaidIsKept, Pre!PaidIsKept
<1>6. ASSUME NEW p \in Rows, Pre!Receive(p)
      PROVE  Untouched' /\ PaidWasTold' /\ Bounded /\ PaidIsKept'
  <2>1. /\ p \notin preTold /\ preTold' = preTold \cup {p}
        /\ preReceiver' \subseteq preReceiver \cup {p}
        /\ UNCHANGED <<preRow, due, gone, kept, made, linked, preDoing, purge, doomed, deaths>>
    BY <1>6 DEF Pre!Receive, Pre!Pay!Tell
  <2>2. Bounded
    BY <1>3, <2>1
  <2> QED
    BY <2>1, <2>2 DEF PreInv, Untouched, PaidWasTold, PaidIsKept, Pre!PaidIsKept
<1>7. ASSUME NEW p \in Rows, Pre!MarkPaid(p)
      PROVE  Untouched' /\ PaidWasTold' /\ Bounded /\ PaidIsKept'
  <2>1. /\ p \in preReceiver /\ preReceiver' = preReceiver \ {p}
        /\ preRow' = [preRow EXCEPT ![p] = "PAID"]
        /\ kept' = kept \cup ({p} \ (gone \cup doomed))
        /\ UNCHANGED <<due, gone, made, linked, preDoing, purge, doomed, deaths, preState, preTold>>
    BY <1>7 DEF Pre!MarkPaid
  <2>2. Bounded
    BY <1>3, <2>1
  <2>3. made[p] <= Cardinality(Requests)
    <3>1. made[p] + Cardinality(Pre!Converting(p)) <= Cardinality(Requests) /\ made[p] \in Nat
      BY <2>1, ConvertBoundOfRows DEF Most, PreInv, PreType
    <3> QED
      BY <3>1, ConvertingCount, RequestsCount
  <2> QED
    BY <2>1, <2>2, <2>3 DEF PreInv, PreType, Untouched, PaidWasTold, PaidIsKept, Pre!PaidIsKept
<1>8. CASE Pre!Purge
  <2>1. UNCHANGED <<kept, made, preDoing, preReceiver, preTold>>
    BY <1>8 DEF Pre!Purge, Pre!PurgeMark, Pre!PurgeRead, Pre!PurgeDelete, Pre!PurgeEnd
  <2>2. Bounded
    BY <1>3, <2>1
  <2>3. CASE Pre!PurgeMark \/ Pre!PurgeRead \/ Pre!PurgeEnd
    BY <2>1, <2>2, <2>3 DEF PreInv, PreType, Untouched, PaidWasTold, PaidIsKept, Pre!PaidIsKept,
                           Pre!PurgeMark, Pre!PurgeRead, Pre!PurgeEnd, Pre!Finds
  <2>4. ASSUME NEW p \in Rows, Pre!PurgeDelete(p)
        PROVE  Untouched' /\ PaidWasTold' /\ Bounded /\ PaidIsKept'
    BY <2>1, <2>2, <2>4 DEF PreInv, PreType, Untouched, PaidWasTold, PaidIsKept, Pre!PaidIsKept,
                           Pre!PurgeDelete
  <2> QED
    BY <1>8, <2>3, <2>4 DEF Pre!Purge
<1>9. CASE Pre!PurgeDies
  <2>1. Bounded
    BY <1>3, <1>9 DEF Pre!PurgeDies
  <2> QED
    BY <1>9, <2>1 DEF PreInv, Untouched, PaidWasTold, PaidIsKept, Pre!PaidIsKept, Pre!PurgeDies
<1>10. CASE UNCHANGED Pre!vars
  <2>1. Bounded
    BY <1>3, <1>10 DEF Pre!vars
  <2> QED
    BY <1>10, <2>1 DEF PreInv, Untouched, PaidWasTold, PaidIsKept, Pre!PaidIsKept, Pre!vars
<1> QED
  BY <1>1, <1>2, <1>4, <1>5, <1>6, <1>7, <1>8, <1>9, <1>10 DEF Pre!Next

LEMMA PreInitInv == Pre!Init => PreInv
<1> SUFFICES ASSUME Pre!Init PROVE PreInv
  OBVIOUS
<1>1. PreType
  BY RestaurantAssumption DEF Pre!Init, PreType, Pre!Pay!Init, Pre!Pay!States, Pre!Status
<1>2. Untouched /\ PaidWasTold /\ PaidIsKept
  BY DEF Pre!Init, Untouched, PaidWasTold, PaidIsKept, Pre!PaidIsKept
<1>3. ConvertBound
  <2> SUFFICES ASSUME NEW p \in Rows
               PROVE  made[p] + Cardinality(Pre!Converting(p)) <= Most(p)
    BY ConvertBoundOfRows
  <2>1. made[p] = 0 /\ Most(p) = Cardinality(Requests)
    BY DEF Pre!Init, Pre!Pay!Init, Most
  <2> QED
    BY <2>1, ConvertingCount, RequestsCount
<1> QED
  BY <1>1, <1>2, <1>3 DEF PreInv

LEMMA PreSafe == Pre!Spec => []PreInv
BY PreInitInv, PreInvStep, PTL DEF Pre!Spec

\* For any number of pre-orders and requests, the kitchen cooks a pre-order once for
\* each request that had read it, and as often again after the receiver's PAID.
THEOREM ConversionsAreBounded == Pre!Spec => []ConvertBound
<1>1. PreInv => ConvertBound
  BY DEF PreInv
<1> QED
  BY <1>1, PreSafe, PTL

\* A pre-order the receiver has marked as paid, in whatever state it then was, is never
\* purged, unless a purge had already read it as expired; however the purges, the
\* requests and the receivers of its store overlap.
THEOREM PaidPreOrdersAreKept == Pre!Spec => []PaidIsKept
<1>1. PreInv => PaidIsKept
  BY DEF PreInv
<1> QED
  BY <1>1, PreSafe, PTL

LEMMA PreTypeCorrect == PreInv => Pre!TypeOK
<1> SUFFICES ASSUME PreInv PROVE Pre!TypeOK
  OBVIOUS
<1>1. ASSUME NEW p \in Rows
      PROVE  made[p] \in 0 .. 2 * Cardinality(Requests)
  <2>1. made[p] + Cardinality(Pre!Converting(p)) <= Most(p) /\ made[p] \in Nat
    BY ConvertBoundOfRows DEF PreInv, PreType
  <2>2. Most(p) \in Nat /\ Most(p) <= 2 * Cardinality(Requests)
    BY RequestsCount DEF Most
  <2> QED
    BY <2>1, <2>2, ConvertingCount, RequestsCount
<1>2. made \in [Rows -> 0 .. 2 * Pre!Cardinality(Requests)]
  BY <1>1, PreCardinality DEF PreInv, PreType
<1> QED
  BY <1>2 DEF PreInv, PreType, Pre!TypeOK

-----------------------------------------------------------------------------
(* Orders that are picked up: only orders that were placed are pushed, so that  *)
(* the receiver is told of those alone.                                         *)

GoInv ==
  /\ placed \subseteq Takeaways
  /\ pickup \in [Takeaways -> 0 .. Cardinality(Takeaways)]
  /\ count \in [Takeaways -> 0 .. Cardinality(Takeaways)]
  /\ naming \in [Takeaways -> {"idle", "queued", "counted"}]
  /\ goState \in [Takeaways -> Go!Pay!States]
  /\ goTold \subseteq placed
  /\ \A o \in Takeaways : goState[o] # "absent" => o \in placed

LEMMA GoCardinality == \A S : Go!Cardinality(S) = Cardinality(S)
BY DEF Go!Cardinality, Cardinality

LEMMA GoMove ==
  ASSUME GoInv, NEW S \in SUBSET placed, NEW from, NEW to \in Go!Pay!States,
         Go!Pay!Move(S, from, to)
  PROVE  /\ goState' \in [Takeaways -> Go!Pay!States] /\ goTold' = goTold
         /\ \A o \in Takeaways : goState'[o] # "absent" => o \in placed
BY DEF Go!Pay!Move, GoInv

LEMMA GoStep == GoInv /\ [Go!Next]_(Go!vars) => GoInv'
<1> SUFFICES ASSUME GoInv, [Go!Next]_(Go!vars)
             PROVE  GoInv'
  OBVIOUS
<1>1. ASSUME NEW o \in Takeaways, Go!Place(o)
      PROVE  GoInv'
  BY <1>1 DEF GoInv, Go!Place, Go!ledgerVars
<1>2. ASSUME NEW o \in Takeaways, Go!Push(o) \/ Go!Payment(o)
      PROVE  GoInv'
  <2>1. \E from : \E to \in Go!Pay!States : o \in placed /\ Go!Pay!Move({o}, from, to)
    <3>1. CASE Go!Push(o)
      BY <3>1 DEF Go!Push, Go!Pay!Open, Go!Pay!States
    <3>2. CASE Go!Payment(o)
      BY <3>2 DEF GoInv, Go!Payment, Go!Pay!Settle, Go!Pay!Close, Go!Pay!Refund,
                  Go!Pay!Move, Go!Pay!States
    <3> QED
      BY <1>2, <3>1, <3>2
  <2>2. UNCHANGED <<placed, pickup, naming, count>>
    BY <1>2 DEF Go!Push, Go!Payment
  <2> QED
    BY <2>1, <2>2, GoMove DEF GoInv
<1>3. ASSUME NEW o \in Takeaways, Go!Receive(o)
      PROVE  GoInv'
  <2>1. o \in placed
    BY <1>3 DEF GoInv, Go!Receive, Go!Pay!Tell
  <2> QED
    BY <1>3, <2>1 DEF GoInv, Go!Receive, Go!Pay!Tell
<1>4. ASSUME NEW o \in Takeaways, Go!CountOrders(o)
      PROVE  GoInv'
  <2>1. Cardinality(placed) \in 0 .. Cardinality(Takeaways)
    BY RestaurantAssumption, FS_Subset, FS_CardinalityType DEF GoInv
  <2> QED
    BY <1>4, <2>1, GoCardinality DEF GoInv, Go!CountOrders, Go!ledgerVars
<1>5. ASSUME NEW o \in Takeaways, Go!SaveReference(o) \/ Go!LoseTask(o)
      PROVE  GoInv'
  <2>1. 0 \in 0 .. Cardinality(Takeaways)
    BY RestaurantAssumption, FS_CardinalityType
  <2> QED
    BY <1>5, <2>1 DEF GoInv, Go!SaveReference, Go!LoseTask, Go!ledgerVars
<1>6. CASE UNCHANGED Go!vars
  BY <1>6 DEF GoInv, Go!vars, Go!ledgerVars
<1> QED
  BY <1>1, <1>2, <1>3, <1>4, <1>5, <1>6 DEF Go!Next

LEMMA GoSafe == Go!Spec => []GoInv
<1>1. Go!Init => GoInv
  BY RestaurantAssumption, FS_CardinalityType DEF Go!Init, Go!Pay!Init, Go!Pay!States, GoInv
<1> QED
  BY <1>1, GoStep, PTL DEF Go!Spec

LEMMA GoTypeCorrect == GoInv => Go!TypeOK
BY GoCardinality DEF GoInv, Go!TypeOK

-----------------------------------------------------------------------------
(* The restaurant is made of its parts: whichever moves, it makes its own steps *)
(* and the others none.                                                         *)

LEMMA RestaurantIsItsParts == RestaurantSpec => Table!Spec /\ Pre!Spec /\ Go!Spec
<1>1. RestaurantInit => Table!Init /\ Pre!Init /\ Go!Init
  BY DEF RestaurantInit
<1>2. [RestaurantNext]_<<part, vars, tableVars, preVars, goVars>>
        => [Table!Next]_(Table!vars) /\ [Pre!Next]_(Pre!vars) /\ [Go!Next]_(Go!vars)
  BY DEF RestaurantNext, tableVars, preVars, goVars, Table!vars, Table!kitchenVars,
         Table!bookingVars, Table!billVars, Table!receiverVars, Table!ledgerVars, Pre!vars,
         Pre!rowVars, Pre!orderVars, Pre!purgeVars, Pre!ledgerVars, Go!vars, Go!ledgerVars
<1> QED
  BY <1>1, <1>2, PTL DEF RestaurantSpec, Table!Spec, Pre!Spec, Go!Spec

\* The states of the table, of the pre-orders and of the takeaway orders are of their
\* types; an order converted more often than ConvertBound allows would not be.
THEOREM RestaurantTypes == RestaurantSpec => []RestaurantTypeOK
<1>1. Table!Init => IInv
  BY InitInv
<1>2. IInv /\ [Table!Next]_(Table!vars) => IInv'
  BY NextInv
<1>3. IInv /\ PreInv /\ GoInv => RestaurantTypeOK
  BY PreTypeCorrect, GoTypeCorrect DEF IInv, RestaurantTypeOK
<1> QED
  BY <1>1, <1>2, <1>3, PreSafe, GoSafe, RestaurantIsItsParts, PTL DEF Table!Spec
=============================================================================
