---------------------------- MODULE MCRestaurant ----------------------------
(***************************************************************************)
(* The pushes that requests overlap on (Payment without a reconciliation,  *)
(* as PaymentRefinement says), and the restaurant that is paid by them:    *)
(* one table with its walk-ins and its reservation, the orders placed      *)
(* before arrival, and those that are picked up. The four share no state,  *)
(* as the restaurant knows of a push what the ledger tells, so that their  *)
(* product would show nothing new: a behaviour is one of them, as part     *)
(* says, and the others stand still.                                       *)
(***************************************************************************)
EXTENDS PaymentRefinement, TLC

CONSTANTS
  Sessions, Orders, Shares, Reservations, \* TableSession
  Rows, MaxDeaths,                        \* PreOrder
  Takeaways                               \* Takeaway

ASSUME RestaurantAssumption ==
  /\ IsFiniteSet(Requests) /\ Requests # {}
  /\ None \notin Sessions
  /\ MaxDeaths \in Nat
  /\ IsFiniteSet(Takeaways)

VARIABLES
  part,
  session, ticket, order, late, booking, seated, share, bill, doing, receiver, seen,
  state, told,
  preRow, due, gone, kept, made, linked, preDoing, preReceiver, purge, doomed, deaths,
  preState, preTold,
  placed, pickup, naming, count, goState, goTold

tableVars == <<session, ticket, order, late, booking, seated, share, bill, doing, receiver, seen,
               state, told>>
preVars   == <<preRow, due, gone, kept, made, linked, preDoing, preReceiver, purge, doomed, deaths,
               preState, preTold>>
goVars    == <<placed, pickup, naming, count, goState, goTold>>

Table == INSTANCE TableSession
Pre   == INSTANCE PreOrder WITH
  row <- preRow, doing <- preDoing, receiver <- preReceiver,
  state <- preState, told <- preTold
Go    == INSTANCE Takeaway WITH state <- goState, told <- goTold

RestaurantInit ==
  /\ part \in {"payment", "table", "preorder", "takeaway"}
  /\ Init /\ Table!Init /\ Pre!Init /\ Go!Init

RestaurantNext ==
  \/ part = "payment" /\ Next /\ UNCHANGED <<part, tableVars, preVars, goVars>>
  \/ part = "table" /\ Table!Next /\ UNCHANGED <<part, vars, preVars, goVars>>
  \/ part = "preorder" /\ Pre!Next /\ UNCHANGED <<part, vars, tableVars, goVars>>
  \/ part = "takeaway" /\ Go!Next /\ UNCHANGED <<part, vars, tableVars, preVars>>

RestaurantSpec ==
  RestaurantInit /\ [][RestaurantNext]_<<part, vars, tableVars, preVars, goVars>>

\* Requests are interchangeable, and so are checkouts and the two rows. A row is
\* only exchanged together with two checkouts, as no behaviour has both.
Symmetry ==
  Permutations(Requests) \cup
    {p \in Permutations(Checkouts \cup Rows) :
       /\ Cardinality({c \in Checkouts : p[c] # c}) = 2
       /\ \A r \in Rows : p[r] \in Rows \ {r}}

\* The states of the restaurant are of their types.
RestaurantTypeOK == Table!TypeOK /\ Pre!TypeOK /\ Go!TypeOK

\* An order agrees with its ticket (TableSession).
TicketMirrorsOrder == Table!TicketMirrorsOrder

\* Orders come late only from requests that had read an open session (TableSession).
LateOrders == Table!LateOrders

\* A session that has ended is not open again, and only a request for the bill takes
\* back that it was closed (TableSession).
NeverReopened == Table!NeverReopened

\* Pre-orders are cooked once for each request that had read them (PreOrder).
ConvertBound == Pre!ConvertBound

\* A pre-order that is marked as paid before a purge has read it as expired is kept
\* (PreOrder).
PaidIsKept == Pre!PaidIsKept
=============================================================================
