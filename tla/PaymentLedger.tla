---------------------------- MODULE PaymentLedger ----------------------------
(***************************************************************************)
(* What the payment component promises the rest of the system: a payment   *)
(* is opened once, is then either paid or closed for good, only a paid one *)
(* is refunded, and the receivers of payment_confirmed are told of a paid  *)
(* one at most once.                                                       *)
(***************************************************************************)
EXTENDS Naturals

CONSTANT Checkouts

VARIABLES
  state,  \* life of each payment
  told    \* payments the receivers were told of

ledger == <<state, told>>

States == {"absent", "open", "paid", "closed", "refunded"}

Init ==
  /\ state = [c \in Checkouts |-> "absent"]
  /\ told  = {}

\* Moves every payment of S, which are all in state a, to state b.
Move(S, a, b) ==
  /\ \A c \in S : state[c] = a
  /\ state' = [c \in Checkouts |-> IF c \in S THEN b ELSE state[c]]
  /\ told'  = told

Open(c)   == Move({c}, "absent", "open")
Settle(c) == Move({c}, "open", "paid")
Close(S)  == Move(S, "open", "closed")
Refund(c) == Move({c}, "paid", "refunded")

Tell(c) ==
  /\ c \notin told
  /\ state[c] \in {"paid", "refunded"}
  /\ told'  = told \cup {c}
  /\ state' = state

Next ==
  \/ \E c \in Checkouts : Open(c) \/ Settle(c) \/ Refund(c) \/ Tell(c)
  \/ \E S \in SUBSET Checkouts : Close(S)

Spec == Init /\ [][Next]_ledger
=============================================================================
