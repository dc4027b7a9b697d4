-------------------------- MODULE PaymentRefinement --------------------------
(***************************************************************************)
(* Payment implements PaymentLedger wherever no run of reconcile_payments  *)
(* overlaps the other writers. With one, its unconditional save may turn a *)
(* row that expired, failed or was reversed since it was read back into a  *)
(* confirmed one.                                                          *)
(***************************************************************************)
EXTENDS Payment

\* The ledger's view of a row's status.
LedgerState(status) ==
  CASE status = "none"      -> "absent"
    [] status = Initiated   -> "open"
    [] status = "CONFIRMED" -> "paid"
    [] status = "REVERSED"  -> "refunded"
    [] OTHER                -> "closed"

Ledger == INSTANCE PaymentLedger WITH
  state <- [c \in Checkouts |-> LedgerState(row[c])],
  told  <- {c \in Checkouts : announced[c] > 0}

\* The rows of apps/payment and the signals sent about them behave like the
\* ledger: settled once, told at most once, refunded only when paid.
ImplementsLedger == Ledger!Spec
=============================================================================
