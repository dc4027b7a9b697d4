------------------------------- MODULE BarTab -------------------------------
(***************************************************************************)
(* A bar tab of apps/bar: rounds are added and items removed while it is   *)
(* open, the bill is requested, the bill is split into shares that are     *)
(* pushed to their payers' phones, and the receiver of payment_confirmed   *)
(* settles the tab (apps.py). Every request reads the tab once, checks its *)
(* status and commits what it has to write later (ATOMIC_REQUESTS), with   *)
(* no lock on the tab; the receiver runs in a Celery worker, where every   *)
(* query is a transaction of its own. Payments are those of the ledger.    *)
(***************************************************************************)
EXTENDS Naturals, FiniteSets

CONSTANTS
  Rounds,   \* rounds that may be added to the tab, one item each
  Requests, \* staff requests that may be in progress at once
  Shares    \* TabShare rows that may be created

VARIABLES
  tab,      \* Tab.status
  item,     \* each round's item: not there, on the tab, removed, or served late
  doing,    \* what a request has read the tab for
  number,   \* TabRound.round_number a request has computed
  numbered, \* round numbers that are taken
  unsettled, \* times a request for the bill took a settled tab back
  share,    \* TabShare.status, or "none"
  receiver, \* where the receiver is with the payment of a share
  seen,     \* Tab.status the receiver read with the share
  lost,     \* receivers whose worker died
  state,    \* PaymentLedger: life of each share's push
  told      \* PaymentLedger: pushes the receiver was told of

requestVars  == <<doing, number, numbered, unsettled>>
receiverVars == <<receiver, seen, lost>>
ledgerVars   == <<state, told>>
vars == <<tab, item, share, requestVars, receiverVars, ledgerVars>>

Pay == INSTANCE PaymentLedger WITH Checkouts <- Shares

\* Tab.VALID_TRANSITIONS
Statuses == {"OPEN", "BILL_REQUESTED", "SETTLED"}
Allowed(from, to) ==
  <<from, to>> \in {<<"OPEN", "BILL_REQUESTED">>, <<"BILL_REQUESTED", "SETTLED">>}

Init ==
  /\ tab      = "OPEN"
  /\ item     = [i \in Rounds |-> "none"]
  /\ doing    = [q \in Requests |-> "nothing"]
  /\ number   = [q \in Requests |-> 0]
  /\ numbered = {}
  /\ unsettled = 0
  /\ share    = [s \in Shares |-> "none"]
  /\ receiver = [s \in Shares |-> "idle"]
  /\ seen     = [s \in Shares |-> "none"]
  /\ lost     = {}
  /\ Pay!Init

-----------------------------------------------------------------------------
(* Requests *)

\* A view reads the tab and goes on when its status is the one it needs.
Begin(q, what, status) ==
  /\ doing[q] = "nothing" /\ tab = status
  /\ doing' = [doing EXCEPT ![q] = what]
  /\ UNCHANGED <<tab, item, share, number, numbered, unsettled, receiverVars, ledgerVars>>

\* Mutant: rounds are accepted until the tab is settled.
BeginRoundUnsettled(q) ==
  \E status \in {"OPEN", "BILL_REQUESTED"} : Begin(q, "round", status)

\* Mutant: the bill may be requested again.
BeginBillAgain(q) ==
  \E status \in {"OPEN", "BILL_REQUESTED"} : Begin(q, "bill", status)

BeginRound(q)  == Begin(q, "round", "OPEN")
BeginRemove(q) == Begin(q, "remove", "OPEN")
BeginBill(q)   == Begin(q, "bill", "OPEN")
BeginSplit(q)  == Begin(q, "split", "BILL_REQUESTED")

\* The response, an exception or the death of the worker: nothing is written.
Leave(q) ==
  /\ doing[q] # "nothing"
  /\ doing'  = [doing EXCEPT ![q] = "nothing"]
  /\ number' = [number EXCEPT ![q] = 0]
  /\ UNCHANGED <<tab, item, share, numbered, unsettled, receiverVars, ledgerVars>>

Committed(q) ==
  /\ doing'  = [doing EXCEPT ![q] = "nothing"]
  /\ number' = [number EXCEPT ![q] = 0]

\* Mutant: numbers that other requests computed are skipped.
NumberAfterOthers(q) ==
  /\ doing[q] = "round" /\ number[q] = 0
  /\ number' = [number EXCEPT ![q] =
       Cardinality(numbered) + Cardinality({p \in Requests : number[p] # 0}) + 1]
  /\ UNCHANGED <<tab, item, share, doing, numbered, unsettled, receiverVars, ledgerVars>>

\* AddRoundView: the last round number is read inside the atomic block.
NumberRound(q) ==
  /\ doing[q] = "round" /\ number[q] = 0
  /\ number' = [number EXCEPT ![q] = Cardinality(numbered) + 1]
  /\ UNCHANGED <<tab, item, share, doing, numbered, unsettled, receiverVars, ledgerVars>>

\* The round commits, unless its number has been taken: the unique constraint
\* then fails the request (Leave).
CommitRound(q, i) ==
  /\ doing[q] = "round" /\ number[q] # 0 /\ number[q] \notin numbered
  /\ item[i] = "none"
  /\ item' = [item EXCEPT ![i] = IF tab = "OPEN" THEN "on" ELSE "late"]
  /\ numbered' = numbered \cup {number[q]}
  /\ Committed(q)
  /\ UNCHANGED <<tab, share, unsettled, receiverVars, ledgerVars>>

\* RemoveTabItemView. An item another request has removed meanwhile is removed,
\* and its audit fields are written, once more.
CommitRemove(q, i) ==
  /\ doing[q] = "remove" /\ item[i] # "none"
  /\ item' = [item EXCEPT ![i] = "removed"]
  /\ Committed(q)
  /\ UNCHANGED <<tab, share, numbered, unsettled, receiverVars, ledgerVars>>

\* RequestBillView: transition() checked the status that was read, OPEN, and
\* saves over whatever the tab has become.
CommitBill(q) ==
  /\ doing[q] = "bill"
  /\ tab' = "BILL_REQUESTED"
  /\ unsettled' = unsettled + (IF tab = "SETTLED" THEN 1 ELSE 0)
  /\ Committed(q)
  /\ UNCHANGED <<item, share, numbered, receiverVars, ledgerVars>>

\* SplitTabView: shares S are created and pushed, and Daraja refuses those of F.
CommitSplit(q, S, F) ==
  /\ doing[q] = "split" /\ S # {} /\ F \subseteq S
  /\ \A s \in S : share[s] = "none"
  /\ share' = [s \in Shares |-> IF s \in F THEN "FAILED"
                                ELSE IF s \in S THEN "PENDING" ELSE share[s]]
  /\ Pay!Move(S \ F, "absent", "open")
  /\ Committed(q)
  /\ UNCHANGED <<tab, item, numbered, unsettled, receiverVars>>

-----------------------------------------------------------------------------
(* The payment of a share, and the receiver of its signal *)

\* A share whose push Daraja refused, or whose push expired or failed, may be pushed
\* again by InitiateStkPushView, with its reference.
Repush(s) ==
  /\ share[s] # "none"
  /\ Pay!Open(s) \/ Pay!Move({s}, "closed", "open")
  /\ UNCHANGED <<tab, item, share, requestVars, receiverVars>>

Payment(s) ==
  /\ Pay!Settle(s) \/ Pay!Close({s}) \/ Pay!Refund(s)
  /\ UNCHANGED <<tab, item, share, requestVars, receiverVars>>

\* payment_confirmed is received: the share is read together with its tab.
Receive(s) ==
  /\ Pay!Tell(s)
  /\ IF share[s] = "none" THEN UNCHANGED <<receiver, seen>>
     ELSE /\ receiver' = [receiver EXCEPT ![s] = "read"]
          /\ seen' = [seen EXCEPT ![s] = tab]
  /\ UNCHANGED <<tab, item, share, requestVars, lost>>

\* Mutant: every pending share is marked.
MarkAllPaid(s) ==
  /\ receiver[s] = "read"
  /\ share' = [x \in Shares |-> IF x = s \/ share[x] = "PENDING" THEN "PAID" ELSE share[x]]
  /\ receiver' = [receiver EXCEPT ![s] = "marked"]
  /\ UNCHANGED <<tab, item, requestVars, seen, lost, ledgerVars>>

MarkPaid(s) ==
  /\ receiver[s] = "read"
  /\ share' = [share EXCEPT ![s] = "PAID"]
  /\ receiver' = [receiver EXCEPT ![s] = "marked"]
  /\ UNCHANGED <<tab, item, requestVars, seen, lost, ledgerVars>>

\* Is a share of the tab still PENDING? FAILED ones are not looked for.
Unpaid == {s \in Shares : share[s] = "PENDING"}

\* Mutant: the condition is inverted.
CheckInverted(s) ==
  /\ receiver[s] = "marked"
  /\ receiver' = [receiver EXCEPT ![s] = IF Unpaid = {} THEN "idle" ELSE "settling"]
  /\ UNCHANGED <<tab, item, share, requestVars, seen, lost, ledgerVars>>

CheckUnpaid(s) ==
  /\ receiver[s] = "marked"
  /\ receiver' = [receiver EXCEPT ![s] = IF Unpaid = {} THEN "settling" ELSE "idle"]
  /\ UNCHANGED <<tab, item, share, requestVars, seen, lost, ledgerVars>>

\* Mutant: a status of TabShare is written to the tab.
SettleAsPaid(s) ==
  /\ receiver[s] = "settling"
  /\ tab' = IF Allowed(seen[s], "SETTLED") THEN "PAID" ELSE tab
  /\ receiver' = [receiver EXCEPT ![s] = "idle"]
  /\ UNCHANGED <<item, share, requestVars, seen, lost, ledgerVars>>

\* tab.transition(SETTLED), on the tab as it was read; InvalidTabTransition is
\* swallowed.
SettleTab(s) ==
  /\ receiver[s] = "settling"
  /\ tab' = IF Allowed(seen[s], "SETTLED") THEN "SETTLED" ELSE tab
  /\ receiver' = [receiver EXCEPT ![s] = "idle"]
  /\ UNCHANGED <<item, share, requestVars, seen, lost, ledgerVars>>

\* The worker dies in the middle of it.
LoseReceiver(s) ==
  /\ receiver[s] # "idle"
  /\ receiver' = [receiver EXCEPT ![s] = "idle"]
  /\ lost' = lost \cup {s}
  /\ UNCHANGED <<tab, item, share, requestVars, seen, ledgerVars>>

-----------------------------------------------------------------------------
Request(q) ==
  \/ BeginRound(q) \/ BeginRemove(q) \/ BeginBill(q) \/ BeginSplit(q)
  \/ NumberRound(q) \/ CommitBill(q) \/ Leave(q)
  \/ \E i \in Rounds : CommitRound(q, i) \/ CommitRemove(q, i)
  \/ \E S \in SUBSET Shares : \E F \in SUBSET S : CommitSplit(q, S, F)

Receiver(s) == MarkPaid(s) \/ CheckUnpaid(s) \/ SettleTab(s)

Share(s) ==
  \/ Repush(s) \/ Payment(s) \/ Receive(s) \/ Receiver(s) \/ LoseReceiver(s)

Next ==
  \/ \E q \in Requests : Request(q)
  \/ \E s \in Shares : Share(s)

Spec == Init /\ [][Next]_vars

\* A receiver that lives goes on.
Fairness == \A s \in Shares : WF_vars(Receiver(s))
FairSpec == Spec /\ Fairness

-----------------------------------------------------------------------------
(* Properties *)

TypeOK ==
  /\ tab \in Statuses
  /\ item \in [Rounds -> {"none", "on", "late", "removed"}]
  /\ doing \in [Requests -> {"nothing", "round", "remove", "bill", "split"}]
  /\ number \in [Requests -> Nat]
  /\ numbered \subseteq Nat
  /\ unsettled \in Nat
  /\ share \in [Shares -> {"none", "PENDING", "PAID", "FAILED"}]
  /\ receiver \in [Shares -> {"idle", "read", "marked", "settling"}]
  /\ seen \in [Shares -> Statuses \cup {"none"}]
  /\ lost \subseteq Shares
  /\ state \in [Shares -> Pay!States]
  /\ told \subseteq Shares

\* Bills are never closed without payment: a settled tab has a share that its
\* payer paid, and a share is PAID only when its payer paid it.
SettledWasPaid ==
  /\ \A s \in Shares : share[s] = "PAID" => state[s] \in {"paid", "refunded"}
  /\ tab = "SETTLED" => \E s \in Shares : share[s] = "PAID"

\* Rounds are added to open tabs only, but for those that other requests had in
\* hand when the bill was requested: fewer than the requests there are at once.
\* These are not in a total that was split before they came.
LateRounds ==
  Cardinality({i \in Rounds : item[i] = "late"})
    + (IF tab = "OPEN" THEN 0 ELSE Cardinality({q \in Requests : doing[q] = "round"}))
      < Cardinality(Requests)

\* The rounds of a tab are numbered from 1 without a gap, however requests that
\* computed the same number overlap.
RoundsInSequence == numbered = 1..Cardinality(numbered)

\* A settled tab is taken back to BILL_REQUESTED only by requests for the bill that
\* read it while it was open: fewer times than there are requests at once.
UnsettledBound ==
  unsettled
    + (IF tab = "OPEN" THEN 0 ELSE Cardinality({q \in Requests : doing[q] = "bill"}))
      < Cardinality(Requests)

\* When the last share is paid the tab is settled, whichever receivers of the
\* shares overlap, unless the worker of one of them died or a request for the bill
\* took it back.
Created == {s \in Shares : share[s] # "none"}
AllPaid == Created # {} /\ \A s \in Created : share[s] = "PAID"
PaidTabSettles ==
  AllPaid ~> tab = "SETTLED" \/ ~AllPaid \/ lost # {} \/ unsettled > 0

\* "Partial failures (some shares FAILED or PENDING) leave the tab in
\* BILL_REQUESTED": when a tab becomes settled, each of its shares is paid.
SettledInFull ==
  [][tab # "SETTLED" /\ tab' = "SETTLED" => \A s \in Created : share[s] = "PAID"]_vars

\* "OPEN -> BILL_REQUESTED -> SETTLED ... enforced via .transition()": a tab that is
\* settled stays so.
SettledIsFinal == [][tab = "SETTLED" => tab' = "SETTLED"]_vars
=============================================================================
