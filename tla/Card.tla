-------------------------------- MODULE Card --------------------------------
(***************************************************************************)
(* Card payments (apps/payment): a PaymentIntent is created at Stripe for  *)
(* each request, with a CardTransaction, and Stripe posts an event for     *)
(* each status of the intent, in any order and more than once. The webhook *)
(* reads the row and saves the status of the event, whatever it was, with  *)
(* the date of completion as it was read, or now for a success. No         *)
(* receiver is told of the payment.                                        *)
(***************************************************************************)
EXTENDS Naturals, Sequences, SequencesExt

CONSTANTS
  Intents,  \* PaymentIntents, several of them perhaps for one reference
  Hooks,    \* webhook requests that may be in progress at once
  MaxEvents \* bound: events of an intent

VARIABLES
  events, \* the statuses Stripe has posted for an intent, in order
  card,   \* CardTransaction.status, or "none"
  paidAt, \* rows with completed_at
  hook,   \* the event a webhook has read its row for: the intent, its place, and
          \* whether completed_at was set
  newest, \* history: the place of the latest event that was saved
  last    \* history: the place of the event that was saved last

vars == <<events, card, paidAt, hook, newest, last>>

Posted  == {"PROCESSING", "SUCCEEDED", "FAILED"}
NoEvent == <<"none", 0, FALSE>>

Init ==
  /\ events = [i \in Intents |-> <<>>]
  /\ card   = [i \in Intents |-> "none"]
  /\ paidAt = {}
  /\ hook   = [h \in Hooks |-> NoEvent]
  /\ newest = [i \in Intents |-> 0]
  /\ last   = [i \in Intents |-> 0]

\* initiate_card_payment: nothing looks for an earlier intent of the reference.
InitiateCard(i) ==
  /\ card[i] = "none"
  /\ card' = [card EXCEPT ![i] = "PI_CREATED"]
  /\ UNCHANGED <<events, paidAt, hook, newest, last>>

\* The customer pays with the client_secret, perhaps after attempts that fail.
StripePosts(i) ==
  /\ card[i] # "none" /\ Len(events[i]) < MaxEvents
  /\ ~Contains(events[i], "SUCCEEDED")
  /\ \E status \in Posted : events' = [events EXCEPT ![i] = Append(@, status)]
  /\ UNCHANGED <<card, paidAt, hook, newest, last>>

\* StripeWebhookView has checked the signature and reads the row.
ReceiveEvent(h, i, n) ==
  /\ hook[h] = NoEvent /\ n \in DOMAIN events[i]
  /\ hook' = [hook EXCEPT ![h] = <<i, n, i \in paidAt>>]
  /\ UNCHANGED <<events, card, paidAt, newest, last>>

\* The date is the one that was read, unless it is set.
SaveDate(i, status, dated) ==
  paidAt' = IF dated \/ status = "SUCCEEDED" THEN paidAt \cup {i} ELSE paidAt \ {i}

SaveEvent(h, i, n) ==
  /\ last'   = [last EXCEPT ![i] = n]
  /\ newest' = IF n > newest[i] THEN [newest EXCEPT ![i] = n] ELSE newest
  /\ hook'   = [hook EXCEPT ![h] = NoEvent]
  /\ UNCHANGED events

\* Mutant: a success is not saved over a failure.
SaveUnlessFailed(h, i, n, dated) ==
  /\ hook[h] = <<i, n, dated>>
  /\ card' = [card EXCEPT ![i] = IF @ = "FAILED" THEN @ ELSE events[i][n]]
  /\ SaveDate(i, events[i][n], dated)
  /\ SaveEvent(h, i, n)

\* _update_card_txn
SaveStatus(h, i, n, dated) ==
  /\ hook[h] = <<i, n, dated>>
  /\ card' = [card EXCEPT ![i] = events[i][n]]
  /\ SaveDate(i, events[i][n], dated)
  /\ SaveEvent(h, i, n)

\* The request fails, and Stripe posts the event again.
FailHook(h) ==
  /\ hook[h] # NoEvent
  /\ hook' = [hook EXCEPT ![h] = NoEvent]
  /\ UNCHANGED <<events, card, paidAt, newest, last>>

Next ==
  \/ \E i \in Intents :
       \/ InitiateCard(i) \/ StripePosts(i)
       \/ \E h \in Hooks, n \in 1 .. MaxEvents :
            ReceiveEvent(h, i, n) \/ \E dated \in BOOLEAN : SaveStatus(h, i, n, dated)
  \/ \E h \in Hooks : FailHook(h)

Spec == Init /\ [][Next]_vars

-----------------------------------------------------------------------------
TypeOK ==
  /\ events \in [Intents -> Seq(Posted)]
  /\ card \in [Intents -> Posted \cup {"none", "PI_CREATED"}]
  /\ paidAt \subseteq Intents
  /\ hook \in [Hooks -> {NoEvent} \cup (Intents \X (1 .. MaxEvents) \X BOOLEAN)]
  /\ newest \in [Intents -> 0 .. MaxEvents] /\ last \in [Intents -> 0 .. MaxEvents]

\* A card payment of which Stripe's success was saved says SUCCEEDED and has a date,
\* unless the last event that was saved of it is an earlier one; and no webhook dates
\* a payment, with what it had read, of which no success was saved.
Succeeded(i) == newest[i] > 0 /\ events[i][newest[i]] = "SUCCEEDED"
SuccessIsSeen ==
  \A i \in Intents :
    /\ Succeeded(i) => last[i] < newest[i] \/ (card[i] = "SUCCEEDED" /\ i \in paidAt)
    /\ i \in paidAt => Succeeded(i)
=============================================================================
