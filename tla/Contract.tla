------------------------------ MODULE Contract ------------------------------
(***************************************************************************)
(* apps/contracting: slots that are booked, and requests for a quote that  *)
(* become a quote, a job and an invoice. The four rows are related one to  *)
(* one, so that a job j stands for all of them. A view reads a row, checks *)
(* its status and commits what it writes later; the task that renders the  *)
(* invoice and the receiver of payment_confirmed write it on their own.    *)
(***************************************************************************)
EXTENDS Naturals, FiniteSets

CONSTANTS
  Slots,   \* AvailabilitySlot rows
  Works,   \* QuoteRequest rows, each with its Quote, Job and Invoice
  Clerks   \* requests that may be in progress at once

VARIABLES
  booking,  \* ServiceBooking.status of a slot, or "none"
  isBooked, \* slots with is_booked
  enquiry,  \* QuoteRequest.status, or "none"
  quote,    \* Quote.status, or "none"
  job,      \* Job.status, or "none"
  invoice,  \* Invoice.payment_status, or "none"
  pdf,      \* the task: "none", "queued", the status it has read, or "made"
  clerk,    \* what a request has read: its purpose, the row and the status
  settling, \* invoices the receiver has marked, with the Job.status it read
  invState, \* PaymentLedger: life of the push of an invoice
  invTold   \* PaymentLedger: pushes the receiver was told of

bookingVars == <<booking, isBooked>>
workVars    == <<enquiry, quote, job>>
invVars     == <<invoice, pdf, settling>>
invLedger   == <<invState, invTold>>
vars == <<bookingVars, workVars, invVars, clerk, invLedger>>

Pay == INSTANCE PaymentLedger WITH Checkouts <- Works, state <- invState, told <- invTold

BookingStatus == {"PENDING", "CONFIRMED"}
EnquiryStatus == {"OPEN", "QUOTED", "CLOSED"}
QuoteStatus   == {"QUOTED", "ACCEPTED", "REJECTED"}
JobStatus     == {"PENDING", "IN_PROGRESS", "COMPLETED", "SETTLED"}
InvoiceStatus == {"UNPAID", "PAID"}

\* Job.VALID_TRANSITIONS
JobMoves ==
  {<<"PENDING", "IN_PROGRESS">>, <<"IN_PROGRESS", "COMPLETED">>, <<"COMPLETED", "SETTLED">>}

AtDesk  == <<"none">>
Errands ==
  {AtDesk} \cup ({"confirm"} \X Slots)
    \cup (({"quote", "accept", "reject", "invoice"} \cup JobStatus) \X Works)

Init ==
  /\ booking  = [x \in Slots |-> "none"]
  /\ isBooked = {}
  /\ enquiry  = [j \in Works |-> "none"]
  /\ quote    = [j \in Works |-> "none"]
  /\ job      = [j \in Works |-> "none"]
  /\ invoice  = [j \in Works |-> "none"]
  /\ pdf      = [j \in Works |-> "none"]
  /\ clerk    = [c \in Clerks |-> AtDesk]
  /\ settling = [j \in Works |-> "none"]
  /\ Pay!Init

Begin(c, errand, allowed) ==
  /\ clerk[c] = AtDesk /\ allowed
  /\ clerk' = [clerk EXCEPT ![c] = errand]
  /\ UNCHANGED <<bookingVars, workVars, invVars, invLedger>>

Finish(c, errand) ==
  /\ clerk[c] = errand
  /\ clerk' = [clerk EXCEPT ![c] = AtDesk]

\* An error: what the request wrote is rolled back.
Abandon(c) ==
  /\ clerk[c] # AtDesk
  /\ clerk' = [clerk EXCEPT ![c] = AtDesk]
  /\ UNCHANGED <<bookingVars, workVars, invVars, invLedger>>

-----------------------------------------------------------------------------
(* Bookings *)

\* The slot is locked, tested again and marked with the booking it gets.
BookSlot(x) ==
  /\ x \notin isBooked
  /\ isBooked' = isBooked \cup {x}
  /\ booking'  = [booking EXCEPT ![x] = "PENDING"]
  /\ UNCHANGED <<workVars, invVars, clerk, invLedger>>

ConfirmBooking(c, x) ==
  \/ Begin(c, <<"confirm", x>>, booking[x] = "PENDING")
  \/ /\ Finish(c, <<"confirm", x>>)
     /\ booking' = [booking EXCEPT ![x] = "CONFIRMED"]
     /\ UNCHANGED <<isBooked, workVars, invVars, invLedger>>

-----------------------------------------------------------------------------
(* Quotes *)

AskQuote(j) ==
  /\ enquiry[j] = "none"
  /\ enquiry' = [enquiry EXCEPT ![j] = "OPEN"]
  /\ UNCHANGED <<bookingVars, quote, job, invVars, clerk, invLedger>>

\* Mutant: nothing relates a quote to its request one to one.
CreateQuoteTwice(c, j) ==
  \/ Begin(c, <<"quote", j>>, enquiry[j] = "OPEN")
  \/ /\ Finish(c, <<"quote", j>>)
     /\ quote'   = [quote EXCEPT ![j] = "QUOTED"]
     /\ enquiry' = [enquiry EXCEPT ![j] = "QUOTED"]
     /\ UNCHANGED <<bookingVars, job, invVars, invLedger>>

\* A second quote for one request is refused by the database.
CreateQuote(c, j) ==
  \/ Begin(c, <<"quote", j>>, enquiry[j] = "OPEN")
  \/ /\ Finish(c, <<"quote", j>>)
     /\ quote[j] = "none"
     /\ quote'   = [quote EXCEPT ![j] = "QUOTED"]
     /\ enquiry' = [enquiry EXCEPT ![j] = "QUOTED"]
     /\ UNCHANGED <<bookingVars, job, invVars, invLedger>>

\* So is a second job for one quote, with all that the request has written.
AcceptQuote(c, j) ==
  \/ Begin(c, <<"accept", j>>, quote[j] = "QUOTED")
  \/ /\ Finish(c, <<"accept", j>>)
     /\ job[j] = "none"
     /\ quote'   = [quote EXCEPT ![j] = "ACCEPTED"]
     /\ enquiry' = [enquiry EXCEPT ![j] = "CLOSED"]
     /\ job'     = [job EXCEPT ![j] = "PENDING"]
     /\ UNCHANGED <<bookingVars, invVars, invLedger>>

\* Saved over an acceptance that came between, whose job remains.
RejectQuote(c, j) ==
  \/ Begin(c, <<"reject", j>>, quote[j] = "QUOTED")
  \/ /\ Finish(c, <<"reject", j>>)
     /\ quote'   = [quote EXCEPT ![j] = "REJECTED"]
     /\ enquiry' = [enquiry EXCEPT ![j] = "CLOSED"]
     /\ UNCHANGED <<bookingVars, job, invVars, invLedger>>

-----------------------------------------------------------------------------
(* Jobs and their invoices *)

\* The move is checked on the status as it was read. Nothing asks for an invoice
\* before staff set SETTLED.
MoveJob(c, j, new) ==
  \/ Begin(c, <<new, j>>, <<job[j], new>> \in JobMoves)
  \/ /\ Finish(c, <<new, j>>)
     /\ job' = [job EXCEPT ![j] = new]
     /\ UNCHANGED <<bookingVars, enquiry, quote, invVars, invLedger>>

\* The task is sent when the row is inserted; it is repeated until it finds it.
CreateInvoice(c, j) ==
  \/ Begin(c, <<"invoice", j>>, job[j] = "COMPLETED" /\ invoice[j] = "none")
  \/ /\ Finish(c, <<"invoice", j>>)
     /\ invoice[j] = "none"
     /\ invoice' = [invoice EXCEPT ![j] = "UNPAID"]
     /\ pdf'     = [pdf EXCEPT ![j] = "queued"]
     /\ UNCHANGED <<bookingVars, workVars, settling, invLedger>>

\* generate_invoice_pdf reads the row and renders it ...
ReadInvoice(j) ==
  /\ pdf[j] = "queued"
  /\ pdf' = [pdf EXCEPT ![j] = invoice[j]]
  /\ UNCHANGED <<bookingVars, workVars, invoice, settling, clerk, invLedger>>

\* ... and pdf_file.save saves the whole of it, as it was read. It may fail, and
\* is repeated three times.
SaveInvoice(j) ==
  /\ pdf[j] \in InvoiceStatus
  /\ \/ /\ invoice' = [invoice EXCEPT ![j] = pdf[j]]
        /\ pdf'     = [pdf EXCEPT ![j] = "made"]
     \/ /\ pdf' \in {[pdf EXCEPT ![j] = "queued"], [pdf EXCEPT ![j] = "none"]}
        /\ UNCHANGED invoice
  /\ UNCHANGED <<bookingVars, workVars, settling, clerk, invLedger>>

\* InvoicePayView refuses an invoice that is PAID; a push that was closed may be
\* repeated.
PayInvoice(j) ==
  /\ invoice[j] = "UNPAID"
  /\ Pay!Open(j) \/ Pay!Move({j}, "closed", "open")
  /\ UNCHANGED <<bookingVars, workVars, invVars, clerk>>

InvoicePush(j) ==
  /\ Pay!Settle(j) \/ Pay!Close({j}) \/ Pay!Refund(j)
  /\ UNCHANGED <<bookingVars, workVars, invVars, clerk>>

\* The receiver reads the invoice with its job and marks it PAID ...
ReceiveInvoice(j) ==
  /\ Pay!Tell(j)
  /\ invoice'  = [invoice EXCEPT ![j] = "PAID"]
  /\ settling' = [settling EXCEPT ![j] = job[j]]
  /\ UNCHANGED <<bookingVars, workVars, pdf, clerk>>

\* ... and settles the job when it was COMPLETED then, unless its worker dies.
SettleJob(j) ==
  /\ settling[j] # "none"
  /\ settling' = [settling EXCEPT ![j] = "none"]
  /\ \/ settling[j] = "COMPLETED" /\ job' = [job EXCEPT ![j] = "SETTLED"]
     \/ UNCHANGED job
  /\ UNCHANGED <<bookingVars, enquiry, quote, invoice, pdf, clerk, invLedger>>

-----------------------------------------------------------------------------
Errand(c) ==
  \/ \E x \in Slots : ConfirmBooking(c, x)
  \/ \E j \in Works :
       \/ CreateQuote(c, j) \/ AcceptQuote(c, j) \/ RejectQuote(c, j) \/ CreateInvoice(c, j)
       \/ \E new \in JobStatus : MoveJob(c, j, new)
  \/ Abandon(c)

Next ==
  \/ \E c \in Clerks : Errand(c)
  \/ \E x \in Slots : BookSlot(x)
  \/ \E j \in Works :
       \/ AskQuote(j) \/ ReadInvoice(j) \/ SaveInvoice(j)
       \/ PayInvoice(j) \/ InvoicePush(j) \/ ReceiveInvoice(j) \/ SettleJob(j)

Spec == Init /\ [][Next]_vars

TypeOK ==
  /\ booking \in [Slots -> BookingStatus \cup {"none"}]
  /\ isBooked \subseteq Slots
  /\ enquiry \in [Works -> EnquiryStatus \cup {"none"}]
  /\ quote \in [Works -> QuoteStatus \cup {"none"}]
  /\ job \in [Works -> JobStatus \cup {"none"}]
  /\ invoice \in [Works -> InvoiceStatus \cup {"none"}]
  /\ pdf \in [Works -> InvoiceStatus \cup {"none", "queued", "made"}]
  /\ clerk \in [Clerks -> Errands]
  /\ settling \in [Works -> JobStatus \cup {"none"}]
  /\ invState \in [Works -> Pay!States]
  /\ invTold \subseteq Works

\* Work is done for requests that are closed: whatever requests overlap, a quote
\* that is decided closes its request, and one that has led to a job, and perhaps
\* to an invoice, is never open again for another quote.
WorkWasDecided ==
  \A j \in Works :
    /\ enquiry[j] = "CLOSED" <=> quote[j] \in {"ACCEPTED", "REJECTED"}
    /\ quote[j] = "ACCEPTED" => job[j] # "none"
    /\ invoice[j] # "none" => job[j] # "none"
    /\ job[j] # "none" => enquiry[j] = "CLOSED"
=============================================================================
