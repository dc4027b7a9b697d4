--------------------------- MODULE ContractProofs ---------------------------
(***************************************************************************)
(* Theorems about Contract for every set of slots, works and clerks.       *)
(* MCServices names the definitions of Contract with Con!.                 *)
(***************************************************************************)
EXTENDS MCServices, TLAPS

\* Errands that were begun because there was a job.
ForJob == Con!JobStatus \cup {"invoice"}

\* What is read while there is a job is read of a job that stays: neither a request,
\* nor the task, nor the receiver of a payment writes for work that does not exist.
JobStays ==
  /\ \A c \in Clerks, p \in ForJob, j \in Works : clerk[c] = <<p, j>> => job[j] # "none"
  /\ \A j \in Works :
       /\ pdf[j] # "none" => invoice[j] # "none"
       /\ settling[j] # "none" => job[j] # "none"
       /\ invState[j] # "absent" => invoice[j] # "none"

ConInv == Con!TypeOK /\ Con!WorkWasDecided /\ JobStays

LEMMA ConInit == Con!Init => ConInv
<1> SUFFICES ASSUME Con!Init PROVE ConInv
  OBVIOUS
<1>1. Con!TypeOK
  BY DEF Con!Init, Con!TypeOK, Con!Errands, Con!Pay!Init, Con!Pay!States
<1>2. Con!WorkWasDecided
  BY DEF Con!Init, Con!WorkWasDecided
<1>3. \A c \in Clerks, p \in ForJob, j \in Works : clerk[c] # <<p, j>>
  BY DEF Con!Init, Con!AtDesk, ForJob, Con!JobStatus
<1> QED
  BY <1>1, <1>2, <1>3 DEF Con!Init, ConInv, JobStays, Con!Pay!Init

-----------------------------------------------------------------------------
(* Requests that begin, end and change nothing else *)

\* A request goes back to its desk.
LEMMA Leaves ==
  ASSUME Con!TypeOK, NEW c \in Clerks, clerk' = [clerk EXCEPT ![c] = Con!AtDesk]
  PROVE  /\ clerk' \in [Clerks -> Con!Errands]
         /\ \A d \in Clerks, p \in ForJob, j \in Works : clerk'[d] = <<p, j>> => clerk[d] = <<p, j>>
<1>1. clerk' \in [Clerks -> Con!Errands]
  BY DEF Con!TypeOK, Con!Errands
<1>2. \A p \in ForJob, j \in Works : Con!AtDesk # <<p, j>>
  BY DEF Con!AtDesk, ForJob, Con!JobStatus
<1> QED
  BY <1>1, <1>2 DEF Con!TypeOK

\* A request that begins an errand for a job has seen one.
LEMMA Begins ==
  ASSUME ConInv, NEW c \in Clerks, NEW e \in Con!Errands, NEW allowed, Con!Begin(c, e, allowed),
         \A p \in ForJob, j \in Works : e = <<p, j>> => job[j] # "none"
  PROVE  ConInv'
<1>1. /\ clerk' = [clerk EXCEPT ![c] = e]
      /\ UNCHANGED <<booking, isBooked, enquiry, quote, job, invoice, pdf, settling, invState, invTold>>
  BY DEF Con!Begin, Con!bookingVars, Con!workVars, Con!invVars, Con!invLedger
<1>2. Con!TypeOK'
  BY <1>1 DEF ConInv, Con!TypeOK
<1>3. Con!WorkWasDecided'
  BY <1>1 DEF ConInv, Con!WorkWasDecided
<1>4. \A d \in Clerks, p \in ForJob, j \in Works : clerk'[d] = <<p, j>> => job'[j] # "none"
  <2> TAKE d \in Clerks, p \in ForJob, j \in Works
  <2>1. clerk'[d] = IF d = c THEN e ELSE clerk[d]
    BY <1>1 DEF ConInv, Con!TypeOK
  <2> QED
    BY <1>1, <2>1 DEF ConInv, JobStays
<1>5. JobStays'
  BY <1>1, <1>4 DEF ConInv, JobStays
<1> QED
  BY <1>2, <1>3, <1>5 DEF ConInv

LEMMA BeginKeeps ==
  ASSUME ConInv, NEW c \in Clerks
  PROVE  /\ \A x \in Slots : Con!Begin(c, <<"confirm", x>>, booking[x] = "PENDING") => ConInv'
         /\ \A j \in Works :
              /\ Con!Begin(c, <<"quote", j>>, enquiry[j] = "OPEN") => ConInv'
              /\ Con!Begin(c, <<"accept", j>>, quote[j] = "QUOTED") => ConInv'
              /\ Con!Begin(c, <<"reject", j>>, quote[j] = "QUOTED") => ConInv'
              /\ Con!Begin(c, <<"invoice", j>>, job[j] = "COMPLETED" /\ invoice[j] = "none") => ConInv'
              /\ \A new \in Con!JobStatus : Con!Begin(c, <<new, j>>, <<job[j], new>> \in Con!JobMoves) => ConInv'
<1>1. ASSUME NEW x \in Slots, Con!Begin(c, <<"confirm", x>>, booking[x] = "PENDING")
      PROVE  ConInv'
  <2>1. <<"confirm", x>> \in Con!Errands
    BY DEF Con!Errands
  <2>2. \A p \in ForJob, j \in Works : <<"confirm", x>> # <<p, j>>
    BY DEF ForJob, Con!JobStatus
  <2> QED
    BY <1>1, <2>1, <2>2, Begins
<1>2. ASSUME NEW j \in Works, NEW w \in {"quote", "accept", "reject"}, NEW allowed, Con!Begin(c, <<w, j>>, allowed)
      PROVE  ConInv'
  <2>1. <<w, j>> \in Con!Errands
    BY DEF Con!Errands
  <2>2. \A p \in ForJob, k \in Works : <<w, j>> # <<p, k>>
    BY DEF ForJob, Con!JobStatus
  <2> QED
    BY <1>2, <2>1, <2>2, Begins
<1>3. ASSUME NEW j \in Works, NEW w \in ForJob, NEW allowed, Con!Begin(c, <<w, j>>, allowed), job[j] # "none"
      PROVE  ConInv'
  <2>1. <<w, j>> \in Con!Errands
    BY DEF Con!Errands, ForJob
  <2>2. \A p \in ForJob, k \in Works : <<w, j>> = <<p, k>> => job[k] # "none"
    BY <1>3
  <2> QED
    BY <1>3, <2>1, <2>2, Begins
<1>4. ASSUME NEW j \in Works, Con!Begin(c, <<"invoice", j>>, job[j] = "COMPLETED" /\ invoice[j] = "none")
      PROVE  ConInv'
  <2>1. "invoice" \in ForJob /\ job[j] # "none"
    BY <1>4 DEF Con!Begin, ForJob
  <2> QED
    BY <1>3, <1>4, <2>1
<1>5. ASSUME NEW j \in Works, NEW new \in Con!JobStatus, Con!Begin(c, <<new, j>>, <<job[j], new>> \in Con!JobMoves)
      PROVE  ConInv'
  <2>1. new \in ForJob
    BY DEF ForJob
  <2>2. job[j] # "none"
    BY <1>5 DEF Con!Begin, Con!JobMoves
  <2> QED
    BY <1>3, <1>5, <2>1, <2>2
<1>6. ASSUME NEW j \in Works
      PROVE  /\ Con!Begin(c, <<"quote", j>>, enquiry[j] = "OPEN") => ConInv'
             /\ Con!Begin(c, <<"accept", j>>, quote[j] = "QUOTED") => ConInv'
             /\ Con!Begin(c, <<"reject", j>>, quote[j] = "QUOTED") => ConInv'
  BY <1>2
<1> QED
  BY <1>1, <1>4, <1>5, <1>6

-----------------------------------------------------------------------------
(* Requests that commit *)

\* The clauses of WorkWasDecided and of JobStays about one work.
Decided(j) ==
  /\ enquiry[j] = "CLOSED" <=> quote[j] \in {"ACCEPTED", "REJECTED"}
  /\ quote[j] = "ACCEPTED" => job[j] # "none"
  /\ invoice[j] # "none" => job[j] # "none"
  /\ job[j] # "none" => enquiry[j] = "CLOSED"
  /\ pdf[j] # "none" => invoice[j] # "none"
  /\ settling[j] # "none" => job[j] # "none"
  /\ invState[j] # "absent" => invoice[j] # "none"

\* A step that leaves every work decided, no job unmade and no errand begun.
LEMMA StaysDecided ==
  ASSUME ConInv, Con!TypeOK', \A j \in Works : Decided(j)',
         \A d \in Clerks, p \in ForJob, j \in Works : clerk'[d] = <<p, j>> => clerk[d] = <<p, j>>,
         \A j \in Works : job[j] # "none" => job'[j] # "none"
  PROVE  ConInv'
<1>1. Con!WorkWasDecided'
  BY DEF Con!WorkWasDecided, Decided
<1>2. JobStays'
  BY DEF ConInv, JobStays, Decided
<1> QED
  BY <1>1, <1>2 DEF ConInv

LEMMA AllDecided == ConInv => \A j \in Works : Decided(j)
BY DEF ConInv, Con!WorkWasDecided, JobStays, Decided

LEMMA FinishKeeps ==
  ASSUME ConInv, NEW c \in Clerks, Con!Errand(c)
  PROVE  ConInv'
<1>t. Con!TypeOK /\ \A j \in Works : Decided(j)
  BY AllDecided DEF ConInv
<1>l. ASSUME clerk' = [clerk EXCEPT ![c] = Con!AtDesk]
      PROVE  /\ clerk' \in [Clerks -> Con!Errands]
             /\ \A d \in Clerks, p \in ForJob, j \in Works : clerk'[d] = <<p, j>> => clerk[d] = <<p, j>>
  BY <1>t, <1>l, Leaves
<1>1. ASSUME NEW x \in Slots, Con!ConfirmBooking(c, x)
      PROVE  ConInv'
  <2>1. CASE Con!Begin(c, <<"confirm", x>>, booking[x] = "PENDING")
    BY <2>1, BeginKeeps
  <2>2. CASE /\ Con!Finish(c, <<"confirm", x>>)
             /\ booking' = [booking EXCEPT ![x] = "CONFIRMED"]
             /\ UNCHANGED <<isBooked, Con!workVars, Con!invVars, Con!invLedger>>
    <3>1. clerk' = [clerk EXCEPT ![c] = Con!AtDesk]
          /\ UNCHANGED <<isBooked, enquiry, quote, job, invoice, pdf, settling, invState, invTold>>
      BY <2>2 DEF Con!Finish, Con!workVars, Con!invVars, Con!invLedger
    <3>2. Con!TypeOK'
      BY <1>t, <1>l, <2>2, <3>1 DEF Con!TypeOK, Con!BookingStatus
    <3> QED
      BY <1>t, <1>l, <3>1, <3>2, StaysDecided DEF Decided
  <2> QED
    BY <1>1, <2>1, <2>2 DEF Con!ConfirmBooking
<1>2. ASSUME NEW j \in Works, Con!CreateQuote(c, j)
      PROVE  ConInv'
  <2>1. CASE Con!Begin(c, <<"quote", j>>, enquiry[j] = "OPEN")
    BY <2>1, BeginKeeps
  <2>2. CASE ~Con!Begin(c, <<"quote", j>>, enquiry[j] = "OPEN")
    <3>1. /\ clerk' = [clerk EXCEPT ![c] = Con!AtDesk]
          /\ quote[j] = "none"
          /\ quote'   = [quote EXCEPT ![j] = "QUOTED"]
          /\ enquiry' = [enquiry EXCEPT ![j] = "QUOTED"]
          /\ UNCHANGED <<booking, isBooked, job, invoice, pdf, settling, invState, invTold>>
      BY <1>2, <2>2 DEF Con!CreateQuote, Con!Finish, Con!bookingVars, Con!invVars, Con!invLedger
    <3>2. Con!TypeOK'
      BY <1>t, <1>l, <3>1 DEF Con!TypeOK, Con!QuoteStatus, Con!EnquiryStatus
    <3>3. \A k \in Works : Decided(k)'
      BY <1>t, <3>1 DEF Con!TypeOK, Decided
    <3> QED
      BY <1>l, <3>1, <3>2, <3>3, StaysDecided
  <2> QED
    BY <2>1, <2>2
<1>3. ASSUME NEW j \in Works, Con!AcceptQuote(c, j)
      PROVE  ConInv'
  <2>1. CASE Con!Begin(c, <<"accept", j>>, quote[j] = "QUOTED")
    BY <2>1, BeginKeeps
  <2>2. CASE ~Con!Begin(c, <<"accept", j>>, quote[j] = "QUOTED")
    <3>1. /\ clerk' = [clerk EXCEPT ![c] = Con!AtDesk]
          /\ quote'   = [quote EXCEPT ![j] = "ACCEPTED"]
          /\ enquiry' = [enquiry EXCEPT ![j] = "CLOSED"]
          /\ job'     = [job EXCEPT ![j] = "PENDING"]
          /\ UNCHANGED <<booking, isBooked, invoice, pdf, settling, invState, invTold>>
      BY <1>3, <2>2 DEF Con!AcceptQuote, Con!Finish, Con!bookingVars, Con!invVars, Con!invLedger
    <3>2. Con!TypeOK'
      BY <1>t, <1>l, <3>1 DEF Con!TypeOK, Con!QuoteStatus, Con!EnquiryStatus, Con!JobStatus
    <3>3. \A k \in Works : Decided(k)'
      BY <1>t, <3>1 DEF Con!TypeOK, Decided
    <3>4. \A k \in Works : job[k] # "none" => job'[k] # "none"
      BY <1>t, <3>1 DEF Con!TypeOK
    <3> QED
      BY <1>l, <3>1, <3>2, <3>3, <3>4, StaysDecided
  <2> QED
    BY <2>1, <2>2
<1>4. ASSUME NEW j \in Works, Con!RejectQuote(c, j)
      PROVE  ConInv'
  <2>1. CASE Con!Begin(c, <<"reject", j>>, quote[j] = "QUOTED")
    BY <2>1, BeginKeeps
  <2>2. CASE ~Con!Begin(c, <<"reject", j>>, quote[j] = "QUOTED")
    <3>1. /\ clerk' = [clerk EXCEPT ![c] = Con!AtDesk]
          /\ quote'   = [quote EXCEPT ![j] = "REJECTED"]
          /\ enquiry' = [enquiry EXCEPT ![j] = "CLOSED"]
          /\ UNCHANGED <<booking, isBooked, job, invoice, pdf, settling, invState, invTold>>
      BY <1>4, <2>2 DEF Con!RejectQuote, Con!Finish, Con!bookingVars, Con!invVars, Con!invLedger
    <3>2. Con!TypeOK'
      BY <1>t, <1>l, <3>1 DEF Con!TypeOK, Con!QuoteStatus, Con!EnquiryStatus
    <3>3. \A k \in Works : Decided(k)'
      BY <1>t, <3>1 DEF Con!TypeOK, Decided
    <3> QED
      BY <1>l, <3>1, <3>2, <3>3, StaysDecided
  <2> QED
    BY <2>1, <2>2
<1>5. ASSUME NEW j \in Works, Con!CreateInvoice(c, j)
      PROVE  ConInv'
  <2>1. CASE Con!Begin(c, <<"invoice", j>>, job[j] = "COMPLETED" /\ invoice[j] = "none")
    BY <2>1, BeginKeeps
  <2>2. CASE ~Con!Begin(c, <<"invoice", j>>, job[j] = "COMPLETED" /\ invoice[j] = "none")
    <3>1. /\ clerk[c] = <<"invoice", j>>
          /\ clerk' = [clerk EXCEPT ![c] = Con!AtDesk]
          /\ invoice' = [invoice EXCEPT ![j] = "UNPAID"]
          /\ pdf'     = [pdf EXCEPT ![j] = "queued"]
          /\ UNCHANGED <<booking, isBooked, enquiry, quote, job, settling, invState, invTold>>
      BY <1>5, <2>2 DEF Con!CreateInvoice, Con!Finish, Con!bookingVars, Con!workVars, Con!invLedger
    <3>2. Con!TypeOK'
      BY <1>t, <1>l, <3>1 DEF Con!TypeOK, Con!InvoiceStatus
    <3>3. job[j] # "none"
      BY <3>1 DEF ConInv, JobStays, ForJob
    <3>4. \A k \in Works : Decided(k)'
      BY <1>t, <3>1, <3>3 DEF Con!TypeOK, Decided
    <3> QED
      BY <1>l, <3>1, <3>2, <3>4, StaysDecided
  <2> QED
    BY <2>1, <2>2
<1>6. ASSUME NEW j \in Works, NEW new \in Con!JobStatus, Con!MoveJob(c, j, new)
      PROVE  ConInv'
  <2>1. CASE Con!Begin(c, <<new, j>>, <<job[j], new>> \in Con!JobMoves)
    BY <2>1, BeginKeeps
  <2>2. CASE ~Con!Begin(c, <<new, j>>, <<job[j], new>> \in Con!JobMoves)
    <3>1. /\ clerk[c] = <<new, j>>
          /\ clerk' = [clerk EXCEPT ![c] = Con!AtDesk]
          /\ job' = [job EXCEPT ![j] = new]
          /\ UNCHANGED <<booking, isBooked, enquiry, quote, invoice, pdf, settling, invState, invTold>>
      BY <1>6, <2>2 DEF Con!MoveJob, Con!Finish, Con!bookingVars, Con!invVars, Con!invLedger
    <3>2. Con!TypeOK'
      BY <1>t, <1>l, <3>1 DEF Con!TypeOK
    <3>3. job[j] # "none" /\ new # "none"
      BY <3>1 DEF ConInv, JobStays, ForJob, Con!JobStatus
    <3>4. \A k \in Works : Decided(k)' /\ (job[k] # "none" => job'[k] # "none")
      BY <1>t, <3>1, <3>3 DEF Con!TypeOK, Decided
    <3> QED
      BY <1>l, <3>1, <3>2, <3>4, StaysDecided
  <2> QED
    BY <2>1, <2>2
<1>7. CASE Con!Abandon(c)
  <2>1. clerk' = [clerk EXCEPT ![c] = Con!AtDesk]
        /\ UNCHANGED <<booking, isBooked, enquiry, quote, job, invoice, pdf, settling, invState, invTold>>
    BY <1>7 DEF Con!Abandon, Con!bookingVars, Con!workVars, Con!invVars, Con!invLedger
  <2>2. Con!TypeOK'
    BY <1>t, <1>l, <2>1 DEF Con!TypeOK
  <2> QED
    BY <1>t, <1>l, <2>1, <2>2, StaysDecided DEF Decided
<1> QED
  BY <1>1, <1>2, <1>3, <1>4, <1>5, <1>6, <1>7 DEF Con!Errand

-----------------------------------------------------------------------------
(* Steps outside the requests that concern a work *)

LEMMA ConStep == ConInv /\ [Con!Next]_(Con!vars) => ConInv'
<1> SUFFICES ASSUME ConInv, [Con!Next]_(Con!vars) PROVE ConInv'
  OBVIOUS
<1>t. Con!TypeOK /\ \A j \in Works : Decided(j)
  BY AllDecided DEF ConInv
<1>1. ASSUME NEW x \in Slots, Con!BookSlot(x)
      PROVE  ConInv'
  <2>1. UNCHANGED <<enquiry, quote, job, invoice, pdf, settling, clerk, invState, invTold>>
    BY <1>1 DEF Con!BookSlot, Con!workVars, Con!invVars, Con!invLedger
  <2>2. Con!TypeOK'
    BY <1>1, <1>t, <2>1 DEF Con!BookSlot, Con!TypeOK, Con!BookingStatus
  <2> QED
    BY <1>t, <2>1, <2>2, StaysDecided DEF Decided
<1>2. ASSUME NEW j \in Works, Con!AskQuote(j)
      PROVE  ConInv'
  <2>1. /\ enquiry[j] = "none" /\ enquiry' = [enquiry EXCEPT ![j] = "OPEN"]
        /\ UNCHANGED <<booking, isBooked, quote, job, invoice, pdf, settling, clerk, invState, invTold>>
    BY <1>2 DEF Con!AskQuote, Con!bookingVars, Con!invVars, Con!invLedger
  <2>2. Con!TypeOK'
    BY <1>t, <2>1 DEF Con!TypeOK, Con!EnquiryStatus
  <2>3. \A k \in Works : Decided(k)'
    BY <1>t, <2>1 DEF Con!TypeOK, Decided
  <2> QED
    BY <2>1, <2>2, <2>3, StaysDecided
<1>3. ASSUME NEW j \in Works, Con!ReadInvoice(j)
      PROVE  ConInv'
  <2>1. /\ pdf[j] = "queued" /\ pdf' = [pdf EXCEPT ![j] = invoice[j]]
        /\ UNCHANGED <<booking, isBooked, enquiry, quote, job, invoice, settling, clerk, invState, invTold>>
    BY <1>3 DEF Con!ReadInvoice, Con!bookingVars, Con!workVars, Con!invLedger
  <2>2. Con!TypeOK'
    BY <1>t, <2>1 DEF Con!TypeOK, Con!InvoiceStatus
  <2>3. \A k \in Works : Decided(k)'
    BY <1>t, <2>1 DEF Con!TypeOK, Decided
  <2> QED
    BY <2>1, <2>2, <2>3, StaysDecided
<1>4. ASSUME NEW j \in Works, Con!SaveInvoice(j)
      PROVE  ConInv'
  <2>1. /\ pdf[j] \in Con!InvoiceStatus
        /\ UNCHANGED <<booking, isBooked, enquiry, quote, job, settling, clerk, invState, invTold>>
        /\ \/ invoice' = [invoice EXCEPT ![j] = pdf[j]] /\ pdf' = [pdf EXCEPT ![j] = "made"]
           \/ /\ pdf' = [pdf EXCEPT ![j] = "queued"] \/ pdf' = [pdf EXCEPT ![j] = "none"]
              /\ invoice' = invoice
    BY <1>4 DEF Con!SaveInvoice, Con!bookingVars, Con!workVars, Con!invLedger
  <2>2. Con!TypeOK'
    BY <1>t, <2>1 DEF Con!TypeOK, Con!InvoiceStatus
  <2>3. pdf[j] # "none"
    BY <2>1 DEF Con!InvoiceStatus
  <2>4. \A k \in Works : Decided(k)'
    BY <1>t, <2>1, <2>3 DEF Con!TypeOK, Decided, Con!InvoiceStatus
  <2> QED
    BY <2>1, <2>2, <2>4, StaysDecided
<1>5. ASSUME NEW j \in Works, Con!PayInvoice(j) \/ Con!InvoicePush(j)
      PROVE  ConInv'
  <2>1. UNCHANGED <<booking, isBooked, enquiry, quote, job, invoice, pdf, settling, clerk, invTold>>
    BY <1>5 DEF Con!PayInvoice, Con!InvoicePush, Con!bookingVars, Con!workVars, Con!invVars, Con!Pay!Open, Con!Pay!Settle,
                Con!Pay!Close, Con!Pay!Refund, Con!Pay!Move
  <2>2. invState' \in [Works -> Con!Pay!States]
    BY <1>5, <1>t DEF Con!TypeOK, Con!PayInvoice, Con!InvoicePush, Con!Pay!Open, Con!Pay!Settle, Con!Pay!Close, Con!Pay!Refund,
                      Con!Pay!Move, Con!Pay!States
  <2>3. Con!TypeOK'
    BY <1>t, <2>1, <2>2 DEF Con!TypeOK
  <2>4. \A k \in Works : invState'[k] # "absent" => invState[k] # "absent" \/ invoice[k] # "none"
    <3>1. CASE Con!PayInvoice(j)
      BY <3>1 DEF Con!PayInvoice, Con!Pay!Open, Con!Pay!Move
    <3>2. CASE Con!InvoicePush(j)
      BY <3>2 DEF Con!InvoicePush, Con!Pay!Settle, Con!Pay!Close, Con!Pay!Refund, Con!Pay!Move
    <3> QED
      BY <1>5, <3>1, <3>2
  <2>5. \A k \in Works : Decided(k)'
    BY <1>t, <2>1, <2>4 DEF Decided
  <2> QED
    BY <2>1, <2>3, <2>5, StaysDecided
<1>6. ASSUME NEW j \in Works, Con!ReceiveInvoice(j)
      PROVE  ConInv'
  <2>1. /\ invoice' = [invoice EXCEPT ![j] = "PAID"] /\ settling' = [settling EXCEPT ![j] = job[j]]
        /\ invState' = invState /\ invTold' = invTold \cup {j} /\ invState[j] # "absent"
        /\ UNCHANGED <<booking, isBooked, enquiry, quote, job, pdf, clerk>>
    BY <1>6 DEF Con!ReceiveInvoice, Con!bookingVars, Con!workVars, Con!Pay!Tell
  <2>2. Con!TypeOK'
    BY <1>t, <2>1 DEF Con!TypeOK, Con!InvoiceStatus
  <2>3. \A k \in Works : Decided(k)'
    BY <1>t, <2>1 DEF Con!TypeOK, Decided
  <2> QED
    BY <2>1, <2>2, <2>3, StaysDecided
<1>7. ASSUME NEW j \in Works, Con!SettleJob(j)
      PROVE  ConInv'
  <2>1. /\ settling[j] # "none" /\ settling' = [settling EXCEPT ![j] = "none"]
        /\ job' = [job EXCEPT ![j] = "SETTLED"] \/ job' = job
        /\ UNCHANGED <<booking, isBooked, enquiry, quote, invoice, pdf, clerk, invState, invTold>>
    BY <1>7 DEF Con!SettleJob, Con!bookingVars, Con!invLedger
  <2>2. Con!TypeOK'
    BY <1>t, <2>1 DEF Con!TypeOK, Con!JobStatus
  <2>3. \A k \in Works : Decided(k)' /\ (job[k] # "none" => job'[k] # "none")
    BY <1>t, <2>1 DEF Con!TypeOK, Decided
  <2> QED
    BY <2>1, <2>2, <2>3, StaysDecided
<1>8. CASE UNCHANGED Con!vars
  <2>1. UNCHANGED <<booking, isBooked, enquiry, quote, job, invoice, pdf, settling, clerk, invState, invTold>>
    BY <1>8 DEF Con!vars, Con!bookingVars, Con!workVars, Con!invVars, Con!invLedger
  <2>2. Con!TypeOK'
    BY <1>t, <2>1 DEF Con!TypeOK
  <2> QED
    BY <1>t, <2>1, <2>2, StaysDecided DEF Decided
<1> QED
  BY <1>1, <1>2, <1>3, <1>4, <1>5, <1>6, <1>7, <1>8, FinishKeeps DEF Con!Next

-----------------------------------------------------------------------------
\* Whatever requests, tasks and payments overlap, a decided quote closes its request
\* and work is done and invoiced only for requests that are closed, for any number of
\* works and of requests at once.
THEOREM WorkIsDecided == Con!Spec => []WorkWasDecided
<1>1. Con!Init => ConInv
  BY ConInit
<1>2. ConInv /\ [Con!Next]_(Con!vars) => ConInv'
  BY ConStep
<1>3. ConInv => WorkWasDecided
  BY DEF ConInv, WorkWasDecided
<1> QED
  BY <1>1, <1>2, <1>3, PTL DEF Con!Spec
=============================================================================
