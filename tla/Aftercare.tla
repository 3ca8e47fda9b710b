----------------------------- MODULE Aftercare -----------------------------
(***************************************************************************)
(* Re-clean requests and invoices of the bookings of module Customers.     *)
(*                                                                         *)
(* An invoice is issued by whoever asks first.  The request looks for one, *)
(* then counts: it takes the lock of the year's counter inside a savepoint *)
(* and inserts; when another's invoice is there already, the savepoint     *)
(* takes the number back.                                                  *)
(***************************************************************************)
EXTENDS Customers

CONSTANTS Clerks,       \* processes that serve invoices
          Years,        \* years of local dates, in order
          None          \* no booking

ASSUME AftercareAssumption ==
    IsFiniteSet(Clerks) /\ Years \subseteq Nat /\ Years # {} /\ None \notin Bookings

VARIABLES
    year,       \* the local year where it has turned first
    counter,    \* InvoiceCounter.last_number, as committed
    invoice,    \* year and number of each booking's invoice, NoInvoice without
    clerk,      \* what each process is doing
    submitted,  \* bookings with a re-clean request that is SUBMITTED
    inWindow    \* bookings whose guarantee has not run out

careVars == <<year, counter, invoice, clerk, submitted, inWindow>>
aftercareVars == <<customerVars, careVars>>

NoInvoice == <<0, 0>>

Doing(step, b, y, n) == [at |-> step, booking |-> b, year |-> y, number |-> n]
Asleep   == Doing("idle", None, 0, 0)
Locks(y) == \E k \in Clerks : clerk[k].at = "counted" /\ clerk[k].year = y

AftercareTypeOK ==
    /\ CustomersTypeOK
    /\ year \in Years
    /\ counter \in [Years -> Nat]
    /\ invoice \in [Bookings -> (Years \X Nat) \union {NoInvoice}]
    /\ clerk \in [Clerks -> [at : {"idle", "asked", "counted"}, booking : Bookings \union {None},
                             year : Years \union {0}, number : Nat]]
    /\ submitted \subseteq Bookings
    /\ inWindow \subseteq Bookings

AftercareInit ==
    /\ CustomersInit
    /\ year \in Years
    /\ counter = [y \in Years |-> 0]
    /\ invoice = [b \in Bookings |-> NoInvoice]
    /\ clerk = [k \in Clerks |-> Asleep]
    /\ submitted = {}
    /\ inWindow = {}
-----------------------------------------------------------------------------
(* Invoices *)

\* _paid_payment: SUCCEEDED or REFUNDED.  Customers does not tell whether a charge
\* under way has succeeded, nor a refunded booking from another that is cancelled
Paid(b) == stage[b] \in {"PAYING", "CONFIRMED", "COMPLETED", "CANCELLED"}

\* The year turns in one time zone after the other
LocalYears == {y \in Years : y = year \/ y + 1 = year}

\* invoice_for_customer and invoice_for_admin: no invoice yet
AskForInvoice(k, b) ==
    /\ clerk[k].at = "idle"
    /\ Paid(b) /\ invoice[b] = NoInvoice
    /\ \E y \in LocalYears : clerk' = [clerk EXCEPT ![k] = Doing("asked", b, y, 0)]
    /\ UNCHANGED <<year, counter, invoice, submitted, inWindow>>

\* _next_invoice_number waits for the lock of the year's row
MayCount(y) == ~Locks(y)

NextInvoiceNumber(k) ==
    /\ clerk[k].at = "asked" /\ MayCount(clerk[k].year)
    /\ LET y == clerk[k].year
       IN clerk' = [clerk EXCEPT ![k] = Doing("counted", clerk[k].booking, y, counter[y] + 1)]
    /\ UNCHANGED <<year, counter, invoice, submitted, inWindow>>

\* Invoice.objects.create: the number is kept with the invoice, or not at all
BadKept(taken, n) == n                          \* no savepoint around the count
Kept(taken, n)    == IF taken THEN n - 1 ELSE n

InvoiceSaved(k) ==
    /\ clerk[k].at = "counted"
    /\ LET b == clerk[k].booking
           y == clerk[k].year
           taken == invoice[b] # NoInvoice
       IN /\ counter' = [counter EXCEPT ![y] = Kept(taken, clerk[k].number)]
          /\ invoice' = IF taken THEN invoice ELSE [invoice EXCEPT ![b] = <<y, clerk[k].number>>]
    /\ clerk' = [clerk EXCEPT ![k] = Asleep]
    /\ UNCHANGED <<year, submitted, inWindow>>

\* A process dies: its lock and its number go with the transaction
ClerkDies(k) ==
    /\ clerk[k].at # "idle"
    /\ clerk' = [clerk EXCEPT ![k] = Asleep]
    /\ UNCHANGED <<year, counter, invoice, submitted, inWindow>>

NewYear ==
    /\ year + 1 \in Years
    /\ year' = year + 1
    /\ UNCHANGED <<counter, invoice, clerk, submitted, inWindow>>
-----------------------------------------------------------------------------
(* Re-clean requests: under the lock of the booking, which completion opens *)

CreateRecleanRequest(b) ==
    /\ account = "ACTIVE"
    /\ stage[b] = "COMPLETED" /\ b \in inWindow
    /\ b \notin submitted
    /\ submitted' = submitted \union {b}
    /\ UNCHANGED <<year, counter, invoice, clerk, inWindow>>

\* APPROVED or REJECTED: either way the customer may ask again in time
DecideRecleanRequest(b) ==
    /\ b \in submitted
    /\ submitted' = submitted \ {b}
    /\ UNCHANGED <<year, counter, invoice, clerk, inWindow>>

\* RECLEAN_GUARANTEE_HOURS after completion
WindowCloses(b) ==
    /\ b \in inWindow
    /\ inWindow' = inWindow \ {b}
    /\ UNCHANGED <<year, counter, invoice, clerk, submitted>>
-----------------------------------------------------------------------------
CareNext ==
    \/ \E k \in Clerks :
          \/ \E b \in Bookings : AskForInvoice(k, b)
          \/ NextInvoiceNumber(k) \/ InvoiceSaved(k) \/ ClerkDies(k)
    \/ NewYear
    \/ \E b \in Bookings :
          \/ CreateRecleanRequest(b) \/ DecideRecleanRequest(b) \/ WindowCloses(b)

\* Completion opens the window of the bookings it completes
CustomersMove ==
    /\ CustomersNext
    /\ inWindow' = inWindow \union {b \in Bookings : stage[b] = "CONFIRMED" /\ stage'[b] = "COMPLETED"}
    /\ UNCHANGED <<year, counter, invoice, clerk, submitted>>

AftercareNext == CustomersMove \/ (CareNext /\ UNCHANGED customerVars)

AftercareSpec == AftercareInit /\ [][AftercareNext]_aftercareVars
-----------------------------------------------------------------------------
(* Properties *)

\* The numbers of a year are 1, 2, 3 and so on without a gap and without a
\* repetition, and a booking has one invoice, whoever asks at the same moment
\* and whenever the year turns (aftercare.py: the gapless sequence).
InvoicesGapless ==
    /\ \A y \in Years : \A n \in 1 .. counter[y] : \E b \in Bookings : invoice[b] = <<y, n>>
    /\ \A a, b \in Bookings : invoice[a] = invoice[b] /\ invoice[a] # NoInvoice => a = b
=============================================================================
