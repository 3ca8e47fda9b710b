--------------------------- MODULE Aftercare_proofs ---------------------------
(***************************************************************************)
(* Invoices and deletion, for any number of bookings, years, clerks and    *)
(* workers.                                                                *)
(***************************************************************************)
EXTENDS Aftercare, FiniteSetTheorems, TLAPS

USE AftercareAssumption, CustomersAssumption
-----------------------------------------------------------------------------
(***************************************************************************)
(* Invoices.  While a clerk has counted, it holds the lock of the year, so *)
(* that its number stays the next one; and every invoice has a number that *)
(* is counted.                                                             *)
(***************************************************************************)

ClerkRows == [at : {"idle", "asked", "counted"}, booking : Bookings \union {None},
              year : Years \union {0}, number : Nat]
Numbered  == Years \X Nat

InvoiceTypeOK ==
    /\ year \in Years
    /\ counter \in [Years -> Nat]
    /\ invoice \in [Bookings -> Numbered \union {NoInvoice}]
    /\ clerk \in [Clerks -> ClerkRows]

Counted(k) == clerk[k].at = "counted"

ClerksKnow ==
    \A k \in Clerks :
        /\ clerk[k].at # "idle" => clerk[k].booking \in Bookings /\ clerk[k].year \in Years
        /\ Counted(k) => clerk[k].number = counter[clerk[k].year] + 1

OneCounts == \A k, j \in Clerks : Counted(k) /\ Counted(j) /\ clerk[k].year = clerk[j].year => k = j

Issued ==
    \A b \in Bookings :
        invoice[b] # NoInvoice => \E y \in Years : \E n \in 1 .. counter[y] : invoice[b] = <<y, n>>

InvoicesInv == InvoiceTypeOK /\ ClerksKnow /\ OneCounts /\ Issued /\ InvoicesGapless

LEMMA DoingIs ==
    ASSUME NEW step, NEW b, NEW y, NEW n
    PROVE  /\ Doing(step, b, y, n).at = step /\ Doing(step, b, y, n).booking = b
           /\ Doing(step, b, y, n).year = y  /\ Doing(step, b, y, n).number = n
BY DEF Doing

LEMMA DoingType ==
    ASSUME NEW step \in {"idle", "asked", "counted"}, NEW b \in Bookings \union {None},
           NEW y \in Years \union {0}, NEW n \in Nat
    PROVE  Doing(step, b, y, n) \in ClerkRows
BY DEF Doing, ClerkRows

LEMMA AsleepType == Asleep \in ClerkRows /\ Asleep.at = "idle"
BY DoingIs, DoingType DEF Asleep

\* One clerk changes to a row that has not counted, and nothing else
LEMMA ClerkLeaves ==
    ASSUME InvoicesInv, NEW k \in Clerks, NEW next \in ClerkRows,
           clerk' = [clerk EXCEPT ![k] = next], UNCHANGED <<counter, invoice>>, year' \in Years,
           next.at # "counted",
           next.at # "idle" => next.booking \in Bookings /\ next.year \in Years
    PROVE  InvoicesInv'
<1>1. /\ clerk' \in [Clerks -> ClerkRows]
      /\ \A j \in Clerks : clerk'[j] = IF j = k THEN next ELSE clerk[j]
  BY DEF InvoicesInv, InvoiceTypeOK
<1>2. InvoiceTypeOK'
  BY <1>1 DEF InvoicesInv, InvoiceTypeOK
<1>3. ClerksKnow' /\ OneCounts'
  BY <1>1 DEF InvoicesInv, ClerksKnow, OneCounts, Counted
<1>4. Issued' /\ InvoicesGapless'
  BY DEF InvoicesInv, Issued, InvoicesGapless
<1> QED
  BY <1>2, <1>3, <1>4 DEF InvoicesInv

LEMMA AskKeeps ==
    ASSUME InvoicesInv, NEW k \in Clerks, NEW b \in Bookings, AskForInvoice(k, b)
    PROVE  InvoicesInv'
<1> PICK y \in LocalYears : clerk' = [clerk EXCEPT ![k] = Doing("asked", b, y, 0)]
  BY DEF AskForInvoice
<1> DEFINE next == Doing("asked", b, y, 0)
<1>1. y \in Years /\ year \in Years
  BY DEF InvoicesInv, InvoiceTypeOK, LocalYears
<1>2. next \in ClerkRows /\ next.at = "asked" /\ next.booking = b /\ next.year = y
  BY <1>1, DoingIs, DoingType
<1>3. clerk' = [clerk EXCEPT ![k] = next] /\ UNCHANGED <<year, counter, invoice>>
  BY DEF AskForInvoice
<1> HIDE DEF next
<1> QED
  BY <1>1, <1>2, <1>3, ClerkLeaves

LEMMA CountKeeps ==
    ASSUME InvoicesInv, NEW k \in Clerks, NextInvoiceNumber(k)
    PROVE  InvoicesInv'
<1> DEFINE y    == clerk[k].year
           next == Doing("counted", clerk[k].booking, y, counter[y] + 1)
<1>1. clerk[k] \in ClerkRows /\ y \in Years /\ clerk[k].booking \in Bookings /\ counter[y] \in Nat
  BY DEF InvoicesInv, InvoiceTypeOK, ClerksKnow, NextInvoiceNumber
<1>2. /\ next \in ClerkRows /\ next.at = "counted" /\ next.number = counter[y] + 1
      /\ next.year = y /\ next.booking = clerk[k].booking
  <2>1. counter[y] + 1 \in Nat
    BY <1>1
  <2>2. next \in ClerkRows
    <3>1. y \in Years \union {0} /\ clerk[k].booking \in Bookings \union {None}
      BY <1>1
    <3> QED
      BY <2>1, <3>1, DoingType
  <2> QED
    BY <2>2, DoingIs
<1>3. clerk' = [clerk EXCEPT ![k] = next] /\ UNCHANGED <<year, counter, invoice>>
  BY DEF NextInvoiceNumber
<1>4. \A j \in Clerks : ~(Counted(j) /\ clerk[j].year = y)
  BY DEF NextInvoiceNumber, MayCount, Locks, Counted
<1> HIDE DEF next, y
<1>5. /\ clerk' \in [Clerks -> ClerkRows]
      /\ \A j \in Clerks : clerk'[j] = IF j = k THEN next ELSE clerk[j]
  BY <1>2, <1>3 DEF InvoicesInv, InvoiceTypeOK
<1>6. InvoiceTypeOK'
  BY <1>3, <1>5 DEF InvoicesInv, InvoiceTypeOK
<1>7. ClerksKnow'
  BY <1>1, <1>2, <1>3, <1>5 DEF InvoicesInv, ClerksKnow, Counted
<1>8. OneCounts'
  BY <1>2, <1>4, <1>5 DEF InvoicesInv, OneCounts, Counted
<1>9. Issued' /\ InvoicesGapless'
  BY <1>3 DEF InvoicesInv, Issued, InvoicesGapless
<1> QED
  BY <1>6, <1>7, <1>8, <1>9 DEF InvoicesInv

LEMMA SaveKeeps ==
    ASSUME InvoicesInv, NEW k \in Clerks, InvoiceSaved(k)
    PROVE  InvoicesInv'
<1> DEFINE b == clerk[k].booking
           y == clerk[k].year
           n == counter[y] + 1
<1>1. /\ Counted(k) /\ b \in Bookings /\ y \in Years /\ clerk[k].number = n
      /\ counter \in [Years -> Nat] /\ invoice \in [Bookings -> Numbered \union {NoInvoice}]
  BY DEF InvoicesInv, InvoiceTypeOK, ClerksKnow, InvoiceSaved, Counted
<1>a. counter[y] \in Nat
  BY <1>1
<1>2. n \in Nat /\ n = counter[y] + 1 /\ n - 1 = counter[y]
  BY <1>a
<1>3. clerk' = [clerk EXCEPT ![k] = Asleep] /\ year' = year
  BY DEF InvoiceSaved
<1>4. /\ clerk' \in [Clerks -> ClerkRows]
      /\ \A j \in Clerks : clerk'[j] = IF j = k THEN Asleep ELSE clerk[j]
  BY <1>3, AsleepType DEF InvoicesInv, InvoiceTypeOK
<1>5. CASE invoice[b] # NoInvoice
  <2>1. counter' = counter /\ invoice' = invoice
    <3>1. invoice' = invoice /\ counter' = [counter EXCEPT ![y] = n - 1]
      BY <1>1, <1>5 DEF InvoiceSaved, Kept
    <3> QED
      BY <1>1, <1>2, <3>1
  <2> QED
    BY <1>3, <2>1, AsleepType, ClerkLeaves DEF InvoicesInv, InvoiceTypeOK
<1>6. CASE invoice[b] = NoInvoice
  <2>1. counter' = [counter EXCEPT ![y] = n] /\ invoice' = [invoice EXCEPT ![b] = <<y, n>>]
    BY <1>1, <1>6 DEF InvoiceSaved, Kept
  <2>2. <<y, n>> \in Numbered /\ <<y, n>> # NoInvoice
    BY <1>1, <1>2 DEF Numbered, NoInvoice
  <2>a. n \in 1 .. n /\ counter[y] < n /\ 1 .. counter[y] \subseteq 1 .. n
        /\ \A m \in 1 .. n : m = n \/ m \in 1 .. counter[y]
    <3> HIDE DEF n
    <3> QED
      BY <1>a, <1>2
  <2> HIDE DEF n, b, y
  <2>3. /\ counter' \in [Years -> Nat] /\ invoice' \in [Bookings -> Numbered \union {NoInvoice}]
        /\ \A z \in Years : counter'[z] = IF z = y THEN n ELSE counter[z]
        /\ \A a \in Bookings : invoice'[a] = IF a = b THEN <<y, n>> ELSE invoice[a]
    BY <1>1, <1>2, <2>1, <2>2
  <2>4. InvoiceTypeOK'
    BY <1>3, <1>4, <2>3 DEF InvoicesInv, InvoiceTypeOK
  <2>5. \A j \in Clerks : j # k /\ Counted(j) => clerk[j].year # y
    BY <1>1 DEF InvoicesInv, OneCounts, y
  <2>b. \A j \in Clerks : clerk'[j].at # "idle" => j # k /\ clerk'[j] = clerk[j]
    BY <1>4, AsleepType
  <2>6. ClerksKnow' /\ OneCounts'
    <3>1. ClerksKnow'
      <4> SUFFICES ASSUME NEW j \in Clerks, clerk'[j].at # "idle"
                   PROVE  /\ clerk[j].booking \in Bookings /\ clerk[j].year \in Years
                          /\ Counted(j) => clerk[j].number = counter'[clerk[j].year] + 1
        BY <2>b DEF ClerksKnow, Counted
      <4>1. /\ j # k /\ clerk[j].booking \in Bookings /\ clerk[j].year \in Years
            /\ Counted(j) => clerk[j].number = counter[clerk[j].year] + 1
        BY <2>b DEF InvoicesInv, ClerksKnow
      <4> QED
        BY <2>3, <2>5, <4>1
    <3>2. OneCounts'
      BY <2>b DEF InvoicesInv, OneCounts, Counted
    <3> QED
      BY <3>1, <3>2
  <2>7. \A a \in Bookings : invoice[a] # <<y, n>>
    <3> SUFFICES ASSUME NEW a \in Bookings, invoice[a] = <<y, n>>
                 PROVE  FALSE
      OBVIOUS
    <3>a. PICK z \in Years : \E m \in 1 .. counter[z] : invoice[a] = <<z, m>>
      BY <2>2 DEF InvoicesInv, Issued
    <3>1. PICK m \in 1 .. counter[z] : invoice[a] = <<z, m>>
      BY <3>a
    <3>2. z = y /\ m = n
      BY <3>1
    <3> QED
      BY <1>1, <1>2, <2>a, <3>1, <3>2
  <2>8. Issued'
    <3> SUFFICES ASSUME NEW a \in Bookings, invoice'[a] # NoInvoice
                 PROVE  \E z \in Years : \E m \in 1 .. counter'[z] : invoice'[a] = <<z, m>>
      BY DEF Issued
    <3>1. CASE a = b
      BY <1>1, <2>a, <2>3, <3>1
    <3>2. CASE a # b
      <4>a. PICK z \in Years : \E m \in 1 .. counter[z] : invoice[a] = <<z, m>>
        BY <2>3, <3>2 DEF InvoicesInv, Issued
      <4>1. PICK m \in 1 .. counter[z] : invoice[a] = <<z, m>>
        BY <4>a
      <4>2. m \in 1 .. counter'[z]
        BY <2>3, <2>a, <4>1
      <4> QED
        BY <2>3, <3>2, <4>1, <4>2
    <3> QED
      BY <3>1, <3>2
  <2>9. InvoicesGapless'
    <3>1. ASSUME NEW z \in Years, NEW m \in 1 .. counter'[z]
          PROVE  \E a \in Bookings : invoice'[a] = <<z, m>>
      <4>1. CASE z = y /\ m = n
        BY <1>1, <2>3, <4>1
      <4>2. CASE ~(z = y /\ m = n)
        <5>1. m \in 1 .. counter[z]
          BY <2>a, <2>3, <3>1, <4>2
        <5>2. PICK a \in Bookings : invoice[a] = <<z, m>>
          BY <5>1 DEF InvoicesInv, InvoicesGapless
        <5>3. invoice[a] # NoInvoice
          BY <1>1, <5>1, <5>2 DEF NoInvoice
        <5> QED
          BY <1>6, <2>3, <5>2, <5>3
      <4> QED
        BY <4>1, <4>2
    <3>2. \A a, c \in Bookings : invoice'[a] = invoice'[c] /\ invoice'[a] # NoInvoice => a = c
      BY <2>3, <2>7 DEF InvoicesInv, InvoicesGapless
    <3> QED
      BY <3>1, <3>2 DEF InvoicesGapless
  <2> QED
    BY <2>4, <2>6, <2>8, <2>9 DEF InvoicesInv
<1> QED
  BY <1>5, <1>6

LEMMA InvoicesInit == AftercareInit => InvoicesInv
<1> SUFFICES ASSUME AftercareInit  PROVE InvoicesInv
  OBVIOUS
<1>1. year \in Years
  BY DEF AftercareInit
<1>2. /\ counter \in [Years -> Nat] /\ \A y \in Years : counter[y] = 0
      /\ invoice \in [Bookings -> Numbered \union {NoInvoice}] /\ \A b \in Bookings : invoice[b] = NoInvoice
      /\ clerk \in [Clerks -> ClerkRows] /\ \A k \in Clerks : clerk[k].at = "idle"
  BY AsleepType DEF AftercareInit
<1>3. \A y \in Years : 1 .. counter[y] = {}
  BY <1>2
<1> QED
  BY <1>1, <1>2, <1>3 DEF InvoicesInv, InvoiceTypeOK, ClerksKnow, OneCounts, Issued, InvoicesGapless, Counted

LEMMA InvoicesLeft ==
    ASSUME InvoicesInv, UNCHANGED <<counter, invoice, clerk>>, year' \in Years
    PROVE  InvoicesInv'
BY DEF InvoicesInv, InvoiceTypeOK, ClerksKnow, OneCounts, Issued, InvoicesGapless, Counted

LEMMA InvoicesStep == InvoicesInv /\ [AftercareNext]_aftercareVars => InvoicesInv'
<1> SUFFICES ASSUME InvoicesInv, [AftercareNext]_aftercareVars
             PROVE  InvoicesInv'
  OBVIOUS
<1>0. year \in Years
  BY DEF InvoicesInv, InvoiceTypeOK
<1>1. CASE UNCHANGED aftercareVars
  BY <1>0, <1>1, InvoicesLeft DEF aftercareVars, careVars
<1>2. CASE CustomersMove
  BY <1>0, <1>2, InvoicesLeft DEF CustomersMove
<1>3. ASSUME NEW k \in Clerks, ClerkDies(k)
      PROVE  InvoicesInv'
  BY <1>0, <1>3, AsleepType, ClerkLeaves DEF ClerkDies
<1>4. CASE NewYear
  BY <1>4, InvoicesLeft DEF NewYear
<1>5. ASSUME NEW b \in Bookings, CreateRecleanRequest(b) \/ DecideRecleanRequest(b) \/ WindowCloses(b)
      PROVE  InvoicesInv'
  BY <1>0, <1>5, InvoicesLeft DEF CreateRecleanRequest, DecideRecleanRequest, WindowCloses
<1> QED
  BY <1>1, <1>2, <1>3, <1>4, <1>5, AskKeeps, CountKeeps, SaveKeeps DEF AftercareNext, CareNext

\* The numbers of a year have no gap and no repetition, and a booking has one
\* invoice, for any number of clerks who issue them at once.
THEOREM InvoicesHaveNoGap == AftercareSpec => []InvoicesGapless
<1>1. InvoicesInv => InvoicesGapless
  BY DEF InvoicesInv
<1> QED
  BY <1>1, InvoicesInit, InvoicesStep, PTL DEF AftercareSpec
-----------------------------------------------------------------------------
(***************************************************************************)
(* Deletion.  Who deletes is a worker itself; afterwards no request begins *)
(* to book, so that the bookings that wait and the requests that may still *)
(* add one are together fewer than the workers.                            *)
(***************************************************************************)

Rows ==
    /\ stage = [b \in Bookings |-> stage[b]]
    /\ req = [w \in Workers |-> req[w]]

Waiting == {b \in Bookings : stage[b] \in Pending}
Booking == {w \in Workers : At(w, "booking")}

ClosedAfterwards == account = "DELETED" => Cardinality(Waiting) + Cardinality(Booking) < Cardinality(Workers)

DeletionInv == Rows /\ ClosedAfterwards

LEMMA Counts ==
    /\ IsFiniteSet(Waiting) /\ Cardinality(Waiting) \in Nat
    /\ IsFiniteSet(Booking) /\ Cardinality(Booking) \in Nat
    /\ Cardinality(Workers) \in Nat
<1>1. Waiting \subseteq Bookings /\ Booking \subseteq Workers
  BY DEF Waiting, Booking
<1> QED
  BY <1>1, FS_Subset, FS_CardinalityType

LEMMA NothingAdded ==
    ASSUME NEW A, NEW B, A \subseteq Waiting, B \subseteq Booking,
           Cardinality(Waiting) + Cardinality(Booking) < Cardinality(Workers)
    PROVE  Cardinality(A) + Cardinality(B) < Cardinality(Workers)
<1>1. /\ IsFiniteSet(A) /\ Cardinality(A) <= Cardinality(Waiting)
      /\ IsFiniteSet(B) /\ Cardinality(B) <= Cardinality(Booking)
  BY Counts, FS_Subset
<1>2. Cardinality(A) \in Nat /\ Cardinality(B) \in Nat
  BY <1>1, FS_CardinalityType
<1> QED
  BY <1>1, <1>2, Counts

LEMMA ReqAfter ==
    ASSUME Rows, NEW w \in Workers, NEW next, Goto(w, next)
    PROVE  /\ req' = [v \in Workers |-> req'[v]]
           /\ \A v \in Workers : req'[v] = IF v = w THEN next ELSE req[v]
<1>1. req' = [v \in Workers |-> IF v = w THEN next ELSE req[v]]
  BY DEF Rows, Goto
<1> QED
  BY <1>1

\* A request that does not come to book leaves the set as it is or smaller
LEMMA BookingAfter ==
    ASSUME Rows, NEW w \in Workers, NEW next, Goto(w, next), next.at # "booking"
    PROVE  Booking' = Booking \ {w}
BY ReqAfter DEF Booking, At

LEMMA SavedKeeps ==
    ASSUME DeletionInv, NEW w \in Workers, BookingSaved(w)
    PROVE  DeletionInv'
<1>1. PICK b \in Bookings : stage[b] = "none" /\ stage' = [stage EXCEPT ![b] = "SEARCHING"]
  BY DEF BookingSaved
<1>2. /\ stage' = [a \in Bookings |-> stage'[a]]
      /\ \A a \in Bookings : stage'[a] = IF a = b THEN "SEARCHING" ELSE stage[a]
  <2>1. stage' = [a \in Bookings |-> IF a = b THEN "SEARCHING" ELSE stage[a]]
    BY <1>1 DEF DeletionInv, Rows
  <2> QED
    BY <2>1
<1>3. Waiting' = Waiting \union {b}
  BY <1>2 DEF Waiting, Pending
<1>4. Booking' = Booking \ {w} /\ w \in Booking
  BY BookingAfter DEF DeletionInv, BookingSaved, Booking, Idle
<1>5. Cardinality(Waiting') <= Cardinality(Waiting) + 1 /\ Cardinality(Waiting') \in Nat
  <2>1. /\ IsFiniteSet(Waiting \union {b})
        /\ \/ Cardinality(Waiting \union {b}) = Cardinality(Waiting)
           \/ Cardinality(Waiting \union {b}) = Cardinality(Waiting) + 1
    BY Counts, FS_AddElement
  <2>2. Cardinality(Waiting \union {b}) <= Cardinality(Waiting) + 1
    BY <2>1, Counts
  <2> QED
    BY <1>3, <2>1, <2>2, FS_CardinalityType
<1>6. Cardinality(Booking') = Cardinality(Booking) - 1 /\ Cardinality(Booking') \in Nat
  BY <1>4, Counts, FS_RemoveElement, FS_CardinalityType
<1>7. ClosedAfterwards'
  <2> SUFFICES ASSUME account' = "DELETED"
               PROVE  Cardinality(Waiting') + Cardinality(Booking') < Cardinality(Workers)
    BY DEF ClosedAfterwards
  <2>1. Cardinality(Waiting) + Cardinality(Booking) < Cardinality(Workers)
    BY DEF DeletionInv, ClosedAfterwards, BookingSaved
  <2> QED
    BY <1>5, <1>6, <2>1, Counts
<1>8. Rows'
  BY <1>2, ReqAfter DEF DeletionInv, Rows, BookingSaved
<1> QED
  BY <1>7, <1>8 DEF DeletionInv

LEMMA DeletedKeeps ==
    ASSUME DeletionInv, NEW w \in Workers, AccountDeleted(w)
    PROVE  DeletionInv'
<1>1. stage' = [b \in Bookings |-> stage'[b]] /\ \A b \in Bookings : stage'[b] = Closed(b)
  BY DEF AccountDeleted
<1>2. Waiting' = {}
  BY <1>1 DEF Waiting, Closed, Pending
<1>3. Booking' \subseteq Workers \ {w}
  BY BookingAfter DEF DeletionInv, AccountDeleted, Booking, Idle
<1>4. Cardinality({}) = 0 /\ Cardinality(Workers \ {w}) = Cardinality(Workers) - 1 /\ IsFiniteSet(Workers \ {w})
  BY FS_EmptySet, FS_RemoveElement
<1>5. Cardinality(Booking') <= Cardinality(Workers \ {w}) /\ Cardinality(Booking') \in Nat
  BY <1>3, <1>4, FS_Subset, FS_CardinalityType
<1>6. ClosedAfterwards'
  BY <1>2, <1>4, <1>5, Counts DEF ClosedAfterwards
<1>7. Rows'
  BY <1>1, ReqAfter DEF DeletionInv, Rows, AccountDeleted
<1> QED
  BY <1>6, <1>7 DEF DeletionInv

\* Every other request: it does not begin to book once the account is deleted
LEMMA WorkersKeep ==
    ASSUME DeletionInv, NEW w \in Workers,
           \/ CreateBooking(w) \/ UpdateProperty(w) \/ RemoveProperty(w) \/ PropertyChecked(w) \/ PropertySaved(w)
           \/ UpdateAddress(w) \/ AddressSaved(w) \/ DeleteAccount(w) \/ RequestEnds(w)
    PROVE  DeletionInv'
<1>1. stage' = stage /\ account' = account
  BY DEF CreateBooking, UpdateProperty, RemoveProperty, PropertyChecked, PropertySaved, UpdateAddress, AddressSaved,
     DeleteAccount, RequestEnds, lifeVars
<1>2. \E next : Goto(w, next) /\ (next.at = "booking" => account = "ACTIVE")
  <2>1. CASE CreateBooking(w)
    BY <2>1 DEF CreateBooking, Begins
  <2>2. CASE ~CreateBooking(w)
    <3>1. Idle.at = "idle" /\ \A step \in {"moving", "deleting", "removing", "saving"} : [Idle EXCEPT !.at = step].at = step
      BY DEF Idle
    <3>2. \A l : [at |-> "saving", listed |-> l].at = "saving"
      OBVIOUS
    <3> QED
      BY <2>2, <3>1, <3>2 DEF UpdateProperty, RemoveProperty, PropertyChecked, PropertySaved, UpdateAddress, AddressSaved, DeleteAccount, RequestEnds
  <2> QED
    BY <2>1, <2>2
<1>3. PICK next : Goto(w, next) /\ (next.at = "booking" => account = "ACTIVE")
  BY <1>2
<1>4. Rows'
  BY <1>1, <1>3, ReqAfter DEF DeletionInv, Rows
<1>5. ClosedAfterwards'
  <2> SUFFICES ASSUME account = "DELETED"
               PROVE  Cardinality(Waiting') + Cardinality(Booking') < Cardinality(Workers)
    BY <1>1 DEF ClosedAfterwards
  <2>1. Waiting' \subseteq Waiting
    BY <1>1 DEF Waiting
  <2>2. Booking' \subseteq Booking
    BY <1>3, BookingAfter DEF DeletionInv
  <2> QED
    BY <2>1, <2>2, NothingAdded DEF DeletionInv, ClosedAfterwards
<1> QED
  BY <1>4, <1>5 DEF DeletionInv

LEMMA AdvancesKeep ==
    ASSUME DeletionInv, NEW b \in Bookings, Advances(b) \/ CreateReview(b)
    PROVE  DeletionInv'
<1>1. req' = req /\ account' = account
  BY DEF Advances, Moves, CreateReview
<1>2. CASE stage' = stage
  BY <1>1, <1>2 DEF DeletionInv, Rows, ClosedAfterwards, Waiting, Booking, At
<1>3. ASSUME NEW from, NEW to, Moves(b, from, to), to \in Pending => from \subseteq Pending
      PROVE  DeletionInv'
  <2>1. stage' = [a \in Bookings |-> IF a = b THEN to ELSE stage[a]]
    BY <1>3 DEF DeletionInv, Rows, Moves
  <2>2. Waiting' \subseteq Waiting
    BY <1>3, <2>1 DEF Waiting, Moves
  <2>3. Booking' = Booking
    BY <1>1 DEF Booking, At
  <2>4. ClosedAfterwards'
    BY <1>1, <2>2, <2>3, NothingAdded DEF DeletionInv, ClosedAfterwards
  <2>5. Rows'
    BY <1>1, <2>1 DEF DeletionInv, Rows
  <2> QED
    BY <2>4, <2>5 DEF DeletionInv
<1>4. CASE CreateReview(b)
  BY <1>2, <1>4 DEF CreateReview
<1>5. CASE Advances(b)
  BY <1>3, <1>5 DEF Advances, Pending
<1> QED
  BY <1>4, <1>5

LEMMA DeletionInit == AftercareInit => DeletionInv
BY DEF AftercareInit, CustomersInit, DeletionInv, Rows, ClosedAfterwards

LEMMA DeletionStep == DeletionInv /\ [AftercareNext]_aftercareVars => DeletionInv'
<1> SUFFICES ASSUME DeletionInv, [AftercareNext]_aftercareVars
             PROVE  DeletionInv'
  OBVIOUS
<1>1. CASE UNCHANGED customerVars
  BY <1>1 DEF customerVars, lifeVars, DeletionInv, Rows, ClosedAfterwards, Waiting, Booking, At
<1>2. ASSUME NEW w \in Workers, CustomerStep(w)
      PROVE  DeletionInv'
  BY <1>2, SavedKeeps, DeletedKeeps, WorkersKeep DEF CustomerStep
<1>3. CASE CustomersNext
  BY <1>2, <1>3, AdvancesKeep DEF CustomersNext
<1> QED
  BY <1>1, <1>3 DEF AftercareNext, CustomersMove, aftercareVars

\* After a deletion fewer bookings wait than there are workers, whatever the
\* requests that had passed their checks before still add.
THEOREM DeletionCloses == AftercareSpec => []DeletionClosesWork
<1>1. DeletionInv => DeletionClosesWork
  <2> SUFFICES ASSUME DeletionInv, account = "DELETED"
               PROVE  Cardinality(Waiting) < Cardinality(Workers)
    BY DEF DeletionClosesWork, Waiting
  <2> QED
    BY Counts DEF DeletionInv, ClosedAfterwards
<1> QED
  BY <1>1, DeletionInit, DeletionStep, PTL DEF AftercareSpec
-----------------------------------------------------------------------------
(* Types.  What a clerk holds is typed by InvoicesInv. *)

ReqRows == [at : {"idle", "booking", "saving", "removing", "moving", "deleting"}, listed : BOOLEAN]

CareTypeOK == CustomersTypeOK /\ submitted \subseteq Bookings /\ inWindow \subseteq Bookings

LEMMA CareTypeInit == AftercareInit => CareTypeOK
<1>1. Idle \in ReqRows
  BY DEF Idle, ReqRows
<1> QED
  BY <1>1 DEF AftercareInit, CustomersInit, CareTypeOK, CustomersTypeOK, ReqRows, Stages

LEMMA CustomersTyped ==
    ASSUME CustomersTypeOK, CustomersNext
    PROVE  CustomersTypeOK'
<1> USE DEF CustomersTypeOK
<1>1. /\ Idle \in ReqRows /\ [Idle EXCEPT !.at = "booking"] \in ReqRows
      /\ [Idle EXCEPT !.at = "moving"] \in ReqRows /\ [Idle EXCEPT !.at = "deleting"] \in ReqRows
      /\ [Idle EXCEPT !.at = "removing"] \in ReqRows /\ [Idle EXCEPT !.at = "saving"] \in ReqRows
      /\ \A l \in BOOLEAN : [at |-> "saving", listed |-> l] \in ReqRows
  BY DEF Idle, ReqRows
<1>2. ASSUME NEW w \in Workers, NEW next \in ReqRows, Goto(w, next)
      PROVE  req' \in [Workers -> ReqRows]
  BY <1>2 DEF Goto, ReqRows
<1>3. ASSUME NEW w \in Workers, CustomerStep(w)
      PROVE  req' \in [Workers -> ReqRows]
  BY <1>1, <1>2, <1>3 DEF CustomerStep, CreateBooking, BookingSaved, UpdateProperty, RemoveProperty,
     PropertyChecked, PropertySaved, UpdateAddress, AddressSaved, DeleteAccount, AccountDeleted, RequestEnds
<1>4. ASSUME NEW w \in Workers, BookingSaved(w)
      PROVE  CustomersTypeOK'
  <2>1. stage' \in [Bookings -> Stages]
    BY <1>4 DEF BookingSaved, Stages, Pending
  <2> QED
    BY <1>3, <1>4, <2>1 DEF BookingSaved, CustomerStep, ReqRows
<1>5. ASSUME NEW w \in Workers, AccountDeleted(w)
      PROVE  CustomersTypeOK'
  <2>1. \A b \in Bookings : Closed(b) \in Stages
    BY DEF Closed, Stages
  <2>2. stage' \in [Bookings -> Stages] /\ priced' \in [Bookings -> 0 .. MaxAddress]
    BY <1>5, <2>1 DEF AccountDeleted
  <2> QED
    BY <1>3, <1>5, <2>2 DEF AccountDeleted, CustomerStep, ReqRows
<1>6. ASSUME NEW w \in Workers, AddressSaved(w)
      PROVE  CustomersTypeOK'
  BY <1>3, <1>6 DEF AddressSaved, CustomerStep, ReqRows
<1>7. ASSUME NEW w \in Workers, PropertySaved(w)
      PROVE  CustomersTypeOK'
  BY <1>3, <1>7 DEF PropertySaved, CustomerStep, ReqRows
<1>8. ASSUME NEW w \in Workers,
             \/ CreateBooking(w) \/ UpdateProperty(w) \/ RemoveProperty(w) \/ PropertyChecked(w)
             \/ UpdateAddress(w) \/ DeleteAccount(w) \/ RequestEnds(w)
      PROVE  CustomersTypeOK'
  BY <1>3, <1>8 DEF CreateBooking, UpdateProperty, RemoveProperty, PropertyChecked, UpdateAddress, DeleteAccount, RequestEnds, lifeVars,
     CustomerStep, ReqRows
<1>9. ASSUME NEW b \in Bookings, NEW from, NEW to \in Stages, Moves(b, from, to)
      PROVE  CustomersTypeOK'
  <2>1. address \in 0 .. MaxAddress
    OBVIOUS
  <2>2. stage' \in [Bookings -> Stages] /\ priced' \in [Bookings -> 0 .. MaxAddress]
    BY <1>9, <2>1 DEF Moves
  <2> QED
    BY <1>9, <2>2 DEF Moves
<1>10. ASSUME NEW b \in Bookings, Advances(b) \/ CreateReview(b)
       PROVE  CustomersTypeOK'
  <2>1. CASE Advances(b)
    <3>1. {"SEARCHING", "OFFERED", "RESERVED", "PAYING", "CONFIRMED", "COMPLETED", "CANCELLED"} \subseteq Stages
      BY DEF Stages, Pending
    <3> QED
      BY <1>9, <2>1, <3>1 DEF Advances
  <2>2. CASE CreateReview(b)
    BY <2>2 DEF CreateReview
  <2> QED
    BY <1>10, <2>1, <2>2
<1> QED
  BY <1>4, <1>5, <1>6, <1>7, <1>8, <1>10 DEF CustomersNext, CustomerStep

LEMMA CareTypeStep == CareTypeOK /\ [AftercareNext]_aftercareVars => CareTypeOK'
<1> SUFFICES ASSUME CareTypeOK, [AftercareNext]_aftercareVars
             PROVE  CareTypeOK'
  OBVIOUS
<1>1. CASE CustomersMove
  BY <1>1, CustomersTyped DEF CustomersMove, CareTypeOK
<1>2. CASE UNCHANGED customerVars
  <2>1. CustomersTypeOK'
    BY <1>2 DEF CareTypeOK, CustomersTypeOK, customerVars, lifeVars
  <2>2. CASE CareNext \/ UNCHANGED careVars
    BY <2>1, <2>2 DEF CareTypeOK, CareNext, careVars, AskForInvoice, NextInvoiceNumber, InvoiceSaved,
       ClerkDies, NewYear, CreateRecleanRequest, DecideRecleanRequest, WindowCloses
  <2>3. CASE CustomersMove
    BY <1>1, <2>3
  <2> QED
    BY <2>2, <2>3 DEF AftercareNext, aftercareVars
<1> QED
  BY <1>1, <1>2 DEF AftercareNext, aftercareVars

LEMMA AftercareTypes == InvoicesInv /\ CareTypeOK => AftercareTypeOK
BY DEF InvoicesInv, InvoiceTypeOK, CareTypeOK, AftercareTypeOK, ClerkRows, Numbered

\* Bookings, addresses, invoices and re-clean requests stay within their types,
\* whoever asks at once; the year's counter never goes below nothing
\* (aftercare.py, properties.py, account_deletion.py).
THEOREM AftercareTypeCorrect == AftercareSpec => []AftercareTypeOK
BY InvoicesInit, InvoicesStep, CareTypeInit, CareTypeStep, AftercareTypes, PTL DEF AftercareSpec
=============================================================================
