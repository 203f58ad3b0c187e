---------------------------- MODULE OfficeProofs ----------------------------
(***************************************************************************)
(* Proofs, for every set of requests, timers, events and reservations,     *)
(* that the transactions of the checkout are the steps of TicketOffice,    *)
(* that what is settled stays, and that no transactions wait for each      *)
(* other.  They rest on the invariant of CheckoutProofs.                   *)
(***************************************************************************)
EXTENDS CheckoutProofs

-----------------------------------------------------------------------------
(* Who writes the tables                                                   *)

(* Only a COMMIT changes what is committed.                                *)
LEMMA TablesStep ==
    ASSUME IInv, [Next]_vars
    PROVE  \/ UNCHANGED tables
           \/ \E p \in Processes : pc[p] \in {"expireCommit", "commit"} /\ Commit(p)
<1> USE DEF dbVars
<1>1. CASE UNCHANGED vars \/ Tick
  BY <1>1 DEF vars, Tick
<1>2. ASSUME NEW p \in Processes, TimerFires(p) PROVE UNCHANGED tables
  BY <1>2 DEF TimerFires
<1>3. ASSUME NEW p \in Processes, Expiring(p)
      PROVE  \/ UNCHANGED tables
             \/ pc[p] = "expireCommit" /\ Commit(p)
  <2>1. FindExpired(p) \/ ExpireRead(p) \/ ExpireUpdate(p) \/ ExpireIncrement(p) \/ LoopEnds(p)
          => UNCHANGED tables
    BY DEF FindExpired, ExpireRead, ExpireUpdate, ExpireIncrement, LoopEnds
  <2>2. ExpireCommit(p) => pc[p] = "expireCommit" /\ Commit(p)
    BY DEF ExpireCommit
  <2> QED
    BY <1>3, <2>1, <2>2 DEF Expiring
<1>4. ASSUME NEW p \in Processes, Reserving(p) PROVE UNCHANGED tables
  BY <1>4 DEF Reserving, CreateBegins, TakeStock, Insert, ExpiresFirst, GetRead, GetTickets,
              CancelRead, CancelUpdate, Increment
<1>5. ASSUME NEW p \in Processes, Paying(p) PROVE UNCHANGED tables
  BY <1>5 DEF Paying, SimulateBegins, FindReplay, PayRead, PayCheck, PayRelease, PayUpdate,
              PayReread, PayInsert, PayTickets, PayCatch, Rollback
<1>6. ASSUME NEW p \in Processes, CommitAndAnswer(p) PROVE pc[p] = "commit" /\ Commit(p)
  BY <1>6 DEF CommitAndAnswer
<1>7. ASSUME NEW p \in Processes, Fail(p) PROVE UNCHANGED tables
  BY <1>7 DEF Fail, Rollback
<1>8. ASSUME NEW p \in Processes, CommitUnheard(p)
      PROVE  pc[p] \in {"expireCommit", "commit"} /\ Commit(p)
  BY <1>8 DEF CommitUnheard
<1> QED
  BY <1>1, <1>2, <1>3, <1>4, <1>5, <1>6, <1>7, <1>8 DEF Next, Step

(* What a COMMIT changes: a row that was absent or pending, and no other.  *)
LEMMA CommitRow ==
    ASSUME IInv, NEW p \in Processes, pc[p] \in {"expireCommit", "commit"}, Commit(p)
    PROVE  /\ tx[p].row \in ReservationIds /\ tx[p].image \in Row
           /\ reservations' = [reservations EXCEPT ![tx[p].row] = tx[p].image]
           /\ Booking(p) \/ GivingBack(p) \/ Selling(p)
           /\ \A r \in ReservationIds \ {tx[p].row} :
                UNCHANGED <<reservations[r], payments[r], tickets[r]>>
<1>1. Booking(p) \/ GivingBack(p) \/ Selling(p)
  BY Committing
<1>2. TypeOK /\ tx[p] \in Transaction
  BY DEF IInv, TypeOK
<1>3. tx[p].row \in ReservationIds /\ tx[p].image \in Row
  BY <1>1, <1>2 DEF Booking, GivingBack, Selling, Settling, Transaction
<1>4. reservations' = [reservations EXCEPT ![tx[p].row] = tx[p].image]
  BY <1>3, NoneIsNoValue DEF Commit
<1>5. \A r \in ReservationIds \ {tx[p].row} :
        UNCHANGED <<reservations[r], payments[r], tickets[r]>>
  BY <1>2, <1>3, <1>4 DEF TypeOK, Commit
<1> QED
  BY <1>1, <1>3, <1>4, <1>5

-----------------------------------------------------------------------------
(* What is settled stays                                                   *)

LEMMA SettledStep ==
    ASSUME IInv, [Next]_vars PROVE SettledStays
<1>1. CASE UNCHANGED tables
  BY <1>1 DEF tables, SettledStays
<1>2. ASSUME NEW p \in Processes, pc[p] \in {"expireCommit", "commit"}, Commit(p)
      PROVE  SettledStays
  <2>1. SUFFICES ASSUME NEW r \in ReservationIds, reservations[r] # None
                 PROVE  /\ reservations'[r] # None
                        /\ reservations[r].status # "PENDING_PAYMENT" =>
                             UNCHANGED <<reservations[r], payments[r], tickets[r]>>
    BY DEF SettledStays
  <2>2. CASE r # tx[p].row
    BY <1>2, <2>1, <2>2, CommitRow
  <2>3. CASE r = tx[p].row
    <3>1. GivingBack(p) \/ Selling(p)
      BY <1>2, <2>1, <2>3, CommitRow DEF Booking
    <3>2. reservations[r].status = "PENDING_PAYMENT"
      BY <2>3, <3>1 DEF GivingBack, Selling, Settling
    <3>3. reservations'[r] = tx[p].image /\ tx[p].image # None
      BY <1>2, <2>3, CommitRow, NoneIsNoValue DEF IInv, TypeOK
    <3> QED
      BY <3>2, <3>3
  <2> QED
    BY <2>2, <2>3
<1> QED
  BY <1>1, <1>2, TablesStep

(* A reservation that was paid, declined, canceled or has expired stays    *)
(* so, with its payment and its tickets: the conditional updates of        *)
(* reservations.service.ts and payments.service.ts match pending rows only.*)
THEOREM SettledForGood == Spec => SettledIsFinal
<1>1. IInv /\ [Next]_vars => [SettledStays]_vars
  BY SettledStep
<1> QED
  BY <1>1, Inductive, PTL DEF Spec, SettledIsFinal

-----------------------------------------------------------------------------
(* The ticket office                                                       *)

(* An initial state of the checkout is an office that opens.               *)
LEMMA OfficeOpens == Init => Office!Init
BY DEF Init, DbInit, Office!Init, HeldPlaces

(* A row and the sale it stands for                                        *)
LEMMA SaleOfRow ==
    ASSUME NEW row \in Row
    PROVE  /\ SaleOf(row) = [event |-> row.event, quantity |-> row.quantity, status |-> row.status]
           /\ SaleOf(row) # None
<1>1. row # None
  BY NoneIsNoValue
<1>2. SaleOf(row) = [event |-> row.event, quantity |-> row.quantity, status |-> row.status]
  BY <1>1 DEF SaleOf
<1>3. SaleOf(row) \in [event : Events, quantity : 1..MaxQuantity, status : Statuses]
  BY <1>2 DEF Row
<1> QED
  BY <1>2, <1>3, NoneIsNoSale

(* A COMMIT makes a sale, settles it by selling, or settles it by giving   *)
(* its places back.                                                        *)
LEMMA CommitIsOffice ==
    ASSUME IInv, NEW p \in Processes, pc[p] \in {"expireCommit", "commit"}, Commit(p)
    PROVE  Office!Next
<1> DEFINE r == tx[p].row
           image == tx[p].image
           sale == [s \in ReservationIds |-> SaleOf(reservations[s])]
           after == [s \in ReservationIds |-> SaleOf(reservations'[s])]
<1>1. /\ r \in ReservationIds /\ image \in Row
      /\ reservations' = [reservations EXCEPT ![r] = image]
      /\ TypeOK /\ PaymentsMatch
  BY CommitRow DEF IInv
<1>2. after = [sale EXCEPT ![r] = SaleOf(image)]
  BY <1>1 DEF TypeOK
<1>3. /\ SaleOf(image) = [event |-> image.event, quantity |-> image.quantity, status |-> image.status]
      /\ image.event \in Events /\ image.event # None /\ image.quantity \in 1..MaxQuantity
  BY <1>1, SaleOfRow, NoneIsNoValue DEF Row
<1>4. CASE Booking(p)
  <2>1. sale[r] = None
    BY <1>1, <1>4 DEF Booking, SaleOf
  <2>2. available[image.event] >= image.quantity
    BY <1>4 DEF Booking, StockTaken
  <2>3. after = [sale EXCEPT ![r] = [event |-> image.event, quantity |-> image.quantity,
                                     status |-> "PENDING_PAYMENT"]]
    BY <1>2, <1>3, <1>4 DEF Booking
  <2>4. available' = [available EXCEPT ![image.event] = @ - image.quantity]
    BY <1>1, <1>3, <1>4, SetsAreFinite DEF Booking, StockTaken, Commit, TypeOK
  <2>5. UNCHANGED tickets
    BY <1>4 DEF Booking, NotPaid, Commit
  <2>6. Office!Book(r, image.event, image.quantity)
    BY <2>1, <2>2, <2>3, <2>4, <2>5 DEF Office!Book
  <2> QED
    BY <1>1, <1>3, <2>6 DEF Office!Next
<1> DEFINE old == reservations[r]
<1>5. ASSUME NEW how, Settling(p, r, how)
      PROVE  /\ Office!Settle(r, image.status)
             /\ sale[r] = SaleOf(old) /\ sale[r].event = image.event
             /\ sale[r].quantity = image.quantity
  <2>1. old \in Row /\ old.status = "PENDING_PAYMENT"
    BY <1>1, <1>5, SettlingRow DEF Settling
  <2>2. old.event = image.event /\ old.quantity = image.quantity
    BY <1>5, <2>1 DEF Settling, Row
  <2>3. /\ sale[r] = [event |-> old.event, quantity |-> old.quantity, status |-> old.status]
        /\ sale[r] # None
    BY <1>1, <2>1, SaleOfRow
  <2>4. [sale[r] EXCEPT !.status = image.status] = SaleOf(image)
    BY <1>3, <2>2, <2>3
  <2>5. after = [sale EXCEPT ![r].status = image.status]
    BY <1>1, <1>2, <2>4
  <2>6. Office!Settle(r, image.status)
    BY <2>1, <2>3, <2>5 DEF Office!Settle
  <2> QED
    BY <1>1, <2>2, <2>3, <2>6
<1>6. CASE GivingBack(p)
  <2>1. /\ Office!Settle(r, image.status) /\ sale[r].event = image.event
        /\ sale[r].quantity = image.quantity
    BY <1>5, <1>6 DEF GivingBack
  <2>2. image.status \in {"DECLINED", "CANCELED", "EXPIRED"}
    BY <1>6 DEF GivingBack, Settling
  <2>3. available' = [available EXCEPT ![image.event] = @ + image.quantity]
    BY <1>3, <1>6 DEF GivingBack, StockReturned, Commit
  <2>4. UNCHANGED tickets
    BY <1>1, <1>6 DEF GivingBack, Commit, TypeOK
  <2>5. Office!GiveBack(r)
    BY <2>1, <2>2, <2>3, <2>4 DEF Office!GiveBack
  <2> QED
    BY <1>1, <2>5 DEF Office!Next
<1>7. CASE Selling(p)
  <2>1. /\ Office!Settle(r, image.status) /\ sale[r].quantity = image.quantity
        /\ image.status = "PAID"
    BY <1>5, <1>7 DEF Selling, Settling
  <2>2. UNCHANGED available
    BY <1>7 DEF Selling, StockUntouched, Commit
  <2>3. tickets[r] = {}
    BY <1>1, <1>7 DEF Selling, Settling, PaymentsMatch
  <2>4. tickets' = [tickets EXCEPT ![r] = 1..image.quantity]
    BY <1>1, <1>7, <2>3 DEF Selling, Paid, Commit, TypeOK
  <2>5. Office!Sell(r)
    BY <2>1, <2>2, <2>4 DEF Office!Sell
  <2> QED
    BY <1>1, <2>5 DEF Office!Next
<1> QED
  BY <1>4, <1>6, <1>7, CommitRow

(* The checkout is a ticket office: every step of it, whatever statements  *)
(* of other transactions it runs between, books, sells or gives back in    *)
(* one, or changes nothing that the office shows.                          *)
THEOREM CheckoutIsTicketOffice == Spec => IsTicketOffice
<1>1. Init => Office!Init
  BY OfficeOpens
<1>2. IInv /\ [Next]_vars => [Office!Next]_Office!vars
  <2> SUFFICES ASSUME IInv, [Next]_vars PROVE Office!Next \/ UNCHANGED Office!vars
    OBVIOUS
  <2>1. CASE UNCHANGED tables
    BY <2>1 DEF tables, Office!vars
  <2>2. CASE \E p \in Processes : pc[p] \in {"expireCommit", "commit"} /\ Commit(p)
    BY <2>2, CommitIsOffice
  <2> QED
    BY <2>1, <2>2, TablesStep
<1> QED
  BY <1>1, <1>2, Inductive, PTL DEF Spec, IsTicketOffice, Office!Spec

-----------------------------------------------------------------------------
(* Locks                                                                   *)

(* Whom a transaction waits for, by where it is: for the holders of a row, *)
(* of an event or of a key, which is there.                                *)
RowWaiting   == {"expireUpdate", "payRelease", "cancelUpdate", "payUpdate"}
EventWaiting == {"takeStock", "increment", "expireIncrement"}

LEMMA WaitsOn ==
    ASSUME IInv, NEW p \in Processes, WaitsFor(p) # {}
    PROVE  \/ pc[p] \in RowWaiting /\ \E r \in ReservationIds : WaitsFor(p) \subseteq RowHolders(r)
           \/ pc[p] \in EventWaiting /\ \E e \in Events : WaitsFor(p) \subseteq EventHolders(e)
           \/ pc[p] = "payInsert" /\ \E k \in Keys : WaitsFor(p) \subseteq KeyHolders(k)
<1>0. TypeOK /\ ControlOK /\ Written(p)
  BY DEF IInv
<1> DEFINE r == IF p \in Requests /\ pc[p] # "expireUpdate" THEN req[p].reservation ELSE cur[p]
<1>1. CASE pc[p] \in RowWaiting
  <2>1. r \in ReservationIds
    <3>1. CASE pc[p] = "expireUpdate"
      BY <1>0, <3>1 DEF ControlOK, TypeOK
    <3>2. CASE pc[p] # "expireUpdate"
      BY <1>0, <1>1, <3>2, OnlyRequests DEF RowWaiting, SweepLabels, TypeOK, Request
    <3> QED
      BY <3>1, <3>2
  <2>2. WaitsFor(p) \subseteq RowHolders(r)
    BY <1>1 DEF RowWaiting, WaitsFor
  <2> QED
    BY <1>1, <2>1, <2>2
<1>2. CASE pc[p] = "takeStock"
  <2>1. WaitsFor(p) = IF Bookable(req[p].event, req[p].quantity, now[p])
                      THEN EventHolders(req[p].event) \ {p} ELSE {}
    BY <1>2 DEF WaitsFor
  <2>2. req[p].event \in Events
    BY <2>1, EventsHaveCapacity DEF Bookable
  <2> QED
    BY <1>2, <2>1, <2>2 DEF EventWaiting
<1>3. CASE pc[p] \in {"increment", "expireIncrement"}
  <2> DEFINE s == IF p \in Sweepers \/ pc[p] = "expireIncrement" THEN cur[p] ELSE r
  <2>1. \E how : Settling(p, s, how)
    <3>1. CASE pc[p] = "expireIncrement"
      BY <1>0, <3>1 DEF Written
    <3>2. CASE pc[p] = "increment"
      <4>1. p \in Requests /\ p \notin Sweepers
        BY <1>0, <3>2, OnlyRequests, ScriptOfRequests DEF SweepLabels
      <4> QED
        BY <1>0, <3>2, <4>1 DEF Written
    <3> QED
      BY <1>3, <3>1, <3>2
  <2>2. reservations[s].event \in Events
    BY <1>0, <2>1, SettlingRow
  <2>3. WaitsFor(p) \subseteq EventHolders(reservations[s].event)
    BY <1>3 DEF WaitsFor
  <2> QED
    BY <1>3, <2>2, <2>3 DEF EventWaiting
<1>4. CASE pc[p] = "payInsert"
  BY <1>0, <1>4, PayingRequest DEF PayLabels, WaitsFor
<1>5. pc[p] \in RowWaiting \cup EventWaiting \cup {"payInsert"}
  BY DEF WaitsFor, RowWaiting, EventWaiting
<1> QED
  BY <1>1, <1>2, <1>3, <1>4, <1>5 DEF EventWaiting

(* Who holds a row has written, who holds an event is past its increment,  *)
(* and who holds a key waits for nothing any more.                         *)
LEMMA HoldersAre ==
    ASSUME IInv, NEW p \in Processes
    PROVE  /\ \A r \in ReservationIds : p \in RowHolders(r) => pc[p] \notin RowWaiting
           /\ \A e \in Events : p \in EventHolders(e) => pc[p] \notin RowWaiting \cup EventWaiting
           /\ \A k \in Keys : p \in KeyHolders(k) =>
                pc[p] \notin RowWaiting \cup EventWaiting \cup {"payInsert"}
<1>0. Written(p)
  BY DEF IInv
<1>1. pc[p] \in RowWaiting \cup {"takeStock"} =>
        tx[p].row = None /\ tx[p].event = None /\ tx[p].payment = None
  BY <1>0 DEF RowWaiting, Written, WritingLabels, StockUntouched, NotPaid
<1>2. pc[p] \in {"increment", "expireIncrement"} => tx[p].event = None /\ tx[p].payment = None
  BY <1>0 DEF Written, StockUntouched, NotPaid
<1>3. pc[p] = "payInsert" => tx[p].payment = None
  BY <1>0 DEF Written, NotPaid
<1> QED
  BY <1>1, <1>2, <1>3, NoneIsNoValue
     DEF RowHolders, EventHolders, KeyHolders, EventWaiting

(* Transactions never wait for each other in a circle: every operation of  *)
(* the services locks a reservation, then its event, then the index of the *)
(* keys, so that who waits for one of them waits for nobody who waits for  *)
(* one before it.                                                          *)
LEMMA LocksAreOrdered == IInv => NoDeadlock
<1> SUFFICES ASSUME IInv, NEW S \in SUBSET Processes, S # {}
             PROVE  \E p \in S : WaitsFor(p) \cap S = {}
  BY DEF NoDeadlock
<1>1. CASE \E p \in S : WaitsFor(p) = {}
  BY <1>1
<1>2. CASE \A p \in S : WaitsFor(p) # {}
  <2>1. \A p \in S : pc[p] \in RowWaiting \cup EventWaiting \cup {"payInsert"}
    BY <1>2, WaitsOn
  <2>2. CASE \E p \in S : pc[p] = "payInsert"
    <3>1. PICK p \in S : pc[p] = "payInsert"
      BY <2>2
    <3>2. \E k \in Keys : WaitsFor(p) \subseteq KeyHolders(k)
      BY <1>2, <3>1, WaitsOn DEF RowWaiting, EventWaiting
    <3> QED
      BY <2>1, <3>2, HoldersAre
  <2>3. CASE /\ \A p \in S : pc[p] # "payInsert"
             /\ \E p \in S : pc[p] \in EventWaiting
    <3>1. PICK p \in S : pc[p] \in EventWaiting
      BY <2>3
    <3>2. \E e \in Events : WaitsFor(p) \subseteq EventHolders(e)
      BY <1>2, <3>1, WaitsOn DEF RowWaiting, EventWaiting
    <3> QED
      BY <2>1, <2>3, <3>2, HoldersAre
  <2>4. CASE \A p \in S : pc[p] \in RowWaiting
    <3>1. PICK p \in S : TRUE
      OBVIOUS
    <3>2. \E r \in ReservationIds : WaitsFor(p) \subseteq RowHolders(r)
      BY <1>2, <2>4, WaitsOn DEF RowWaiting, EventWaiting
    <3> QED
      BY <2>4, <3>2, HoldersAre
  <2> QED
    BY <2>1, <2>2, <2>3, <2>4
<1> QED
  BY <1>1, <1>2

(* No set of requests and timers ever waits only for itself.               *)
THEOREM DeadlockFree == Spec => []NoDeadlock
<1> QED
  BY LocksAreOrdered, Inductive, PTL
=============================================================================
