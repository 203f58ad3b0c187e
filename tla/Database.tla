------------------------------ MODULE Database ------------------------------
(***************************************************************************)
(* The PostgreSQL tables behind the checkout (prisma/schema.prisma and its *)
(* migration) and the transactions that write them.                        *)
(*                                                                         *)
(* Prisma opens every $transaction at the server's default level, READ     *)
(* COMMITTED: a statement reads what is committed when it runs, an UPDATE  *)
(* locks the rows it changes until the end of its transaction, and an      *)
(* UPDATE ... WHERE that finds its row locked waits and tests the WHERE    *)
(* again on the version it then finds.  A row that does not satisfy the    *)
(* WHERE in the committed version is skipped without waiting.              *)
(*                                                                         *)
(* The committed tables are the variables reservations, available          *)
(* (events.available_quantity), payments and tickets.  What an open        *)
(* transaction has written is kept in tx[p]; a row lock is the presence of *)
(* the row in somebody's tx.                                               *)
(***************************************************************************)
EXTENDS Integers, FiniteSets

CONSTANTS
    Requests,        \* HTTP requests being served, by any instance of the API
    Sweepers,        \* expiration timers, one or more per instance of the API
    Customers,
    Events,          \* rows of events
    Published,       \* the events whose status is PUBLISHED
    Capacity,        \* capacity of each event; only a draft's can be edited
    StartsAt,        \* startsAt of each event
    ReservationIds,  \* row identifiers (uuids) that reservations may get
    MaxQuantity,     \* largest quantity of one reservation, 6 in the code
    Keys,            \* Idempotency-Key values
    InitialRows,     \* pending reservations found when the model starts
    None             \* SQL NULL, an absent row, "nothing written"

Processes == Requests \cup Sweepers

(* enum ReservationStatus *)
Statuses == {"PENDING_PAYMENT", "PAID", "DECLINED", "CANCELED", "EXPIRED"}

(* A row of reservations.  inventory_released_at is only ever compared     *)
(* with NULL, so a Boolean stands for it.                                  *)
Row == [status : Statuses, customer : Customers, event : Events,
        quantity : 1..MaxQuantity, expiresAt : Int, released : BOOLEAN]

(* A row of payments, found under its reservation.  request_hash is the    *)
(* digest of customer, reservation and result: the first is the            *)
(* reservation's, the second the index, the third the status.              *)
Payment == [key : Keys, status : {"APPROVED", "DECLINED"}]

VARIABLES
    clock,           \* the time `new Date()` reads
    reservations,    \* the committed row of each id, None when there is none
    available,       \* committed available_quantity of each event
    payments,        \* the committed payment of each reservation, or None
    tickets,         \* the sequences of the tickets committed for each
    tx               \* what each process's open transaction has written

tables == <<reservations, available, payments, tickets>>
dbVars == <<clock, tables, tx>>

(* A transaction writes at most one reservation row, the event of that     *)
(* reservation and the payment and tickets hanging from it.                *)
Transaction == [row : ReservationIds \cup {None}, image : Row \cup {None},
                event : Events \cup {None}, delta : Int,
                payment : Payment \cup {None}, tickets : SUBSET (1..MaxQuantity)]

NothingWritten == [row |-> None, image |-> None, event |-> None, delta |-> 0,
                   payment |-> None, tickets |-> {}]

-----------------------------------------------------------------------------
(* The places of event e that the rows hold: decremented from the event's   *)
(* stock and not released.  One pair per place, so that their number is the *)
(* sum of the quantities.                                                   *)
PlacesIn(rows, e) ==
    {h \in ReservationIds \X (1..MaxQuantity) :
        /\ rows[h[1]] # None
        /\ ~rows[h[1]].released
        /\ rows[h[1]].event = e
        /\ h[2] <= rows[h[1]].quantity}

HeldPlaces(e) == PlacesIn(reservations, e)

(* The WHERE of the updates that settle a pending reservation, and of those
   that expire one; t is the `now` the caller sampled. *)
Live(r, t) ==
    /\ reservations[r] # None
    /\ reservations[r].status = "PENDING_PAYMENT"
    /\ reservations[r].expiresAt > t
    /\ ~reservations[r].released

Lapsed(r, t) ==
    /\ reservations[r] # None
    /\ reservations[r].status = "PENDING_PAYMENT"
    /\ reservations[r].expiresAt <= t
    /\ ~reservations[r].released

-----------------------------------------------------------------------------
(* Locks *)
RowHolders(r)   == {p \in Processes : tx[p].row = r}
EventHolders(e) == {p \in Processes : tx[p].event = e}
KeyHolders(k)   == {p \in Processes :
                        tx[p].payment # None /\ tx[p].payment.key = k}

RowFree(p, r)   == RowHolders(r) \subseteq {p}
EventFree(p, e) == EventHolders(e) \subseteq {p}

(* The unique index on payments.idempotency_key: an INSERT waits for an    *)
(* uncommitted duplicate, and fails on a committed one.                    *)
KeyFree(p, k)   == KeyHolders(k) \subseteq {p}
PaidWith(k)     == {r \in ReservationIds :
                        payments[r] # None /\ payments[r].key = k}

(* UPDATE reservations SET status, inventory_released_at WHERE id = r ...  *)
WriteStatus(p, r, status, released) ==
    /\ RowFree(p, r)
    /\ tx' = [tx EXCEPT ![p].row = r,
                        ![p].image = [reservations[r] EXCEPT !.status = status,
                                                             !.released = released]]

(* UPDATE events SET available_quantity = available_quantity + n WHERE id = e *)
AddStock(p, e, n) ==
    /\ EventFree(p, e)
    /\ tx' = [tx EXCEPT ![p].event = e, ![p].delta = n]

(* COMMIT and ROLLBACK; both release the locks.                            *)
Commit(p) ==
    LET t == tx[p] IN
    /\ reservations' = IF t.row = None THEN reservations
                       ELSE [reservations EXCEPT ![t.row] = t.image]
    /\ available' = IF t.event = None THEN available
                    ELSE [available EXCEPT ![t.event] = @ + t.delta]
    /\ payments' = IF t.payment = None THEN payments
                   ELSE [payments EXCEPT ![t.row] = t.payment]
    /\ tickets' = IF t.payment = None THEN tickets
                  ELSE [tickets EXCEPT ![t.row] = @ \cup t.tickets]
    /\ tx' = [tx EXCEPT ![p] = NothingWritten]

Rollback(p) == tx' = [tx EXCEPT ![p] = NothingWritten] /\ UNCHANGED tables

DbInit ==
    /\ clock = 0
    /\ reservations = InitialRows
    /\ available = [e \in Events |-> Capacity[e] - Cardinality(HeldPlaces(e))]
    /\ payments = [r \in ReservationIds |-> None]
    /\ tickets = [r \in ReservationIds |-> {}]
    /\ tx = [p \in Processes |-> NothingWritten]

-----------------------------------------------------------------------------
ASSUME SetsAreFinite == IsFiniteSet(ReservationIds) /\ MaxQuantity \in Nat \ {0}

ASSUME EventsHaveCapacity ==
    /\ Published \subseteq Events
    /\ Capacity \in [Events -> Nat]
    /\ StartsAt \in [Events -> Int]

ASSUME InitialRowsArePending ==
    /\ InitialRows \in [ReservationIds -> Row \cup {None}]
    /\ \A r \in ReservationIds : InitialRows[r] # None =>
           InitialRows[r].status = "PENDING_PAYMENT" /\ ~InitialRows[r].released
    /\ \A e \in Events : Cardinality(PlacesIn(InitialRows, e)) <= Capacity[e]

ASSUME NoneIsNoValue ==
    /\ None \notin ReservationIds /\ None \notin Events /\ None \notin Keys
    /\ None \notin Row /\ None \notin Payment /\ None \notin Processes
=============================================================================
