------------------------------ MODULE Checkout ------------------------------
(***************************************************************************)
(* The checkout as a whole: any number of reservation and payment requests *)
(* and expiration timers over one database, while time passes.             *)
(***************************************************************************)
EXTENDS Payments

CONSTANT MaxClock    \* bound: the last instant a behaviour reaches

Tick ==
    /\ clock < MaxClock
    /\ clock' = clock + 1
    /\ UNCHANGED <<tables, tx, pc, req, locals, reply, failures>>

Step(p) == TimerFires(p) \/ Expiring(p) \/ Reserving(p) \/ Paying(p) \/ CommitAndAnswer(p)

Init == DbInit /\ HandlersInit
Next == Tick \/ \E p \in Processes : Step(p) \/ Fail(p) \/ CommitUnheard(p)

Spec == Init /\ [][Next]_vars

(* The timer fires every minute and the event loop runs every handler that *)
(* is not waiting; nothing makes a statement fail.                         *)
Fairness == WF_vars(Tick) /\ \A p \in Processes : WF_vars(Step(p))
FairSpec == Spec /\ Fairness

-----------------------------------------------------------------------------
TypeOK ==
    /\ clock \in Nat
    /\ reservations \in [ReservationIds -> Row \cup {None}]
    /\ available \in [Events -> Int]
    /\ payments \in [ReservationIds -> Payment \cup {None}]
    /\ tickets \in [ReservationIds -> SUBSET (1..MaxQuantity)]
    /\ tx \in [Processes -> Transaction]
    /\ pc \in [Processes -> Labels]
    /\ req \in [Requests -> Request]
    /\ now \in [Processes -> Int]
    /\ todo \in [Processes -> SUBSET ReservationIds]
    /\ cur \in [Processes -> ReservationIds \cup {None}]
    /\ seen \in [Processes -> Row \cup {None}]
    /\ reply \in [Requests -> Response \cup {None}]
    /\ failures \in Nat

(* What is available and what reservations hold is always the capacity:    *)
(* no interleaving of decrements and of the four ways stock returns loses  *)
(* a place, returns one twice, or needs the database's CHECK on the range. *)
StockConserved ==
    \A e \in Events :
        /\ available[e] + Cardinality(HeldPlaces(e)) = Capacity[e]
        /\ available[e] \in 0..Capacity[e]

(* A reservation, its payment and its tickets agree: PAID goes with an     *)
(* approved payment and one ticket per unit, DECLINED with a declined one  *)
(* and no ticket, every other status with neither; and only an unpaid      *)
(* settlement gives the inventory back.                                    *)
PaymentsMatch ==
    \A r \in ReservationIds :
        LET row == reservations[r] IN
        /\ row = None => payments[r] = None /\ tickets[r] = {}
        /\ row # None =>
             /\ row.released <=> row.status \in {"DECLINED", "CANCELED", "EXPIRED"}
             /\ (row.status = "PAID") <=> (payments[r] # None /\ payments[r].status = "APPROVED")
             /\ (row.status = "DECLINED") <=> (payments[r] # None /\ payments[r].status = "DECLINED")
             /\ tickets[r] = IF row.status = "PAID" THEN 1..row.quantity ELSE {}

(* What a settled reservation was settled as is final, and its payment and *)
(* its tickets with it, whatever requests or timers come late.             *)
SettledStays ==
    \A r \in ReservationIds :
        /\ reservations[r] # None => reservations'[r] # None
        /\ reservations[r] # None /\ reservations[r].status # "PENDING_PAYMENT" =>
             UNCHANGED <<reservations[r], payments[r], tickets[r]>>

SettledIsFinal == [][SettledStays]_vars

(* An Idempotency-Key buys one thing.  No two payments have the same key;  *)
(* and whoever is told of a payment owns the reservation and asked for     *)
(* that result of it, under the key of that payment unless the reservation *)
(* was already approved under another.                                     *)
Told(p) == reply[p] # None /\ req[p].op = "simulate" /\ reply[p].code \in {"PAID", "DECLINED"}

OneOutcomePerKey ==
    /\ \A r, s \in ReservationIds :
         r # s /\ payments[r] # None /\ payments[s] # None => payments[r].key # payments[s].key
    /\ \A p \in Requests :
         LET r == req[p].reservation IN
         Told(p) =>
             /\ Owned(p)
             /\ payments[r] # None
             /\ payments[r].status = req[p].result
             /\ payments[r].key = req[p].key \/ payments[r].status = "APPROVED"

(* docs/ARCHITECTURE.md, section 7: the same key with another payload is a *)
(* conflict.                                                               *)
KeyReuseConflicts ==
    \A p, q \in Requests :
        Told(p) /\ Told(q) /\ req[p].key = req[q].key =>
            /\ req[p].reservation = req[q].reservation
            /\ req[p].customer = req[q].customer
            /\ req[p].result = req[q].result

(* docs/ARCHITECTURE.md, section 7: a repetition with the same key and     *)
(* payload gets the original response.                                     *)
RepeatGetsOriginal ==
    \A p, q \in Requests :
        (/\ req[p] = req[q] /\ Told(p) /\ reply[q] # None
         /\ reply[q].code # "INTERNAL_ERROR")
        => reply[q] = reply[p]

(* docs/API_CONTRACT.md, cancel: it is idempotent for a reservation that   *)
(* is already canceled.                                                    *)
CancelIsIdempotent ==
    [][\A p \in Requests :
         (/\ req[p].op = "cancel" /\ Owned(p)
          /\ reservations[req[p].reservation].status = "CANCELED"
          /\ reply[p] = None /\ reply'[p] # None)
         => reply'[p].code \in {"CANCELED", "INTERNAL_ERROR"}]_vars

(* A response is never ahead of the database nor short of tickets: who is  *)
(* told PAID finds the reservation paid and gets every ticket of it, who   *)
(* is told CANCELED or DECLINED finds it so, and a reservation shown as    *)
(* paid is shown with its tickets.                                         *)
RepliesAreTrue ==
    \A p \in Requests :
        /\ Told(p) => /\ reservations[req[p].reservation].status = reply[p].code
                      /\ reply[p].tickets = tickets[req[p].reservation]
        /\ req[p].op = "cancel" /\ reply[p] # None /\ reply[p].code = "CANCELED" =>
              reservations[req[p].reservation].status = "CANCELED"
        /\ req[p].op = "get" /\ reply[p] # None /\ reply[p].code = "PAID" =>
              reply[p].tickets = 1..reservations[req[p].reservation].quantity

-----------------------------------------------------------------------------
(* The transactions whose locks p waits for                                *)
WaitsFor(p) ==
    LET r == IF p \in Requests /\ pc[p] # "expireUpdate" THEN req[p].reservation ELSE cur[p]
    IN  (CASE pc[p] = "expireUpdate" /\ Lapsed(r, now[p]) -> RowHolders(r)
           [] pc[p] = "payRelease" /\ Lapsed(r, now[p]) -> RowHolders(r)
           [] pc[p] \in {"cancelUpdate", "payUpdate"} /\ Live(r, now[p]) -> RowHolders(r)
           [] pc[p] = "takeStock" /\ Bookable(req[p].event, req[p].quantity, now[p]) ->
                EventHolders(req[p].event)
           [] pc[p] \in {"increment", "expireIncrement"} ->
                EventHolders(reservations[IF p \in Sweepers \/ pc[p] = "expireIncrement"
                                          THEN cur[p] ELSE r].event)
           [] pc[p] = "payInsert" -> KeyHolders(req[p].key)
           [] OTHER -> {}) \ {p}

(* No set of transactions waits only for each other: rows are locked in    *)
(* the order reservation, event, idempotency key by every operation.       *)
NoDeadlock ==
    \A S \in (SUBSET Processes) \ {{}} : \E p \in S : WaitsFor(p) \cap S = {}

-----------------------------------------------------------------------------
(* The transactions of the checkout are the single steps of a ticket       *)
(* office: at no point is a decrement visible without its reservation, a   *)
(* settlement without the stock or the tickets that go with it.            *)
SaleOf(row) == IF row = None THEN None
               ELSE [event |-> row.event, quantity |-> row.quantity, status |-> row.status]

ASSUME NoneIsNoSale ==
    None \notin [event : Events, quantity : 1..MaxQuantity, status : Statuses]

Office == INSTANCE TicketOffice WITH
    Sales <- ReservationIds,
    InitialSales <- [r \in ReservationIds |-> SaleOf(InitialRows[r])],
    InitialFree <- [e \in Events |-> Capacity[e] - Cardinality(PlacesIn(InitialRows, e))],
    sale <- [r \in ReservationIds |-> SaleOf(reservations[r])],
    free <- available,
    issued <- tickets

IsTicketOffice == Office!Spec

-----------------------------------------------------------------------------
(* The inductive invariant: besides what the tables hold, what each open   *)
(* transaction has written so far, told from the statement it is at.       *)

SweepLabels == {"idle", "findExpired", "expire", "expireUpdate",
                "expireIncrement", "expireCommit"}
PayLabels == {"replay", "replayTx", "payRead", "payCheck", "payRelease", "payUpdate",
              "payReread", "payInsert", "payTickets", "payCatch"}
WritingLabels == {"expireIncrement", "expireCommit", "insert", "increment", "commit",
                  "payInsert", "payTickets"}

(* Who may be where, and what it then knows                                *)
ControlOK ==
    /\ \A p \in Sweepers : pc[p] \in SweepLabels
    /\ \A p \in Requests :
         /\ pc[p] \in {"takeStock", "insert"} => req[p].op = "create"
         /\ req[p].op = "create" /\ pc[p] \notin {"idle", "done"} =>
              req[p].quantity \in 1..MaxQuantity
         /\ pc[p] \in PayLabels => req[p].op = "simulate" /\ req[p].key # None
         /\ pc[p] \in {"getTickets", "payCheck"} => seen[p] # None
    /\ \A p \in Processes : pc[p] = "expireUpdate" => cur[p] # None

(* No two open transactions have written the same row, the same event or   *)
(* inserted the same key, and no inserted key is that of a payment.        *)
LocksExclusive ==
    \A p, q \in Processes : p # q =>
        /\ tx[p].row # None => tx[p].row # tx[q].row
        /\ tx[p].event # None => tx[p].event # tx[q].event
        /\ tx[p].payment # None /\ tx[q].payment # None =>
              tx[p].payment.key # tx[q].payment.key

KeysUnique ==
    /\ \A r, s \in ReservationIds :
         r # s /\ payments[r] # None /\ payments[s] # None => payments[r].key # payments[s].key
    /\ \A p \in Processes, r \in ReservationIds :
         tx[p].payment # None /\ payments[r] # None => payments[r].key # tx[p].payment.key

(* p's transaction settles r, which is pending until it commits            *)
Settling(p, r, how) ==
    /\ r \in ReservationIds
    /\ tx[p].row = r
    /\ reservations[r] # None
    /\ reservations[r].status = "PENDING_PAYMENT"
    /\ ~reservations[r].released
    /\ tx[p].image # None
    /\ tx[p].image = [reservations[r] EXCEPT !.status = tx[p].image.status,
                                             !.released = tx[p].image.released]
    /\ tx[p].image.status \in how
    /\ tx[p].image.released = (tx[p].image.status # "PAID")

StockUntouched(p) == tx[p].event = None /\ tx[p].delta = 0
StockReturned(p)  == tx[p].event = tx[p].image.event /\ tx[p].delta = tx[p].image.quantity
StockTaken(p, e, n) ==
    /\ e \in Published
    /\ tx[p].event = e /\ tx[p].delta = -n
    /\ available[e] >= n
NotPaid(p)        == tx[p].payment = None /\ tx[p].tickets = {}
Paid(p, status)   == tx[p].payment # None /\ tx[p].payment.status = status

Unpaid == {"EXPIRED", "CANCELED"}

Written(p) ==
    LET t == tx[p] IN
    /\ pc[p] \notin WritingLabels =>
         t.row = None /\ t.image = None /\ StockUntouched(p) /\ NotPaid(p)
    /\ pc[p] = "expireIncrement" =>
         Settling(p, cur[p], {"EXPIRED"}) /\ StockUntouched(p) /\ NotPaid(p)
    /\ pc[p] = "expireCommit" =>
         Settling(p, cur[p], {"EXPIRED"}) /\ StockReturned(p) /\ NotPaid(p)
    /\ pc[p] = "insert" =>
         /\ t.row = None /\ t.image = None /\ NotPaid(p)
         /\ StockTaken(p, req[p].event, req[p].quantity)
    /\ pc[p] = "increment" =>
         /\ Settling(p, req[p].reservation, Unpaid \cup {"DECLINED"})
         /\ t.image.status = "DECLINED" =>
              req[p].op = "simulate" /\ req[p].key # None /\ req[p].result = "DECLINED"
         /\ StockUntouched(p) /\ NotPaid(p)
    /\ pc[p] = "payInsert" =>
         /\ Settling(p, req[p].reservation, {"PAID", "DECLINED"})
         /\ t.image.status = IF req[p].result = "APPROVED" THEN "PAID" ELSE "DECLINED"
         /\ IF req[p].result = "APPROVED" THEN StockUntouched(p) ELSE StockReturned(p)
         /\ NotPaid(p)
    /\ pc[p] = "payTickets" =>
         /\ Settling(p, req[p].reservation, {"PAID"})
         /\ StockUntouched(p) /\ Paid(p, "APPROVED")
    /\ pc[p] = "commit" =>
         \/ /\ t.row # None /\ reservations[t.row] = None
            /\ t.image # None /\ t.image.status = "PENDING_PAYMENT" /\ ~t.image.released
            /\ StockTaken(p, t.image.event, t.image.quantity) /\ NotPaid(p)
         \/ Settling(p, t.row, Unpaid) /\ StockReturned(p) /\ NotPaid(p)
         \/ /\ Settling(p, t.row, {"DECLINED"}) /\ StockReturned(p)
            /\ Paid(p, "DECLINED") /\ t.tickets = {}
         \/ /\ Settling(p, t.row, {"PAID"}) /\ StockUntouched(p)
            /\ Paid(p, "APPROVED") /\ t.tickets = 1..t.image.quantity

IInv ==
    /\ TypeOK /\ ControlOK /\ LocksExclusive /\ KeysUnique
    /\ \A p \in Processes : Written(p)
    /\ StockConserved /\ PaymentsMatch

-----------------------------------------------------------------------------
(* What was answered stays true by a second inductive invariant: what a    *)
(* request knows on its way to the answer, and what it then was told.      *)

Serving(p) ==
    /\ pc[p] \in SweepLabels \ {"idle"} => req[p].op # "simulate"
    /\ pc[p] \in {"takeStock", "insert"} => req[p].op = "create"
    /\ pc[p] \in {"getRead", "getTickets"} => req[p].op = "get"
    /\ pc[p] \in {"cancelRead", "cancelUpdate"} => req[p].op = "cancel"
    /\ pc[p] = "increment" => req[p].op \in {"cancel", "simulate"}
    /\ pc[p] = "commit" => req[p].op # "get"

Known(p) ==
    LET r == req[p].reservation IN
    /\ Serving(p)
    /\ pc[p] \in {"payCheck", "payRelease", "payUpdate", "payReread", "payInsert", "payTickets"}
         => Owned(p)
    /\ pc[p] = "getTickets" /\ seen[p].status = "PAID" =>
         reservations[r] # None /\ reservations[r].status = "PAID"
    /\ pc[p] = "commit" /\ req[p].op # "create" => tx[p].row = r
    /\ pc[p] \in {"increment", "commit"} /\ req[p].op = "simulate" => Owned(p)
    /\ tx[p].payment # None => tx[p].payment = [key |-> req[p].key, status |-> req[p].result]

(* What the tables say when p is given this answer, and ever after         *)
Justified(p, code, tix) ==
    LET r == req[p].reservation IN
    /\ req[p].op = "simulate" /\ code \in {"PAID", "DECLINED"} =>
         /\ Owned(p)
         /\ reservations[r].status = code
         /\ tix = tickets[r]
         /\ payments[r] # None
         /\ payments[r].status = req[p].result
         /\ payments[r].key = req[p].key \/ payments[r].status = "APPROVED"
    /\ req[p].op = "cancel" /\ code = "CANCELED" =>
         reservations[r] # None /\ reservations[r].status = "CANCELED"
    /\ req[p].op = "get" /\ code = "PAID" =>
         reservations[r] # None /\ reservations[r].status = "PAID" /\ tix = tickets[r]

Replied(p) == reply[p] # None => Justified(p, reply[p].code, reply[p].tickets)

AnswersInv == \A p \in Requests : Known(p) /\ Replied(p)

-----------------------------------------------------------------------------
(* A reservation that expires unpaid gives its inventory back, without any *)
(* request: the timer sees to it.                                          *)
ExpiredStockReturns ==
    \A r \in ReservationIds : Lapsed(r, clock) ~> ~Lapsed(r, clock)

(* Every request is answered.                                              *)
RequestsAnswered ==
    \A p \in Requests : (pc[p] # "idle") ~> (pc[p] = "done")
=============================================================================
