---------------------------- MODULE Reservations ----------------------------
(***************************************************************************)
(* ReservationsService: create, get, cancel, and the expiration of pending *)
(* reservations that the timer and every request run.                      *)
(***************************************************************************)
EXTENDS Handlers

CONSTANTS
    HoldTime,    \* RESERVATION_DURATION_MS
    BatchSize    \* EXPIRATION_BATCH_SIZE

-----------------------------------------------------------------------------
(* expirePendingReservations and expireReservation                         *)

(* The timer fires, whether or not its previous run has ended on another   *)
(* process of Sweepers.                                                    *)
TimerFires(p) ==
    /\ p \in Sweepers /\ pc[p] = "idle"
    /\ Proceed(p, "findExpired")
    /\ UNCHANGED <<dbVars, req, failures>>

(* findMany: the expired reservations, of the event being reserved when a  *)
(* create asks, those that expired first up to the size of a batch         *)
FindExpired(p) ==
    /\ pc[p] = "findExpired"
    /\ LET found == {r \in ReservationIds :
                        /\ Lapsed(r, clock)
                        /\ p \in Requests => reservations[r].event = req[p].event}
       IN  \E batch \in SUBSET found :
             /\ \/ batch = found /\ Cardinality(found) <= BatchSize
                \/ Cardinality(batch) = BatchSize
             /\ \A r \in batch, s \in found \ batch :
                    reservations[r].expiresAt <= reservations[s].expiresAt
             /\ todo' = [todo EXCEPT ![p] = batch]
    /\ Goto(p, "expire")
    /\ UNCHANGED <<dbVars, req, now, cur, seen, reply, failures>>

(* Mutant of ExpireRead: a reservation that is not expired stays in the loop *)
ExpireReadStuck(p) ==
    /\ pc[p] = "expire"
    /\ \E r \in todo[p] :
         \/ /\ Lapsed(r, clock)
            /\ todo' = [todo EXCEPT ![p] = @ \ {r}]
            /\ cur' = [cur EXCEPT ![p] = r]
            /\ now' = [now EXCEPT ![p] = clock]
            /\ Goto(p, "expireUpdate")
         \/ ~Lapsed(r, clock) /\ UNCHANGED <<pc, todo, cur, now>>
    /\ UNCHANGED <<dbVars, req, seen, reply, failures>>

(* The next reservation of the loop, in order of expiresAt: read it and    *)
(* decide whether it is expired                                            *)
ExpireRead(p) ==
    /\ pc[p] = "expire"
    /\ \E r \in todo[p] :
         /\ \A s \in todo[p] \ {r} :
                reservations[r].expiresAt <= reservations[s].expiresAt
         /\ todo' = [todo EXCEPT ![p] = @ \ {r}]
         /\ \/ /\ Lapsed(r, clock)
               /\ cur' = [cur EXCEPT ![p] = r]
               /\ now' = [now EXCEPT ![p] = clock]
               /\ Goto(p, "expireUpdate")
            \/ ~Lapsed(r, clock) /\ UNCHANGED <<pc, cur, now>>
    /\ UNCHANGED <<dbVars, req, seen, reply, failures>>

(* Mutant of ExpireUpdate: trusts what ExpireRead saw                       *)
ExpireUpdateUnchecked(p) ==
    /\ pc[p] = "expireUpdate"
    /\ WriteStatus(p, cur[p], "EXPIRED", TRUE)
    /\ Proceed(p, "expireIncrement")
    /\ UNCHANGED <<clock, tables, req, failures>>

ExpireUpdate(p) ==
    /\ pc[p] = "expireUpdate"
    /\ \/ /\ Lapsed(cur[p], now[p])
          /\ WriteStatus(p, cur[p], "EXPIRED", TRUE)
          /\ Proceed(p, "expireIncrement")
       \/ /\ ~Lapsed(cur[p], now[p])
          /\ Proceed(p, "expire")
          /\ UNCHANGED tx
    /\ UNCHANGED <<clock, tables, req, failures>>

ExpireIncrement(p) ==
    /\ pc[p] = "expireIncrement"
    /\ AddStock(p, reservations[cur[p]].event, reservations[cur[p]].quantity)
    /\ Proceed(p, "expireCommit")
    /\ UNCHANGED <<clock, tables, req, failures>>

ExpireCommit(p) ==
    /\ pc[p] = "expireCommit"
    /\ Commit(p)
    /\ Proceed(p, "expire")
    /\ UNCHANGED <<clock, req, failures>>

(* The loop is over: the timer rests, a request goes on to what it was     *)
(* asked.  create samples its `now` here, before its transaction opens.    *)
LoopEnds(p) ==
    /\ pc[p] = "expire" /\ todo[p] = {}
    /\ \/ p \in Sweepers /\ Rest(p)
       \/ /\ p \in Requests /\ req[p].op = "create"
          /\ now' = [now EXCEPT ![p] = clock]
          /\ Goto(p, "takeStock")
          /\ UNCHANGED <<todo, cur, seen, reply>>
       \/ p \in Requests /\ req[p].op = "get" /\ Proceed(p, "getRead")
       \/ p \in Requests /\ req[p].op = "cancel" /\ Proceed(p, "cancelRead")
    /\ UNCHANGED <<dbVars, req, failures>>

Expiring(p) ==
    \/ FindExpired(p) \/ ExpireRead(p) \/ ExpireUpdate(p)
    \/ ExpireIncrement(p) \/ ExpireCommit(p) \/ LoopEnds(p)

-----------------------------------------------------------------------------
(* create *)

CreateBegins(p) ==
    /\ p \in Requests /\ pc[p] = "idle" /\ req[p].op = "create"
    /\ \/ req[p].quantity \in 1..MaxQuantity /\ Proceed(p, "findExpired")
       \/ req[p].quantity \notin 1..MaxQuantity /\ Answer(p, "INVALID_QUANTITY", {})
    /\ UNCHANGED <<dbVars, req, failures>>

(* The WHERE of the decrement *)
Bookable(e, quantity, t) ==
    /\ e \in Published
    /\ StartsAt[e] > t
    /\ available[e] >= quantity

(* The conditional decrement, and the error its failure is reported as     *)
TakeStock(p) ==
    /\ pc[p] = "takeStock"
    /\ LET e == req[p].event IN
       \/ /\ Bookable(e, req[p].quantity, now[p])
          /\ AddStock(p, e, -req[p].quantity)
          /\ Proceed(p, "insert")
       \/ /\ ~Bookable(e, req[p].quantity, now[p])
          /\ Answer(p, IF e \notin Events THEN "EVENT_NOT_FOUND"
                       ELSE IF e \notin Published \/ StartsAt[e] <= now[p]
                            THEN "EVENT_NOT_AVAILABLE" ELSE "INSUFFICIENT_INVENTORY", {})
          /\ UNCHANGED tx
    /\ UNCHANGED <<clock, tables, req, failures>>

(* reservation.create, under an identifier that nobody has *)
Insert(p) ==
    /\ pc[p] = "insert"
    /\ \E r \in ReservationIds :
         /\ reservations[r] = None /\ RowHolders(r) = {}
         /\ tx' = [tx EXCEPT ![p].row = r, ![p].image =
                     [status |-> "PENDING_PAYMENT", customer |-> req[p].customer,
                      event |-> req[p].event, quantity |-> req[p].quantity,
                      expiresAt |-> now[p] + HoldTime, released |-> FALSE]]
    /\ Proceed(p, "commit")
    /\ UNCHANGED <<clock, tables, req, failures>>

-----------------------------------------------------------------------------
(* get *)

(* get and cancel first expire the reservation they name, if it is due     *)
ExpiresFirst(p) ==
    /\ p \in Requests /\ pc[p] = "idle" /\ req[p].op \in {"get", "cancel"}
    /\ todo' = [todo EXCEPT ![p] = {req[p].reservation}]
    /\ Goto(p, "expire")
    /\ UNCHANGED <<dbVars, req, now, cur, seen, reply, failures>>

(* findOwnedReservation: the row, then the tickets it includes             *)
GetRead(p) ==
    /\ pc[p] = "getRead"
    /\ \/ /\ Owned(p)
          /\ seen' = [seen EXCEPT ![p] = reservations[req[p].reservation]]
          /\ Goto(p, "getTickets")
          /\ UNCHANGED <<now, todo, cur, reply>>
       \/ ~Owned(p) /\ Answer(p, "RESERVATION_NOT_FOUND", {})
    /\ UNCHANGED <<dbVars, req, failures>>

GetTickets(p) ==
    /\ pc[p] = "getTickets"
    /\ Answer(p, seen[p].status, tickets[req[p].reservation])
    /\ UNCHANGED <<dbVars, req, failures>>

-----------------------------------------------------------------------------
(* cancel *)

(* Mutant of CancelRead: returns the stock before it settles the row        *)
CancelStockFirst(p) ==
    LET row == reservations[req[p].reservation] IN
    /\ pc[p] = "cancelRead"
    /\ Owned(p) /\ row.status = "PENDING_PAYMENT"
    /\ AddStock(p, row.event, row.quantity)
    /\ now' = [now EXCEPT ![p] = clock]
    /\ Goto(p, "cancelUpdate")
    /\ UNCHANGED <<clock, tables, req, todo, cur, seen, reply, failures>>

CancelRead(p) ==
    /\ pc[p] = "cancelRead"
    /\ LET row == reservations[req[p].reservation] IN
       \/ ~Owned(p) /\ Answer(p, "RESERVATION_NOT_FOUND", {})
       \/ Owned(p) /\ row.status = "CANCELED" /\ Answer(p, "CANCELED", {})
       \/ /\ Owned(p) /\ row.status \notin {"CANCELED", "PENDING_PAYMENT"}
          /\ Answer(p, "RESERVATION_NOT_CANCELABLE", {})
       \/ /\ Owned(p) /\ row.status = "PENDING_PAYMENT"
          /\ now' = [now EXCEPT ![p] = clock]
          /\ Goto(p, "cancelUpdate")
          /\ UNCHANGED <<todo, cur, seen, reply>>
    /\ UNCHANGED <<dbVars, req, failures>>

(* Mutant of CancelUpdate: ignores how many rows it updated                 *)
CancelUpdateUncounted(p) ==
    /\ pc[p] = "cancelUpdate"
    /\ \/ /\ Live(req[p].reservation, now[p])
          /\ WriteStatus(p, req[p].reservation, "CANCELED", TRUE)
          /\ Proceed(p, "increment")
       \/ /\ ~Live(req[p].reservation, now[p])
          /\ Answer(p, "CANCELED", {})
          /\ UNCHANGED tx
    /\ UNCHANGED <<clock, tables, req, failures>>

CancelUpdate(p) ==
    /\ pc[p] = "cancelUpdate"
    /\ \/ /\ Live(req[p].reservation, now[p])
          /\ WriteStatus(p, req[p].reservation, "CANCELED", TRUE)
          /\ Proceed(p, "increment")
       \/ /\ ~Live(req[p].reservation, now[p])
          /\ Answer(p, "RESERVATION_NOT_CANCELABLE", {})
          /\ UNCHANGED tx
    /\ UNCHANGED <<clock, tables, req, failures>>

(* Mutant of Increment: returns one place, whatever the quantity            *)
IncrementByOne(p) ==
    /\ pc[p] = "increment"
    /\ AddStock(p, reservations[req[p].reservation].event, 1)
    /\ Proceed(p, IF tx[p].image.status = "DECLINED" THEN "payInsert" ELSE "commit")
    /\ UNCHANGED <<clock, tables, req, failures>>

(* The inventory of a canceled, declined or expired reservation returns;   *)
(* a declined payment is recorded after that.                              *)
Increment(p) ==
    /\ pc[p] = "increment"
    /\ LET row == reservations[req[p].reservation] IN AddStock(p, row.event, row.quantity)
    /\ Proceed(p, IF tx[p].image.status = "DECLINED" THEN "payInsert" ELSE "commit")
    /\ UNCHANGED <<clock, tables, req, failures>>

Reserving(p) ==
    \/ CreateBegins(p) \/ TakeStock(p) \/ Insert(p)
    \/ ExpiresFirst(p) \/ GetRead(p) \/ GetTickets(p)
    \/ CancelRead(p) \/ CancelUpdate(p) \/ Increment(p)

ASSUME Durations == HoldTime \in Nat \ {0} /\ BatchSize \in Nat \ {0}
=============================================================================
