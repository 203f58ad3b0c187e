------------------------------ MODULE Payments ------------------------------
(***************************************************************************)
(* PaymentsService.simulate, statement by statement.                       *)
(***************************************************************************)
EXTENDS Reservations

(* The status of the reservation that toPaymentResponse reports *)
PaidStatus(r) == IF payments[r].status = "APPROVED" THEN "PAID" ELSE "DECLINED"

(* hashRequest of p's request is that of the request which paid r *)
SameRequest(p, r) ==
    /\ r = req[p].reservation
    /\ reservations[r].customer = req[p].customer
    /\ payments[r].status = req[p].result

(* The payment that p's request may be answered with when its own was not  *)
(* recorded: findApprovedPayment                                           *)
ApprovedFor(p) ==
    LET r == req[p].reservation IN
    /\ payments[r] # None
    /\ payments[r].status = "APPROVED"
    /\ reservations[r].customer = req[p].customer

SimulateBegins(p) ==
    /\ p \in Requests /\ pc[p] = "idle" /\ req[p].op = "simulate"
    /\ \/ req[p].key # None /\ Proceed(p, "replay")
       \/ req[p].key = None /\ Answer(p, "IDEMPOTENCY_KEY_REQUIRED", {})
    /\ UNCHANGED <<dbVars, req, failures>>

(* findReplay, called before the transaction and again as its first        *)
(* statement                                                               *)
FindReplay(p) ==
    /\ pc[p] \in {"replay", "replayTx"}
    /\ \/ /\ PaidWith(req[p].key) = {}
          /\ Proceed(p, IF pc[p] = "replay" THEN "replayTx" ELSE "payRead")
       \/ \E r \in PaidWith(req[p].key) :
             IF SameRequest(p, r) THEN Answer(p, PaidStatus(r), tickets[r])
                                  ELSE Answer(p, "IDEMPOTENCY_KEY_REUSED", {})
    /\ UNCHANGED <<dbVars, req, failures>>

(* The reservation, and then the payment and the tickets it includes.      *)
PayRead(p) ==
    /\ pc[p] = "payRead"
    /\ \/ /\ Owned(p)
          /\ seen' = [seen EXCEPT ![p] = reservations[req[p].reservation]]
          /\ Goto(p, "payCheck")
          /\ UNCHANGED <<now, todo, cur, reply>>
       \/ ~Owned(p) /\ Answer(p, "RESERVATION_NOT_FOUND", {})
    /\ UNCHANGED <<dbVars, req, failures>>

PayCheck(p) ==
    /\ pc[p] = "payCheck"
    /\ LET r == req[p].reservation
           overdue == \/ seen[p].status = "EXPIRED"
                      \/ seen[p].status = "PENDING_PAYMENT" /\ seen[p].expiresAt <= clock
       IN
       \/ /\ payments[r] # None
          /\ IF payments[r].status = "APPROVED" /\ req[p].result = "APPROVED"
             THEN Answer(p, "PAID", tickets[r])
             ELSE Answer(p, "RESERVATION_NOT_PAYABLE", {})
       \/ /\ payments[r] = None /\ (overdue \/ seen[p].status = "PENDING_PAYMENT")
          /\ now' = [now EXCEPT ![p] = clock]
          /\ seen' = [seen EXCEPT ![p] = None]
          /\ Goto(p, IF overdue THEN "payRelease" ELSE "payUpdate")
          /\ UNCHANGED <<todo, cur, reply>>
       \/ /\ payments[r] = None /\ ~overdue /\ seen[p].status # "PENDING_PAYMENT"
          /\ Answer(p, "RESERVATION_NOT_PAYABLE", {})
    /\ UNCHANGED <<dbVars, req, failures>>

(* Mutant of PayRelease: the update goes by the identifier alone            *)
PayReleaseById(p) ==
    /\ pc[p] = "payRelease"
    /\ WriteStatus(p, req[p].reservation, "EXPIRED", TRUE)
    /\ Proceed(p, "increment")
    /\ UNCHANGED <<clock, tables, req, failures>>

(* releaseExpired; the transaction then commits and the request is told    *)
(* that the reservation expired, whether or not it was this one's doing    *)
PayRelease(p) ==
    /\ pc[p] = "payRelease"
    /\ LET r == req[p].reservation IN
       \/ /\ Lapsed(r, now[p])
          /\ WriteStatus(p, r, "EXPIRED", TRUE)
          /\ Proceed(p, "increment")
       \/ /\ ~Lapsed(r, now[p])
          /\ Answer(p, "RESERVATION_EXPIRED", {})
          /\ UNCHANGED tx
    /\ UNCHANGED <<clock, tables, req, failures>>

PayUpdate(p) ==
    /\ pc[p] = "payUpdate"
    /\ LET r == req[p].reservation IN
       \/ /\ Live(r, now[p])
          /\ \/ /\ req[p].result = "APPROVED"
                /\ WriteStatus(p, r, "PAID", FALSE)
                /\ Proceed(p, "payInsert")
             \/ /\ req[p].result = "DECLINED"
                /\ WriteStatus(p, r, "DECLINED", TRUE)
                /\ Proceed(p, "increment")
       \/ ~Live(r, now[p]) /\ Proceed(p, "payReread") /\ UNCHANGED tx
    /\ UNCHANGED <<clock, tables, req, failures>>

(* Nothing was updated: the row read again tells why.                      *)
PayReread(p) ==
    /\ pc[p] = "payReread"
    /\ LET r == req[p].reservation
           row == reservations[r]
           overdue == row.status = "EXPIRED" \/ row.expiresAt <= now[p]
       IN
       \/ overdue /\ Proceed(p, "payRelease")
       \/ /\ ~overdue
          /\ IF /\ row.status = "PAID" /\ req[p].result = "APPROVED"
                /\ payments[r] # None \/ ApprovedFor(p)
             THEN Answer(p, PaidStatus(r), tickets[r])
             ELSE Answer(p, "RESERVATION_NOT_PAYABLE", {})
    /\ UNCHANGED <<dbVars, req, failures>>

(* Mutant of PayInsert: no unique index on idempotency_key                  *)
PayInsertAnyway(p) ==
    /\ pc[p] = "payInsert"
    /\ tx' = [tx EXCEPT ![p].payment = [key |-> req[p].key, status |-> req[p].result]]
    /\ Proceed(p, IF req[p].result = "APPROVED" THEN "payTickets" ELSE "commit")
    /\ UNCHANGED <<clock, tables, req, failures>>

(* payment.create: waits for whoever is inserting the same key, and ends   *)
(* the transaction if that key, or the reservation, has its payment.       *)
PayInsert(p) ==
    /\ pc[p] = "payInsert"
    /\ LET r == req[p].reservation
           duplicate == PaidWith(req[p].key) # {} \/ payments[r] # None
       IN
       \/ /\ duplicate
          /\ Rollback(p)
          /\ Proceed(p, "payCatch")
       \/ /\ ~duplicate
          /\ KeyFree(p, req[p].key)
          /\ tx' = [tx EXCEPT ![p].payment = [key |-> req[p].key, status |-> req[p].result]]
          /\ Proceed(p, IF req[p].result = "APPROVED" THEN "payTickets" ELSE "commit")
          /\ UNCHANGED tables
    /\ UNCHANGED <<clock, req, failures>>

(* Mutants of PayTickets: sequences from 0, and one ticket too few          *)
PayTicketsFromZero(p) ==
    /\ pc[p] = "payTickets"
    /\ tx' = [tx EXCEPT ![p].tickets = 0..(reservations[req[p].reservation].quantity - 1)]
    /\ Proceed(p, "commit")
    /\ UNCHANGED <<clock, tables, req, failures>>

PayTicketsTooFew(p) ==
    /\ pc[p] = "payTickets"
    /\ tx' = [tx EXCEPT ![p].tickets = 1..(reservations[req[p].reservation].quantity - 1)]
    /\ Proceed(p, "commit")
    /\ UNCHANGED <<clock, tables, req, failures>>

(* ticket.createMany: one ticket per unit, sequence 1 upwards              *)
PayTickets(p) ==
    /\ pc[p] = "payTickets"
    /\ tx' = [tx EXCEPT ![p].tickets = 1..reservations[req[p].reservation].quantity]
    /\ Proceed(p, "commit")
    /\ UNCHANGED <<clock, tables, req, failures>>

(* The unique constraint failed: findReplay again, then the approved       *)
(* payment of the reservation.                                             *)
PayCatch(p) ==
    /\ pc[p] = "payCatch"
    /\ IF PaidWith(req[p].key) # {}
       THEN \E r \in PaidWith(req[p].key) :
              IF SameRequest(p, r) THEN Answer(p, PaidStatus(r), tickets[r])
                                   ELSE Answer(p, "IDEMPOTENCY_KEY_REUSED", {})
       ELSE IF req[p].result = "APPROVED" /\ ApprovedFor(p)
            THEN Answer(p, "PAID", tickets[req[p].reservation])
            ELSE Answer(p, "RESERVATION_NOT_PAYABLE", {})
    /\ UNCHANGED <<dbVars, req, failures>>

Paying(p) ==
    \/ SimulateBegins(p) \/ FindReplay(p) \/ PayRead(p) \/ PayCheck(p)
    \/ PayRelease(p) \/ PayUpdate(p) \/ PayReread(p) \/ PayInsert(p)
    \/ PayTickets(p) \/ PayCatch(p)
=============================================================================
