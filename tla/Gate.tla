-------------------------------- MODULE Gate --------------------------------
(***************************************************************************)
(* GateService.validate: a code scanned at the gate of the event that the  *)
(* operator selected.                                                      *)
(***************************************************************************)
EXTENDS Tickets

(* TicketTokenService.verify: the code is one that the API has signed, and *)
(* the second of its expiry has not come.  Whoever scans something else,   *)
(* a code not issued yet included, scans no code.                          *)
Verified(t, time) ==
    t \in HandedOut /\ InSeconds(QrExpiresAt(t)) > InSeconds(time)

(* findGateEvent, with the time sampled when the request comes in          *)
ValidateBegins(p) ==
    /\ Begins(p, "validate")
    /\ IF EndsAt[req[p].event] > clock - Window
       THEN Proceed(p, "verify") ELSE Answer(p, "EVENT_NOT_FOUND")
    /\ UNCHANGED <<clock, tables, tx, req, failures>>

Outcome(result, t, usedAt) == [result |-> result, ticket |-> t, usedAt |-> usedAt]
Invalid == Outcome("INVALID", None, None)

(* Mutant of Spent: the status of the ticket for the result of the scan    *)
SpentStatus(t) == Outcome(tickets[t].status, t, tickets[t].usedAt)

(* alreadyUsed *)
Spent(t) == IF tickets[t].usedAt = None THEN Invalid
            ELSE Outcome("ALREADY_USED", t, tickets[t].usedAt)

Decide(p, outcome) ==
    /\ verdict' = [verdict EXCEPT ![p] = outcome]
    /\ Goto(p, "record")

(* The code is verified against the one `now` of the request.              *)
Verify(p) ==
    /\ pc[p] = "verify"
    /\ now' = [now EXCEPT ![p] = clock]
    /\ LET t == req[p].ticket IN
       \/ ~Verified(t, clock) /\ Decide(p, Invalid)
       \/ /\ Verified(t, clock) /\ EventOf[t] # req[p].event
          /\ Decide(p, Outcome("WRONG_EVENT", None, None))
       \/ /\ Verified(t, clock) /\ EventOf[t] = req[p].event
          /\ Goto(p, "gateRead") /\ UNCHANGED verdict
    /\ UNCHANGED <<clock, tables, tx, req, mark, coded, retried, reply, failures, since>>

GateRead(p) ==
    /\ pc[p] = "gateRead"
    /\ LET ticket == tickets[req[p].ticket] IN
       \/ ~ticket.coded /\ Decide(p, Invalid)
       \/ ticket.coded /\ ticket.status = "USED" /\ Decide(p, Spent(req[p].ticket))
       \/ ticket.coded /\ ticket.status = "VALID" /\ Goto(p, "consume") /\ UNCHANGED verdict
    /\ UNCHANGED <<clock, tables, tx, req, now, mark, coded, retried, reply, failures, since>>

(* Mutant of Consume: the update goes by the identifier alone              *)
ConsumeById(p) ==
    /\ pc[p] = "consume"
    /\ TicketFree(p, req[p].ticket)
    /\ tx' = [tx EXCEPT ![p].ticket = req[p].ticket]
    /\ Decide(p, Outcome("VALID", req[p].ticket, now[p]))
    /\ UNCHANGED <<clock, tables, req, now, mark, coded, retried, reply, failures, since>>

(* Mutant of Consume: no look at the row again, a lost race is INVALID     *)
ConsumeOrInvalid(p) ==
    /\ pc[p] = "consume"
    /\ LET t == req[p].ticket IN
       \/ /\ tickets[t].status = "VALID" /\ tickets[t].coded
          /\ TicketFree(p, t)
          /\ tx' = [tx EXCEPT ![p].ticket = t]
          /\ Decide(p, Outcome("VALID", t, now[p]))
       \/ /\ ~(tickets[t].status = "VALID" /\ tickets[t].coded)
          /\ Decide(p, Invalid) /\ UNCHANGED tx
    /\ UNCHANGED <<clock, tables, req, now, mark, coded, retried, reply, failures, since>>

(* UPDATE tickets SET status, used_at, validated_by_id WHERE status = VALID *)
Consume(p) ==
    /\ pc[p] = "consume"
    /\ LET t == req[p].ticket IN
       \/ /\ tickets[t].status = "VALID" /\ tickets[t].coded
          /\ TicketFree(p, t)
          /\ tx' = [tx EXCEPT ![p].ticket = t]
          /\ Decide(p, Outcome("VALID", t, now[p]))
       \/ /\ ~(tickets[t].status = "VALID" /\ tickets[t].coded)
          /\ Goto(p, "gateReread") /\ UNCHANGED <<tx, verdict>>
    /\ UNCHANGED <<clock, tables, req, now, mark, coded, retried, reply, failures, since>>

(* Mutant of GateReread: shows the time of this scan                       *)
GateRereadNow(p) ==
    /\ pc[p] = "gateReread"
    /\ Decide(p, Outcome("ALREADY_USED", req[p].ticket, now[p]))
    /\ UNCHANGED <<clock, tables, tx, req, now, mark, coded, retried, reply, failures, since>>

GateReread(p) ==
    /\ pc[p] = "gateReread"
    /\ LET t == req[p].ticket IN
       Decide(p, IF tickets[t].status = "USED" /\ tickets[t].coded THEN Spent(t) ELSE Invalid)
    /\ UNCHANGED <<clock, tables, tx, req, now, mark, coded, retried, reply, failures, since>>

(* recordValidation and the COMMIT of its transaction, if it is in one     *)
Record(p) ==
    /\ pc[p] = "record"
    /\ validations' = [validations EXCEPT ![p] = verdict[p]]
    /\ tickets' = [t \in Tickets |->
                     IF t = tx[p].ticket
                     THEN [tickets[t] EXCEPT !.status = "USED", !.usedAt = now[p],
                                             !.by = req[p].user]
                     ELSE tickets[t]]
    /\ Rollback(p)
    /\ Deliver(p, [Bare(verdict[p].result) EXCEPT !.ticket = verdict[p].ticket, !.at = now[p]])
    /\ UNCHANGED <<clock, links, req, since>>

Validating(p) ==
    \/ ValidateBegins(p) \/ Verify(p) \/ GateRead(p) \/ Consume(p)
    \/ GateReread(p) \/ Record(p)
=============================================================================
