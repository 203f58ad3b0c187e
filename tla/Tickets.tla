------------------------------- MODULE Tickets -------------------------------
(***************************************************************************)
(* TicketsService: the QR of a ticket, and its share link.                 *)
(***************************************************************************)
EXTENDS Entry

Begins(p, op) ==
    /\ pc[p] = "idle" /\ req[p].op = op
    /\ since' = [since EXCEPT ![p] = links]

(* findOwnedTicket: the row a request names, if it is its user's           *)
Owns(p) == req[p].ticket # None /\ OwnerOf[req[p].ticket] = req[p].user

Active(t, time) == tickets[t].status = "VALID" /\ QrExpiresAt(t) > time

(* The ticket whose QR p is about to issue                                 *)
Subject(p) == IF req[p].op = "shared" THEN links[req[p].token].ticket ELSE req[p].ticket

QrOf(t) == [Bare("QR") EXCEPT !.ticket = t]

-----------------------------------------------------------------------------
(* getQr, getShared, issueQr *)

(* The ticket is read, and issueQr decides by that row: a code whose nonce *)
(* is stored already is answered with no other look at the database.       *)
QrRead(p) ==
    /\ Begins(p, "qr")
    /\ IF Owns(p)
       THEN IF tickets[req[p].ticket].status = "VALID"
            THEN coded' = [coded EXCEPT ![p] = tickets[req[p].ticket].coded]
                 /\ Goto(p, "issue") /\ UNCHANGED <<now, mark, verdict, retried, reply>>
            ELSE Answer(p, "TICKET_NOT_ACTIVE")
       ELSE Answer(p, "TICKET_NOT_FOUND")
    /\ UNCHANGED <<clock, tables, tx, req, failures>>

(* getShared samples its time before it looks for the link.                *)
SharedBegins(p) ==
    /\ Begins(p, "shared")
    /\ IF req[p].token # None
       THEN now' = [now EXCEPT ![p] = clock]
            /\ Goto(p, "readLink") /\ UNCHANGED <<mark, coded, verdict, retried, reply>>
       ELSE Answer(p, "SHARED_TICKET_NOT_FOUND")
    /\ UNCHANGED <<clock, tables, tx, req, failures>>

(* Mutant of ReadLink: the expiry is compared, the revocation forgotten    *)
ReadLinkRevoked(p) ==
    /\ pc[p] = "readLink"
    /\ LET k == req[p].token IN
       IF links[k] # None /\ links[k].expiresAt > now[p]
       THEN Proceed(p, "readShared") ELSE Answer(p, "SHARED_TICKET_NOT_FOUND")
    /\ UNCHANGED <<clock, tables, tx, req, failures, since>>

(* findUnique, and the three ways a link is as good as none                *)
ReadLink(p) ==
    /\ pc[p] = "readLink"
    /\ LET k == req[p].token IN
       IF links[k] # None /\ ~links[k].revoked /\ links[k].expiresAt > now[p]
       THEN Proceed(p, "readShared") ELSE Answer(p, "SHARED_TICKET_NOT_FOUND")
    /\ UNCHANGED <<clock, tables, tx, req, failures, since>>

(* The ticket the link includes is read in a query of its own.             *)
ReadShared(p) ==
    /\ pc[p] = "readShared"
    /\ LET ticket == tickets[Subject(p)] IN
       IF ticket.status = "VALID"
       THEN coded' = [coded EXCEPT ![p] = ticket.coded]
            /\ Goto(p, "issue") /\ UNCHANGED <<now, mark, verdict, retried, reply>>
       ELSE Answer(p, "NO_QR")
    /\ UNCHANGED <<clock, tables, tx, req, failures, since>>

(* issueQr: expiry by its own look at the clock, the nonce by the row read *)
Issue(p) ==
    /\ pc[p] = "issue"
    /\ \/ /\ QrExpiresAt(Subject(p)) > clock /\ ~coded[p]
          /\ Proceed(p, "writeNonce")
       \/ /\ QrExpiresAt(Subject(p)) > clock /\ coded[p]
          /\ Respond(p, QrOf(Subject(p)))
       \/ /\ QrExpiresAt(Subject(p)) <= clock
          /\ Answer(p, "TICKET_NOT_ACTIVE")
    /\ UNCHANGED <<clock, tables, tx, req, failures, since>>

(* Mutant of WriteNonce: answers the code without storing its nonce        *)
WriteNonceLater(p) ==
    /\ pc[p] = "writeNonce"
    /\ Respond(p, QrOf(Subject(p)))
    /\ UNCHANGED <<clock, tables, tx, req, failures, since>>

(* UPDATE tickets SET qr_nonce_hash WHERE status = VALID, by itself        *)
WriteNonce(p) ==
    /\ pc[p] = "writeNonce"
    /\ LET t == Subject(p) IN
       IF tickets[t].status = "VALID"
       THEN /\ TicketFree(p, t)
            /\ tickets' = [tickets EXCEPT ![t].coded = TRUE]
            /\ Deliver(p, QrOf(t))
       ELSE Answer(p, "TICKET_NOT_ACTIVE") /\ UNCHANGED <<tickets, failures>>
    /\ UNCHANGED <<clock, links, validations, tx, req, since>>

-----------------------------------------------------------------------------
(* createShareLink, revokeShareLink *)

ShareBegins(p) ==
    /\ Begins(p, "share")
    /\ Proceed(p, "shareRead")
    /\ UNCHANGED <<clock, tables, tx, req, failures>>

ShareRead(p) ==
    /\ pc[p] = "shareRead"
    /\ \/ ~Owns(p) /\ Answer(p, "TICKET_NOT_FOUND")
       \/ Owns(p) /\ ~Active(req[p].ticket, clock) /\ Answer(p, "TICKET_NOT_ACTIVE")
       \/ Owns(p) /\ Active(req[p].ticket, clock) /\ Proceed(p, "mark")
    /\ UNCHANGED <<clock, tables, tx, req, failures, since>>

RevokeBegins(p) ==
    /\ Begins(p, "revoke")
    /\ IF Owns(p) THEN Proceed(p, "mark") ELSE Answer(p, "TICKET_NOT_FOUND")
    /\ UNCHANGED <<clock, tables, tx, req, failures>>

(* Mutant of Mark: an expired link is thought to need no revocation        *)
MarkUnexpired(p) ==
    /\ pc[p] = "mark"
    /\ mark' = [mark EXCEPT ![p] = {k \in ActiveLinks(req[p].ticket) : links[k].expiresAt > clock}]
    /\ Goto(p, "revoke")
    /\ UNCHANGED <<clock, tables, tx, req, now, coded, verdict, retried, reply, failures, since>>

(* UPDATE share_links SET revoked_at WHERE ticket and revoked_at IS NULL   *)
(* begins: it sees the links active by now, and no later one.              *)
Mark(p) ==
    /\ pc[p] = "mark"
    /\ mark' = [mark EXCEPT ![p] = ActiveLinks(req[p].ticket)]
    /\ Goto(p, "revoke")
    /\ UNCHANGED <<clock, tables, tx, req, now, coded, verdict, retried, reply, failures, since>>

(* Mutant of Revoke: the update runs outside the transaction of the insert *)
RevokeOutside(p) ==
    /\ pc[p] = "revoke"
    /\ LET found == {k \in mark[p] : ~links[k].revoked} IN
       /\ \A k \in found : LinkFree(p, k)
       /\ links' = [k \in Tokens |-> IF k \in found THEN [links[k] EXCEPT !.revoked = TRUE]
                                                    ELSE links[k]]
       /\ IF req[p].op = "revoke" THEN Answer(p, "REVOKED") ELSE Proceed(p, "insertLink")
    /\ UNCHANGED <<clock, tickets, validations, tx, req, failures, since>>

(* ... and ends: it waits for who is revoking one of them, and leaves out  *)
(* those that were revoked meanwhile.  revokeShareLink is this statement.  *)
Revoke(p) ==
    /\ pc[p] = "revoke"
    /\ LET found == {k \in mark[p] : ~links[k].revoked} IN
       /\ \A k \in found : LinkFree(p, k)
       /\ \/ /\ req[p].op = "share"
             /\ tx' = [tx EXCEPT ![p].revoked = found]
             /\ mark' = [mark EXCEPT ![p] = {}]
             /\ Goto(p, "insertLink")
             /\ UNCHANGED <<links, now, coded, verdict, retried, reply, failures>>
          \/ /\ req[p].op = "revoke"
             /\ links' = [k \in Tokens |-> IF k \in found THEN [links[k] EXCEPT !.revoked = TRUE]
                                                          ELSE links[k]]
             /\ Deliver(p, Bare("REVOKED"))
             /\ UNCHANGED tx
    /\ UNCHANGED <<clock, tickets, validations, req, since>>

(* The partial unique index on the active links of a ticket: an INSERT     *)
(* fails on a committed one, and waits for one that an open transaction    *)
(* has inserted or is revoking.                                            *)
Rivals(p) == ActiveLinks(req[p].ticket) \ tx[p].revoked
Undecided(p) ==
    {q \in Requests \ {p} : \/ tx[q].link # None /\ req[q].ticket = req[p].ticket
                            \/ tx[q].revoked \cap Rivals(p) # {}}
Duplicate(p) ==
    \E k \in Rivals(p) : \A q \in Requests \ {p} : k \notin tx[q].revoked

(* Mutant of InsertLink: the migration without its unique index            *)
InsertLinkAnyway(p) ==
    /\ pc[p] = "insertLink"
    /\ \E k \in Tokens :
         /\ links[k] = None /\ \A q \in Requests : tx[q].link # k
         /\ tx' = [tx EXCEPT ![p].link = k]
    /\ Proceed(p, "shareCommit")
    /\ UNCHANGED <<clock, tables, req, failures, since>>

(* Mutant of InsertLink: what is tried again, and until it succeeds, is    *)
(* the INSERT alone                                                        *)
InsertLinkUntilDone(p) ==
    /\ pc[p] = "insertLink"
    /\ \/ /\ ~Duplicate(p) /\ Undecided(p) = {}
          /\ \E k \in Tokens :
               /\ links[k] = None /\ \A q \in Requests : tx[q].link # k
               /\ tx' = [tx EXCEPT ![p].link = k]
          /\ Proceed(p, "shareCommit")
       \/ /\ Duplicate(p)
          /\ Rollback(p)
          /\ retried' = [retried EXCEPT ![p] = TRUE]
          /\ UNCHANGED <<pc, now, mark, coded, verdict, reply>>
    /\ UNCHANGED <<clock, tables, req, failures, since>>

InsertLink(p) ==
    /\ pc[p] = "insertLink"
    /\ \/ /\ ~Duplicate(p) /\ Undecided(p) = {}
          /\ \E k \in Tokens :
               /\ links[k] = None /\ \A q \in Requests : tx[q].link # k
               /\ tx' = [tx EXCEPT ![p].link = k]
          /\ Proceed(p, "shareCommit")
       \/ /\ Duplicate(p) /\ ~retried[p]
          /\ Rollback(p)
          /\ retried' = [retried EXCEPT ![p] = TRUE]
          /\ Goto(p, "shareRead")
          /\ UNCHANGED <<now, mark, coded, verdict, reply>>
       \/ /\ Duplicate(p) /\ retried[p]
          /\ Rollback(p)
          /\ Answer(p, "INTERNAL_ERROR")
    /\ UNCHANGED <<clock, tables, req, failures, since>>

(* COMMIT, and the url of the new link                                     *)
ShareCommit(p) ==
    /\ pc[p] = "shareCommit"
    /\ LET t == req[p].ticket
           new == [ticket |-> t, expiresAt |-> QrExpiresAt(t), revoked |-> FALSE] IN
       links' = [k \in Tokens |->
                   IF k = tx[p].link THEN new
                   ELSE IF k \in tx[p].revoked THEN [links[k] EXCEPT !.revoked = TRUE]
                   ELSE links[k]]
    /\ Rollback(p)
    /\ Deliver(p, [Bare("LINK") EXCEPT !.link = tx[p].link])
    /\ UNCHANGED <<clock, tickets, validations, req, since>>

Issuing(p) ==
    \/ QrRead(p) \/ SharedBegins(p) \/ ReadLink(p) \/ ReadShared(p)
    \/ Issue(p) \/ WriteNonce(p)

Sharing(p) ==
    \/ ShareBegins(p) \/ ShareRead(p) \/ RevokeBegins(p)
    \/ Mark(p) \/ Revoke(p) \/ InsertLink(p) \/ ShareCommit(p)
=============================================================================
