--------------------------- MODULE AdmissionProofs ---------------------------
(***************************************************************************)
(* Proofs, for every set of requests, tickets, links, gates and events, of *)
(* what module Admission promises: the invariant IInv, what it implies,    *)
(* and that the tickets and the gate together implement Turnstile.         *)
(***************************************************************************)
EXTENDS Admission, FiniteSetTheorems, TLAPS

-----------------------------------------------------------------------------
(* Types                                                                   *)

LEMMA NoTransaction == NothingWritten \in Transaction
BY NoneIsNoRow DEF NothingWritten, Transaction

LEMMA BareResponse ==
    ASSUME NEW code \in Codes
    PROVE  /\ Bare(code) \in Response /\ Bare(code) # None
           /\ Bare(code) = [code |-> code, ticket |-> None, link |-> None, at |-> None]
<1>1. Bare(code) \in Response
  BY DEF Bare, Response
<1> QED
  BY <1>1, NoneIsNoRow DEF Bare

(* What a request keeps between two statements                             *)
LocalTypes ==
    /\ pc \in [Requests -> Labels]
    /\ now \in [Requests -> Int]
    /\ mark \in [Requests -> SUBSET Tokens]
    /\ coded \in [Requests -> BOOLEAN]
    /\ verdict \in [Requests -> Validation \cup {None}]
    /\ retried \in [Requests -> BOOLEAN]
    /\ reply \in [Requests -> Response \cup {None}]

(* What the database and the clock keep                                    *)
SharedTypes ==
    /\ clock \in Nat
    /\ tickets \in [Tickets -> Ticket]
    /\ links \in [Tokens -> Link \cup {None}]
    /\ validations \in [Requests -> Validation \cup {None}]
    /\ tx \in [Requests -> Transaction]
    /\ req \in [Requests -> Request]
    /\ failures \in Nat
    /\ since \in [Requests -> [Tokens -> Link \cup {None}] \cup {None}]

LEMMA Types ==
    /\ TypeOK <=> LocalTypes /\ SharedTypes
    /\ TypeOK' <=> LocalTypes' /\ SharedTypes'
BY DEF TypeOK, LocalTypes, SharedTypes

LEMMA RespondTypes ==
    ASSUME LocalTypes, NEW p \in Requests, NEW response \in Response, Respond(p, response)
    PROVE  LocalTypes'
<1> USE DEF LocalTypes, Respond, Goto, Forget
<1>1. pc' \in [Requests -> Labels] /\ now' \in [Requests -> Int]
  BY DEF Labels
<1>2. mark' \in [Requests -> SUBSET Tokens] /\ coded' \in [Requests -> BOOLEAN]
  OBVIOUS
<1>3. verdict' \in [Requests -> Validation \cup {None}]
  OBVIOUS
<1>4. retried' \in [Requests -> BOOLEAN] /\ reply' \in [Requests -> Response \cup {None}]
  OBVIOUS
<1> QED
  BY <1>1, <1>2, <1>3, <1>4

LEMMA AnswerTypes ==
    ASSUME LocalTypes, NEW p \in Requests, NEW code \in Codes, Answer(p, code)
    PROVE  LocalTypes'
BY BareResponse, RespondTypes DEF Answer

LEMMA ProceedTypes ==
    ASSUME LocalTypes, NEW p \in Requests, NEW label \in Labels, Proceed(p, label)
    PROVE  LocalTypes'
BY DEF Proceed, Goto, LocalTypes, handlers

LEMMA DeliverTypes ==
    ASSUME LocalTypes, NEW p \in Requests, NEW response \in Response, Deliver(p, response),
           failures \in Nat
    PROVE  LocalTypes' /\ failures' \in Nat
<1>1. CASE Respond(p, response) /\ UNCHANGED failures
  BY <1>1, RespondTypes
<1>2. CASE failures' = failures + 1 /\ Answer(p, "INTERNAL_ERROR")
  BY <1>2, AnswerTypes DEF Codes
<1> QED
  BY <1>1, <1>2 DEF Deliver

LEMMA BeginsTypes ==
    ASSUME TypeOK, NEW p \in Requests, NEW op, Begins(p, op)
    PROVE  since' \in [Requests -> [Tokens -> Link \cup {None}] \cup {None}]
BY DEF Begins, TypeOK

LEMMA RollbackTypes ==
    ASSUME TypeOK, NEW p \in Requests, Rollback(p)
    PROVE  tx' \in [Requests -> Transaction]
BY NoTransaction DEF Rollback, TypeOK

(* The row of a ticket that a request owns, or that a link opens           *)
LEMMA SubjectType ==
    ASSUME IInv, NEW p \in Requests, pc[p] \in {"readShared", "issue", "writeNonce"}
    PROVE  Subject(p) \in Tickets
<1>1. TypeOK /\ Serves(p) /\ Remembers(p)
  BY DEF IInv
<1>2. CASE req[p].op = "qr"
  BY <1>1, <1>2 DEF Serves, Owns, Subject, TypeOK, Request
<1>3. CASE req[p].op = "shared"
  <2>1. req[p].token \in Tokens /\ links[req[p].token] \in Link
    BY <1>1, <1>3 DEF Serves, Remembers, TypeOK, Request
  <2> QED
    BY <1>3, <2>1 DEF Subject, Link
<1> QED
  BY <1>1, <1>2, <1>3 DEF Serves

LEMMA QrResponse ==
    ASSUME NEW t \in Tickets
    PROVE  /\ QrOf(t) \in Response /\ QrOf(t) # None
           /\ QrOf(t) = [code |-> "QR", ticket |-> t, link |-> None, at |-> None]
<1>1. QrOf(t) = [code |-> "QR", ticket |-> t, link |-> None, at |-> None]
  BY DEF QrOf, Bare
<1>2. QrOf(t) \in Response
  BY <1>1 DEF Response, Codes
<1> QED
  BY <1>1, <1>2, NoneIsNoRow

LEMMA IssuingTypes ==
    ASSUME IInv, NEW p \in Requests, Issuing(p) PROVE TypeOK'
<1>0. TypeOK /\ LocalTypes /\ SharedTypes
  BY Types DEF IInv
<1> USE DEF tables, handlers
<1>1. CASE QrRead(p)
  <2>1. LocalTypes'
    BY <1>0, <1>1, AnswerTypes DEF QrRead, LocalTypes, SharedTypes, Ticket, Goto, Labels, Codes, Owns,
       Request
  <2> QED
    BY <1>0, <1>1, <2>1, Types, BeginsTypes DEF QrRead, SharedTypes
<1>2. CASE SharedBegins(p)
  <2>1. LocalTypes'
    BY <1>0, <1>2, AnswerTypes DEF SharedBegins, LocalTypes, SharedTypes, Goto, Labels, Codes
  <2> QED
    BY <1>0, <1>2, <2>1, Types, BeginsTypes DEF SharedBegins, SharedTypes
<1>3. CASE ReadLink(p)
  <2>1. LocalTypes'
    BY <1>0, <1>3, AnswerTypes, ProceedTypes DEF ReadLink, Labels, Codes
  <2> QED
    BY <1>0, <1>3, <2>1, Types DEF ReadLink, SharedTypes
<1>4. CASE ReadShared(p)
  <2>1. tickets[Subject(p)].coded \in BOOLEAN
    BY <1>0, <1>4, SubjectType DEF ReadShared, SharedTypes, Ticket
  <2>2. LocalTypes'
    BY <1>0, <1>4, <2>1, AnswerTypes DEF ReadShared, LocalTypes, Goto, Labels, Codes
  <2> QED
    BY <1>0, <1>4, <2>2, Types DEF ReadShared, SharedTypes
<1>5. CASE Issue(p)
  <2>1. LocalTypes'
    BY <1>0, <1>5, AnswerTypes, ProceedTypes, RespondTypes, SubjectType, QrResponse
       DEF Issue, Labels, Codes
  <2> QED
    BY <1>0, <1>5, <2>1, Types DEF Issue, SharedTypes
<1>6. CASE WriteNonce(p)
  <2>1. Subject(p) \in Tickets
    BY <1>6, SubjectType DEF WriteNonce
  <2>2. LocalTypes' /\ failures' \in Nat
    BY <1>0, <1>6, <2>1, AnswerTypes, DeliverTypes, QrResponse DEF WriteNonce, Codes, SharedTypes
  <2>3. tickets' \in [Tickets -> Ticket]
    BY <1>0, <1>6, <2>1 DEF WriteNonce, SharedTypes, Ticket
  <2> QED
    BY <1>0, <1>6, <2>2, <2>3, Types DEF WriteNonce, SharedTypes
<1> QED
  BY <1>1, <1>2, <1>3, <1>4, <1>5, <1>6 DEF Issuing

LEMMA SharingTypes ==
    ASSUME IInv, NEW p \in Requests, Sharing(p) PROVE TypeOK'
<1>0. TypeOK /\ LocalTypes /\ SharedTypes
  BY Types DEF IInv
<1> USE DEF tables, handlers
<1>1. CASE ShareBegins(p)
  <2>1. LocalTypes'
    BY <1>0, <1>1, ProceedTypes DEF ShareBegins, Labels
  <2> QED
    BY <1>0, <1>1, <2>1, Types, BeginsTypes DEF ShareBegins, SharedTypes
<1>2. CASE ShareRead(p)
  <2>1. LocalTypes'
    BY <1>0, <1>2, AnswerTypes, ProceedTypes DEF ShareRead, Labels, Codes
  <2> QED
    BY <1>0, <1>2, <2>1, Types DEF ShareRead, SharedTypes
<1>3. CASE RevokeBegins(p)
  <2>1. LocalTypes'
    BY <1>0, <1>3, AnswerTypes, ProceedTypes DEF RevokeBegins, Labels, Codes
  <2> QED
    BY <1>0, <1>3, <2>1, Types, BeginsTypes DEF RevokeBegins, SharedTypes
<1>4. CASE Mark(p)
  <2>1. LocalTypes'
    BY <1>0, <1>4 DEF Mark, LocalTypes, Goto, Labels, ActiveLinks
  <2> QED
    BY <1>0, <1>4, <2>1, Types DEF Mark, SharedTypes
<1>5. CASE Revoke(p)
  <2> DEFINE found == {k \in mark[p] : ~links[k].revoked}
  <2>0. found \subseteq Tokens
    BY <1>0 DEF LocalTypes
  <2>1. CASE /\ tx' = [tx EXCEPT ![p].revoked = found]
             /\ mark' = [mark EXCEPT ![p] = {}]
             /\ Goto(p, "insertLink")
             /\ UNCHANGED <<links, now, coded, verdict, retried, reply, failures>>
    <3>1. LocalTypes'
      BY <1>0, <2>1 DEF LocalTypes, Goto, Labels
    <3>2. tx' \in [Requests -> Transaction]
      BY <1>0, <2>0, <2>1 DEF SharedTypes, Transaction
    <3> QED
      BY <1>0, <1>5, <2>1, <3>1, <3>2, Types DEF Revoke, SharedTypes
  <2>2. CASE /\ links' = [k \in Tokens |-> IF k \in found THEN [links[k] EXCEPT !.revoked = TRUE]
                                                             ELSE links[k]]
             /\ Deliver(p, Bare("REVOKED"))
             /\ UNCHANGED tx
    <3>1. LocalTypes' /\ failures' \in Nat
      BY <1>0, <2>2, DeliverTypes, BareResponse DEF SharedTypes, Codes
    <3>2. pc[p] = "revoke" /\ Remembers(p)
      BY <1>5 DEF Revoke, IInv
    <3>3. \A k \in found : links[k] \in Link
      BY <1>0, <2>0, <3>2 DEF Remembers, SharedTypes
    <3>4. links' \in [Tokens -> Link \cup {None}]
      BY <1>0, <2>2, <3>3 DEF SharedTypes, Link
    <3> QED
      BY <1>0, <1>5, <2>2, <3>1, <3>4, Types DEF Revoke, SharedTypes
  <2> QED
    BY <1>5, <2>1, <2>2 DEF Revoke
<1>6. CASE InsertLink(p)
  <2>1. LocalTypes'
    <3>1. CASE Proceed(p, "shareCommit")
      BY <1>0, <3>1, ProceedTypes DEF Labels
    <3>2. CASE /\ retried' = [retried EXCEPT ![p] = TRUE] /\ Goto(p, "shareRead")
               /\ UNCHANGED <<now, mark, coded, verdict, reply>>
      BY <1>0, <3>2 DEF LocalTypes, Goto, Labels
    <3>3. CASE Answer(p, "INTERNAL_ERROR")
      BY <1>0, <3>3, AnswerTypes DEF Codes
    <3> QED
      BY <1>6, <3>1, <3>2, <3>3 DEF InsertLink
  <2>2. tx' \in [Requests -> Transaction]
    <3>1. CASE \E k \in Tokens : tx' = [tx EXCEPT ![p].link = k]
      BY <1>0, <3>1 DEF SharedTypes, Transaction
    <3> QED
      BY <1>0, <1>6, <3>1, RollbackTypes DEF InsertLink
  <2> QED
    BY <1>0, <1>6, <2>1, <2>2, Types DEF InsertLink, SharedTypes
<1>7. CASE ShareCommit(p)
  <2> DEFINE t == req[p].ticket
             new == [ticket |-> t, expiresAt |-> QrExpiresAt(t), revoked |-> FALSE]
             response == [Bare("LINK") EXCEPT !.link = tx[p].link]
  <2>1. pc[p] = "shareCommit" /\ Serves(p) /\ Holds(p) /\ t \in Tickets
    BY <1>0, <1>7 DEF ShareCommit, IInv, Serves, Owns, SharedTypes, Request
  <2>2. response \in Response
    BY <1>0 DEF Bare, Response, Codes, SharedTypes, Transaction
  <2>3. LocalTypes' /\ failures' \in Nat
    BY <1>0, <1>7, <2>2, DeliverTypes DEF ShareCommit, SharedTypes
  <2>4. new \in Link
    BY <2>1, TicketsOfEvents DEF Link, QrExpiresAt
  <2>5. \A k \in tx[p].revoked : links[k] \in Link
    BY <1>0, <2>1 DEF Holds, ActiveLinks, SharedTypes
  <2>6. links' \in [Tokens -> Link \cup {None}]
    BY <1>0, <1>7, <2>4, <2>5 DEF ShareCommit, SharedTypes, Link
  <2>7. tx' \in [Requests -> Transaction]
    BY <1>0, <1>7, RollbackTypes DEF ShareCommit
  <2> QED
    BY <1>0, <1>7, <2>3, <2>6, <2>7, Types DEF ShareCommit, SharedTypes
<1> QED
  BY <1>1, <1>2, <1>3, <1>4, <1>5, <1>6, <1>7 DEF Sharing

(* What the gate decides is a validation.                                  *)
LEMMA DecideTypes ==
    ASSUME LocalTypes, NEW p \in Requests, NEW outcome \in Validation, Decide(p, outcome)
    PROVE  /\ verdict' \in [Requests -> Validation \cup {None}]
           /\ pc' \in [Requests -> Labels]
BY DEF Decide, Goto, LocalTypes, Labels

LEMMA Outcomes ==
    ASSUME TypeOK
    PROVE  /\ Invalid \in Validation
           /\ Outcome("WRONG_EVENT", None, None) \in Validation
           /\ \A t \in Tickets : \A time \in Int : Outcome("VALID", t, time) \in Validation
           /\ \A t \in Tickets : Spent(t) \in Validation
BY DEF Invalid, Outcome, Spent, Validation, TypeOK, Ticket

LEMMA ValidatingTypes ==
    ASSUME IInv, NEW p \in Requests, Validating(p) PROVE TypeOK'
<1>0. TypeOK /\ LocalTypes /\ SharedTypes
  BY Types DEF IInv
<1>a. pc[p] \in {"gateRead", "consume", "gateReread"} => req[p].ticket \in Tickets
  BY DEF IInv, Finds
<1> USE DEF tables, handlers
<1>1. CASE ValidateBegins(p)
  <2>1. LocalTypes'
    BY <1>0, <1>1, AnswerTypes, ProceedTypes DEF ValidateBegins, Labels, Codes
  <2> QED
    BY <1>0, <1>1, <2>1, Types, BeginsTypes DEF ValidateBegins, SharedTypes
<1>2. CASE Verify(p)
  <2>1. LocalTypes'
    BY <1>0, <1>2, Outcomes, DecideTypes DEF Verify, LocalTypes, SharedTypes, Goto, Labels
  <2> QED
    BY <1>0, <1>2, <2>1, Types DEF Verify, SharedTypes
<1>3. CASE GateRead(p)
  <2>1. LocalTypes'
    BY <1>0, <1>a, <1>3, Outcomes, DecideTypes DEF GateRead, LocalTypes, Goto, Labels
  <2> QED
    BY <1>0, <1>3, <2>1, Types DEF GateRead, SharedTypes
<1>4. CASE Consume(p)
  <2>1. LocalTypes'
    BY <1>0, <1>a, <1>4, Outcomes, DecideTypes DEF Consume, LocalTypes, Goto, Labels
  <2>2. tx' \in [Requests -> Transaction]
    <3>1. CASE tx' = [tx EXCEPT ![p].ticket = req[p].ticket]
      BY <1>0, <1>a, <1>4, <3>1 DEF Consume, SharedTypes, Transaction
    <3>2. CASE UNCHANGED tx
      BY <1>0, <3>2 DEF SharedTypes
    <3> QED
      BY <1>4, <3>1, <3>2 DEF Consume
  <2> QED
    BY <1>0, <1>4, <2>1, <2>2, Types DEF Consume, SharedTypes
<1>5. CASE GateReread(p)
  <2>1. LocalTypes'
    BY <1>0, <1>a, <1>5, Outcomes, DecideTypes DEF GateReread, LocalTypes
  <2> QED
    BY <1>0, <1>5, <2>1, Types DEF GateReread, SharedTypes
<1>6. CASE Record(p)
  <2> DEFINE response == [Bare(verdict[p].result) EXCEPT !.ticket = verdict[p].ticket, !.at = now[p]]
  <2>1. verdict[p] \in Validation /\ now[p] \in Int /\ req[p].user \in Gates
    BY <1>0, <1>6 DEF Record, IInv, Records, Serves, LocalTypes
  <2>2. response \in Response
    BY <2>1 DEF Bare, Response, Validation, Codes
  <2>3. LocalTypes' /\ failures' \in Nat
    BY <1>0, <1>6, <2>2, DeliverTypes DEF Record, SharedTypes
  <2>4. tickets' \in [Tickets -> Ticket]
    BY <1>0, <1>6, <2>1 DEF Record, SharedTypes, Ticket
  <2>5. validations' \in [Requests -> Validation \cup {None}]
    BY <1>0, <1>6, <2>1 DEF Record, SharedTypes
  <2>6. tx' \in [Requests -> Transaction]
    BY <1>0, <1>6, RollbackTypes DEF Record
  <2> QED
    BY <1>0, <1>6, <2>3, <2>4, <2>5, <2>6, Types DEF Record, SharedTypes
<1> QED
  BY <1>1, <1>2, <1>3, <1>4, <1>5, <1>6 DEF Validating

LEMMA TypesStep ==
    ASSUME IInv, [Next]_vars PROVE TypeOK'
<1>0. TypeOK /\ LocalTypes /\ SharedTypes
  BY Types DEF IInv
<1>1. ASSUME NEW p \in Requests, Fail(p) PROVE TypeOK'
  <2>1. LocalTypes' /\ tx' \in [Requests -> Transaction]
    BY <1>0, <1>1, AnswerTypes, RollbackTypes DEF Fail, Codes
  <2> QED
    BY <1>0, <1>1, <2>1, Types DEF Fail, SharedTypes, tables
<1>2. CASE Tick
  BY <1>0, <1>2 DEF Tick, TypeOK, tables, handlers
<1>3. CASE UNCHANGED vars
  BY <1>0, <1>3 DEF vars, TypeOK, tables, handlers
<1> QED
  BY <1>1, <1>2, <1>3, IssuingTypes, SharingTypes, ValidatingTypes DEF Next, Step

-----------------------------------------------------------------------------
(* What a step leaves alone                                                *)

(* A step of p leaves the others where they are.                           *)
Still(q) == UNCHANGED <<req[q], pc[q], now[q], mark[q], coded[q], verdict[q], tx[q], reply[q],
                        validations[q], since[q]>>

Alone(p) == UNCHANGED req /\ \A q \in Requests \ {p} : Still(q)

LEMMA OthersStay ==
    ASSUME TypeOK, NEW p \in Requests, Step(p) \/ Fail(p)
    PROVE  Alone(p)
<1> USE DEF Alone, Still, TypeOK, Proceed, Goto, Answer, Respond, Forget, Deliver, Rollback, Begins, Decide,
            tables, handlers
<1>1. QrRead(p) => Alone(p)
  BY DEF QrRead
<1>2. SharedBegins(p) => Alone(p)
  BY DEF SharedBegins
<1>3. ReadLink(p) => Alone(p)
  BY DEF ReadLink
<1>4. ReadShared(p) => Alone(p)
  BY DEF ReadShared
<1>5. Issue(p) => Alone(p)
  BY DEF Issue
<1>6. WriteNonce(p) => Alone(p)
  BY DEF WriteNonce
<1>7. ShareBegins(p) => Alone(p)
  BY DEF ShareBegins
<1>8. ShareRead(p) => Alone(p)
  BY DEF ShareRead
<1>9. RevokeBegins(p) => Alone(p)
  BY DEF RevokeBegins
<1>10. Mark(p) => Alone(p)
  BY DEF Mark
<1>11. Revoke(p) => Alone(p)
  BY DEF Revoke
<1>12. InsertLink(p) => Alone(p)
  BY DEF InsertLink
<1>13. ShareCommit(p) => Alone(p)
  BY DEF ShareCommit
<1>14. ValidateBegins(p) => Alone(p)
  BY DEF ValidateBegins
<1>15. Verify(p) => Alone(p)
  BY DEF Verify
<1>16. GateRead(p) => Alone(p)
  BY DEF GateRead
<1>17. Consume(p) => Alone(p)
  BY DEF Consume
<1>18. GateReread(p) => Alone(p)
  BY DEF GateReread
<1>19. Record(p) => Alone(p)
  BY DEF Record
<1>20. Fail(p) => Alone(p)
  BY DEF Fail
<1> QED
  BY <1>1, <1>2, <1>3, <1>4, <1>5, <1>6, <1>7, <1>8, <1>9, <1>10, <1>11, <1>12, <1>13, <1>14,
     <1>15, <1>16, <1>17, <1>18, <1>19, <1>20 DEF Step, Issuing, Sharing, Validating

(* Nothing that was stored is taken back: a nonce, the time and gate of a  *)
(* used ticket, a link and its revocation.                                 *)
Lasts ==
    /\ \A t \in Tickets :
          /\ tickets[t].coded => tickets'[t].coded
          /\ tickets[t].status = "USED" =>
                /\ tickets'[t].status = "USED"
                /\ tickets'[t].usedAt = tickets[t].usedAt /\ tickets'[t].by = tickets[t].by
    /\ \A k \in Tokens : links[k] # None =>
          /\ links'[k] # None /\ links'[k].ticket = links[k].ticket
          /\ links[k].revoked => links'[k].revoked

(* The four steps that write tickets or links; nothing else does.          *)
Writes(p) == WriteNonce(p) \/ Revoke(p) \/ ShareCommit(p) \/ Record(p)

LEMMA WhoWrites ==
    ASSUME [Next]_vars
    PROVE  \/ UNCHANGED <<tickets, links>>
           \/ \E p \in Requests : Writes(p)
<1> USE DEF tables, handlers
<1>1. ASSUME NEW p \in Requests, Step(p) \/ Fail(p), ~Writes(p)
      PROVE  UNCHANGED <<tickets, links>>
  BY <1>1 DEF Step, Issuing, Sharing, Validating, Writes, Fail, QrRead, SharedBegins, ReadLink,
     ReadShared, Issue, ShareBegins, ShareRead, RevokeBegins, Mark, InsertLink, ValidateBegins,
     Verify, GateRead, Consume, GateReread
<1>2. UNCHANGED vars \/ Tick => UNCHANGED <<tickets, links>>
  BY DEF vars, Tick
<1> QED
  BY <1>1, <1>2 DEF Next

LEMMA TablesLast ==
    ASSUME IInv, [Next]_vars PROVE Lasts
<1>0. /\ tickets \in [Tickets -> Ticket] /\ links \in [Tokens -> Link \cup {None}]
      /\ tx \in [Requests -> Transaction] /\ mark \in [Requests -> SUBSET Tokens]
      /\ req \in [Requests -> Request]
  BY DEF IInv, TypeOK
<1>1. CASE UNCHANGED <<tickets, links>>
  BY <1>1 DEF Lasts
<1>2. ASSUME NEW p \in Requests, WriteNonce(p) PROVE Lasts
  BY <1>0, <1>2 DEF WriteNonce, Lasts, Ticket
<1>3. ASSUME NEW p \in Requests, Revoke(p) PROVE Lasts
  <2> DEFINE found == {k \in mark[p] : ~links[k].revoked}
  <2>1. UNCHANGED tickets
    BY <1>3 DEF Revoke
  <2>2. CASE UNCHANGED links
    BY <2>1, <2>2 DEF Lasts
  <2>3. CASE links' = [k \in Tokens |-> IF k \in found THEN [links[k] EXCEPT !.revoked = TRUE]
                                                        ELSE links[k]]
    <3>1. SUFFICES ASSUME NEW k \in Tokens, links[k] # None
                   PROVE  /\ links'[k] # None /\ links'[k].ticket = links[k].ticket
                          /\ links[k].revoked => links'[k].revoked
      BY <2>1 DEF Lasts
    <3>2. links[k] \in Link
      BY <1>0, <3>1
    <3>3. [links[k] EXCEPT !.revoked = TRUE] \in Link
      BY <3>2 DEF Link
    <3> QED
      BY <2>3, <3>2, <3>3, NoneIsNoRow DEF Link
  <2> QED
    BY <1>3, <2>2, <2>3 DEF Revoke
<1>4. ASSUME NEW p \in Requests, ShareCommit(p) PROVE Lasts
  <2>1. UNCHANGED tickets /\ Holds(p) /\ links[tx[p].link] = None
    BY <1>4 DEF ShareCommit, IInv, Holds
  <2>2. SUFFICES ASSUME NEW k \in Tokens, links[k] # None
                 PROVE  /\ links'[k] # None /\ links'[k].ticket = links[k].ticket
                        /\ links[k].revoked => links'[k].revoked
    BY <2>1 DEF Lasts
  <2>3. links[k] \in Link
    BY <1>0, <2>2
  <2>4. [links[k] EXCEPT !.revoked = TRUE] \in Link
    BY <2>3 DEF Link
  <2>5. \/ links'[k] = links[k]
        \/ links'[k] = [links[k] EXCEPT !.revoked = TRUE]
    BY <1>4, <2>1, <2>2 DEF ShareCommit
  <2> QED
    BY <2>3, <2>4, <2>5, NoneIsNoRow DEF Link
<1>5. ASSUME NEW p \in Requests, Record(p) PROVE Lasts
  <2>1. Holds(p) /\ UNCHANGED links
    BY <1>5 DEF IInv, Record
  <2>2. \A t \in Tickets : tx[p].ticket = t => tickets[t].status = "VALID"
    BY <2>1, NoneIsNoRow DEF Holds
  <2> QED
    BY <1>0, <1>5, <2>1, <2>2 DEF Record, Lasts, Ticket
<1> QED
  BY <1>1, <1>2, <1>3, <1>4, <1>5, WhoWrites DEF Writes

-----------------------------------------------------------------------------
(* What each request relies on                                             *)

(* The parts of the properties that are about the responses of p           *)
Replied(p) ==
    LET k == req[p].token IN
    /\ req[p].op = "validate" /\ Answered(p, {"INVALID"}) => Refusable(p, reply[p].at)
    /\ Answered(p, {"LINK", "REVOKED"}) => \A j \in OldLinks(p) : links[j].revoked
    /\ req[p].op = "shared" /\ Answered(p, {"QR", "NO_QR", "TICKET_NOT_ACTIVE"})
          => ~(since[p][k] # None /\ since[p][k].revoked)

LEMMA Replies ==
    /\ (\A p \in Requests : Replied(p)) <=> CodesAreGood /\ OldLinksRevoked /\ DeadLinksStayShut
    /\ (\A p \in Requests : Replied(p)') <=> (CodesAreGood /\ OldLinksRevoked /\ DeadLinksStayShut)'
BY DEF Replied, CodesAreGood, OldLinksRevoked, DeadLinksStayShut, OldLinks

Relies(p) == Serves(p) /\ Remembers(p) /\ Finds(p) /\ Records(p) /\ Replied(p)

(* Others do not disturb what a request relies on.                         *)
LEMMA StillRelies ==
    ASSUME IInv, TypeOK', Lasts, NEW q \in Requests, Still(q)
    PROVE  Relies(q)'
<1>0. /\ TypeOK /\ Serves(q) /\ Remembers(q) /\ Finds(q) /\ Records(q) /\ Replied(q)
      /\ req[q] \in Request /\ reply[q] \in Response \cup {None}
      /\ (pc[q] # "idle" => since[q] \in [Tokens -> Link \cup {None}])
  BY Replies DEF IInv, TypeOK, Remembers
<1> USE <1>0 DEF Still, Lasts
<1>1. Serves(q)'
  BY DEF Serves, Owns
<1>2. Remembers(q)'
  <2>1. OldLinks(q)' = OldLinks(q) /\ OldLinks(q) \subseteq Tokens
    BY DEF OldLinks
  <2>2. mark[q] \subseteq Tokens /\ tx[q].revoked \subseteq Tokens
    BY DEF TypeOK, Transaction
  <2>3. pc[q] # "idle" => \A k \in OldLinks(q) : links[k] # None
    BY DEF OldLinks, Remembers
  <2>4. pc[q] \in {"readShared", "issue", "writeNonce"} /\ req[q].op = "shared" => req[q].token \in Tokens
    BY DEF Serves, Request
  <2> QED
    BY <2>1, <2>2, <2>3, <2>4 DEF Remembers
<1>3. Finds(q)'
  <2>1. pc[q] = "issue" => Subject(q) \in Tickets /\ Subject(q)' = Subject(q)
    <3>1. CASE pc[q] = "issue"
      <4>1. Subject(q) \in Tickets
        BY <3>1, SubjectType
      <4>2. req[q].op = "shared" => links[req[q].token] # None /\ req[q].token \in Tokens
        BY <3>1 DEF Remembers, Serves, Request
      <4> QED
        BY <4>1, <4>2 DEF Subject
    <3> QED
      BY <3>1
  <2> QED
    BY <2>1 DEF Finds
<1>4. Records(q)'
  BY DEF Records, Sound, Refusable, Answered
<1>5. Replied(q)'
  <2>1. OldLinks(q)' = OldLinks(q) /\ OldLinks(q) \subseteq Tokens
    BY DEF OldLinks
  <2>2. reply[q] # None => \A k \in OldLinks(q) : links[k] # None
    BY DEF OldLinks, Remembers, Serves
  <2> QED
    BY <2>1, <2>2 DEF Replied, Answered, Refusable
<1> QED
  BY <1>1, <1>2, <1>3, <1>4, <1>5 DEF Relies

(* A request is in its place after a step of its own.                      *)
LEMMA ServesStep ==
    ASSUME IInv, NEW p \in Requests, Step(p) \/ Fail(p)
    PROVE  Serves(p)'
<1>0. TypeOK /\ Serves(p)
  BY DEF IInv
<1> USE <1>0 DEF TypeOK, Serves, Owns, Proceed, Goto, Answer, Respond, Forget, Deliver, Rollback, Begins,
                 Decide, tables, handlers
<1>1. QrRead(p) => Serves(p)'
  BY DEF QrRead
<1>2. SharedBegins(p) => Serves(p)'
  BY DEF SharedBegins
<1>3. ReadLink(p) => Serves(p)'
  BY DEF ReadLink
<1>4. ReadShared(p) => Serves(p)'
  BY DEF ReadShared
<1>5. Issue(p) => Serves(p)'
  BY DEF Issue
<1>6. WriteNonce(p) => Serves(p)'
  BY DEF WriteNonce
<1>7. ShareBegins(p) => Serves(p)'
  BY DEF ShareBegins
<1>8. ShareRead(p) => Serves(p)'
  BY DEF ShareRead
<1>9. RevokeBegins(p) => Serves(p)'
  BY DEF RevokeBegins
<1>10. Mark(p) => Serves(p)'
  BY DEF Mark
<1>11. Revoke(p) => Serves(p)'
  BY DEF Revoke
<1>12. InsertLink(p) => Serves(p)'
  BY DEF InsertLink
<1>13. ShareCommit(p) => Serves(p)'
  BY DEF ShareCommit
<1>14. ValidateBegins(p) => Serves(p)'
  BY DEF ValidateBegins
<1>15. Verify(p) => Serves(p)'
  BY DEF Verify
<1>16. GateRead(p) => Serves(p)'
  BY DEF GateRead
<1>17. Consume(p) => Serves(p)'
  BY DEF Consume
<1>18. GateReread(p) => Serves(p)'
  BY DEF GateReread
<1>19. Record(p) => Serves(p)'
  BY DEF Record
<1>20. Fail(p) => Serves(p)'
  BY DEF Fail
<1> QED
  BY <1>1, <1>2, <1>3, <1>4, <1>5, <1>6, <1>7, <1>8, <1>9, <1>10, <1>11, <1>12, <1>13, <1>14,
     <1>15, <1>16, <1>17, <1>18, <1>19, <1>20 DEF Step, Issuing, Sharing, Validating

(* A request keeps in mind the links there were when it began.             *)
LEMMA SinceStep ==
    ASSUME TypeOK, NEW p \in Requests, Step(p) \/ Fail(p)
    PROVE  \/ /\ pc[p] = "idle" /\ since'[p] = links /\ UNCHANGED links
              /\ pc'[p] \in {"issue", "readLink", "shareRead", "mark", "verify", "done"}
              /\ pc'[p] = "issue" => req[p].op = "qr"
           \/ pc[p] # "idle" /\ UNCHANGED since
<1> USE DEF TypeOK, Begins, tables, handlers, Proceed, Goto, Answer, Respond
<1>1. Issuing(p) => \/ QrRead(p) \/ SharedBegins(p)
                    \/ pc[p] # "idle" /\ UNCHANGED since
  BY DEF Issuing, ReadLink, ReadShared, Issue, WriteNonce
<1>2. Sharing(p) => \/ ShareBegins(p) \/ RevokeBegins(p)
                    \/ pc[p] # "idle" /\ UNCHANGED since
  BY DEF Sharing, ShareRead, Mark, Revoke, InsertLink, ShareCommit
<1>3. Validating(p) => ValidateBegins(p) \/ (pc[p] # "idle" /\ UNCHANGED since)
  BY DEF Validating, Verify, GateRead, Consume, GateReread, Record
<1>4. Fail(p) => pc[p] # "idle" /\ UNCHANGED since
  BY DEF Fail
<1>5. QrRead(p) => /\ pc[p] = "idle" /\ since'[p] = links /\ UNCHANGED links
                   /\ pc'[p] \in {"issue", "done"} /\ req[p].op = "qr"
  BY DEF QrRead
<1>6. SharedBegins(p) => /\ pc[p] = "idle" /\ since'[p] = links /\ UNCHANGED links
                         /\ pc'[p] \in {"readLink", "done"}
  BY DEF SharedBegins
<1>7. ShareBegins(p) => /\ pc[p] = "idle" /\ since'[p] = links /\ UNCHANGED links
                        /\ pc'[p] = "shareRead"
  BY DEF ShareBegins
<1>8. RevokeBegins(p) => /\ pc[p] = "idle" /\ since'[p] = links /\ UNCHANGED links
                         /\ pc'[p] \in {"mark", "done"}
  BY DEF RevokeBegins
<1>9. ValidateBegins(p) => /\ pc[p] = "idle" /\ since'[p] = links /\ UNCHANGED links
                           /\ pc'[p] \in {"verify", "done"}
  BY DEF ValidateBegins
<1> QED
  BY <1>1, <1>2, <1>3, <1>4, <1>5, <1>6, <1>7, <1>8, <1>9 DEF Step

(* The steps that come to a place where a request relies on its links      *)
LEMMA ComesTo ==
    ASSUME TypeOK, NEW p \in Requests, Step(p) \/ Fail(p), pc[p] # "idle"
    PROVE  /\ pc'[p] = "revoke" => Mark(p)
           /\ pc'[p] = "insertLink" => Revoke(p) /\ req[p].op = "share"
           /\ pc'[p] = "shareCommit" => InsertLink(p) /\ \E k \in Tokens : tx' = [tx EXCEPT ![p].link = k]
           /\ pc'[p] = "readShared" => ReadLink(p) /\ links[req[p].token] # None
                                                /\ ~links[req[p].token].revoked
           /\ pc'[p] \in {"issue", "writeNonce"} => pc[p] \in {"readShared", "issue"}
<1> USE DEF TypeOK, Begins, tables, handlers, Proceed, Goto, Answer, Respond, Deliver
<1>1. Issuing(p) =>
         /\ pc'[p] \in {"readShared", "issue", "writeNonce", "done"}
         /\ pc'[p] = "readShared" => ReadLink(p) /\ links[req[p].token] # None
                                              /\ ~links[req[p].token].revoked
         /\ pc'[p] \in {"issue", "writeNonce"} => pc[p] \in {"readShared", "issue"}
  BY DEF Issuing, QrRead, SharedBegins, ReadLink, ReadShared, Issue, WriteNonce
<1>2. Sharing(p) =>
         /\ pc'[p] \in {"shareRead", "mark", "revoke", "insertLink", "shareCommit", "done"}
         /\ pc'[p] = "revoke" => Mark(p)
         /\ pc'[p] = "insertLink" => Revoke(p) /\ req[p].op = "share"
         /\ pc'[p] = "shareCommit" => InsertLink(p) /\ \E k \in Tokens : tx' = [tx EXCEPT ![p].link = k]
  BY DEF Sharing, ShareBegins, RevokeBegins, ShareRead, Mark, Revoke, InsertLink, ShareCommit
<1>3. Validating(p) => pc'[p] \in {"record", "gateRead", "consume", "gateReread", "done"}
  BY DEF Validating, ValidateBegins, Verify, GateRead, Consume, GateReread, Record, Decide
<1>4. Fail(p) => pc'[p] = "done"
  BY DEF Fail
<1> QED
  BY <1>1, <1>2, <1>3, <1>4 DEF Step

LEMMA RemembersStep ==
    ASSUME IInv, TypeOK', Lasts, NEW p \in Requests, Step(p) \/ Fail(p)
    PROVE  Remembers(p)'
<1>0. TypeOK /\ Serves(p) /\ Remembers(p) /\ Alone(p)
  BY OthersStay DEF IInv
<1>1. CASE pc[p] = "idle"
  <2>1. /\ since'[p] = links /\ UNCHANGED <<links, req>> /\ links # None
        /\ pc'[p] \in {"issue", "readLink", "shareRead", "mark", "verify", "done"}
        /\ pc'[p] = "issue" => req[p].op = "qr"
    BY <1>0, <1>1, SinceStep, NoneIsNoRow DEF Alone, TypeOK
  <2> QED
    BY <2>1 DEF Remembers
<1>2. CASE pc[p] # "idle"
  <2>1. UNCHANGED <<since, req>> /\ since[p] # None
    BY <1>0, <1>2, SinceStep DEF Alone, Remembers
  <2>2. \A k \in Tokens : since[p][k] # None =>
          /\ links'[k] # None /\ links'[k].ticket = since[p][k].ticket
          /\ since[p][k].revoked => links'[k].revoked
    BY <1>0, <1>2 DEF Remembers, Lasts
  <2>3. pc'[p] = "revoke" =>
          /\ \A k \in mark'[p] : links'[k] # None /\ links'[k].ticket = req[p].ticket
          /\ \A k \in OldLinks(p) : links'[k].revoked \/ k \in mark'[p]
    <3>1. ASSUME Mark(p)
          PROVE  /\ \A k \in mark'[p] : links'[k] # None /\ links'[k].ticket = req[p].ticket
                 /\ \A k \in OldLinks(p) : links'[k].revoked \/ k \in mark'[p]
      BY <1>0, <1>2, <3>1 DEF Mark, TypeOK, tables, ActiveLinks, OldLinks, Remembers
    <3> QED
      BY <1>0, <1>2, <3>1, ComesTo
  <2>4. pc'[p] = "insertLink" => \A k \in OldLinks(p) : links'[k].revoked \/ k \in tx'[p].revoked
    <3>1. ASSUME Revoke(p), req[p].op = "share"
          PROVE  \A k \in OldLinks(p) : links'[k].revoked \/ k \in tx'[p].revoked
      <4>1. pc[p] = "revoke" /\ UNCHANGED links
        BY <3>1 DEF Revoke
      <4>2. tx'[p].revoked = {k \in mark[p] : ~links[k].revoked}
        BY <1>0, <3>1 DEF Revoke, TypeOK, Transaction
      <4> QED
        BY <1>0, <4>1, <4>2 DEF Remembers
    <3> QED
      BY <1>0, <1>2, <3>1, ComesTo
  <2>5. pc'[p] = "shareCommit" => \A k \in OldLinks(p) : links'[k].revoked \/ k \in tx'[p].revoked
    <3>1. ASSUME InsertLink(p), NEW k \in Tokens, tx' = [tx EXCEPT ![p].link = k]
          PROVE  \A j \in OldLinks(p) : links'[j].revoked \/ j \in tx'[p].revoked
      <4>1. pc[p] = "insertLink" /\ UNCHANGED links
        BY <3>1 DEF InsertLink, tables
      <4>2. tx'[p].revoked = tx[p].revoked
        BY <1>0, <3>1 DEF TypeOK, Transaction
      <4> QED
        BY <1>0, <4>1, <4>2 DEF Remembers
    <3> QED
      BY <1>0, <1>2, <3>1, ComesTo
  <2>6. pc'[p] = "readShared" \/ (pc'[p] \in {"issue", "writeNonce"} /\ req[p].op = "shared") =>
          /\ links'[req[p].token] # None
          /\ ~(since[p][req[p].token] # None /\ since[p][req[p].token].revoked)
    <3>0. req[p].op = "shared" /\ pc[p] \in {"readLink", "readShared", "issue"} => req[p].token \in Tokens
      BY <1>0 DEF Serves, TypeOK, Request
    <3>1. ASSUME ReadLink(p), links[req[p].token] # None, ~links[req[p].token].revoked
          PROVE  /\ links'[req[p].token] # None
                 /\ ~(since[p][req[p].token] # None /\ since[p][req[p].token].revoked)
      BY <1>0, <1>2, <3>0, <3>1 DEF ReadLink, Serves, Remembers, Lasts
    <3>2. ASSUME pc[p] \in {"readShared", "issue"}, req[p].op = "shared"
          PROVE  /\ links'[req[p].token] # None
                 /\ ~(since[p][req[p].token] # None /\ since[p][req[p].token].revoked)
      BY <1>0, <3>0, <3>2 DEF Remembers, Lasts
    <3> QED
      BY <1>0, <1>2, <3>1, <3>2, ComesTo
  <2>7. OldLinks(p)' = OldLinks(p)
    BY <2>1 DEF OldLinks
  <2> QED
    BY <2>1, <2>2, <2>3, <2>4, <2>5, <2>6, <2>7 DEF Remembers
<1> QED
  BY <1>1, <1>2

(* A step with no response, or with one that promises nothing; who opens a *)
(* link hears of its ticket only when the link has been looked up.         *)
Declines(p) ==
    \/ reply'[p] = None
    \/ reply'[p] # None /\ reply'[p].code \in
         {"INTERNAL_ERROR", "TICKET_NOT_FOUND", "SHARED_TICKET_NOT_FOUND", "EVENT_NOT_FOUND"}
    \/ /\ reply'[p] # None /\ reply'[p].code \in {"NO_QR", "TICKET_NOT_ACTIVE"}
       /\ pc[p] # "idle" /\ req[p].op = "shared"
             => pc[p] \in {"readShared", "issue", "writeNonce"}
       /\ pc[p] = "idle" => req[p].op = "qr"

(* The steps that respond with a code, a link, a revocation or a verdict   *)
LEMMA Responds ==
    ASSUME IInv, NEW p \in Requests, Step(p) \/ Fail(p)
    PROVE  \/ Declines(p)
           \/ Issue(p) /\ coded[p] /\ reply'[p] = QrOf(Subject(p))
           \/ /\ WriteNonce(p) /\ reply'[p] = QrOf(Subject(p))
              /\ tickets' = [tickets EXCEPT ![Subject(p)].coded = TRUE]
           \/ Revoke(p) /\ req[p].op = "revoke" /\ reply'[p] = Bare("REVOKED")
           \/ ShareCommit(p) /\ reply'[p] = [Bare("LINK") EXCEPT !.link = tx[p].link]
           \/ Record(p) /\ reply'[p] = [Bare(verdict[p].result) EXCEPT !.ticket = verdict[p].ticket,
                                                                     !.at = now[p]]
<1>0. /\ TypeOK /\ Serves(p) /\ reply \in [Requests -> Response \cup {None}]
      /\ pc[p] # "done" => reply[p] = None
  BY DEF IInv, TypeOK, Serves
<1>1. /\ Bare("INTERNAL_ERROR") # None /\ Bare("INTERNAL_ERROR").code = "INTERNAL_ERROR"
      /\ Bare("TICKET_NOT_FOUND") # None /\ Bare("TICKET_NOT_FOUND").code = "TICKET_NOT_FOUND"
      /\ Bare("EVENT_NOT_FOUND") # None /\ Bare("EVENT_NOT_FOUND").code = "EVENT_NOT_FOUND"
      /\ Bare("NO_QR") # None /\ Bare("NO_QR").code = "NO_QR"
      /\ Bare("TICKET_NOT_ACTIVE") # None /\ Bare("TICKET_NOT_ACTIVE").code = "TICKET_NOT_ACTIVE"
      /\ Bare("SHARED_TICKET_NOT_FOUND") # None
      /\ Bare("SHARED_TICKET_NOT_FOUND").code = "SHARED_TICKET_NOT_FOUND"
  BY BareResponse DEF Codes
<1> HIDE DEF Bare
<1> USE <1>0, <1>1 DEF Proceed, Goto, Answer, Respond, Deliver, Decide, Begins, handlers, Declines
<1>2. QrRead(p) => Declines(p)
  BY DEF QrRead
<1>3. SharedBegins(p) \/ ReadLink(p) => Declines(p)
  BY DEF SharedBegins, ReadLink
<1>4. ReadShared(p) => Declines(p)
  BY DEF ReadShared
<1>5. Issue(p) => Declines(p) \/ (Issue(p) /\ coded[p] /\ reply'[p] = QrOf(Subject(p)))
  BY DEF Issue
<1>6. WriteNonce(p) => \/ Declines(p)
                       \/ /\ WriteNonce(p) /\ reply'[p] = QrOf(Subject(p))
                          /\ tickets' = [tickets EXCEPT ![Subject(p)].coded = TRUE]
  BY DEF WriteNonce
<1>7. ShareBegins(p) \/ RevokeBegins(p) \/ Mark(p) \/ InsertLink(p) => Declines(p)
  BY DEF ShareBegins, RevokeBegins, Mark, InsertLink
<1>8. ShareRead(p) => Declines(p)
  BY DEF ShareRead, Serves
<1>9. Revoke(p) => Declines(p) \/ (Revoke(p) /\ req[p].op = "revoke" /\ reply'[p] = Bare("REVOKED"))
  BY DEF Revoke
<1>10. ShareCommit(p) => Declines(p) \/ (ShareCommit(p) /\ reply'[p] = [Bare("LINK") EXCEPT !.link = tx[p].link])
  BY DEF ShareCommit
<1>11. ValidateBegins(p) \/ Verify(p) \/ GateRead(p) \/ Consume(p) \/ GateReread(p) => Declines(p)
  BY DEF ValidateBegins, Verify, GateRead, Consume, GateReread
<1>12. Record(p) => \/ Declines(p)
                    \/ Record(p) /\ reply'[p] = [Bare(verdict[p].result) EXCEPT
                                                    !.ticket = verdict[p].ticket, !.at = now[p]]
  BY DEF Record
<1>13. Fail(p) => Declines(p)
  BY DEF Fail
<1> QED
  BY <1>2, <1>3, <1>4, <1>5, <1>6, <1>7, <1>8, <1>9, <1>10, <1>11, <1>12, <1>13
     DEF Step, Issuing, Sharing, Validating

(* The nonce of a code that is about is stored.                            *)
LEMMA HandedOutStored ==
    ASSUME IInv, NEW t \in HandedOut PROVE t \in Tickets /\ tickets[t].coded
BY SharedOnce DEF IInv, HandedOut, Finds

LEMMA FindsStep ==
    ASSUME IInv, TypeOK', Lasts, NEW p \in Requests, Step(p) \/ Fail(p)
    PROVE  Finds(p)'
<1>0. TypeOK /\ Serves(p) /\ Finds(p) /\ Alone(p)
  BY OthersStay DEF IInv
<1> USE <1>0
<1>1. pc'[p] = "issue" /\ coded'[p] => tickets'[Subject(p)'].coded
  <2> USE DEF TypeOK, Goto, Proceed, Answer, Respond, Deliver, handlers, Alone
  <2>1. pc'[p] = "issue" => QrRead(p) \/ ReadShared(p)
    <3>1. Issuing(p) => pc'[p] # "issue" \/ QrRead(p) \/ ReadShared(p)
      BY DEF Issuing, SharedBegins, ReadLink, Issue, WriteNonce
    <3>2. Sharing(p) => pc'[p] # "issue"
      BY DEF Sharing, ShareBegins, RevokeBegins, ShareRead, Mark, Revoke, InsertLink, ShareCommit
    <3>3. Validating(p) \/ Fail(p) => pc'[p] # "issue"
      BY DEF Validating, ValidateBegins, Verify, GateRead, Consume, GateReread, Record, Decide, Fail
    <3> QED
      BY <3>1, <3>2, <3>3 DEF Step
  <2>2. ASSUME QrRead(p), pc'[p] = "issue" PROVE coded'[p] => tickets'[Subject(p)'].coded
    BY <2>2 DEF QrRead, Begins, Subject, tables
  <2>3. ASSUME ReadShared(p), pc'[p] = "issue" PROVE coded'[p] => tickets'[Subject(p)'].coded
    BY <2>3 DEF ReadShared, Subject, tables
  <2> QED
    BY <2>1, <2>2, <2>3
<1>2. pc'[p] \in {"gateRead", "consume", "gateReread"} =>
         /\ req'[p].ticket \in Tickets /\ tickets'[req'[p].ticket].coded
         /\ pc'[p] = "gateReread" => tickets'[req'[p].ticket].status = "USED"
  <2> USE DEF TypeOK, Goto, Proceed, Answer, Respond, Deliver, handlers, tables, Alone
  <2>1. pc'[p] \in {"gateRead", "consume", "gateReread"} =>
           \/ Verify(p) /\ Verified(req[p].ticket, clock)
           \/ GateRead(p) \/ (Consume(p) /\ pc'[p] = "gateReread")
    <3>1. Issuing(p) => pc'[p] \notin {"gateRead", "consume", "gateReread"}
      BY DEF Issuing, QrRead, SharedBegins, ReadLink, ReadShared, Issue, WriteNonce
    <3>2. Sharing(p) => pc'[p] \notin {"gateRead", "consume", "gateReread"}
      BY DEF Sharing, ShareBegins, RevokeBegins, ShareRead, Mark, Revoke, InsertLink, ShareCommit
    <3>3. Fail(p) => pc'[p] \notin {"gateRead", "consume", "gateReread"}
      BY DEF Fail
    <3>4. Validating(p) /\ pc'[p] \in {"gateRead", "consume", "gateReread"} =>
             \/ Verify(p) /\ Verified(req[p].ticket, clock)
             \/ GateRead(p) \/ (Consume(p) /\ pc'[p] = "gateReread")
      BY DEF Validating, ValidateBegins, Verify, GateRead, Consume, GateReread, Record, Decide
    <3> QED
      BY <3>1, <3>2, <3>3, <3>4 DEF Step
  <2>2. ASSUME Verify(p), Verified(req[p].ticket, clock), pc'[p] # "record"
        PROVE  /\ req'[p].ticket \in Tickets /\ tickets'[req'[p].ticket].coded
               /\ pc'[p] # "gateReread"
    <3>1. req[p].ticket \in Tickets /\ tickets[req[p].ticket].coded
      BY <2>2, HandedOutStored DEF Verified
    <3> QED
      BY <2>2, <3>1 DEF Verify, Decide
  <2>3. ASSUME GateRead(p), pc'[p] # "record"
        PROVE  /\ req'[p].ticket \in Tickets /\ tickets'[req'[p].ticket].coded
               /\ pc'[p] # "gateReread"
    BY <2>3 DEF GateRead, Finds, Decide
  <2>4. ASSUME Consume(p), pc'[p] = "gateReread"
        PROVE  /\ req'[p].ticket \in Tickets /\ tickets'[req'[p].ticket].coded
               /\ tickets'[req'[p].ticket].status = "USED"
    BY <2>4 DEF Consume, Finds, Decide, Ticket
  <2> QED
    BY <2>1, <2>2, <2>3, <2>4
<1>3. reply'[p] # None /\ reply'[p].code = "QR" =>
         reply'[p].ticket \in Tickets /\ tickets'[reply'[p].ticket].coded
  <2>1. CASE Declines(p)
    BY <2>1 DEF Declines
  <2>2. CASE Issue(p) /\ coded[p] /\ reply'[p] = QrOf(Subject(p))
    <3>1. Subject(p) \in Tickets /\ tickets[Subject(p)].coded /\ UNCHANGED tickets
      BY <2>2, SubjectType DEF Issue, Finds, tables
    <3> QED
      BY <2>2, <3>1, QrResponse
  <2>3. CASE /\ WriteNonce(p) /\ reply'[p] = QrOf(Subject(p))
             /\ tickets' = [tickets EXCEPT ![Subject(p)].coded = TRUE]
    <3>1. Subject(p) \in Tickets
      BY <2>3, SubjectType DEF WriteNonce
    <3> QED
      BY <2>3, <3>1, QrResponse DEF TypeOK, Ticket
  <2>4. CASE reply'[p] \in {Bare("REVOKED"), [Bare("LINK") EXCEPT !.link = tx[p].link]}
    BY <2>4 DEF Bare
  <2>5. CASE Record(p) /\ reply'[p] = [Bare(verdict[p].result) EXCEPT !.ticket = verdict[p].ticket,
                                                                     !.at = now[p]]
    <3>1. verdict[p] \in Validation
      BY <2>5 DEF Record, IInv, Records, TypeOK
    <3> QED
      BY <2>5, <3>1 DEF Bare, Validation
  <2> QED
    BY <2>1, <2>2, <2>3, <2>4, <2>5, Responds
<1> QED
  BY <1>1, <1>2, <1>3 DEF Finds

LEMMA RepliedStep ==
    ASSUME IInv, TypeOK', Lasts, NEW p \in Requests, Step(p) \/ Fail(p)
    PROVE  Replied(p)'
<1>0. TypeOK /\ Serves(p) /\ Remembers(p) /\ Records(p) /\ Alone(p)
  BY OthersStay DEF IInv
<1>a. UNCHANGED req /\ (pc[p] # "idle" => UNCHANGED since /\ OldLinks(p)' = OldLinks(p))
  BY <1>0, SinceStep DEF Alone, OldLinks
<1>b. /\ Bare("REVOKED").code = "REVOKED"
      /\ [Bare("LINK") EXCEPT !.link = tx[p].link].code = "LINK"
  BY DEF Bare
<1> USE <1>0, <1>a DEF Replied, Answered
<1>1. CASE Declines(p)
  BY <1>1 DEF Declines, Remembers
<1>2. CASE (Issue(p) \/ WriteNonce(p)) /\ reply'[p] = QrOf(Subject(p))
  <2>1. reply'[p].code = "QR"
    BY <1>2 DEF QrOf, Bare
  <2> QED
    BY <1>2, <2>1 DEF Issue, WriteNonce, Remembers
<1>3. CASE Revoke(p) /\ req[p].op = "revoke" /\ reply'[p] = Bare("REVOKED")
  <2>1. /\ pc[p] = "revoke"
        /\ links' = [k \in Tokens |-> IF k \in {j \in mark[p] : ~links[j].revoked}
                                      THEN [links[k] EXCEPT !.revoked = TRUE] ELSE links[k]]
    BY <1>3 DEF Revoke
  <2>2. ASSUME NEW j \in OldLinks(p) PROVE links'[j].revoked
    <3>1. j \in Tokens /\ links[j] \in Link /\ (links[j].revoked \/ j \in mark[p])
      BY <2>1, <2>2 DEF Remembers, OldLinks, TypeOK
    <3> QED
      BY <2>1, <3>1 DEF Link
  <2> QED
    BY <1>3, <1>b, <2>1, <2>2
<1>4. CASE ShareCommit(p) /\ reply'[p] = [Bare("LINK") EXCEPT !.link = tx[p].link]
  <2>1. pc[p] = "shareCommit" /\ Holds(p) /\ req[p].op = "share"
    BY <1>4 DEF ShareCommit, IInv, Serves
  <2>2. ASSUME NEW j \in OldLinks(p) PROVE links'[j].revoked
    <3>1. j \in Tokens /\ links[j] \in Link /\ (links[j].revoked \/ j \in tx[p].revoked)
      BY <2>1, <2>2 DEF Remembers, OldLinks, TypeOK
    <3>2. j # tx[p].link
      BY <2>1, <3>1, NoneIsNoRow DEF Holds
    <3> QED
      BY <1>4, <3>1, <3>2 DEF ShareCommit, Link
  <2> QED
    BY <1>4, <1>b, <2>1, <2>2
<1>5. CASE Record(p) /\ reply'[p] = [Bare(verdict[p].result) EXCEPT !.ticket = verdict[p].ticket,
                                                                   !.at = now[p]]
  <2>1. pc[p] = "record" /\ req[p].op = "validate" /\ verdict[p] \in Validation
    BY <1>5 DEF Record, Serves, Records, TypeOK
  <2>2. /\ reply'[p].code = verdict[p].result /\ reply'[p].at = now[p]
        /\ verdict[p].result \in {"VALID", "ALREADY_USED", "WRONG_EVENT", "INVALID"}
    BY <1>5, <2>1 DEF Bare, Validation
  <2>3. verdict[p].result = "INVALID" => Refusable(p, now[p])
    BY <2>1 DEF Records
  <2> QED
    BY <2>1, <2>2, <2>3 DEF Refusable
<1> QED
  BY <1>1, <1>2, <1>3, <1>4, <1>5, Responds

LEMMA RecordsStep ==
    ASSUME IInv, TypeOK', Lasts, NEW p \in Requests, Step(p) \/ Fail(p)
    PROVE  Records(p)'
<1>0. /\ TypeOK /\ Serves(p) /\ Holds(p) /\ Finds(p) /\ Records(p) /\ Alone(p)
      /\ \A t \in Tickets : Passed(t) /\ (t \in Coded => tickets[t].coded)
      /\ \A t \in Tickets : tickets[t].status = "USED" => tickets[t].usedAt # None
      /\ \A t \in Tickets : tickets[t].status \in {"VALID", "USED"}
  BY OthersStay DEF IInv, Passed, TypeOK, Ticket
<1>a. UNCHANGED req
  BY <1>0 DEF Alone
<1> USE <1>0, <1>a
<1>1. pc'[p] = "record" =>
         /\ verdict'[p] # None /\ Sound(p, verdict[p])'
         /\ verdict'[p].result = "VALID" => tx'[p].ticket # None /\ verdict'[p].usedAt = now'[p]
         /\ verdict'[p].result = "INVALID" => Refusable(p, now'[p])
  <2> USE DEF TypeOK, tables, Decide, Goto, Outcome, Invalid, Sound
  <2>0. pc'[p] = "record" => Verify(p) \/ GateRead(p) \/ Consume(p) \/ GateReread(p)
    <3> USE DEF Proceed, Answer, Respond, Deliver, handlers
    <3>1. Issuing(p) => pc'[p] # "record"
      BY DEF Issuing, QrRead, SharedBegins, ReadLink, ReadShared, Issue, WriteNonce
    <3>2. Sharing(p) => pc'[p] # "record"
      BY DEF Sharing, ShareBegins, RevokeBegins, ShareRead, Mark, Revoke, InsertLink, ShareCommit
    <3>3. ValidateBegins(p) \/ Record(p) \/ Fail(p) => pc'[p] # "record"
      BY DEF ValidateBegins, Record, Fail
    <3> QED
      BY <3>1, <3>2, <3>3 DEF Step, Validating
  <2>1. ASSUME Verify(p), pc'[p] = "record"
        PROVE  /\ now'[p] = clock /\ UNCHANGED tickets
               /\ \/ verdict'[p] = Invalid /\ ~Verified(req[p].ticket, clock)
                  \/ verdict'[p] = Outcome("WRONG_EVENT", None, None)
    BY <2>1 DEF Verify
  <2>2. ASSUME GateRead(p), pc'[p] = "record"
        PROVE  /\ UNCHANGED tickets
               /\ tickets[req[p].ticket].status = "USED" /\ verdict'[p] = Spent(req[p].ticket)
    BY <2>2 DEF GateRead, Finds
  <2>3. ASSUME Consume(p), pc'[p] = "record"
        PROVE  /\ UNCHANGED <<tickets, now>> /\ req[p].ticket \in Tickets
               /\ tx'[p].ticket = req[p].ticket
               /\ verdict'[p] = Outcome("VALID", req[p].ticket, now[p])
    <3>1. tx[p] \in Transaction
      OBVIOUS
    <3> QED
      BY <2>3, <3>1 DEF Consume, Finds, Transaction
  <2>4. ASSUME GateReread(p), pc'[p] = "record"
        PROVE  /\ UNCHANGED tickets
               /\ tickets[req[p].ticket].status = "USED" /\ verdict'[p] = Spent(req[p].ticket)
    BY <2>4 DEF GateReread, Finds
  <2>5. ~Verified(req[p].ticket, clock) => Refusable(p, clock)
    BY TicketsOfEvents, SharedOnce DEF Verified, Refusable, HandedOut, InSeconds, QrExpiresAt
  <2>6. CASE Verify(p) /\ pc'[p] = "record"
    <3>1. verdict'[p] \in Validation
      BY <2>1, <2>6, Outcomes
    <3>2. verdict'[p].result \in {"INVALID", "WRONG_EVENT"}
      BY <2>1, <2>6
    <3>3. verdict'[p].result = "INVALID" => Refusable(p, now'[p])
      BY <2>1, <2>5, <2>6
    <3> QED
      BY <3>1, <3>2, <3>3, NoneIsNoRow
  <2>7. CASE Consume(p) /\ pc'[p] = "record"
    BY <2>3, <2>7, NoneIsNoRow, Outcomes
  <2>8. CASE (GateRead(p) \/ GateReread(p)) /\ pc'[p] = "record"
    <3>1. req[p].ticket \in Tickets /\ tickets[req[p].ticket].usedAt # None
      BY <2>2, <2>4, <2>8 DEF Finds, GateRead, GateReread
    <3>2. verdict'[p] = Outcome("ALREADY_USED", req[p].ticket, tickets[req[p].ticket].usedAt)
      BY <2>2, <2>4, <2>8, <3>1 DEF Spent
    <3>3. verdict'[p] \in Validation
      BY <3>1, <3>2, <2>2, <2>4, <2>8, Outcomes
    <3> QED
      BY <2>2, <2>4, <2>8, <3>1, <3>2, <3>3, NoneIsNoRow
  <2> QED
    BY <2>0, <2>6, <2>7, <2>8
<1>2. \/ UNCHANGED validations
      \/ Record(p) /\ validations'[p] = verdict[p]
  <2> USE DEF tables
  <2>1. Issuing(p) \/ Sharing(p) \/ Fail(p) => UNCHANGED validations
    BY DEF Issuing, QrRead, SharedBegins, ReadLink, ReadShared, Issue, WriteNonce, Fail, Sharing,
       ShareBegins, RevokeBegins, ShareRead, Mark, Revoke, InsertLink, ShareCommit
  <2>2. Validating(p) => UNCHANGED validations \/ Record(p)
    BY DEF Validating, ValidateBegins, Verify, GateRead, Consume, GateReread
  <2>3. Record(p) => validations'[p] = verdict[p]
    BY DEF Record, TypeOK
  <2> QED
    BY <2>1, <2>2, <2>3 DEF Step
<1>3. validations'[p] # None => Sound(p, validations[p])'
  <2>1. CASE UNCHANGED validations
    BY <2>1 DEF Records, Sound, Lasts
  <2>2. CASE Record(p) /\ validations'[p] = verdict[p]
    <3>1. pc[p] = "record" /\ Sound(p, verdict[p])
      BY <2>2 DEF Record, Records
    <3> QED
      BY <2>2, <3>1 DEF Sound, Lasts
  <2> QED
    BY <1>2, <2>1, <2>2
<1>4. Answered(p, {"VALID", "ALREADY_USED", "WRONG_EVENT", "INVALID"})' =>
        validations'[p] # None /\ validations'[p].result = reply'[p].code
  <2> USE DEF Answered
  <2>1. CASE Record(p) /\ reply'[p] = [Bare(verdict[p].result) EXCEPT !.ticket = verdict[p].ticket,
                                                                     !.at = now[p]]
    BY <2>1 DEF Record, Records, TypeOK, Bare
  <2>2. CASE \/ Declines(p)
             \/ reply'[p] \in {QrOf(Subject(p)), Bare("REVOKED"), [Bare("LINK") EXCEPT !.link = tx[p].link]}
    BY <2>2 DEF Declines, Bare, QrOf
  <2> QED
    BY <2>1, <2>2, Responds
<1> QED
  BY <1>1, <1>3, <1>4 DEF Records, Refusable

-----------------------------------------------------------------------------
(* What transactions hold                                                  *)

(* A request with no transaction, or whose transaction ends, leaves what   *)
(* the others hold to them, as long as it writes around it.                *)
LEMMA HoldsAround ==
    ASSUME IInv, NEW p \in Requests, Alone(p), pc'[p] # "shareCommit",
           tx' = [tx EXCEPT ![p] = NothingWritten],
           \A q \in Requests \ {p} :
              /\ tx[q].ticket # None =>
                    tickets'[tx[q].ticket].status = tickets[tx[q].ticket].status
              /\ \A k \in tx[q].revoked : links'[k] = links[k]
              /\ tx[q].link # None =>
                    /\ links'[tx[q].link] = links[tx[q].link]
                    /\ ActiveLinks(req[q].ticket)' \subseteq ActiveLinks(req[q].ticket)
    PROVE  \A q \in Requests : Holds(q)'
<1>0. /\ tx \in [Requests -> Transaction] /\ \A q \in Requests : Holds(q)
      /\ \A q \in Requests \ {p} : tx'[q] = tx[q]
      /\ tx'[p] = NothingWritten
  BY DEF IInv, TypeOK
<1>1. Holds(p)'
  BY <1>0 DEF Holds, NothingWritten
<1>2. ASSUME NEW q \in Requests \ {p} PROVE Holds(q)'
  <2>0. Holds(q) /\ Still(q) /\ tx[q] \in Transaction
    BY <1>0, <1>2 DEF Alone
  <2>1. tx[q].ticket # None => TicketFree(q, tx[q].ticket)'
    BY <1>0, <2>0 DEF Holds, TicketFree, NothingWritten
  <2>2. \A k \in tx[q].revoked : LinkFree(q, k)'
    BY <1>0, <2>0 DEF Holds, LinkFree, NothingWritten
  <2>3. \A k \in tx[q].revoked : k \in ActiveLinks(req[q].ticket)'
    BY <2>0 DEF Holds, ActiveLinks, Still
  <2>4. tx[q].link # None =>
          /\ links'[tx[q].link] = None /\ Rivals(q)' = {}
          /\ \A s \in Requests \ {q} : tx'[s].link # None =>
                tx'[s].link # tx[q].link /\ req'[s].ticket # req[q].ticket
    <3>1. \A s \in Requests \ {q} : tx'[s].link # None => tx'[s] = tx[s] /\ req'[s] = req[s]
      BY <1>0 DEF NothingWritten, Alone
    <3> QED
      BY <2>0, <3>1 DEF Holds, Rivals, Still
  <2> QED
    BY <2>0, <2>1, <2>2, <2>3, <2>4 DEF Holds, Still
<1> QED
  BY <1>1, <1>2

(* Outside these places a request has written nothing.                     *)
LEMMA NothingHeld ==
    ASSUME IInv, NEW p \in Requests, pc[p] \notin {"record", "insertLink", "shareCommit"}
    PROVE  tx[p] = NothingWritten
BY DEF IInv, TypeOK, Holds, Transaction, NothingWritten

(* The steps that neither write nor lock                                   *)
LEMMA QuietHolds ==
    ASSUME IInv, NEW p \in Requests, Alone(p), UNCHANGED <<tx, tickets, links>>,
           pc[p] \notin {"record", "insertLink", "shareCommit"}, pc'[p] # "shareCommit"
    PROVE  \A q \in Requests : Holds(q)'
<1>1. tx' = [tx EXCEPT ![p] = NothingWritten]
  BY NothingHeld DEF IInv, TypeOK
<1>2. \A q \in Requests : ActiveLinks(req[q].ticket)' = ActiveLinks(req[q].ticket)
  BY DEF Alone, ActiveLinks
<1> QED
  BY <1>1, <1>2, HoldsAround

LEMMA RevokeHolds ==
    ASSUME IInv, NEW p \in Requests, Revoke(p), Alone(p)
    PROVE  \A q \in Requests : Holds(q)'
<1> DEFINE found == {k \in mark[p] : ~links[k].revoked}
<1>0. /\ tx \in [Requests -> Transaction] /\ mark[p] \subseteq Tokens
      /\ links \in [Tokens -> Link \cup {None}]
      /\ pc[p] = "revoke" /\ Remembers(p) /\ tx[p] = NothingWritten
      /\ \A q \in Requests : Holds(q)
      /\ \A k \in found : LinkFree(p, k)
  BY NothingHeld DEF IInv, TypeOK, Revoke
<1>1. \A k \in found : k \in ActiveLinks(req[p].ticket)
  BY <1>0 DEF Remembers, ActiveLinks
<1>2. CASE req[p].op = "share"
  <2>1. /\ tx' = [tx EXCEPT ![p].revoked = found] /\ UNCHANGED <<links, tickets>>
        /\ pc' = [pc EXCEPT ![p] = "insertLink"]
    BY <1>2 DEF Revoke, Goto
  <2>2. /\ tx'[p].revoked = found /\ tx'[p].ticket = None /\ tx'[p].link = None
        /\ \A q \in Requests \ {p} : tx'[q] = tx[q]
        /\ pc'[p] = "insertLink"
    BY <1>0, <2>1 DEF NothingWritten, IInv, TypeOK
  <2>3. Holds(p)'
    BY <1>0, <1>1, <2>1, <2>2 DEF Holds, LinkFree, ActiveLinks, Alone
  <2>4. ASSUME NEW q \in Requests \ {p} PROVE Holds(q)'
    <3>0. Holds(q) /\ Still(q) /\ tx[q] \in Transaction
      BY <1>0, <2>4 DEF Alone
    <3>1. tx[q].ticket # None => TicketFree(q, tx[q].ticket)'
      BY <2>2, <3>0 DEF Holds, TicketFree
    <3>2. \A k \in tx[q].revoked : LinkFree(q, k)' /\ k \in ActiveLinks(req[q].ticket)'
      BY <1>0, <2>1, <2>2, <3>0 DEF Holds, LinkFree, ActiveLinks, Still
    <3>3. tx[q].link # None =>
            /\ links'[tx[q].link] = None /\ Rivals(q)' = {}
            /\ \A s \in Requests \ {q} : tx'[s].link # None =>
                  tx'[s].link # tx[q].link /\ req'[s].ticket # req[q].ticket
      BY <2>1, <2>2, <3>0 DEF Holds, Rivals, ActiveLinks, Still, Alone
    <3> QED
      BY <2>1, <3>0, <3>1, <3>2, <3>3 DEF Holds, Still
  <2> QED
    BY <2>3, <2>4
<1>3. CASE req[p].op = "revoke"
  <2>1. /\ links' = [k \in Tokens |-> IF k \in found THEN [links[k] EXCEPT !.revoked = TRUE]
                                                      ELSE links[k]]
        /\ UNCHANGED <<tx, tickets>>
    BY <1>3 DEF Revoke
  <2>2. pc'[p] = "done"
    BY <1>3 DEF Revoke, Deliver, Answer, Respond, Goto, IInv, TypeOK
  <2>3. \A k \in found : links'[k].revoked
    BY <1>0, <1>1, <2>1 DEF ActiveLinks, Link
  <2>4. \A k \in Tokens : links'[k] = links[k] \/ links'[k].revoked
    BY <2>1, <2>3
  <2>5. ASSUME NEW q \in Requests \ {p}
        PROVE  /\ \A k \in tx[q].revoked : links'[k] = links[k]
               /\ tx[q].link # None => links'[tx[q].link] = links[tx[q].link]
               /\ ActiveLinks(req[q].ticket)' \subseteq ActiveLinks(req[q].ticket)
    <3>1. tx[q] \in Transaction /\ Holds(q)
      BY <1>0
    <3>2. \A k \in found : links[k] # None /\ k \notin tx[q].revoked
      BY <1>0, <1>1 DEF LinkFree, ActiveLinks
    <3> QED
      BY <2>1, <2>4, <3>1, <3>2 DEF ActiveLinks, Alone, Transaction, Holds
  <2>6. tx' = [tx EXCEPT ![p] = NothingWritten]
    BY <1>0, <2>1
  <2> QED
    BY <2>1, <2>2, <2>5, <2>6, HoldsAround
<1> QED
  BY <1>2, <1>3 DEF Revoke

(* The new link is alone: one who waits for nobody has no rival.           *)
LEMMA InsertLinkHolds ==
    ASSUME IInv, NEW p \in Requests, InsertLink(p), Alone(p)
    PROVE  \A q \in Requests : Holds(q)'
<1>0. /\ tx \in [Requests -> Transaction] /\ pc \in [Requests -> Labels]
      /\ pc[p] = "insertLink" /\ UNCHANGED <<tickets, links>>
      /\ \A q \in Requests : Holds(q)
      /\ \A q \in Requests : UNCHANGED req[q] /\ ActiveLinks(req[q].ticket)' = ActiveLinks(req[q].ticket)
  BY DEF IInv, TypeOK, InsertLink, tables, Alone, ActiveLinks
<1>1. CASE Duplicate(p)
  <2>1. tx' = [tx EXCEPT ![p] = NothingWritten]
    BY <1>1 DEF InsertLink, Rollback
  <2>2. pc'[p] # "shareCommit"
    BY <1>0, <1>1 DEF InsertLink, Goto, Answer, Respond
  <2> QED
    BY <1>0, <2>1, <2>2, HoldsAround
<1>2. CASE ~Duplicate(p)
  <2>1. PICK k \in Tokens : /\ links[k] = None /\ \A q \in Requests : tx[q].link # k
                            /\ tx' = [tx EXCEPT ![p].link = k]
    BY <1>2 DEF InsertLink
  <2>2. Undecided(p) = {} /\ pc'[p] = "shareCommit"
    BY <1>0, <1>2 DEF InsertLink, Proceed, Goto
  <2>3. /\ tx'[p].link = k /\ tx'[p].revoked = tx[p].revoked /\ tx'[p].ticket = tx[p].ticket
        /\ k # None /\ \A q \in Requests \ {p} : tx'[q] = tx[q]
    BY <1>0, <2>1, NoneIsNoRow DEF Transaction
  <2>4. Rivals(p) = {}
    <3>1. SUFFICES ASSUME NEW j \in Rivals(p) PROVE FALSE
      OBVIOUS
    <3>2. PICK q \in Requests \ {p} : j \in tx[q].revoked
      BY <1>2 DEF Duplicate
    <3>3. q \in Undecided(p)
      BY <3>1, <3>2 DEF Undecided
    <3> QED
      BY <2>2, <3>3
  <2>5. \A q \in Requests \ {p} : tx[q].link # None => req[q].ticket # req[p].ticket
    BY <2>2 DEF Undecided
  <2>6. Holds(p)'
    <3>1. Rivals(p)' = {}
      BY <1>0, <2>3, <2>4 DEF Rivals
    <3>2. tx[p].ticket = None
      BY <1>0 DEF Holds
    <3> QED
      BY <1>0, <2>1, <2>2, <2>3, <2>5, <3>1, <3>2 DEF Holds, LinkFree
  <2>7. ASSUME NEW q \in Requests \ {p} PROVE Holds(q)'
    <3>0. Holds(q) /\ Still(q) /\ tx'[q] = tx[q] /\ tx[q].link # k
      BY <1>0, <2>1, <2>3 DEF Alone
    <3>1. tx[q].ticket # None => TicketFree(q, tx[q].ticket)'
      BY <2>3, <3>0 DEF Holds, TicketFree
    <3>2. \A j \in tx[q].revoked : LinkFree(q, j)' /\ j \in ActiveLinks(req[q].ticket)'
      BY <1>0, <2>3, <3>0 DEF Holds, LinkFree
    <3>3. tx[q].link # None =>
            /\ links'[tx[q].link] = None /\ Rivals(q)' = {}
            /\ \A s \in Requests \ {q} : tx'[s].link # None =>
                  tx'[s].link # tx[q].link /\ req'[s].ticket # req[q].ticket
      BY <1>0, <2>3, <2>5, <3>0 DEF Holds, Rivals
    <3> QED
      BY <1>0, <3>0, <3>1, <3>2, <3>3 DEF Holds, Still
  <2> QED
    BY <2>6, <2>7
<1> QED
  BY <1>1, <1>2

LEMMA ConsumeHolds ==
    ASSUME IInv, NEW p \in Requests, Consume(p), Alone(p)
    PROVE  \A q \in Requests : Holds(q)'
<1> DEFINE t == req[p].ticket
<1>0. /\ tx \in [Requests -> Transaction] /\ pc \in [Requests -> Labels]
      /\ verdict \in [Requests -> Validation \cup {None}] /\ now \in [Requests -> Int]
      /\ pc[p] = "consume" /\ UNCHANGED <<tickets, links>> /\ t \in Tickets /\ t # None
      /\ tx[p] = NothingWritten
      /\ \A q \in Requests : Holds(q)
      /\ \A q \in Requests : UNCHANGED req[q] /\ ActiveLinks(req[q].ticket)' = ActiveLinks(req[q].ticket)
  BY NothingHeld, NoneIsNoRow DEF IInv, TypeOK, Consume, tables, Alone, ActiveLinks, Finds
<1>1. CASE UNCHANGED tx
  <2>1. pc'[p] # "shareCommit"
    BY <1>0 DEF Consume, Goto, Decide
  <2> QED
    BY <1>0, <1>1, <2>1, QuietHolds
<1>2. CASE tx' # tx
  <2>1. /\ tickets[t].status = "VALID" /\ TicketFree(p, t)
        /\ tx' = [tx EXCEPT ![p].ticket = t]
        /\ Decide(p, Outcome("VALID", t, now[p]))
    BY <1>2 DEF Consume
  <2>2. /\ pc'[p] = "record" /\ verdict'[p] = Outcome("VALID", t, now[p])
        /\ verdict'[p] # None /\ verdict'[p].result = "VALID"
    <3>1. Outcome("VALID", t, now[p]) \in Validation
      BY <1>0, Outcomes DEF IInv
    <3> QED
      BY <1>0, <2>1, <3>1, NoneIsNoRow DEF Decide, Goto, Outcome
  <2>3. /\ tx'[p].ticket = t /\ tx'[p].revoked = {} /\ tx'[p].link = None
        /\ \A q \in Requests \ {p} : tx'[q] = tx[q]
    BY <1>0, <2>1 DEF NothingWritten
  <2>4. Holds(p)'
    BY <1>0, <2>1, <2>2, <2>3 DEF Holds, TicketFree
  <2>5. ASSUME NEW q \in Requests \ {p} PROVE Holds(q)'
    <3>0. Holds(q) /\ Still(q) /\ tx'[q] = tx[q]
      BY <1>0, <2>3 DEF Alone
    <3>1. tx[q].ticket # None => TicketFree(q, tx[q].ticket)'
      BY <2>1, <2>3, <3>0 DEF Holds, TicketFree
    <3>2. \A j \in tx[q].revoked : LinkFree(q, j)' /\ j \in ActiveLinks(req[q].ticket)'
      BY <1>0, <2>3, <3>0 DEF Holds, LinkFree
    <3>3. tx[q].link # None =>
            /\ links'[tx[q].link] = None /\ Rivals(q)' = {}
            /\ \A s \in Requests \ {q} : tx'[s].link # None =>
                  tx'[s].link # tx[q].link /\ req'[s].ticket # req[q].ticket
      BY <1>0, <2>3, <3>0 DEF Holds, Rivals
    <3> QED
      BY <1>0, <3>0, <3>1, <3>2, <3>3 DEF Holds, Still
  <2> QED
    BY <2>4, <2>5
<1> QED
  BY <1>1, <1>2

(* What a COMMIT of createShareLink leaves active of its ticket, and of    *)
(* the others                                                              *)
LEMMA Replaces ==
    ASSUME IInv, NEW p \in Requests, ShareCommit(p)
    PROVE  /\ tx[p].link \in Tokens /\ links[tx[p].link] = None
           /\ req[p].ticket \in Tickets
           /\ \A t \in Tickets : t = req[p].ticket => ActiveLinks(t)' = {tx[p].link}
           /\ \A t \in Tickets \ {req[p].ticket} : ActiveLinks(t)' = ActiveLinks(t)
           /\ \A k \in Tokens \ (tx[p].revoked \cup {tx[p].link}) : links'[k] = links[k]
           /\ {k \in Tokens : links'[k] # None} = {k \in Tokens : links[k] # None} \cup {tx[p].link}
<1> DEFINE t == req[p].ticket
           new == [ticket |-> t, expiresAt |-> QrExpiresAt(t), revoked |-> FALSE]
<1>0. /\ links \in [Tokens -> Link \cup {None}] /\ tx[p] \in Transaction
      /\ Holds(p) /\ Serves(p) /\ pc[p] = "shareCommit" /\ t \in Tickets
  BY DEF IInv, TypeOK, ShareCommit, Serves, Owns, Request
<1>1. /\ tx[p].link \in Tokens /\ links[tx[p].link] = None /\ Rivals(p) = {}
      /\ tx[p].revoked \subseteq ActiveLinks(t) /\ tx[p].revoked \subseteq Tokens
  BY <1>0 DEF Holds, Transaction
<1>2. links' = [k \in Tokens |-> IF k = tx[p].link THEN new
                                ELSE IF k \in tx[p].revoked THEN [links[k] EXCEPT !.revoked = TRUE]
                                ELSE links[k]]
  BY DEF ShareCommit
<1>3. new \in Link
  BY <1>0, TicketsOfEvents DEF Link, QrExpiresAt
<1>4. \A k \in tx[p].revoked : /\ links[k] \in Link /\ links[k] # None /\ links[k].ticket = t
                               /\ k # tx[p].link
                               /\ links'[k].revoked /\ links'[k] \in Link /\ links'[k].ticket = t
  BY <1>0, <1>1, <1>2 DEF ActiveLinks, Link
<1>5. \A k \in Tokens \ (tx[p].revoked \cup {tx[p].link}) : links'[k] = links[k]
  BY <1>2
<1>6. links'[tx[p].link] = new /\ new # None
  BY <1>1, <1>2, <1>3, NoneIsNoRow
<1>7. ASSUME NEW s \in Tickets, s = t PROVE ActiveLinks(s)' = {tx[p].link}
  <2>1. ASSUME NEW k \in Tokens PROVE k \in ActiveLinks(s)' <=> k = tx[p].link
    <3>1. CASE k = tx[p].link
      BY <1>6, <1>7, <3>1 DEF ActiveLinks
    <3>2. CASE k \in tx[p].revoked
      BY <1>4, <3>2 DEF ActiveLinks
    <3>3. CASE k \notin tx[p].revoked \cup {tx[p].link}
      BY <1>1, <1>5, <1>7, <3>3 DEF ActiveLinks, Rivals
    <3> QED
      BY <3>1, <3>2, <3>3
  <2> QED
    BY <1>1, <2>1 DEF ActiveLinks
<1>8. ASSUME NEW s \in Tickets \ {t} PROVE ActiveLinks(s)' = ActiveLinks(s)
  <2>1. ASSUME NEW k \in Tokens PROVE k \in ActiveLinks(s)' <=> k \in ActiveLinks(s)
    <3>1. CASE k = tx[p].link
      BY <1>1, <1>6, <1>8, <3>1 DEF ActiveLinks
    <3>2. CASE k \in tx[p].revoked
      BY <1>4, <1>8, <3>2 DEF ActiveLinks
    <3>3. CASE k \notin tx[p].revoked \cup {tx[p].link}
      BY <1>5, <3>3 DEF ActiveLinks
    <3> QED
      BY <3>1, <3>2, <3>3
  <2> QED
    BY <2>1 DEF ActiveLinks
<1>9. {k \in Tokens : links'[k] # None} = {k \in Tokens : links[k] # None} \cup {tx[p].link}
  BY <1>1, <1>4, <1>5, <1>6, NoneIsNoRow
<1> QED
  BY <1>0, <1>1, <1>5, <1>7, <1>8, <1>9

LEMMA HoldsStep ==
    ASSUME IInv, NEW p \in Requests, Step(p) \/ Fail(p)
    PROVE  \A q \in Requests : Holds(q)'
<1>0. /\ TypeOK /\ Alone(p) /\ tx \in [Requests -> Transaction] /\ pc \in [Requests -> Labels]
      /\ Serves(p) /\ \A q \in Requests : Holds(q) /\ (tx[q].link # None => req[q].ticket \in Tickets)
  BY OthersStay DEF IInv, TypeOK, Holds, Serves, Owns, Request
<1> DEFINE Around ==
      \A q \in Requests \ {p} :
         /\ tx[q].ticket # None => tickets'[tx[q].ticket].status = tickets[tx[q].ticket].status
         /\ \A k \in tx[q].revoked : links'[k] = links[k]
         /\ tx[q].link # None =>
               /\ links'[tx[q].link] = links[tx[q].link]
               /\ ActiveLinks(req[q].ticket)' \subseteq ActiveLinks(req[q].ticket)
<1>1. UNCHANGED <<tickets, links>> => Around
  BY <1>0 DEF Alone, ActiveLinks
<1> USE DEF tables
<1>2. CASE WriteNonce(p)
  <2>1. UNCHANGED <<links, tx, req>> /\ pc[p] = "writeNonce" /\ pc'[p] = "done"
    BY <1>0, <1>2 DEF WriteNonce, Deliver, Answer, Respond, Goto
  <2>2. \A t \in Tickets : tickets'[t].status = tickets[t].status
    BY <1>0, <1>2 DEF WriteNonce, TypeOK, Ticket
  <2>3. Around
    BY <1>0, <2>1, <2>2 DEF ActiveLinks, Transaction
  <2>4. tx' = [tx EXCEPT ![p] = NothingWritten]
    BY <1>0, <2>1, NothingHeld
  <2> QED
    BY <1>0, <2>1, <2>3, <2>4, HoldsAround
<1>3. CASE ShareCommit(p)
  <2>1. /\ tx' = [tx EXCEPT ![p] = NothingWritten] /\ UNCHANGED tickets
        /\ pc[p] = "shareCommit" /\ pc'[p] = "done"
    BY <1>0, <1>3 DEF ShareCommit, Rollback, Deliver, Answer, Respond, Goto
  <2>2. ASSUME NEW q \in Requests \ {p}
        PROVE  /\ \A k \in tx[q].revoked : links'[k] = links[k]
               /\ tx[q].link # None =>
                     /\ links'[tx[q].link] = links[tx[q].link]
                     /\ ActiveLinks(req[q].ticket)' \subseteq ActiveLinks(req[q].ticket)
    <3>1. Holds(q) /\ Holds(p) /\ tx[q] \in Transaction /\ tx[p] \in Transaction /\ req'[q] = req[q]
      BY <1>0 DEF Alone
    <3>2. \A k \in tx[q].revoked : k \in Tokens \ (tx[p].revoked \cup {tx[p].link})
      BY <1>3, <3>1, Replaces DEF Holds, LinkFree, ActiveLinks, Transaction
    <3>3. ASSUME tx[q].link # None
          PROVE  /\ tx[q].link \in Tokens \ (tx[p].revoked \cup {tx[p].link})
                 /\ req[q].ticket \in Tickets \ {req[p].ticket}
      <4>1. tx[p].link # None
        BY <2>1, <3>1 DEF Holds
      <4>2. tx[q].link # tx[p].link /\ req[q].ticket # req[p].ticket /\ links[tx[q].link] = None
        BY <3>1, <3>3, <4>1 DEF Holds
      <4> QED
        BY <1>0, <3>1, <3>3, <4>2 DEF Holds, ActiveLinks, Transaction
    <3> QED
      BY <1>3, <3>1, <3>2, <3>3, Replaces
  <2> QED
    BY <1>0, <2>1, <2>2, HoldsAround
<1>4. CASE Record(p)
  <2>1. /\ tx' = [tx EXCEPT ![p] = NothingWritten] /\ UNCHANGED links /\ pc'[p] = "done"
    BY <1>0, <1>4 DEF Record, Rollback, Deliver, Answer, Respond, Goto
  <2>2. ASSUME NEW q \in Requests \ {p}, tx[q].ticket # None
        PROVE  tickets'[tx[q].ticket].status = tickets[tx[q].ticket].status
    <3>1. tx[q].ticket # tx[p].ticket /\ tx[q].ticket \in Tickets
      BY <1>0, <2>2 DEF Holds, TicketFree, Transaction
    <3> QED
      BY <1>4, <3>1 DEF Record
  <2>3. Around
    BY <1>0, <2>1, <2>2 DEF Alone, ActiveLinks
  <2> QED
    BY <1>0, <2>1, <2>3, HoldsAround
<1>5. CASE Fail(p)
  <2>1. /\ tx' = [tx EXCEPT ![p] = NothingWritten] /\ UNCHANGED <<tickets, links>> /\ pc'[p] = "done"
    BY <1>0, <1>5 DEF Fail, Rollback, Answer, Respond, Goto
  <2> QED
    BY <1>0, <1>1, <2>1, HoldsAround
<1>6. CASE ~(Writes(p) \/ InsertLink(p) \/ Consume(p) \/ Fail(p))
  <2> USE DEF Goto, Proceed, Answer, Respond, Decide, Begins, Writes
  <2>1. Issuing(p) => /\ UNCHANGED <<tx, tickets, links>> /\ pc'[p] # "shareCommit"
                      /\ pc[p] \notin {"record", "insertLink", "shareCommit"}
    BY <1>0, <1>6 DEF Issuing, QrRead, SharedBegins, ReadLink, ReadShared, Issue
  <2>2. Sharing(p) => /\ UNCHANGED <<tx, tickets, links>> /\ pc'[p] # "shareCommit"
                      /\ pc[p] \notin {"record", "insertLink", "shareCommit"}
    BY <1>0, <1>6 DEF Sharing, ShareBegins, RevokeBegins, ShareRead, Mark
  <2>3. Validating(p) => /\ UNCHANGED <<tx, tickets, links>> /\ pc'[p] # "shareCommit"
                         /\ pc[p] \notin {"record", "insertLink", "shareCommit"}
    BY <1>0, <1>6 DEF Validating, ValidateBegins, Verify, GateRead, GateReread
  <2> QED
    BY <1>0, <1>6, <2>1, <2>2, <2>3, QuietHolds DEF Step
<1> QED
  BY <1>0, <1>2, <1>3, <1>4, <1>5, <1>6, RevokeHolds, InsertLinkHolds, ConsumeHolds DEF Writes

-----------------------------------------------------------------------------
(* What the tables show                                                    *)

(* What a step does to the links that open a ticket: a new one replaces    *)
(* them, they are taken back, or nothing.                                  *)
LEMMA LinksStep ==
    ASSUME IInv, [Next]_vars
    PROVE  \/ UNCHANGED links
           \/ \E p \in Requests : ShareCommit(p)
           \/ \E p \in Requests :
                 /\ req[p].op = "revoke" /\ pc[p] = "revoke" /\ pc'[p] = "done"
                 /\ req[p].ticket \in Tickets
                 /\ {k \in Tokens : links'[k] # None} = {k \in Tokens : links[k] # None}
                 /\ \A t \in Tickets \ {req[p].ticket} : ActiveLinks(t)' = ActiveLinks(t)
                 /\ \A t \in Tickets : ActiveLinks(t)' \subseteq ActiveLinks(t)
<1>1. CASE UNCHANGED <<tickets, links>>
  BY <1>1
<1>2. ASSUME NEW p \in Requests, WriteNonce(p) \/ Record(p) PROVE UNCHANGED links
  BY <1>2 DEF WriteNonce, Record
<1>3. ASSUME NEW p \in Requests, Revoke(p)
      PROVE  \/ UNCHANGED links
             \/ /\ req[p].op = "revoke" /\ pc[p] = "revoke" /\ pc'[p] = "done"
                /\ req[p].ticket \in Tickets
                /\ {k \in Tokens : links'[k] # None} = {k \in Tokens : links[k] # None}
                /\ \A t \in Tickets \ {req[p].ticket} : ActiveLinks(t)' = ActiveLinks(t)
                /\ \A t \in Tickets : ActiveLinks(t)' \subseteq ActiveLinks(t)
  <2> DEFINE found == {k \in mark[p] : ~links[k].revoked}
  <2>0. /\ TypeOK /\ links \in [Tokens -> Link \cup {None}] /\ pc[p] = "revoke"
        /\ Remembers(p) /\ Serves(p) /\ mark[p] \subseteq Tokens /\ req[p].ticket \in Tickets
    BY <1>3 DEF Revoke, IInv, TypeOK, Serves, Owns, Request
  <2>1. CASE /\ req[p].op = "revoke"
             /\ links' = [k \in Tokens |-> IF k \in found THEN [links[k] EXCEPT !.revoked = TRUE]
                                                           ELSE links[k]]
             /\ Deliver(p, Bare("REVOKED"))
    <3>1. pc'[p] = "done"
      BY <2>0, <2>1 DEF Deliver, Answer, Respond, Goto, TypeOK
    <3>2. \A k \in found : /\ links[k] \in Link /\ links[k] # None /\ links[k].ticket = req[p].ticket
                           /\ links'[k] \in Link /\ links'[k] # None /\ links'[k].revoked
      <4>1. ASSUME NEW k \in found PROVE links[k] \in Link /\ links[k].ticket = req[p].ticket /\ k \in Tokens
        BY <2>0 DEF Remembers
      <4>2. ASSUME NEW k \in found PROVE links'[k] \in Link /\ links'[k].revoked
        BY <2>1, <4>1 DEF Link
      <4> QED
        BY <4>1, <4>2, NoneIsNoRow
    <3>3. \A k \in Tokens \ found : links'[k] = links[k]
      BY <2>1
    <3>4. {k \in Tokens : links'[k] # None} = {k \in Tokens : links[k] # None}
      BY <3>2, <3>3
    <3>5. ASSUME NEW t \in Tickets PROVE ActiveLinks(t)' \subseteq ActiveLinks(t)
      BY <3>2, <3>3 DEF ActiveLinks
    <3>6. ASSUME NEW t \in Tickets \ {req[p].ticket} PROVE ActiveLinks(t) \subseteq ActiveLinks(t)'
      BY <3>2, <3>3 DEF ActiveLinks
    <3>7. \A t \in Tickets \ {req[p].ticket} : ActiveLinks(t)' = ActiveLinks(t)
      BY <3>5, <3>6
    <3> QED
      BY <2>0, <2>1, <3>1, <3>4, <3>5, <3>7
  <2> QED
    BY <1>3, <2>1 DEF Revoke
<1> QED
  BY <1>1, <1>2, <1>3, WhoWrites DEF Writes

LEMMA OneLinkStep ==
    ASSUME IInv, [Next]_vars PROVE OneLink'
<1>0. OneLink
  BY DEF IInv
<1>1. CASE UNCHANGED links
  BY <1>0, <1>1 DEF OneLink, ActiveLinks
<1>2. ASSUME NEW p \in Requests, ShareCommit(p) PROVE OneLink'
  <2>1. ASSUME NEW t \in Tickets, NEW j \in ActiveLinks(t)', NEW k \in ActiveLinks(t)' PROVE j = k
    <3>1. CASE t = req[p].ticket
      BY <1>2, <2>1, <3>1, Replaces
    <3>2. CASE t # req[p].ticket
      BY <1>0, <1>2, <2>1, <3>2, Replaces DEF OneLink
    <3> QED
      BY <3>1, <3>2
  <2> QED
    BY <2>1 DEF OneLink
<1>3. CASE \A t \in Tickets : ActiveLinks(t)' \subseteq ActiveLinks(t)
  BY <1>0, <1>3 DEF OneLink
<1> QED
  BY <1>1, <1>2, <1>3, LinksStep

(* What a step does to the tickets: it stores the nonce of one, or lets    *)
(* one through that was valid, for the scan it records.                    *)
LEMMA TicketsStep ==
    ASSUME IInv, [Next]_vars
    PROVE  \/ /\ UNCHANGED validations
              /\ \A t \in Tickets : UNCHANGED <<tickets[t].status, tickets[t].usedAt, tickets[t].by>>
           \/ \E p \in Requests : Record(p)
<1> USE DEF tables
<1>1. ASSUME NEW p \in Requests, Issuing(p)
      PROVE  /\ UNCHANGED validations
             /\ \A t \in Tickets : UNCHANGED <<tickets[t].status, tickets[t].usedAt, tickets[t].by>>
  <2>1. CASE WriteNonce(p)
    <3>1. tickets \in [Tickets -> Ticket]
      BY DEF IInv, TypeOK
    <3> QED
      BY <2>1, <3>1 DEF WriteNonce, Ticket
  <2>2. CASE ~WriteNonce(p)
    BY <1>1, <2>2 DEF Issuing, QrRead, SharedBegins, ReadLink, ReadShared, Issue
  <2> QED
    BY <2>1, <2>2
<1>2. ASSUME NEW p \in Requests, Sharing(p) PROVE UNCHANGED <<tickets, validations>>
  BY <1>2 DEF Sharing, ShareBegins, RevokeBegins, ShareRead, Mark, Revoke, InsertLink, ShareCommit
<1>3. ASSUME NEW p \in Requests, Validating(p), ~Record(p) PROVE UNCHANGED <<tickets, validations>>
  BY <1>3 DEF Validating, ValidateBegins, Verify, GateRead, Consume, GateReread
<1>4. ASSUME NEW p \in Requests, Fail(p) PROVE UNCHANGED <<tickets, validations>>
  BY <1>4 DEF Fail
<1>5. UNCHANGED vars \/ Tick => UNCHANGED <<tickets, validations>>
  BY DEF vars, Tick
<1> QED
  BY <1>1, <1>2, <1>3, <1>4, <1>5 DEF Next, Step

(* What the COMMIT of a scan shows: the ticket it has consumed, if any, is *)
(* used from now on, and by this scan.                                     *)
LEMMA RecordShows ==
    ASSUME IInv, NEW p \in Requests, Record(p)
    PROVE  /\ UNCHANGED req /\ validations[p] = None /\ validations'[p] = verdict[p]
           /\ verdict[p] \in Validation
           /\ \A q \in Requests \ {p} : validations'[q] = validations[q]
           /\ \A t \in Tickets \ {tx[p].ticket} : tickets'[t] = tickets[t]
           /\ verdict[p].result = "VALID" <=> tx[p].ticket # None
           /\ tx[p].ticket # None =>
                 /\ tx[p].ticket \in Tickets /\ verdict[p].ticket = tx[p].ticket
                 /\ tickets[tx[p].ticket].status = "VALID"
                 /\ tickets'[tx[p].ticket].status = "USED"
                 /\ tickets'[tx[p].ticket].usedAt = verdict[p].usedAt /\ verdict[p].usedAt # None
                 /\ tickets'[tx[p].ticket].by = req[p].user /\ req[p].user \in Gates
<1>0. /\ TypeOK /\ pc[p] = "record" /\ Serves(p) /\ Holds(p) /\ Records(p) /\ tx[p] \in Transaction
      /\ tickets \in [Tickets -> Ticket] /\ validations \in [Requests -> Validation \cup {None}]
      /\ now[p] \in Int /\ verdict[p] \in Validation
  BY DEF IInv, TypeOK, Record, Records
<1>1. /\ UNCHANGED req /\ validations[p] = None /\ validations'[p] = verdict[p]
      /\ \A q \in Requests \ {p} : validations'[q] = validations[q]
  BY <1>0 DEF Record, Serves
<1>2. \A t \in Tickets \ {tx[p].ticket} : tickets'[t] = tickets[t]
  BY <1>0 DEF Record
<1>3. verdict[p].result = "VALID" <=> tx[p].ticket # None
  BY <1>0 DEF Records, Holds
<1>4. ASSUME tx[p].ticket # None
      PROVE  /\ tx[p].ticket \in Tickets /\ verdict[p].ticket = tx[p].ticket
             /\ tickets[tx[p].ticket].status = "VALID"
             /\ verdict[p].usedAt = now[p] /\ now[p] # None
             /\ req[p].user \in Gates
  BY <1>0, <1>4, NoneIsNoRow DEF Holds, Records, Sound, Transaction, Serves
<1>5. ASSUME tx[p].ticket # None
      PROVE  /\ tickets'[tx[p].ticket].status = "USED"
             /\ tickets'[tx[p].ticket].usedAt = now[p] /\ tickets'[tx[p].ticket].by = req[p].user
  BY <1>0, <1>4, <1>5 DEF Record, Ticket
<1> QED
  BY <1>0, <1>1, <1>2, <1>3, <1>4, <1>5

LEMMA PassedStep ==
    ASSUME IInv, TypeOK', [Next]_vars, NEW t \in Tickets
    PROVE  Passed(t)'
<1>0. Passed(t) /\ tickets[t].status \in {"VALID", "USED"} /\ UNCHANGED req
  <2>1. UNCHANGED req
    <3>1. UNCHANGED vars \/ Tick => UNCHANGED req
      BY DEF vars, Tick
    <3> QED
      BY <3>1, OthersStay DEF Next, IInv, Alone
  <2> QED
    BY <2>1 DEF IInv, TypeOK, Ticket
<1>1. CASE /\ UNCHANGED validations
           /\ \A s \in Tickets : UNCHANGED <<tickets[s].status, tickets[s].usedAt, tickets[s].by>>
  BY <1>0, <1>1 DEF Passed, Admits
<1>2. ASSUME NEW p \in Requests, Record(p) PROVE Passed(t)'
  <2> USE <1>0, <1>2, RecordShows
  <2>1. CASE t # tx[p].ticket
    <3>1. tickets'[t] = tickets[t]
      BY <2>1
    <3>2. ~Admits(p, t) /\ ~Admits(p, t)'
      <4>1. verdict[p].result = "VALID" => verdict[p].ticket = tx[p].ticket
        OBVIOUS
      <4> QED
        BY <2>1, <4>1 DEF Admits
    <3>3. \A q \in Requests \ {p} : Admits(q, t)' = Admits(q, t)
      BY DEF Admits
    <3> QED
      BY <3>1, <3>2, <3>3 DEF Passed
  <2>2. CASE t = tx[p].ticket
    <3>1. t # None
      BY NoneIsNoRow
    <3>2. /\ tickets[t].status = "VALID" /\ tickets'[t].status = "USED"
          /\ tickets'[t].usedAt = validations'[p].usedAt /\ tickets'[t].usedAt # None
          /\ tickets'[t].by = req'[p].user /\ tickets'[t].by # None
      BY <2>2, <3>1, NoneIsNoRow
    <3>3. Admits(p, t)'
      BY <2>2, <3>1, NoneIsNoRow DEF Admits
    <3>4. \A q \in Requests \ {p} : ~Admits(q, t)'
      BY <3>2 DEF Admits, Passed
    <3> QED
      BY <3>2, <3>3, <3>4 DEF Passed
  <2> QED
    BY <2>1, <2>2
<1> QED
  BY <1>1, <1>2, TicketsStep

-----------------------------------------------------------------------------
(* The invariant                                                           *)

LEMMA Starts == Init => IInv
<1> SUFFICES ASSUME Init PROVE IInv
  OBVIOUS
<1> USE DEF Init, EntryInit
<1>1. links \in [Tokens -> Link \cup {None}]
  <2>1. ASSUME NEW t \in Tickets
        PROVE [ticket |-> t, expiresAt |-> QrExpiresAt(t), revoked |-> FALSE] \in Link
    BY TicketsOfEvents DEF Link, QrExpiresAt
  <2>2. ASSUME NEW k \in Tokens PROVE links[k] \in Link \cup {None}
    <3>1. CASE \E t \in Tickets : Shared[t] = k
      BY <2>1, <3>1
    <3> QED
      BY <3>1
  <2> QED
    BY <2>2
<1>2. TypeOK
  <2>1. tickets \in [Tickets -> Ticket]
    BY DEF Ticket
  <2>2. tx \in [Requests -> Transaction]
    BY NoTransaction
  <2>3. req \in [Requests -> Request]
    BY ScriptOfRequests
  <2> QED
    BY <1>1, <2>1, <2>2, <2>3 DEF TypeOK, Labels
<1>3. ASSUME NEW t \in Tickets, NEW k \in ActiveLinks(t) PROVE Shared[t] = k
  BY <1>3, NoneIsNoRow DEF ActiveLinks
<1>4. OneLink
  BY <1>3 DEF OneLink
<1>5. ASSUME NEW p \in Requests PROVE Relies(p) /\ Holds(p)
  <2>1. pc[p] = "idle" /\ tx[p] = NothingWritten /\ reply[p] = None /\ validations[p] = None
    OBVIOUS
  <2>2. Serves(p)
    BY <2>1, GatesValidate DEF Serves
  <2>3. Holds(p)
    BY <2>1 DEF Holds, NothingWritten
  <2> QED
    BY <2>1, <2>2, <2>3 DEF Relies, Remembers, Finds, Records, Replied, Answered
<1>6. \A t \in Tickets : Passed(t) /\ (t \in Coded => tickets[t].coded)
  BY DEF Passed, Admits
<1> QED
  BY <1>2, <1>4, <1>5, <1>6, Replies DEF IInv, Relies

(* Every step keeps the invariant.                                         *)
LEMMA IInvStep == IInv /\ [Next]_vars => IInv'
<1> SUFFICES ASSUME IInv, [Next]_vars PROVE IInv'
  OBVIOUS
<1>1. TypeOK' /\ Lasts /\ OneLink' /\ \A t \in Tickets : Passed(t)'
  BY TypesStep, TablesLast, OneLinkStep, PassedStep
<1>2. \A t \in Tickets : t \in Coded => tickets'[t].coded
  BY <1>1 DEF IInv, Lasts
<1>3. \A q \in Requests : Relies(q)' /\ Holds(q)'
  <2>1. CASE UNCHANGED vars \/ Tick
    <3>1. UNCHANGED <<tables, tx, pc, req, handlers, reply, since>>
      BY <2>1 DEF vars, Tick
    <3>2. ASSUME NEW q \in Requests PROVE Relies(q)'
      BY <1>1, <3>1, StillRelies DEF Still, tables, handlers
    <3>3. ASSUME NEW q \in Requests PROVE Holds(q)'
      BY <3>1 DEF IInv, Holds, ActiveLinks, TicketFree, LinkFree, Rivals, tables, handlers
    <3> QED
      BY <3>2, <3>3
  <2>2. ASSUME NEW p \in Requests, Step(p) \/ Fail(p) PROVE \A q \in Requests : Relies(q)' /\ Holds(q)'
    <3>1. Relies(p)'
      BY <1>1, <2>2, ServesStep, RemembersStep, FindsStep, RecordsStep, RepliedStep DEF Relies
    <3>2. ASSUME NEW q \in Requests \ {p} PROVE Relies(q)'
      BY <1>1, <2>2, OthersStay, StillRelies DEF Alone, IInv
    <3> QED
      BY <2>2, <3>1, <3>2, HoldsStep
  <2> QED
    BY <2>1, <2>2 DEF Next
<1> QED
  BY <1>1, <1>2, <1>3, Replies DEF IInv, Relies

LEMMA Inductive == Spec => []IInv
BY Starts, IInvStep, PTL DEF Spec

(* Every variable stays within its type.                                   *)
THEOREM WellTyped == Spec => []TypeOK
<1>1. IInv => TypeOK
  BY DEF IInv
<1> QED
  BY <1>1, Inductive, PTL

(* However many gates scan a ticket at once, one validation lets it        *)
(* through, and the ticket shows that one: the conditional update of       *)
(* gate.service.ts and the row it then records.                            *)
THEOREM AdmittedOnce == Spec => []OneAdmission
<1>1. IInv => OneAdmission
  <2> SUFFICES ASSUME IInv, NEW t \in Tickets
               PROVE  LET approved == {p \in Requests : Admits(p, t)}
                      IN  /\ Cardinality(approved) = IF tickets[t].status = "USED" THEN 1 ELSE 0
                          /\ \A p \in approved : /\ tickets[t].usedAt = validations[p].usedAt
                                                 /\ tickets[t].by = req[p].user
    BY DEF OneAdmission, Admits
  <2>1. Passed(t) /\ tickets[t].status \in {"VALID", "USED"}
    BY DEF IInv, TypeOK, Ticket
  <2>2. CASE tickets[t].status = "VALID"
    <3>1. {p \in Requests : Admits(p, t)} = {}
      BY <2>1, <2>2 DEF Passed
    <3> QED
      BY <2>2, <3>1, FS_EmptySet
  <2>3. CASE tickets[t].status = "USED"
    <3>1. PICK p \in Requests :
            /\ Admits(p, t)
            /\ tickets[t].usedAt = validations[p].usedAt /\ tickets[t].by = req[p].user
            /\ \A q \in Requests : Admits(q, t) => q = p
      BY <2>1, <2>3 DEF Passed
    <3>2. {q \in Requests : Admits(q, t)} = {p}
      BY <3>1
    <3>3. Cardinality({p}) = 1
      BY FS_Singleton
    <3> QED
      BY <2>3, <3>1, <3>2, <3>3
  <2> QED
    BY <2>1, <2>2, <2>3
<1> QED
  BY <1>1, Inductive, PTL

(* What the operator is told is recorded, and a ticket told used was let   *)
(* through by another scan, at the time that is shown.                     *)
THEOREM GateTellsTheTruth == Spec => []GateAnswersHold
<1>1. IInv => GateAnswersHold
  <2> SUFFICES ASSUME IInv, NEW p \in Requests
               PROVE  /\ req[p].op = "validate"
                            /\ Answered(p, {"VALID", "ALREADY_USED", "WRONG_EVENT", "INVALID"}) =>
                            validations[p] # None /\ validations[p].result = reply[p].code
                      /\ validations[p] # None /\ validations[p].result = "ALREADY_USED" =>
                            \E q \in Requests \ {p} :
                                /\ validations[q] # None /\ validations[q].result = "VALID"
                                /\ validations[q].ticket = validations[p].ticket
                                /\ validations[q].usedAt = validations[p].usedAt
    BY DEF GateAnswersHold
  <2>1. Records(p)
    BY DEF IInv
  <2>2. ASSUME validations[p] # None, validations[p].result = "ALREADY_USED"
        PROVE  \E q \in Requests \ {p} :
                   /\ validations[q] # None /\ validations[q].result = "VALID"
                   /\ validations[q].ticket = validations[p].ticket
                   /\ validations[q].usedAt = validations[p].usedAt
    <3>1. /\ validations[p].ticket \in Tickets
          /\ tickets[validations[p].ticket].status = "USED"
          /\ tickets[validations[p].ticket].usedAt = validations[p].usedAt
      BY <2>1, <2>2 DEF Records, Sound
    <3>2. Passed(validations[p].ticket)
      BY <3>1 DEF IInv
    <3> QED
      BY <2>2, <3>1, <3>2 DEF Passed, Admits
  <2> QED
    BY <2>1, <2>2 DEF Records
<1> QED
  BY <1>1, Inductive, PTL

(* The nonce of a code is stored before anybody gets the code: issueQr of  *)
(* tickets.service.ts.                                                     *)
THEOREM CodesAreStored == Spec => []CodesHandedOutAreStored
<1>1. IInv => CodesHandedOutAreStored
  BY HandedOutStored DEF CodesHandedOutAreStored
<1> QED
  BY <1>1, Inductive, PTL

(* A code that was about is not refused at the gate of its event before    *)
(* its time.                                                               *)
THEOREM CodesStayGood == Spec => []CodesAreGood
<1>1. IInv => CodesAreGood
  BY DEF IInv
<1> QED
  BY <1>1, Inductive, PTL

(* Who has replaced or revoked a link leaves none of the old ones alive:   *)
(* createShareLink and revokeShareLink of tickets.service.ts.              *)
THEOREM RevocationIsReal == Spec => []OldLinksRevoked
<1>1. IInv => OldLinksRevoked
  BY DEF IInv
<1> QED
  BY <1>1, Inductive, PTL

(* A link that was dead when somebody opened it has shown nothing.         *)
THEOREM DeadLinksShut == Spec => []DeadLinksStayShut
<1>1. IInv => DeadLinksStayShut
  BY DEF IInv
<1> QED
  BY <1>1, Inductive, PTL

(* A ticket is left without a link only by a revocation: the replacement   *)
(* of createShareLink is one transaction.                                  *)
THEOREM ReplacedNotLost == Spec => LinksAreReplaced
<1>1. ASSUME IInv, [Next]_vars
      PROVE  \A t \in Tickets :
               ActiveLinks(t) # {} /\ ActiveLinks(t)' = {} =>
                 \E p \in Requests : req[p].op = "revoke" /\ pc[p] = "revoke" /\ pc'[p] = "done"
  <2>1. CASE UNCHANGED links
    BY <2>1 DEF ActiveLinks
  <2>2. ASSUME NEW p \in Requests, ShareCommit(p), NEW t \in Tickets
        PROVE  ActiveLinks(t)' = {} => ActiveLinks(t) = {}
    <3>1. CASE t = req[p].ticket
      BY <1>1, <2>2, <3>1, Replaces
    <3>2. CASE t # req[p].ticket
      BY <1>1, <2>2, <3>2, Replaces
    <3> QED
      BY <3>1, <3>2
  <2> QED
    BY <1>1, <2>1, <2>2, LinksStep
<1> QED
  BY <1>1, Inductive, PTL DEF Spec, LinksAreReplaced

-----------------------------------------------------------------------------
(* The turnstile                                                           *)

(* With one link active at most, the link that opens a ticket is that one. *)
LEMMA OpenIsActive ==
    ASSUME OneLink, NEW t \in Tickets
    PROVE  /\ ActiveLinks(t) = {} => OpenLink(t) = None
           /\ \A k \in ActiveLinks(t) : OpenLink(t) = k
BY DEF OneLink, OpenLink

LEMMA OpenStays ==
    ASSUME OneLink, OneLink', NEW t \in Tickets, ActiveLinks(t)' = ActiveLinks(t)
    PROVE  OpenLink(t)' = OpenLink(t)
<1>1. CASE ActiveLinks(t) = {}
  BY <1>1 DEF OpenLink
<1>2. ASSUME NEW k \in ActiveLinks(t) PROVE OpenLink(t) = k /\ OpenLink(t)' = k
  BY <1>2 DEF OneLink, OpenLink
<1> QED
  BY <1>1, <1>2

LEMMA TurnstileStarts == Init => Stile!Init
<1> SUFFICES ASSUME Init PROVE Stile!Init
  OBVIOUS
<1>0. IInv /\ OneLink
  BY Starts DEF IInv
<1>1. [t \in Tickets |-> tickets[t].by] = [t \in Tickets |-> None]
  BY DEF Init, EntryInit
<1>2. ASSUME NEW t \in Tickets PROVE OpenLink(t) = Shared[t]
  <2>1. CASE Shared[t] = None
    <3>1. ASSUME NEW k \in ActiveLinks(t) PROVE FALSE
      BY <2>1, <3>1, NoneIsNoRow, SharedOnce DEF Init, EntryInit, ActiveLinks
    <3> QED
      BY <1>0, <2>1, <3>1, OpenIsActive
  <2>2. CASE Shared[t] # None
    <3>1. Shared[t] \in Tokens /\ \A s \in Tickets : Shared[s] = Shared[t] => s = t
      BY <2>2, SharedOnce
    <3>2. links[Shared[t]] = [ticket |-> t, expiresAt |-> QrExpiresAt(t), revoked |-> FALSE]
      BY <3>1 DEF Init, EntryInit
    <3>3. Shared[t] \in ActiveLinks(t)
      <4>1. [ticket |-> t, expiresAt |-> QrExpiresAt(t), revoked |-> FALSE] \in Link
        BY TicketsOfEvents DEF Link, QrExpiresAt
      <4> QED
        BY <3>1, <3>2, <4>1, NoneIsNoRow DEF ActiveLinks
    <3> QED
      BY <1>0, <3>3, OpenIsActive
  <2> QED
    BY <2>1, <2>2
<1>3. [t \in Tickets |-> OpenLink(t)] = Shared
  BY <1>2, SharedOnce
<1>4. {k \in Tokens : links[k] # None} = {k \in Tokens : \E t \in Tickets : Shared[t] = k}
  <2>1. ASSUME NEW t \in Tickets
        PROVE  [ticket |-> t, expiresAt |-> QrExpiresAt(t), revoked |-> FALSE] # None
    <3>1. [ticket |-> t, expiresAt |-> QrExpiresAt(t), revoked |-> FALSE] \in Link
      BY <2>1, TicketsOfEvents DEF Link, QrExpiresAt
    <3> QED
      BY <3>1, NoneIsNoRow
  <2> QED
    BY <2>1 DEF Init, EntryInit
<1> QED
  BY <1>1, <1>3, <1>4 DEF Stile!Init

LEMMA TurnstileStep ==
    ASSUME IInv, IInv', [Next]_vars PROVE [Stile!Next]_(Stile!vars)
<1> DEFINE through == [t \in Tickets |-> tickets[t].by]
           open == [t \in Tickets |-> OpenLink(t)]
           spent == {k \in Tokens : links[k] # None}
<1>0. OneLink /\ OneLink' /\ tickets \in [Tickets -> Ticket]
  BY DEF IInv, TypeOK
<1>1. UNCHANGED links => UNCHANGED <<open, spent>>
  BY DEF OpenLink, ActiveLinks
<1>2. ASSUME NEW p \in Requests, Record(p) PROVE [Stile!Next]_(Stile!vars)
  <2>1. UNCHANGED <<open, spent>>
    BY <1>1, <1>2 DEF Record
  <2>2. CASE tx[p].ticket = None
    <3>1. \A t \in Tickets : tickets'[t] = tickets[t]
      BY <1>2, <2>2, RecordShows, NoneIsNoRow
    <3>2. UNCHANGED through
      BY <3>1
    <3> QED
      BY <2>1, <3>2 DEF Stile!vars
  <2>3. CASE tx[p].ticket # None
    <3>0. PICK s \in Tickets, g \in Gates : s = tx[p].ticket /\ g = req[p].user
      BY <1>2, <2>3, RecordShows
    <3>1. /\ s \in Tickets /\ tickets[s].status = "VALID" /\ g \in Gates /\ tickets'[s].by = g
          /\ \A t \in Tickets \ {s} : tickets'[t] = tickets[t]
      BY <1>2, <2>3, <3>0, RecordShows
    <3>2. tickets[s].by = None
      BY <3>1 DEF IInv, Passed
    <3>3. through[s] = None /\ through' = [through EXCEPT ![s] = g]
      BY <3>1, <3>2
    <3>4. Stile!Admit(s, g)
      BY <2>1, <3>3 DEF Stile!Admit
    <3> QED
      BY <3>1, <3>4 DEF Stile!Next
  <2> QED
    BY <2>2, <2>3
<1>3. CASE \A t \in Tickets : UNCHANGED <<tickets[t].status, tickets[t].usedAt, tickets[t].by>>
  <2>1. UNCHANGED through
    BY <1>3
  <2>2. CASE UNCHANGED links
    BY <1>1, <2>1, <2>2 DEF Stile!vars
  <2>3. ASSUME NEW p \in Requests, ShareCommit(p) PROVE [Stile!Next]_(Stile!vars)
    <3>0. PICK s \in Tickets, k \in Tokens : s = req[p].ticket /\ k = tx[p].link
      BY <2>3, Replaces
    <3>1. k \notin spent /\ spent' = spent \cup {k}
      BY <2>3, <3>0, Replaces
    <3>2. ASSUME NEW t \in Tickets PROVE OpenLink(t)' = IF t = s THEN k ELSE OpenLink(t)
      <4>1. CASE t = s
        <5>1. ActiveLinks(t)' = {k}
          BY <2>3, <3>0, <4>1, Replaces
        <5> QED
          BY <4>1, <5>1 DEF OpenLink
      <4>2. CASE t # s
        <5>1. ActiveLinks(t)' = ActiveLinks(t)
          BY <2>3, <3>0, <4>2, Replaces
        <5> QED
          BY <1>0, <4>2, <5>1, OpenStays
      <4> QED
        BY <4>1, <4>2
    <3>3. open' = [open EXCEPT ![s] = k]
      BY <3>1, <3>2
    <3>4. Stile!Share(s, k)
      BY <2>1, <3>1, <3>3 DEF Stile!Share
    <3> QED
      BY <3>1, <3>4 DEF Stile!Next
  <2>4. ASSUME NEW p \in Requests, req[p].ticket \in Tickets,
               spent' = spent,
               \A t \in Tickets \ {req[p].ticket} : ActiveLinks(t)' = ActiveLinks(t),
               \A t \in Tickets : ActiveLinks(t)' \subseteq ActiveLinks(t)
        PROVE  [Stile!Next]_(Stile!vars)
    <3>1. PICK s \in Tickets : s = req[p].ticket
      BY <2>4
    <3>2. ASSUME NEW t \in Tickets, t # s PROVE OpenLink(t)' = OpenLink(t)
      BY <1>0, <2>4, <3>1, <3>2, OpenStays
    <3>3. CASE ActiveLinks(s)' = ActiveLinks(s)
      <4>1. \A t \in Tickets : OpenLink(t)' = OpenLink(t)
        BY <1>0, <3>2, <3>3, OpenStays
      <4> QED
        BY <2>1, <2>4, <4>1 DEF Stile!vars
    <3>4. CASE ActiveLinks(s)' # ActiveLinks(s)
      <4>1. ActiveLinks(s)' = {}
        BY <1>0, <2>4, <3>4 DEF OneLink
      <4>2. OpenLink(s)' = None
        BY <4>1 DEF OpenLink
      <4>3. open' = [open EXCEPT ![s] = None]
        BY <3>2, <4>2
      <4>4. Stile!TakeBack(s)
        BY <2>1, <2>4, <4>3 DEF Stile!TakeBack
      <4> QED
        BY <4>4 DEF Stile!Next
    <3> QED
      BY <3>3, <3>4
  <2> QED
    BY <2>2, <2>3, <2>4, LinksStep
<1> QED
  BY <1>2, <1>3, TicketsStep

(* Each transaction and statement of the tickets and the gate is a step of *)
(* the turnstile, or none: through by one gate, open by one link.          *)
THEOREM EntryIsTurnstile == Spec => IsTurnstile
<1>1. IInv /\ [Next]_vars => IInv /\ IInv'
  BY IInvStep
<1>2. IInv /\ IInv' /\ [Next]_vars => [Stile!Next]_(Stile!vars)
  BY TurnstileStep
<1> QED
  BY <1>1, <1>2, TurnstileStarts, Inductive, PTL DEF Spec, IsTurnstile, Stile!Spec
=============================================================================
