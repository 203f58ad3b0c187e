----------------------------- MODULE TicketPage ------------------------------
(***************************************************************************)
(* TicketDetail, the page of one ticket: the ticket with its QR code, and  *)
(* the panel that makes, replaces and revokes the link to share it, over   *)
(* the API, which serves a call in one step (as module Turnstile           *)
(* promises).  No fetch is aborted: a creation or a revocation that has    *)
(* failed for the page, or that an earlier visit left behind, may still    *)
(* take effect, at any time.  Nobody else shares this ticket: another tab  *)
(* of its owner would not be seen here before the page is reloaded.        *)
(***************************************************************************)
EXTENDS Tab

CONSTANT MaxLinks     \* bound: how many links the ticket ever has

VARIABLE shares       \* the ticket at the API: VALID or not, and its links

Changes == {"share", "revoke"}

(* `late` holds what kinds of call nobody waits for any more but the API   *)
(* may still serve, any number of each.  `overtaken` records that it has   *)
(* served one since it last served the page about the link.                *)
NoTicket == [valid |-> FALSE, made |-> 0, active |-> 0, late |-> {}, overtaken |-> FALSE]
Shares == [valid : BOOLEAN, made : 0..MaxLinks, active : 0..MaxLinks,
           late : SUBSET Changes, overtaken : BOOLEAN]

Detail == [valid : BOOLEAN, hasActiveShareLink : BOOLEAN]
TicketPages == [name : {"ticket"}, token : BOOLEAN, ticket : Detail \cup {None},
                qr : BOOLEAN, share : 0..MaxLinks,    \* 0 for null
                busy : {Empty, "load", "share", "revoke"}, error : BOOLEAN]

-----------------------------------------------------------------------------
(* The API                                                                 *)

(* What it may do with a call that it does not refuse, and answer; a link  *)
(* may be made for a ticket that was used after its status was read        *)
TicketServed(op) ==
    LET asOf == [shares EXCEPT !.overtaken = FALSE] IN
    CASE op = "detail" ->
           {<<asOf, [valid |-> shares.valid, hasActiveShareLink |-> shares.active # 0]>>}
      [] op = "qr" -> {<<shares, IF shares.valid THEN "QR" ELSE "TICKET_NOT_ACTIVE">>}
      [] op = "share" ->
           {<<[asOf EXCEPT !.made = m, !.active = m], m>> : m \in {shares.made + 1} \cap 1..MaxLinks}
      [] op = "revoke" -> {<<[asOf EXCEPT !.active = 0], "REVOKED">>}

Served(c) ==
    /\ page.token
    /\ \E s \in TicketServed(c.op) : shares' = s[1] /\ calls' = {[c EXCEPT !.answer = s[2]]}

(* The call is refused or the connection fails: a change may be on its way *)
(* all the same, or already made.                                          *)
Fails(c) ==
    /\ \/ UNCHANGED shares
       \/ page.token /\ c.op \in Changes /\ shares' = [shares EXCEPT !.late = @ \cup {c.op}]
    /\ calls' = {[c EXCEPT !.answer = Failed]}

ServeTicket(c) ==
    /\ On("ticket") /\ c.answer = None
    /\ Served(c) \/ Fails(c)
    /\ UNCHANGED page

(* A change that nobody waits for takes effect; others may be on their way *)
(* behind it.                                                              *)
ServeTicketLate ==
    /\ On("ticket")
    /\ \E op \in shares.late :
         \E s \in TicketServed(op), left \in {shares.late, shares.late \ {op}} :
            shares' = [s[1] EXCEPT !.late = left, !.overtaken = TRUE]
    /\ UNCHANGED <<page, calls>>

(* The ticket is admitted at a gate.                                       *)
Admitted ==
    /\ On("ticket") /\ shares.valid
    /\ shares' = [shares EXCEPT !.valid = FALSE]
    /\ UNCHANGED <<page, calls>>

-----------------------------------------------------------------------------
(* The page, which has one call in flight at most                          *)

TicketMounted(token) ==
    [name |-> "ticket", token |-> token, ticket |-> None, qr |-> FALSE, share |-> 0,
     busy |-> IF token THEN "load" ELSE Empty, error |-> FALSE]

(* What earlier visits left on its way to the API, and what has become of  *)
(* it, is in the choice of the ticket's state.                             *)
OpenTicket ==
    /\ page = Elsewhere
    /\ \E token, valid \in BOOLEAN, active \in {0, 1}, late \in SUBSET Changes :
         /\ page' = TicketMounted(token)
         /\ calls' = IF token THEN {Call("detail", None)} ELSE {}
         /\ shares' = [valid |-> valid, made |-> 1, active |-> active, late |-> late,
                       overtaken |-> FALSE]

(* The page forgets its call, which goes on: the next visit may be to this *)
(* ticket or to another, and meets in OpenTicket whatever state this left. *)
LeaveTicket ==
    /\ On("ticket")
    /\ page' = Elsewhere /\ calls' = {} /\ shares' = NoTicket

Ends(p, failed) == page' = [p EXCEPT !.busy = Empty, !.error = @ \/ failed]

(* loadTicket: the ticket first, then the QR code of a valid one; a 401    *)
(* ends the session                                                        *)
Unloaded == Ends(page, TRUE) \/ Ends([page EXCEPT !.token = FALSE], TRUE)

DetailAnswered(c) ==
    /\ c.op = "detail"
    /\ \/ /\ c.answer \in Detail /\ c.answer.valid
          /\ page' = [page EXCEPT !.ticket = c.answer]
          /\ calls' = {Call("qr", None)}
       \/ c.answer \in Detail /\ ~c.answer.valid /\ Ends([page EXCEPT !.ticket = c.answer], FALSE) /\ calls' = {}
       \/ c.answer = Failed /\ Unloaded /\ calls' = {}

QrAnswered(c) ==
    /\ c.op = "qr" /\ c.answer # None /\ calls' = {}
    /\ \/ c.answer # Failed /\ Ends([page EXCEPT !.qr = c.answer = "QR"], FALSE)
       \/ c.answer = Failed /\ Unloaded

Asks(op) ==
    /\ page' = [page EXCEPT !.busy = op, !.error = FALSE]
    /\ calls' = {Call(op, None)}
    /\ UNCHANGED shares

CreateShare ==
    /\ On("ticket") /\ page.ticket # None /\ page.busy = Empty /\ page.ticket.valid
    /\ Asks("share")

(* Mutant of ShareCreated: the link is shown, the ticket as it was         *)
ShareShown(c) ==
    /\ c.op = "share" /\ c.answer # None /\ calls' = {}
    /\ \/ c.answer \in 1..MaxLinks /\ Ends([page EXCEPT !.share = c.answer], FALSE)
       \/ c.answer \notin 1..MaxLinks /\ Ends(page, TRUE)

ShareCreated(c) ==
    /\ c.op = "share" /\ c.answer # None /\ calls' = {}
    /\ \/ c.answer \in 1..MaxLinks
          /\ Ends([page EXCEPT !.share = c.answer, !.ticket.hasActiveShareLink = TRUE], FALSE)
       \/ c.answer \notin 1..MaxLinks /\ Ends(page, TRUE)

RevokeShare ==
    /\ On("ticket") /\ page.ticket # None /\ page.busy = Empty /\ page.ticket.valid
    /\ page.ticket.hasActiveShareLink
    /\ Asks("revoke")

(* Mutant of ShareRevoked: the new ticket is not made of the current one   *)
ShareRevokedOnly(c) ==
    /\ c.op = "revoke" /\ c.answer # None /\ calls' = {}
    /\ \/ c.answer = "REVOKED"
          /\ Ends([page EXCEPT !.share = 0, !.ticket = [hasActiveShareLink |-> FALSE]], FALSE)
       \/ c.answer # "REVOKED" /\ Ends(page, TRUE)

ShareRevoked(c) ==
    /\ c.op = "revoke" /\ c.answer # None /\ calls' = {}
    /\ \/ c.answer = "REVOKED"
          /\ Ends([page EXCEPT !.share = 0, !.ticket.hasActiveShareLink = FALSE], FALSE)
       \/ c.answer # "REVOKED" /\ Ends(page, TRUE)

(* copyShare and copyQrCode: the clipboard may refuse.                     *)
CopyFails ==
    /\ On("ticket") /\ page.ticket # None /\ page.busy # "load" /\ (page.share # 0 \/ page.qr)
    /\ page' = [page EXCEPT !.error = TRUE]
    /\ UNCHANGED <<calls, shares>>

TicketAnswers ==
    /\ \E c \in calls :
         On("ticket") /\ (DetailAnswered(c) \/ QrAnswered(c) \/ ShareCreated(c) \/ ShareRevoked(c))
    /\ UNCHANGED shares

TicketNext ==
    \/ OpenTicket \/ LeaveTicket \/ CreateShare \/ RevokeShare \/ CopyFails
    \/ TicketAnswers \/ Admitted \/ ServeTicketLate \/ \E c \in calls : ServeTicket(c)

-----------------------------------------------------------------------------
(* What the panel says of the link is so: unless it shows an error, the    *)
(* link that it offers to copy is the one that opens the ticket, and it    *)
(* says that there is a link just when there is.  So it is after any       *)
(* replacements, revocations and failures, as soon as the page has its     *)
(* next answer, until a creation or a revocation that nobody waits for any *)
(* more takes effect: of that the page knows nothing.                      *)
PanelIsTrue ==
    On("ticket") /\ page.ticket # None /\ page.busy = Empty /\ ~page.error /\ ~shares.overtaken =>
        /\ page.share # 0 => page.share = shares.active
        /\ page.ticket.hasActiveShareLink <=> shares.active # 0

-----------------------------------------------------------------------------
(* Why this holds: `busy` is up just while there is a call, of which there *)
(* is then one, and what it was answered is still so, unless overtaken.    *)
LinkKnown(detail) == shares.overtaken \/ (detail.hasActiveShareLink <=> shares.active # 0)

TicketFits ==
    On("ticket") =>
        /\ page \in TicketPages /\ shares \in Shares
        /\ page.busy = Empty <=> calls = {}
        /\ page.busy = "load" => page.share = 0
        /\ \A c, d \in calls : c = d
        /\ \A c \in calls :
             /\ c = [n |-> c.n, op |-> c.op, about |-> None, answer |-> c.answer]
             /\ c.op \in {"detail", "qr", "share", "revoke"}
             /\ page.busy = IF c.op \in {"detail", "qr"} THEN "load" ELSE c.op
             /\ c.op # "detail" => page.ticket # None
             /\ c.op = "detail" /\ c.answer \in Detail => LinkKnown(c.answer)
             /\ c.op = "qr" => LinkKnown(page.ticket)
             /\ c.op = "share" /\ c.answer \in 1..MaxLinks =>
                  shares.overtaken \/ c.answer = shares.active
             /\ c.op = "revoke" /\ c.answer = "REVOKED" =>
                  shares.overtaken \/ shares.active = 0

ASSUME LinksAreNumbered ==
    /\ MaxLinks \in Nat \ {0} /\ {None, Failed} \cap Detail = {}
    /\ {None, Failed} \cap 1..MaxLinks = {}
=============================================================================
