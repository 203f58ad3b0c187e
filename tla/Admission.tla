------------------------------ MODULE Admission ------------------------------
(***************************************************************************)
(* The tickets and the gate together: QR codes and share links issued,     *)
(* revoked and opened while gates scan them, and time passes.              *)
(***************************************************************************)
EXTENDS Gate

CONSTANT MaxClock    \* bound: the last instant a behaviour reaches

Tick ==
    /\ clock < MaxClock
    /\ clock' = clock + 1
    /\ UNCHANGED <<tables, tx, pc, req, handlers, reply, failures, since>>

Step(p) == Issuing(p) \/ Sharing(p) \/ Validating(p)

Init == EntryInit
Next == Tick \/ \E p \in Requests : Step(p) \/ Fail(p)

Spec == Init /\ [][Next]_vars

(* The event loop runs every handler that is not waiting.                  *)
FairSpec == Spec /\ \A p \in Requests : WF_vars(Step(p))

-----------------------------------------------------------------------------
TypeOK ==
    /\ clock \in Nat
    /\ tickets \in [Tickets -> Ticket]
    /\ links \in [Tokens -> Link \cup {None}]
    /\ validations \in [Requests -> Validation \cup {None}]
    /\ tx \in [Requests -> Transaction]
    /\ pc \in [Requests -> Labels]
    /\ req \in [Requests -> Request]
    /\ now \in [Requests -> Int]
    /\ mark \in [Requests -> SUBSET Tokens]
    /\ coded \in [Requests -> BOOLEAN]
    /\ verdict \in [Requests -> Validation \cup {None}]
    /\ retried \in [Requests -> BOOLEAN]
    /\ reply \in [Requests -> Response \cup {None}]
    /\ failures \in Nat
    /\ since \in [Requests -> [Tokens -> Link \cup {None}] \cup {None}]

(* However many gates scan a ticket at once, one validation approves it if *)
(* it is used and none if it is not, and the ticket shows the time and the *)
(* gate of that very validation.                                           *)
OneAdmission ==
    \A t \in Tickets :
        LET approved == {p \in Requests : /\ validations[p] # None
                                          /\ validations[p].result = "VALID"
                                          /\ validations[p].ticket = t}
        IN  /\ Cardinality(approved) = IF tickets[t].status = "USED" THEN 1 ELSE 0
            /\ \A p \in approved : /\ tickets[t].usedAt = validations[p].usedAt
                                   /\ tickets[t].by = req[p].user

Answered(p, codes) == reply[p] # None /\ reply[p].code \in codes

(* The operator is never told what the tables do not say: every answer is  *)
(* recorded as it was given, and who is told that a ticket was used was    *)
(* shown the time at which another validation approved it.                 *)
GateAnswersHold ==
    \A p \in Requests :
        /\ req[p].op = "validate" /\ Answered(p, {"VALID", "ALREADY_USED", "WRONG_EVENT", "INVALID"}) =>
              /\ validations[p] # None
              /\ validations[p].result = reply[p].code
        /\ validations[p] # None /\ validations[p].result = "ALREADY_USED" =>
              \E q \in Requests \ {p} :
                  /\ validations[q] # None /\ validations[q].result = "VALID"
                  /\ validations[q].ticket = validations[p].ticket
                  /\ validations[q].usedAt = validations[p].usedAt

(* A code that the API gave to anybody, the ticket's owner or a visitor by *)
(* its link, is not refused at the gate of its event as long as its expiry *)
(* (in whole seconds) has not come: the nonce it carries is stored before  *)
(* it is handed out, and losing a race for the ticket is told as such.     *)
Refusable(p, time) ==
    req[p].ticket \in Coded /\ EventOf[req[p].ticket] = req[p].event =>
        InSeconds(QrExpiresAt(req[p].ticket)) <= InSeconds(time)

CodesAreGood ==
    \A p \in Requests :
        req[p].op = "validate" /\ Answered(p, {"INVALID"}) => Refusable(p, reply[p].at)

CodesHandedOutAreStored == \A t \in HandedOut : tickets[t].coded

(* Once a link has been replaced or revoked, as far as who asked for it    *)
(* can tell, none of the links there were when they asked opens anything,  *)
(* whatever other requests for links ran meanwhile.                        *)
OldLinksRevoked ==
    \A p \in Requests :
        Answered(p, {"LINK", "REVOKED"}) =>
            \A k \in Tokens :
                since[p][k] # None /\ since[p][k].ticket = req[p].ticket => links[k].revoked

(* Who opens a link that was dead when they asked finds nothing.           *)
DeadLinksStayShut ==
    \A p \in Requests :
        LET k == req[p].token IN
        req[p].op = "shared" /\ Answered(p, {"QR", "NO_QR", "TICKET_NOT_ACTIVE"})
        => ~(since[p][k] # None /\ since[p][k].revoked)

(* However many requests replace its link at once, a ticket is without one *)
(* only when somebody revokes it: a replacement that fails half way, or is *)
(* retried, leaves the old link in place.                                  *)
LinksAreReplaced ==
    [][\A t \in Tickets :
         ActiveLinks(t) # {} /\ ActiveLinks(t)' = {} =>
             \E p \in Requests : req[p].op = "revoke" /\ pc[p] = "revoke" /\ pc'[p] = "done"]_vars

(* Every transaction and statement of the tickets and the gate is a single *)
(* step of the turnstile: a ticket goes through once, by one gate, and the *)
(* link that opens it changes only to one never used before, or to none.   *)
OpenLink(t) == IF ActiveLinks(t) = {} THEN None ELSE CHOOSE k \in ActiveLinks(t) : TRUE

Stile == INSTANCE Turnstile WITH
    InitialLink <- Shared,
    through <- [t \in Tickets |-> tickets[t].by],
    open <- [t \in Tickets |-> OpenLink(t)],
    spent <- {k \in Tokens : links[k] # None}

IsTurnstile == Stile!Spec

(* Every request is answered: whoever waits for a ticket, a link or the    *)
(* unique index gets them in the end, and a retry is not retried.          *)
RequestsAnswered == \A p \in Requests : (pc[p] # "idle") ~> (pc[p] = "done")
-----------------------------------------------------------------------------
(* Why these hold: an inductive invariant, of named parts                  *)

(* What a request is about fits the place that its handler has come to.    *)
Serves(p) ==
    /\ pc[p] \in {"readLink", "readShared"} => req[p].op = "shared" /\ req[p].token # None
    /\ pc[p] \in {"issue", "writeNonce"} =>
          \/ req[p].op = "qr" /\ Owns(p)
          \/ req[p].op = "shared" /\ req[p].token # None
    /\ pc[p] \in {"shareRead", "insertLink", "shareCommit"} => req[p].op = "share"
    /\ pc[p] \in {"mark", "revoke"} => req[p].op \in {"share", "revoke"}
    /\ pc[p] \in {"mark", "revoke", "insertLink", "shareCommit"} => Owns(p)
    /\ pc[p] \in {"verify", "gateRead", "consume", "gateReread", "record"} => req[p].op = "validate"
    /\ reply[p] # None => pc[p] = "done"
    /\ validations[p] # None => pc[p] = "done" /\ req[p].op = "validate"
    /\ req[p].op = "validate" => req[p].user \in Gates

(* A transaction holds the ticket it consumes, still valid, and the links  *)
(* it revokes, still active, against every other; and where it inserts a   *)
(* link, nothing else will be active.                                      *)
Holds(p) ==
    /\ tx[p].ticket # None =>
          /\ pc[p] = "record" /\ verdict[p] # None /\ verdict[p].result = "VALID"
          /\ tx[p].ticket = req[p].ticket
          /\ tickets[tx[p].ticket].status = "VALID"
          /\ TicketFree(p, tx[p].ticket)
    /\ tx[p].revoked # {} => pc[p] \in {"insertLink", "shareCommit"}
    /\ \A k \in tx[p].revoked : k \in ActiveLinks(req[p].ticket) /\ LinkFree(p, k)
    /\ pc[p] = "shareCommit" <=> tx[p].link # None
    /\ tx[p].link # None =>
          /\ links[tx[p].link] = None
          /\ Rivals(p) = {}
          /\ \A q \in Requests \ {p} : tx[q].link # None =>
                tx[q].link # tx[p].link /\ req[q].ticket # req[p].ticket

(* A ticket has one link that opens it at most.                            *)
OneLink == \A t \in Tickets : \A j, k \in ActiveLinks(t) : j = k

(* The links there were when a request began are there still, and what was *)
(* dead is dead; one who replaces or revokes has them marked, then written *)
(* and then committed.                                                     *)
OldLinks(p) == {k \in Tokens : since[p][k] # None /\ since[p][k].ticket = req[p].ticket}

Remembers(p) ==
    pc[p] # "idle" =>
    /\ since[p] # None
    /\ \A k \in Tokens : since[p][k] # None =>
          /\ links[k] # None /\ links[k].ticket = since[p][k].ticket
          /\ since[p][k].revoked => links[k].revoked
    /\ pc[p] = "revoke" =>
          /\ \A k \in mark[p] : links[k] # None /\ links[k].ticket = req[p].ticket
          /\ \A k \in OldLinks(p) : links[k].revoked \/ k \in mark[p]
    /\ pc[p] \in {"insertLink", "shareCommit"} =>
          \A k \in OldLinks(p) : links[k].revoked \/ k \in tx[p].revoked
    /\ pc[p] \in {"readShared", "issue", "writeNonce"} /\ req[p].op = "shared" =>
          /\ links[req[p].token] # None
          /\ ~(since[p][req[p].token] # None /\ since[p][req[p].token].revoked)

(* What a request has read of its ticket is still so: a nonce that was     *)
(* stored, a code that was handed out, a ticket that was used.             *)
Finds(p) ==
    /\ pc[p] = "issue" /\ coded[p] => tickets[Subject(p)].coded
    /\ pc[p] \in {"gateRead", "consume", "gateReread"} =>
          req[p].ticket \in Tickets /\ tickets[req[p].ticket].coded
    /\ pc[p] = "gateReread" => tickets[req[p].ticket].status = "USED"
    /\ reply[p] # None /\ reply[p].code = "QR" =>
          reply[p].ticket \in Tickets /\ tickets[reply[p].ticket].coded

(* A scan approved ticket t, and the ticket shows it.                      *)
Admits(p, t) ==
    /\ validations[p] # None /\ validations[p].result = "VALID" /\ validations[p].ticket = t

(* What a validation says, about to be recorded or recorded                *)
Sound(p, outcome) ==
    /\ outcome.result = "VALID" => outcome.ticket = req[p].ticket
    /\ outcome.result = "ALREADY_USED" =>
          /\ outcome.ticket \in Tickets
          /\ tickets[outcome.ticket].status = "USED"
          /\ tickets[outcome.ticket].usedAt = outcome.usedAt

Records(p) ==
    /\ pc[p] = "record" =>
          /\ verdict[p] # None /\ Sound(p, verdict[p])
          /\ verdict[p].result = "VALID" => tx[p].ticket # None /\ verdict[p].usedAt = now[p]
          /\ verdict[p].result = "INVALID" => Refusable(p, now[p])
    /\ validations[p] # None => Sound(p, validations[p])
    /\ Answered(p, {"VALID", "ALREADY_USED", "WRONG_EVENT", "INVALID"}) =>
          validations[p] # None /\ validations[p].result = reply[p].code

(* A used ticket is one that a single scan approved, at the time and by    *)
(* the gate it shows.                                                      *)
Passed(t) ==
    /\ tickets[t].status = "VALID" => tickets[t].by = None /\ \A p \in Requests : ~Admits(p, t)
    /\ tickets[t].status = "USED" =>
          /\ tickets[t].by # None /\ tickets[t].usedAt # None
          /\ \E p \in Requests :
                /\ Admits(p, t)
                /\ tickets[t].usedAt = validations[p].usedAt /\ tickets[t].by = req[p].user
                /\ \A q \in Requests : Admits(q, t) => q = p

IInv ==
    /\ TypeOK /\ OneLink
    /\ \A p \in Requests : Serves(p) /\ Holds(p) /\ Remembers(p) /\ Finds(p) /\ Records(p)
    /\ \A t \in Tickets : Passed(t) /\ (t \in Coded => tickets[t].coded)
    /\ CodesAreGood /\ OldLinksRevoked /\ DeadLinksStayShut
=============================================================================
