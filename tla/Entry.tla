-------------------------------- MODULE Entry --------------------------------
(***************************************************************************)
(* The tables behind the tickets and the gate (tickets, share_links,       *)
(* ticket_validations), the transactions that write them, and the state    *)
(* that a handler of TicketsService or GateService keeps between two       *)
(* statements.  Statements and locks are those of module Database: READ    *)
(* COMMITTED, an UPDATE ... WHERE that waits for a locked row and then     *)
(* tests its WHERE again.                                                  *)
(***************************************************************************)
EXTENDS Integers, FiniteSets

CONSTANTS
    Requests,       \* HTTP requests being served, by any instance of the API
    Tickets,        \* tickets already paid for
    Events, Customers, Gates,
    Tokens,         \* the secrets that share links may get
    EventOf, OwnerOf,
    EndsAt,         \* endsAt of each event, in clock ticks
    Window,         \* OPERATIONAL_WINDOW_MS, in clock ticks
    TicksPerSecond, \* 1000 in the code, where a tick is a millisecond
    Coded,          \* the tickets whose QR was issued before the model starts
    Shared,         \* the link each ticket then has, or None
    Scripts,         \* what the requests may turn out to be, together
    MaxFailures,    \* bound: how many statements may fail in a behaviour
    None            \* SQL NULL, an absent row, "nothing written"

VARIABLES
    clock,          \* the time `new Date()` reads
    tickets,        \* committed rows of tickets
    links,          \* committed row of share_links of each token, or None
    validations,    \* the row of ticket_validations each request committed
    tx,             \* what each request's open transaction has written
    pc, req, now,   \* as in module Handlers
    mark,           \* the active links that an UPDATE of share_links has found
    coded,          \* whether the ticket it has read had its nonce stored
    verdict,        \* what the gate is about to record
    retried,        \* createShareLink is in its second attempt
    reply, failures,
    since           \* history: share_links when the request began

tables == <<tickets, links, validations>>
handlers == <<now, mark, coded, verdict, retried>>
vars == <<clock, tables, tx, pc, req, handlers, reply, failures, since>>

(* A row of tickets.  qr_nonce_hash is random until the first QR is issued *)
(* and then the hash of the nonce derived from the ticket, so a Boolean    *)
(* stands for it.  No code of the repository writes status CANCELED.       *)
Ticket == [status : {"VALID", "USED"}, coded : BOOLEAN,
           usedAt : Int \cup {None}, by : Gates \cup {None}]

Link == [ticket : Tickets, expiresAt : Int, revoked : BOOLEAN]

Validation == [result : {"VALID", "ALREADY_USED", "WRONG_EVENT", "INVALID"},
               ticket : Tickets \cup {None}, usedAt : Int \cup {None}]

Transaction == [ticket : Tickets \cup {None},   \* ticket it has consumed
                revoked : SUBSET Tokens,        \* links it has revoked
                link : Tokens \cup {None}]      \* link it has inserted

NothingWritten == [ticket |-> None, revoked |-> {}, link |-> None]

Request == [op : {"qr", "shared", "share", "revoke", "validate"},
            user : Customers \cup Gates, ticket : Tickets \cup {None},
            token : Tokens \cup {None}, event : Events]

Codes == {"QR", "NO_QR", "LINK", "REVOKED", "VALID", "ALREADY_USED", "WRONG_EVENT",
          "INVALID", "TICKET_NOT_FOUND", "TICKET_NOT_ACTIVE",
          "SHARED_TICKET_NOT_FOUND", "EVENT_NOT_FOUND", "INTERNAL_ERROR"}

(* A response: its outcome, the ticket whose code it carries or the ticket *)
(* admitted, the link it names, and the time the handler went by           *)
Response == [code : Codes, ticket : Tickets \cup {None}, link : Tokens \cup {None},
             at : Int \cup {None}]

Labels == {"idle", "done",
           "readTicket", "issue", "writeNonce", "readLink", "readShared",
           "shareRead", "mark", "revoke", "insertLink", "shareCommit",
           "verify", "record", "gateRead", "consume", "gateReread"}

-----------------------------------------------------------------------------
QrExpiresAt(t) == EndsAt[EventOf[t]] + Window

(* Math.floor(time / 1_000), as the payload of a code keeps it *)
InSeconds(time) == time \div TicksPerSecond

ActiveLinks(t) == {k \in Tokens : /\ links[k] # None
                                  /\ links[k].ticket = t /\ ~links[k].revoked}

(* The codes that are about: those of the tickets that had one, and those  *)
(* that a response has carried.                                            *)
HandedOut == Coded \cup {reply[q].ticket : q \in {q \in Requests :
                                 reply[q] # None /\ reply[q].code = "QR"}}

TicketFree(p, t) == \A q \in Requests \ {p} : tx[q].ticket # t
LinkFree(p, k)   == \A q \in Requests \ {p} : k \notin tx[q].revoked

-----------------------------------------------------------------------------
Goto(p, label) == pc' = [pc EXCEPT ![p] = label]
Proceed(p, label) == Goto(p, label) /\ UNCHANGED <<handlers, reply>>

Forget(p) ==
    /\ now' = [now EXCEPT ![p] = 0]
    /\ mark' = [mark EXCEPT ![p] = {}]
    /\ coded' = [coded EXCEPT ![p] = FALSE]
    /\ verdict' = [verdict EXCEPT ![p] = None]
    /\ retried' = [retried EXCEPT ![p] = FALSE]

Respond(p, response) ==
    /\ reply' = [reply EXCEPT ![p] = response]
    /\ Goto(p, "done")
    /\ Forget(p)

Bare(code) == [code |-> code, ticket |-> None, link |-> None, at |-> None]
Answer(p, code) == Respond(p, Bare(code))

(* The response of a step that has committed: it may be lost with the      *)
(* connection or the instance, and what was committed stays.               *)
Deliver(p, response) ==
    \/ Respond(p, response) /\ UNCHANGED failures
    \/ /\ failures < MaxFailures /\ failures' = failures + 1
       /\ Answer(p, "INTERNAL_ERROR")

Rollback(p) == tx' = [tx EXCEPT ![p] = NothingWritten]

(* A statement fails, its connection or its instance is lost: what the     *)
(* transaction has written is undone, and the request gets a 500 or        *)
(* nothing.                                                                *)
Fail(p) ==
    /\ pc[p] \notin {"idle", "done"}
    /\ failures < MaxFailures
    /\ failures' = failures + 1
    /\ Rollback(p)
    /\ Answer(p, "INTERNAL_ERROR")
    /\ UNCHANGED <<clock, tables, req, since>>

EntryInit ==
    /\ clock = 0
    /\ tickets = [t \in Tickets |-> [status |-> "VALID", coded |-> t \in Coded,
                                     usedAt |-> None, by |-> None]]
    /\ links = [k \in Tokens |->
                  IF \E t \in Tickets : Shared[t] = k
                  THEN LET t == CHOOSE t \in Tickets : Shared[t] = k
                       IN  [ticket |-> t, expiresAt |-> QrExpiresAt(t), revoked |-> FALSE]
                  ELSE None]
    /\ validations = [p \in Requests |-> None]
    /\ tx = [p \in Requests |-> NothingWritten]
    /\ pc = [p \in Requests |-> "idle"]
    /\ req \in Scripts
    /\ now = [p \in Requests |-> 0]
    /\ mark = [p \in Requests |-> {}]
    /\ coded = [p \in Requests |-> FALSE]
    /\ verdict = [p \in Requests |-> None]
    /\ retried = [p \in Requests |-> FALSE]
    /\ reply = [p \in Requests |-> None]
    /\ failures = 0
    /\ since = [p \in Requests |-> None]

-----------------------------------------------------------------------------
ASSUME TicketsOfEvents ==
    /\ EventOf \in [Tickets -> Events] /\ OwnerOf \in [Tickets -> Customers]
    /\ EndsAt \in [Events -> Int] /\ Window \in Nat /\ TicksPerSecond \in Nat \ {0}

ASSUME SharedOnce ==
    /\ Coded \subseteq Tickets
    /\ Shared \in [Tickets -> Tokens \cup {None}]
    /\ \A s, t \in Tickets : s # t /\ Shared[s] # None => Shared[s] # Shared[t]

ASSUME ScriptOfRequests ==
    /\ Scripts \subseteq [Requests -> Request]
    /\ MaxFailures \in Nat

(* GateController is for users of role GATE.                               *)
ASSUME GatesValidate ==
    \A script \in Scripts : \A p \in Requests :
        script[p].op = "validate" => script[p].user \in Gates

ASSUME NoneIsNoRow ==
    /\ None \notin Requests /\ None \notin Tickets /\ None \notin Tokens
    /\ None \notin Gates /\ None \notin Ticket /\ None \notin Link
    /\ None \notin Validation /\ None \notin Response /\ None \notin Int
    /\ None \notin [Tokens -> Link \cup {None}]
=============================================================================
