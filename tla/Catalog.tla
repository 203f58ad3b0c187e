------------------------------- MODULE Catalog -------------------------------
(***************************************************************************)
(* The state of the organizer's requests, and TmdbCatalogAdapter.request:  *)
(* one call to TMDB under an AbortController whose timer covers the        *)
(* response and its body.  TMDB itself may answer anything, or nothing.    *)
(***************************************************************************)
EXTENDS Integers, FiniteSets

CONSTANTS
    Requests,     \* HTTP requests being served, by any instance of the API
    Users, Events,
    Details,      \* versions of the fields that nothing else depends on
    Scripts,       \* what the requests may turn out to be, together
    InitialEvents,
    Configured,   \* those served by an instance that has a TMDB access token
    MaxFailures,  \* bound: how many statements may fail in a behaviour
    None

VARIABLES
    clock,
    events,       \* the committed row of each event, or None
    booked,       \* places of each event that reservations hold
    pc, req,      \* as in module Handlers
    changed,      \* whether the handler's conditional update found its row
    timer,        \* the timer of its call to TMDB
    began,        \* history: the time the request came in
    reply, failures

vars == <<clock, events, booked, pc, req, changed, timer, began, reply, failures>>

(* A row of events.  Title and the snapshot of the film, which no operation *)
(* changes, are left out; venue, address, city, price and the time zone    *)
(* are the details.                                                        *)
Row == [owner : Users, startsAt : Int, endsAt : Int, details : Details,
        capacity : Nat \ {0}, available : Int, status : {"DRAFT", "PUBLISHED"}]

(* A request; a field that an edit leaves out is None.  zone tells whether *)
(* Intl knows the time zone in it.                                         *)
Request == [op : {"search", "create", "edit", "publish", "reserve"}, user : Users,
            event : Events, startsAt : Int \cup {None}, endsAt : Int \cup {None},
            zone : BOOLEAN, details : Details \cup {None},
            capacity : (Nat \ {0}) \cup {None}, quantity : Nat \ {0}]

Codes == {"MOVIES", "DRAFT", "PUBLISHED", "RESERVED", "CATALOG_ITEM_NOT_FOUND",
          "CATALOG_UNAVAILABLE", "CATALOG_TIMEOUT", "INVALID_EVENT_SCHEDULE",
          "EVENT_NOT_FOUND", "FORBIDDEN", "EVENT_NOT_EDITABLE",
          "EVENT_NOT_PUBLISHABLE", "EVENT_NOT_AVAILABLE", "INTERNAL_ERROR"}

Labels == {"idle", "done", "fetch", "body", "insert",
           "editRead", "editWrite", "editReread",
           "publishRead", "publishWrite", "publishReread"}

Goto(p, label) == pc' = [pc EXCEPT ![p] = label]
Proceed(p, label) == Goto(p, label) /\ UNCHANGED <<changed, reply>>

Answer(p, code) ==
    /\ reply' = [reply EXCEPT ![p] = code]
    /\ Goto(p, "done")
    /\ changed' = [changed EXCEPT ![p] = FALSE]

(* What a committed statement answers, unless the answer is lost           *)
Deliver(p, code) ==
    \/ Answer(p, code) /\ UNCHANGED failures
    \/ /\ failures < MaxFailures /\ failures' = failures + 1
       /\ Answer(p, "INTERNAL_ERROR")

-----------------------------------------------------------------------------
(* request: configuration(), then setTimeout and fetch                     *)
CallTmdb(p) ==
    IF p \in Configured
    THEN Proceed(p, "fetch") /\ timer' = [timer EXCEPT ![p] = "set"]
    ELSE Answer(p, "CATALOG_UNAVAILABLE") /\ UNCHANGED timer

(* finally: the call is over, and its timer with it.  A timer that has     *)
(* fired stays on record.                                                  *)
CallEnds(p, code) ==
    /\ Answer(p, code)
    /\ timer' = [timer EXCEPT ![p] = IF @ = "set" THEN "off" ELSE @]

(* The timer fires: abortController.abort()                                *)
TimerFires(p) ==
    /\ timer[p] = "set"
    /\ timer' = [timer EXCEPT ![p] = "fired"]
    /\ UNCHANGED <<clock, events, booked, pc, req, changed, began, reply, failures>>

Waiting(p, label, state) ==
    /\ pc[p] = label /\ timer[p] = state
    /\ UNCHANGED <<clock, events, booked, req, began, failures>>

(* Mutant of Response: the timer is cleared as soon as the headers are in, *)
(* and does not cover the body                                             *)
ResponseUntimed(p) ==
    /\ Waiting(p, "fetch", "set")
    /\ Proceed(p, "body") /\ timer' = [timer EXCEPT ![p] = "off"]

(* TMDB answers: with a body to come, with the 404 of an item, with a 504, *)
(* or with any other error; or the connection breaks.                      *)
Response(p) ==
    /\ Waiting(p, "fetch", "set")
    /\ \/ Proceed(p, "body") /\ UNCHANGED timer
       \/ req[p].op = "create" /\ CallEnds(p, "CATALOG_ITEM_NOT_FOUND")
       \/ CallEnds(p, "CATALOG_TIMEOUT")
       \/ CallEnds(p, "CATALOG_UNAVAILABLE")

(* The body comes: it is what it should be, or it is not.                  *)
Body(p) ==
    /\ Waiting(p, "body", "set")
    /\ \/ /\ req[p].op = "create" /\ Proceed(p, "insert")
          /\ timer' = [timer EXCEPT ![p] = "off"]
       \/ req[p].op = "search" /\ CallEnds(p, "MOVIES")
       \/ CallEnds(p, "CATALOG_UNAVAILABLE")

(* fetch rejects because its signal is aborted,                            *)
FetchAborted(p) == Waiting(p, "fetch", "fired") /\ CallEnds(p, "CATALOG_TIMEOUT")

(* or json() does: the inner catch makes this a malformed body.            *)
BodyAborted(p) == Waiting(p, "body", "fired") /\ CallEnds(p, "CATALOG_UNAVAILABLE")

(* searchMovies and nowPlaying                                             *)
SearchBegins(p) ==
    /\ pc[p] = "idle" /\ req[p].op = "search"
    /\ CallTmdb(p)
    /\ began' = [began EXCEPT ![p] = clock]
    /\ UNCHANGED <<clock, events, booked, req, failures>>

Tmdb(p) == Response(p) \/ Body(p)

Calling(p) == SearchBegins(p) \/ FetchAborted(p) \/ BodyAborted(p)

-----------------------------------------------------------------------------
ASSUME NoneIsNoRow ==
    /\ None \notin Row /\ None \notin Int /\ None \notin Details /\ None \notin Codes
    /\ InitialEvents \in [Events -> Row \cup {None}]
    /\ Configured \subseteq Requests /\ MaxFailures \in Nat
    /\ Scripts \subseteq [Requests -> Request]

(* Nothing is booked when the model starts: the stock of an event is what  *)
(* createDraft, or the seed, has stored.                                   *)
ASSUME StockOfInitialEvents ==
    \A e \in Events : InitialEvents[e] # None => InitialEvents[e].available = InitialEvents[e].capacity

(* CreateOrganizerEventDto requires every field; only an edit leaves some  *)
(* out.                                                                    *)
ASSUME CreatesAreComplete ==
    \A script \in Scripts : \A p \in Requests :
        script[p].op = "create" =>
            None \notin {script[p].startsAt, script[p].endsAt, script[p].details, script[p].capacity}
=============================================================================
