------------------------------ MODULE Programme ------------------------------
(***************************************************************************)
(* The organizers at work: events are drafted from the catalog, edited,    *)
(* published and booked by requests that interleave, while time passes,    *)
(* TMDB answers or not, and statements fail.                               *)
(***************************************************************************)
EXTENDS Organizer

CONSTANT MaxClock    \* bound: the last instant a behaviour reaches

Tick ==
    /\ clock < MaxClock
    /\ clock' = clock + 1
    /\ UNCHANGED <<events, booked, pc, req, changed, timer, began, reply, failures>>

(* A statement fails, or its connection or instance is lost: each is its   *)
(* own transaction here, so what earlier ones wrote stays.                 *)
Fail(p) ==
    /\ pc[p] \notin {"idle", "fetch", "body", "done"}
    /\ failures < MaxFailures
    /\ failures' = failures + 1
    /\ Answer(p, "INTERNAL_ERROR")
    /\ UNCHANGED <<clock, events, booked, req, timer, began>>

Step(p) == Calling(p) \/ Managing(p) \/ Reserve(p)

Init ==
    /\ clock = 0
    /\ events = InitialEvents
    /\ booked = [e \in Events |-> 0]
    /\ pc = [p \in Requests |-> "idle"]
    /\ req \in Scripts
    /\ changed = [p \in Requests |-> FALSE]
    /\ timer = [p \in Requests |-> "off"]
    /\ began = [p \in Requests |-> 0]
    /\ reply = [p \in Requests |-> None]
    /\ failures = 0

Next == Tick \/ \E p \in Requests : Step(p) \/ Tmdb(p) \/ TimerFires(p) \/ Fail(p)

Spec == Init /\ [][Next]_vars

(* The event loop runs handlers and timers; TMDB owes nobody an answer.    *)
FairSpec == Spec /\ \A p \in Requests : WF_vars(Step(p)) /\ WF_vars(TimerFires(p))

-----------------------------------------------------------------------------
TypeOK ==
    /\ clock \in Nat
    /\ events \in [Events -> Row \cup {None}]
    /\ booked \in [Events -> Nat]
    /\ pc \in [Requests -> Labels]
    /\ req \in [Requests -> Request]
    /\ changed \in [Requests -> BOOLEAN]
    /\ timer \in [Requests -> {"off", "set", "fired"}]
    /\ began \in [Requests -> Nat]
    /\ reply \in [Requests -> Codes \cup {None}]
    /\ failures \in Nat

(* What customers can book is what they saw: no edit that was checked      *)
(* while the event was a draft, and no second publication, changes an      *)
(* event once it is published; only its stock moves.  This is what lets    *)
(* module Checkout take capacity, start and status for constants.          *)
PublishedFrozen ==
    [][\A e \in Events :
         events[e] # None /\ events[e].status = "PUBLISHED" =>
             events'[e] = [events[e] EXCEPT !.available = events'[e].available]]_vars

(* Places booked and places left make up the capacity, whatever edits of   *)
(* the capacity and publications raced with the first bookings.            *)
StockIsWhole ==
    \A e \in Events : events[e] # None =>
        events[e].available >= 0 /\ events[e].available + booked[e] = events[e].capacity

(* An edit that was answered with the row is not undone by one that left   *)
(* the field alone: the field has its value or that of another edit.       *)
Accepted(p) == req[p].op = "edit" /\ reply[p] \in {"DRAFT", "PUBLISHED"}
Given(p, field) == req[p][field] # None

Fields == {"startsAt", "endsAt", "details", "capacity"}

Kept(p, field) ==
    \E q \in Requests :
        /\ req[q].op = "edit" /\ req[q].event = req[p].event
        /\ pc[q] # "idle" /\ Given(q, field)
        /\ events[req[p].event][field] = req[q][field]

NoEditIsUndone ==
    \A p \in Requests : Accepted(p) =>
        \A field \in Fields : Given(p, field) => Kept(p, field)

(* Every request is answered though TMDB may never respond, or stop in the *)
(* middle of a body: the timer covers both.                                *)
RequestsAnswered == \A p \in Requests : (pc[p] # "idle") ~> (pc[p] = "done")

(* docs/API_CONTRACT.md, publish: checks that the date is in the future.   *)
(* docs/ARCHITECTURE.md: its update is conditional so that no concurrent   *)
(* edit crosses the publication.                                           *)
PublishedInFuture ==
    [][\A p \in Requests :
         LET e == req[p].event IN
         pc[p] = "publishWrite" /\ events[e].status = "DRAFT"
             /\ events'[e].status = "PUBLISHED" /\ pc'[p] = "publishReread"
         => events'[e].startsAt > began[p]]_vars

(* docs/API_CONTRACT.md, PATCH of an event: a bad schedule is a 422; where *)
(* nothing fails no edit gets a 500.                                       *)
EditsAreExplained ==
    \A p \in Requests : req[p].op = "edit" => reply[p] # "INTERNAL_ERROR"

-----------------------------------------------------------------------------
(* Why these hold: an inductive invariant, of named parts                  *)

(* What a request is about fits the place that its handler has come to,    *)
(* and an event that it has found is there.                                *)
Serves(p) ==
    /\ pc[p] \in {"fetch", "body"} => req[p].op \in {"search", "create"}
    /\ pc[p] = "insert" => req[p].op = "create"
    /\ pc[p] \in {"editRead", "editWrite", "editReread"} => req[p].op = "edit"
    /\ pc[p] \in {"publishRead", "publishWrite", "publishReread"} => req[p].op = "publish"
    /\ pc[p] \in {"editWrite", "editReread", "publishWrite", "publishReread"} \/ Accepted(p) =>
          events[req[p].event] # None
    /\ reply[p] # None => pc[p] = "done"
    /\ req[p].op = "create" =>
          None \notin {req[p].startsAt, req[p].endsAt, req[p].details, req[p].capacity}

(* An edit that was written is kept, before its answer too.                *)
Keeps(p) ==
    pc[p] = "editReread" \/ Accepted(p) =>
        \A field \in Fields : Given(p, field) => Kept(p, field)

(* Nothing is booked of what is not published: an edit of the capacity,    *)
(* which overwrites the stock, finds all of it there.                      *)
BookedIfPublished ==
    \A e \in Events : events[e] = None \/ events[e].status = "DRAFT" => booked[e] = 0

IInv ==
    /\ TypeOK /\ StockIsWhole /\ BookedIfPublished
    /\ \A p \in Requests : Serves(p) /\ Keeps(p)
=============================================================================
