------------------------------ MODULE Organizer ------------------------------
(***************************************************************************)
(* EventsService: drafts are created, edited and published, while          *)
(* customers book what is published.                                       *)
(***************************************************************************)
EXTENDS Catalog

Begins(p, op) ==
    /\ pc[p] = "idle" /\ req[p].op = op
    /\ began' = [began EXCEPT ![p] = clock]

Reads(p) == UNCHANGED <<clock, events, booked, req, timer, began, failures>>

(* assertSchedule *)
GoodSchedule(startsAt, endsAt, zone, time) == zone /\ startsAt > time /\ endsAt > startsAt

(* events_schedule_check, the CHECK of the table                           *)
Storable(row) == row.endsAt > row.startsAt

(* findOwnedEvent *)
NotOwned(p) ==
    IF events[req[p].event] = None THEN "EVENT_NOT_FOUND" ELSE "FORBIDDEN"
Owns(p) == events[req[p].event] # None /\ events[req[p].event].owner = req[p].user

-----------------------------------------------------------------------------
(* createDraft: the schedule is checked before the catalog is asked.       *)
CreateBegins(p) ==
    /\ Begins(p, "create")
    /\ IF GoodSchedule(req[p].startsAt, req[p].endsAt, req[p].zone, clock)
       THEN CallTmdb(p)
       ELSE Answer(p, "INVALID_EVENT_SCHEDULE") /\ UNCHANGED timer
    /\ UNCHANGED <<clock, events, booked, req, failures>>

Insert(p) ==
    /\ pc[p] = "insert"
    /\ \E e \in Events :
         /\ events[e] = None
         /\ events' = [events EXCEPT ![e] =
              [owner |-> req[p].user, startsAt |-> req[p].startsAt, endsAt |-> req[p].endsAt,
               details |-> req[p].details, capacity |-> req[p].capacity,
               available |-> req[p].capacity, status |-> "DRAFT"]]
    /\ Deliver(p, "DRAFT")
    /\ UNCHANGED <<clock, booked, req, timer, began>>

-----------------------------------------------------------------------------
(* updateDraft *)
EditBegins(p) ==
    /\ Begins(p, "edit")
    /\ Proceed(p, "editRead")
    /\ UNCHANGED <<clock, events, booked, req, timer, failures>>

Or(given, current) == IF given = None THEN current ELSE given

(* The row is read, and the schedule it would have with the edit checked.  *)
EditRead(p) ==
    /\ pc[p] = "editRead"
    /\ LET row == events[req[p].event]
           good == GoodSchedule(Or(req[p].startsAt, row.startsAt),
                                Or(req[p].endsAt, row.endsAt), req[p].zone, clock) IN
       \/ ~Owns(p) /\ Answer(p, NotOwned(p))
       \/ Owns(p) /\ row.status # "DRAFT" /\ Answer(p, "EVENT_NOT_EDITABLE")
       \/ Owns(p) /\ row.status = "DRAFT" /\ ~good /\ Answer(p, "INVALID_EVENT_SCHEDULE")
       \/ Owns(p) /\ row.status = "DRAFT" /\ good /\ Proceed(p, "editWrite")
    /\ Reads(p)

(* Mutant of Edited: a field that is not given is written all the same     *)
EditedNull(row, r) ==
    [row EXCEPT !.startsAt = Or(r.startsAt, @), !.endsAt = Or(r.endsAt, @),
                !.details = r.details, !.capacity = Or(r.capacity, @),
                !.available = Or(r.capacity, @)]

(* Mutant of Edited: the dates are both written, one that is not given as  *)
(* the form had it when it was first filled in                             *)
EditedAll(row, r) ==
    [row EXCEPT !.startsAt = Or(r.startsAt, InitialEvents[r.event].startsAt),
                !.endsAt = Or(r.endsAt, InitialEvents[r.event].endsAt),
                !.details = Or(r.details, @), !.capacity = Or(r.capacity, @),
                !.available = Or(r.capacity, @)]

Edited(row, r) ==
    [row EXCEPT !.startsAt = Or(r.startsAt, @), !.endsAt = Or(r.endsAt, @),
                !.details = Or(r.details, @), !.capacity = Or(r.capacity, @),
                !.available = Or(r.capacity, @)]

(* Mutant of EditWrite: the update goes by identifier and owner            *)
EditWriteAnyway(p) ==
    /\ pc[p] = "editWrite"
    /\ events' = [events EXCEPT ![req[p].event] = Edited(@, req[p])]
    /\ Proceed(p, "editReread")
    /\ UNCHANGED <<clock, booked, req, timer, began, failures>>

(* The conditional update, of the fields that were given                   *)
EditWrite(p) ==
    /\ pc[p] = "editWrite"
    /\ LET e == req[p].event
           new == Edited(events[e], req[p]) IN
       \/ /\ events[e].status = "DRAFT" /\ Storable(new)
          /\ events' = [events EXCEPT ![e] = new]
          /\ Proceed(p, "editReread")
       \/ /\ events[e].status = "DRAFT" /\ ~Storable(new)
          /\ Answer(p, "INTERNAL_ERROR") /\ UNCHANGED events
       \/ /\ events[e].status # "DRAFT"
          /\ Answer(p, "EVENT_NOT_EDITABLE") /\ UNCHANGED events
    /\ UNCHANGED <<clock, booked, req, timer, began, failures>>

(* The response is the row as it is by now.                                *)
EditReread(p) ==
    /\ pc[p] = "editReread"
    /\ Answer(p, events[req[p].event].status)
    /\ Reads(p)

-----------------------------------------------------------------------------
(* publish *)
PublishBegins(p) ==
    /\ Begins(p, "publish")
    /\ Proceed(p, "publishRead")
    /\ UNCHANGED <<clock, events, booked, req, timer, failures>>

(* The row is read; a draft must be complete, as a stored one is, and have *)
(* a good schedule.                                                        *)
PublishRead(p) ==
    /\ pc[p] = "publishRead"
    /\ LET row == events[req[p].event]
           good == GoodSchedule(row.startsAt, row.endsAt, TRUE, clock) IN
       \/ ~Owns(p) /\ Answer(p, NotOwned(p))
       \/ Owns(p) /\ row.status = "PUBLISHED" /\ Answer(p, "PUBLISHED")
       \/ Owns(p) /\ row.status = "DRAFT" /\ ~good /\ Answer(p, "INVALID_EVENT_SCHEDULE")
       \/ Owns(p) /\ row.status = "DRAFT" /\ good /\ Proceed(p, "publishWrite")
    /\ Reads(p)

(* Mutant of PublishWrite: by identifier and owner, opening the sale again *)
PublishWriteReopens(p) ==
    /\ pc[p] = "publishWrite"
    /\ LET e == req[p].event IN
       events' = [events EXCEPT ![e].status = "PUBLISHED",
                                ![e].available = events[e].capacity]
    /\ changed' = [changed EXCEPT ![p] = TRUE]
    /\ Goto(p, "publishReread")
    /\ UNCHANGED <<clock, booked, req, timer, began, reply, failures>>

(* The conditional update: it finds a draft, or nothing                    *)
PublishWrite(p) ==
    /\ pc[p] = "publishWrite"
    /\ LET e == req[p].event
           draft == events[e].status = "DRAFT" IN
       /\ events' = IF draft THEN [events EXCEPT ![e].status = "PUBLISHED"] ELSE events
       /\ changed' = [changed EXCEPT ![p] = draft]
    /\ Goto(p, "publishReread")
    /\ UNCHANGED <<clock, booked, req, timer, began, reply, failures>>

PublishReread(p) ==
    /\ pc[p] = "publishReread"
    /\ LET status == events[req[p].event].status IN
       Answer(p, IF ~changed[p] /\ status # "PUBLISHED" THEN "EVENT_NOT_PUBLISHABLE"
                                                        ELSE status)
    /\ Reads(p)

-----------------------------------------------------------------------------
(* ReservationsService.create as the ticket office sees it, one step: only *)
(* what is published, in the future and there                              *)
Reserve(p) ==
    /\ Begins(p, "reserve")
    /\ LET e == req[p].event
           n == req[p].quantity IN
       \/ /\ events[e] # None
          /\ events[e].status = "PUBLISHED" /\ events[e].startsAt > clock
          /\ events[e].available >= n
          /\ events' = [events EXCEPT ![e].available = @ - n]
          /\ booked' = [booked EXCEPT ![e] = @ + n]
          /\ Deliver(p, "RESERVED")
       \/ /\ \/ events[e] = None
             \/ events[e].status # "PUBLISHED" \/ events[e].startsAt <= clock
             \/ events[e].available < n
          /\ Answer(p, "EVENT_NOT_AVAILABLE")
          /\ UNCHANGED <<events, booked, failures>>
    /\ UNCHANGED <<clock, req, timer>>

Managing(p) ==
    \/ CreateBegins(p) \/ Insert(p)
    \/ EditBegins(p) \/ EditRead(p) \/ EditWrite(p) \/ EditReread(p)
    \/ PublishBegins(p) \/ PublishRead(p) \/ PublishWrite(p) \/ PublishReread(p)
=============================================================================
