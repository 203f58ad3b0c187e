--------------------------- MODULE OrganizerStudio ---------------------------
(***************************************************************************)
(* OrganizerStudio, the page of the organizer: the list of own events with *)
(* its filter, the event opened with the form to edit it, and the drafts   *)
(* made from the catalog.  Its handlers overlap: each keeps `busy` to      *)
(* itself until it ends, and ends that of the others.  The API serves a    *)
(* call in one step, before or after others; its answer comes later, or is *)
(* lost.  What it would still do for a call after that, or after the page  *)
(* is left, is left out: a late save stores its event's own form, and a    *)
(* late publication publishes, neither of which takes back what the page   *)
(* was told.                                                               *)
(***************************************************************************)
EXTENDS Tab

VARIABLE ownEvents    \* the organizer's events at the API

Stored == [status : {"DRAFT", "PUBLISHED"},
           filledFrom : Events]    \* whose form the stored values were typed into
Opened == [id : Events, status : {"DRAFT", "PUBLISHED"}]

StudioPage == [name : {"studio"}, booting : BOOLEAN, token : BOOLEAN,
               eventsLoading : BOOLEAN,
               workspaceMode : {"catalog", "event"},
               selectedEvent : Opened \cup {None}, editForm : Events \cup {None},
               selectedMovie : BOOLEAN,
               busy : {Empty, "login", "catalog", "create", "event", "save", "publish"},
               published : Events \cup {None}]    \* the notice "Evento publicado."

NoEvents == [e \in Events |-> None]

-----------------------------------------------------------------------------
(* The API                                                                 *)

StudioServed(c) ==
    CASE c.op = "detail" -> {<<ownEvents, [id |-> c.about.event, status |-> ownEvents[c.about.event].status]>>}
      [] c.op = "create" ->
           {<<[ownEvents EXCEPT ![e] = [status |-> "DRAFT", filledFrom |-> e]], e>> :
               e \in {d \in Events : ownEvents[d] = None}}
      [] c.op = "save" ->
           IF ownEvents[c.about.event].status = "DRAFT"
           THEN {<<[ownEvents EXCEPT ![c.about.event].filledFrom = c.about.form], "OK">>} ELSE {}
      [] c.op = "publish" ->
           {<<[ownEvents EXCEPT ![c.about.event].status = "PUBLISHED"], "OK">>}

Answered(c, answer) == calls' = (calls \ {c}) \cup {[c EXCEPT !.answer = answer]}

(* A refusal and a lost answer are the same to this page.                  *)
ServeStudio(c) ==
    /\ On("studio") /\ c.answer = None /\ c.op \in {"detail", "create", "save", "publish"}
    /\ \/ \E s \in StudioServed(c) :
            ownEvents' = s[1] /\ (Answered(c, s[2]) \/ Answered(c, Failed))
       \/ UNCHANGED ownEvents /\ Answered(c, Failed)
    /\ UNCHANGED page

-----------------------------------------------------------------------------
(* The session and the list                                                *)

StudioMounted(token) ==
    [name |-> "studio", booting |-> token, token |-> FALSE,
     eventsLoading |-> FALSE, workspaceMode |-> "catalog",
     selectedEvent |-> None, editForm |-> None,
     selectedMovie |-> FALSE, busy |-> Empty, published |-> None]

(* What a call is about: its event, the form saved to it, and the handler  *)
(* that goes on with its answer                                            *)
About(event, for, form) == [event |-> event, for |-> for, form |-> form]
Begins(p, call) == page' = p /\ calls' = calls \cup {call} /\ UNCHANGED ownEvents
Shows(p) == page' = p /\ UNCHANGED <<calls, ownEvents>>

OpenStudio ==
    /\ page = Elsewhere
    /\ \E token \in BOOLEAN :
         /\ page' = StudioMounted(token)
         /\ calls' = IF token THEN {Call("boot", About(None, Empty, None))} ELSE {}
    /\ ownEvents' \in {[e \in Events |-> IF e \in own THEN [status |-> "DRAFT", filledFrom |-> e]
                                                     ELSE None] : own \in SUBSET Events}

LeaveStudio ==
    /\ On("studio")
    /\ page' = Elsewhere /\ calls' = {} /\ ownEvents' = NoEvents

Booted(c) ==
    /\ c.op = "boot" /\ calls' = calls \ {c}
    /\ \E organizer \in BOOLEAN : page' = [page EXCEPT !.booting = FALSE, !.token = organizer]

SubmitStudioLogin ==
    /\ On("studio") /\ ~page.booting /\ ~page.token /\ page.busy # "login" /\ CanCall
    /\ Begins([page EXCEPT !.busy = "login"], Call("login", About(None, "login", None)))

(* refreshEvents, called by a handler with the filter of its closure       *)
Refresh(c) == [c EXCEPT !.op = "list", !.answer = None]

StudioLoginAnswered(c) ==
    /\ c.op = "login"
    /\ \/ /\ page' = [page EXCEPT !.token = TRUE, !.eventsLoading = TRUE]
          /\ calls' = (calls \ {c}) \cup {Refresh(c)}
       \/ page' = [page EXCEPT !.busy = Empty] /\ calls' = calls \ {c}

StudioLogout ==
    /\ On("studio") /\ page.token
    /\ Shows([page EXCEPT !.token = FALSE, !.selectedEvent = None,
                          !.selectedMovie = FALSE, !.published = None])

FilterEvents ==
    /\ On("studio") /\ page.token /\ ~page.eventsLoading /\ CanCall
    /\ Begins([page EXCEPT !.eventsLoading = TRUE], Call("list", About(None, "filter", None)))

-----------------------------------------------------------------------------
(* The catalog                                                             *)

InCatalog == On("studio") /\ page.token /\ page.workspaceMode = "catalog"

NewSession ==
    /\ On("studio") /\ page.token
    /\ Shows([page EXCEPT !.workspaceMode = "catalog", !.selectedEvent = None,
                          !.selectedMovie = FALSE, !.published = None])

LoadCatalog ==
    /\ InCatalog /\ page.busy # "catalog" /\ CanCall
    /\ Begins([page EXCEPT !.busy = "catalog", !.published = None, !.selectedMovie = FALSE],
              Call("catalog", About(None, Empty, None)))

CatalogAnswered(c) ==
    /\ c.op = "catalog" /\ calls' = calls \ {c}
    /\ page' = [page EXCEPT !.busy = Empty]

ChooseMovie ==
    /\ InCatalog /\ page.busy # "catalog"
    /\ Shows([page EXCEPT !.selectedMovie = TRUE, !.published = None])

CreateDraft ==
    /\ InCatalog /\ page.selectedMovie /\ page.busy # "create" /\ CanCall
    /\ Begins([page EXCEPT !.busy = "create", !.published = None], Call("create", About(None, "create", None)))

(* The list first, then the form is cleared and the draft opened           *)
Created(c) ==
    /\ c.op = "create"
    /\ \/ /\ c.answer \in Events
          /\ page' = [page EXCEPT !.eventsLoading = TRUE]
          /\ calls' = (calls \ {c}) \cup {[Refresh(c) EXCEPT !.about.event = c.answer]}
       \/ /\ c.answer = Failed
          /\ page' = [page EXCEPT !.busy = Empty] /\ calls' = calls \ {c}

-----------------------------------------------------------------------------
(* An event                                                                *)

(* openEvent, up to its call                                               *)
Opening(p) == [p EXCEPT !.workspaceMode = "event", !.busy = "event", !.published = None]

OpenEvent(e) ==
    /\ On("studio") /\ page.token /\ ~page.eventsLoading /\ ownEvents[e] # None /\ CanCall
    /\ Begins(Opening(page), Call("detail", About(e, Empty, None)))

Editable ==
    /\ On("studio") /\ page.token /\ page.workspaceMode = "event"
    /\ page.selectedEvent # None /\ page.editForm # None /\ page.selectedEvent.status = "DRAFT"

(* saveDraft and publishEvent                                              *)
Submit(op) ==
    /\ Editable /\ page.busy # op /\ CanCall
    /\ Begins([page EXCEPT !.busy = op, !.published = None],
              Call(op, About(page.selectedEvent.id, op, IF op = "save" THEN page.editForm ELSE None)))

(* Mutant of Submitted: a refusal goes the way of success                  *)
SubmittedAnyway(c) ==
    /\ c.op \in {"save", "publish"} /\ c.answer # None
    /\ page' = [Opening(page) EXCEPT !.eventsLoading = TRUE]
    /\ calls' = (calls \ {c}) \cup {Refresh(c), [c EXCEPT !.op = "detail", !.answer = None]}

(* The event is opened again and the list refreshed, both at once.         *)
Submitted(c) ==
    /\ c.op \in {"save", "publish"}
    /\ \/ /\ c.answer = "OK"
          /\ page' = [Opening(page) EXCEPT !.eventsLoading = TRUE]
          /\ calls' = (calls \ {c}) \cup {Refresh(c), [c EXCEPT !.op = "detail", !.answer = None]}
       \/ /\ c.answer = Failed
          /\ page' = [page EXCEPT !.busy = Empty] /\ calls' = calls \ {c}

(* Promise.all is fulfilled with the second of the two.                    *)
Pair(c, d) == c.n = d.n /\ c.about = d.about /\ {c.op, d.op} = {"list", "detail"}

Done(p, c) ==
    IF c.about.for \in {"save", "publish"} /\ \A d \in calls \ {c} : ~Pair(c, d)
    THEN [p EXCEPT !.busy = Empty, !.published = IF c.about.for = "publish" THEN c.about.event ELSE None]
    ELSE p

(* Mutant of OpenedAnswered: the form keeps what was typed                 *)
DetailKeepsForm(c) ==
    /\ c.op = "detail" /\ c.answer # None /\ calls' = calls \ {c}
    /\ LET p == [page EXCEPT !.busy = Empty] IN
       page' = Done(IF c.answer = Failed THEN p
                    ELSE [p EXCEPT !.selectedEvent = c.answer,
                                   !.editForm = IF @ = None THEN c.answer.id ELSE @], c)

OpenedAnswered(c) ==
    /\ c.op = "detail" /\ c.answer # None /\ calls' = calls \ {c}
    /\ LET p == [page EXCEPT !.busy = Empty] IN
       page' = Done(IF c.answer = Failed THEN p
                    ELSE [p EXCEPT !.selectedEvent = c.answer, !.editForm = c.answer.id], c)

(* Mutant of ListRefreshed: no finally                                     *)
ListRefreshedIfWell(c) ==
    /\ c.op = "list" /\ calls' = calls \ {c}
    /\ \/ page' = [page EXCEPT !.busy = Empty]
       \/ page' = Done([page EXCEPT !.eventsLoading = FALSE], c)

(* The end of refreshEvents, and what follows in the handler: a failure    *)
(* ends it, and leaves the event that it opens to itself.                  *)
ListRefreshed(c) ==
    /\ c.op = "list"
    /\ LET p == [page EXCEPT !.eventsLoading = FALSE]
           rest == calls \ {c}
           alone(d) == [Call("detail", [d.about EXCEPT !.for = Empty]) EXCEPT !.answer = d.answer] IN
       \/ /\ page' = [p EXCEPT !.busy = IF c.about.for = "filter" THEN @ ELSE Empty]
          /\ calls' = {IF Pair(c, d) THEN alone(d) ELSE d : d \in rest}
       \/ /\ c.about.for = "create"
          /\ page' = Opening([p EXCEPT !.selectedMovie = FALSE])
          /\ calls' = rest \cup {[c EXCEPT !.op = "detail"]}
       \/ /\ c.about.for = "login"
          /\ page' = [p EXCEPT !.busy = Empty] /\ calls' = rest
       \/ /\ c.about.for \notin {"create", "login"}
          /\ page' = Done(p, c) /\ calls' = rest

-----------------------------------------------------------------------------
StudioAnswer(c) ==
    /\ On("studio")
    /\ \/ Booted(c) \/ StudioLoginAnswered(c) \/ CatalogAnswered(c) \/ Created(c)
       \/ Submitted(c) \/ OpenedAnswered(c) \/ ListRefreshed(c)
    /\ UNCHANGED ownEvents

StudioNext ==
    \/ OpenStudio \/ LeaveStudio \/ SubmitStudioLogin \/ StudioLogout
    \/ NewSession \/ LoadCatalog \/ ChooseMovie \/ CreateDraft
    \/ FilterEvents \/ (\E e \in Events : OpenEvent(e))
    \/ (\E op \in {"save", "publish"} : Submit(op))
    \/ \E c \in calls : ServeStudio(c) \/ StudioAnswer(c)

-----------------------------------------------------------------------------
(* Whatever events are opened while others are saved, an event is only     *)
(* ever saved with the values of its own form.                             *)
FormsStayWithEvents ==
    \A e \in Events : ownEvents[e] # None => ownEvents[e].filledFrom = e

(* Who reads that an event was published finds it so at the API, whatever  *)
(* handlers have overlapped and whatever answers were lost.                *)
NoticeIsTrue ==
    On("studio") /\ page.published # None => ownEvents[page.published].status = "PUBLISHED"

(* The list comes back: no failure leaves it loading, with its filter      *)
(* disabled.                                                               *)
ListComesBack ==
    (On("studio") /\ page.eventsLoading) ~> ~(On("studio") /\ page.eventsLoading)

-----------------------------------------------------------------------------
(* Why these hold: what the calls of the page are about is there, a form   *)
(* is saved where it was opened, and a handler that publishes goes on only *)
(* once the event is published.                                            *)
Exists(e) == e \in Events /\ ownEvents[e] # None
IsPublished(e) == Exists(e) /\ ownEvents[e].status = "PUBLISHED"

StudioCall(c) ==
    /\ c = [n |-> c.n, op |-> c.op, about |-> About(c.about.event, c.about.for, c.about.form),
            answer |-> c.answer]
    /\ c.op \in {"boot", "login", "list", "catalog", "create", "detail", "save", "publish"}
    /\ c.op \in {"login", "create", "save", "publish"} => c.about.for = c.op
    /\ c.about.for = "publish" => c.op \in {"publish", "list", "detail"}
    /\ c.about.for = "publish" /\ (c.op = "publish" => c.answer = "OK") => IsPublished(c.about.event)
    /\ c.op \in {"detail", "save", "publish"} => Exists(c.about.event)
    /\ c.op = "save" => c.about.form = c.about.event
    /\ c.op = "create" /\ c.answer \in Events => Exists(c.answer)
    /\ c.op = "list" => c.answer = None /\ (c.about.for = "create" => Exists(c.about.event))
    /\ c.op = "detail" =>
         c.answer \in {None, Failed} \/ (c.answer \in Opened /\ Exists(c.answer.id))

PageOfStudio(p) ==
    /\ p \in StudioPage
    /\ p.selectedEvent # None => p.editForm = p.selectedEvent.id /\ Exists(p.selectedEvent.id)
    /\ p.published # None => IsPublished(p.published)

StudioFits ==
    On("studio") =>
        /\ PageOfStudio(page)
        /\ ownEvents \in [Events -> Stored \cup {None}]
        /\ \A c \in calls : StudioCall(c)

ASSUME NoneIsNoEvent == None \notin Stored
=============================================================================
