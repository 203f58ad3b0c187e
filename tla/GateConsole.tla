---------------------------- MODULE GateConsole -----------------------------
(***************************************************************************)
(* GateConsole, the page of the operator at the door: the session, the     *)
(* event fixed, the codes sent for validation, and the camera with its     *)
(* attempts to start.  The camera library (ZXing over getUserMedia) is     *)
(* modelled from how the page uses it: an attempt obtains a stream and     *)
(* attaches it to the video element that it was given, decodes frames from *)
(* then on, and only later returns the controls that stop it.              *)
(***************************************************************************)
EXTENDS Tab

CONSTANTS
    MaxStarts,        \* bound: how many attempts to start the camera overlap
    MaxUnderWay       \* bound: how many calls and attempts do

VARIABLE cameras      \* the attempts to start the camera

Camera == [n : 1..MaxStarts,
           phase : {"asking", "attached", "returned", "failed"},
           event : Events,    \* the closure's selectedEvent
           deaf : BOOLEAN,    \* whether the closure's busy is 'validate'
           here : BOOLEAN,    \* its video element is the one on the screen
           live : BOOLEAN,    \* its stream films
           late : BOOLEAN,    \* the 8 seconds are over
           alone : BOOLEAN]   \* no attempt before it was still under way

GatePage == [name : {"gate"}, token : BOOLEAN, events : SUBSET Events,
             selectedEvent : Events \cup {None},
             result : Events \cup {None},    \* the event it was asked for
             camera : {"idle", "starting", "scanning", "error"},
             busy : {Empty, "events", "login", "validate"},
             scanLocked : BOOLEAN,
             attempt : 0..MaxStarts,    \* cameraAttempt, 0 when it has gone on
             controls : 0..MaxStarts,   \* scannerControls: whose they are
             video : 0..MaxStarts]      \* whose stream the element shows

ShowsVideo(p) ==
    p.name = "gate" /\ p.token /\ p.selectedEvent # None /\ p.result = None

(* The next state on the screen, where the video element comes and goes.   *)
(* An attempt that is over and that no ref is about is forgotten.          *)
Render(p, cams) ==
    LET refs(q) == IF q.name = "gate" THEN {q.attempt, q.controls, q.video} ELSE {}
        over(c) == c.phase \in {"returned", "failed"} /\ ~c.live IN
    /\ page' = IF p.name # "gate" \/ ShowsVideo(p) THEN p ELSE [p EXCEPT !.video = 0]
    /\ cameras' = {[c EXCEPT !.here = @ /\ ShowsVideo(p)] :
                      c \in {d \in cams : over(d) => d.n \in refs(page')}}

-----------------------------------------------------------------------------
(* The camera                                                              *)

CanAsk == CanCall /\ Cardinality(calls \cup cameras) < MaxUnderWay

Off(ns, cams) == {[c EXCEPT !.live = @ /\ c.n \notin ns] : c \in cams}

(* controls.stop(): the stream ends and its element is cleared, whatever   *)
(* it shows by then                                                        *)
VideoAfter(n) == IF \E c \in cameras : c.n = n /\ c.here THEN 0 ELSE page.video

(* stopCamera                                                              *)
CamerasStopped == Off({page.controls, VideoAfter(page.controls)}, cameras)
Stopped == [page EXCEPT !.attempt = 0, !.controls = 0, !.video = 0, !.camera = "idle"]

StartCamera ==
    /\ On("gate") /\ ShowsVideo(page) /\ page.camera \notin {"starting", "scanning"}
    /\ \E n \in 1..MaxStarts :
         /\ \A c \in cameras : c.n # n
         /\ Cardinality(calls \cup cameras) < MaxUnderWay
         /\ Render([page EXCEPT !.camera = "starting", !.scanLocked = FALSE, !.attempt = n],
                   cameras \cup
                     {[n |-> n, phase |-> "asking", event |-> page.selectedEvent,
                       deaf |-> page.busy = "validate", here |-> TRUE, live |-> FALSE,
                       late |-> FALSE, alone |-> \A c \in cameras : c.phase \in {"returned", "failed"}]})
    /\ UNCHANGED calls

Becomes(c, phase, live) ==
    (cameras \ {c}) \cup {[c EXCEPT !.phase = phase, !.live = live]}

(* getUserMedia obtains a stream, which the library attaches.              *)
Granted(c) ==
    /\ c.phase = "asking"
    /\ Render(IF c.here THEN [page EXCEPT !.video = c.n] ELSE page, Becomes(c, "attached", TRUE))
    /\ UNCHANGED calls

(* The catch block of startCamera, for whichever attempt it runs: 'denied' *)
(* is an error with a text of its own.                                     *)
GiveUp(cams) ==
    Render(IF On("gate") THEN [page EXCEPT !.attempt = 0, !.camera = "error"] ELSE page,
           Off(1..MaxStarts, cams))

(* The library rejects: no permission, no device, or a video that will not *)
(* play, whose stream it ends.                                             *)
Refused(c) ==
    /\ c.phase \in {"asking", "attached"}
    /\ \/ ~c.late /\ GiveUp(Becomes(c, "failed", FALSE))
       \/ c.late /\ Render(page, Becomes(c, "failed", FALSE))
    /\ UNCHANGED calls

(* Mutant of TimesOut: the race is lost without a word                     *)
TimesOutUnheard(c) ==
    /\ c.phase \in {"asking", "attached"} /\ ~c.late
    /\ Render(page, (cameras \ {c}) \cup {[c EXCEPT !.late = TRUE]})
    /\ UNCHANGED calls

(* The 8 seconds pass first: the library goes on by itself.                *)
TimesOut(c) ==
    /\ c.phase \in {"asking", "attached"} /\ ~c.late
    /\ GiveUp((cameras \ {c}) \cup {[c EXCEPT !.late = TRUE]})
    /\ UNCHANGED calls

(* Mutant of Returned: an attempt that is not current any more goes on     *)
ReturnedAnyway(c) ==
    /\ c.phase = "attached"
    /\ LET stops == ~c.late /\ On("gate") /\ page.scanLocked
           p == IF stops /\ c.here THEN [page EXCEPT !.video = 0] ELSE page IN
       Render(CASE ~On("gate") \/ c.late -> p
                [] On("gate") /\ ~c.late /\ stops -> [p EXCEPT !.controls = c.n]
                [] OTHER -> [p EXCEPT !.controls = c.n, !.camera = "scanning"],
              Becomes(c, "returned", c.live /\ ~stops))
    /\ UNCHANGED calls

(* The library returns the controls: an attempt that is not current any    *)
(* more is stopped, but after the 8 seconds only the first handler runs.   *)
Returned(c) ==
    /\ c.phase = "attached"
    /\ LET current == On("gate") /\ page.attempt = c.n
           stops == ~current \/ (~c.late /\ page.scanLocked)
           p == IF stops /\ c.here THEN [page EXCEPT !.video = 0] ELSE page IN
       Render(CASE ~On("gate") \/ c.late -> p
                [] On("gate") /\ ~c.late /\ stops -> [p EXCEPT !.controls = c.n]
                [] OTHER -> [p EXCEPT !.controls = c.n, !.camera = "scanning"],
              Becomes(c, "returned", c.live /\ ~stops))
    /\ UNCHANGED calls

Sent(event) == calls' = calls \cup {Call("validate", event)}

(* Mutant of Decoded: whichever attempt is current                         *)
DecodedOfAny(c) ==
    /\ On("gate") /\ c.live /\ c.phase \in {"attached", "returned"}
    /\ c.here => page.video # 0
    /\ ~page.scanLocked /\ ~c.deaf /\ CanCall
    /\ Render([Stopped EXCEPT !.scanLocked = TRUE, !.busy = "validate"], CamerasStopped)
    /\ Sent(c.event)

(* The decode callback, with the validateCode of its closure.              *)
Decoded(c) ==
    /\ On("gate") /\ c.live /\ c.phase \in {"attached", "returned"}
    /\ c.here => page.video # 0
    /\ ~page.scanLocked /\ page.attempt = c.n
    /\ \/ /\ c.deaf
          /\ Render([page EXCEPT !.scanLocked = TRUE, !.video = VideoAfter(page.controls)],
                    Off({page.controls}, cameras))
          /\ UNCHANGED calls
       \/ /\ ~c.deaf /\ CanCall
          /\ Render([Stopped EXCEPT !.scanLocked = TRUE, !.busy = "validate"], CamerasStopped)
          /\ Sent(c.event)

StopCamera ==
    /\ On("gate") /\ ShowsVideo(page) /\ page.camera = "scanning"
    /\ Render(Stopped, CamerasStopped)
    /\ UNCHANGED calls

-----------------------------------------------------------------------------
(* The session, the events and the codes                                   *)

GateMounted(token) ==
    [name |-> "gate", token |-> token, events |-> {}, selectedEvent |-> None, result |-> None,
     camera |-> "idle", busy |-> IF token THEN "events" ELSE Empty, scanLocked |-> FALSE,
     attempt |-> 0, controls |-> 0, video |-> 0]

(* The page opens, with or without a token of an earlier visit, once the   *)
(* camera of that visit is over (a bound).                                 *)
OpenGate ==
    /\ page = Elsewhere /\ cameras = {}
    /\ \E token \in BOOLEAN :
         /\ page' = GateMounted(token)
         /\ calls' = IF token THEN {Call("events", None)} ELSE {}
    /\ UNCHANGED cameras

(* The cleanup stops what the controls stop: the video element is gone.    *)
LeaveGate ==
    /\ On("gate")
    /\ Render(Elsewhere, Off({page.controls}, cameras))
    /\ calls' = {}

SubmitGateLogin ==
    /\ On("gate") /\ ~page.token /\ page.busy # "login" /\ CanAsk
    /\ page' = [page EXCEPT !.busy = "login"]
    /\ calls' = calls \cup {Call("login", None)}
    /\ UNCHANGED cameras

GateLoginAnswered(c) ==
    /\ c.op = "login"
    /\ \/ /\ Render([page EXCEPT !.token = TRUE, !.busy = "events"], cameras)
          /\ calls' = (calls \ {c}) \cup {Call("events", None)}
       \/ /\ page' = [page EXCEPT !.busy = Empty]
          /\ calls' = calls \ {c} /\ UNCHANGED cameras

SearchEvents ==
    /\ On("gate") /\ page.token /\ page.selectedEvent = None /\ page.busy # "events" /\ CanAsk
    /\ page' = [page EXCEPT !.busy = "events"]
    /\ calls' = calls \cup {Call("events", None)}
    /\ UNCHANGED cameras

SessionOver(p) == [p EXCEPT !.token = FALSE, !.selectedEvent = None]

(* Whatever the search, all events are found: one that is not could only   *)
(* not be chosen.                                                          *)
EventsAnswered(c) ==
    /\ c.op = "events" /\ calls' = calls \ {c}
    /\ \E p \in {[page EXCEPT !.events = Events], SessionOver(page), page} :
         Render([p EXCEPT !.busy = Empty], cameras)

Offered(event) == page.busy # "events" /\ event \in page.events

SelectEvent(event) ==
    /\ On("gate") /\ page.token /\ page.selectedEvent = None /\ Offered(event)
    /\ Render([Stopped EXCEPT !.selectedEvent = event, !.result = None], CamerasStopped)
    /\ UNCHANGED calls

SubmitCode ==
    /\ On("gate") /\ ShowsVideo(page) /\ page.busy # "validate" /\ CanAsk
    /\ Render([Stopped EXCEPT !.busy = "validate"], CamerasStopped)
    /\ Sent(page.selectedEvent)

ValidationAnswered(c) ==
    /\ c.op = "validate" /\ calls' = calls \ {c}
    /\ \E p \in {[page EXCEPT !.result = c.about], SessionOver(page), page} :
         Render([p EXCEPT !.busy = Empty, !.scanLocked = FALSE], cameras)

NextValidation ==
    /\ On("gate") /\ page.token /\ page.selectedEvent # None /\ page.result # None
    /\ Render([page EXCEPT !.result = None, !.scanLocked = FALSE], cameras)
    /\ UNCHANGED calls

ChangeEvent ==
    /\ On("gate") /\ page.token /\ page.selectedEvent # None
    /\ Render([Stopped EXCEPT !.selectedEvent = None, !.result = None], CamerasStopped)
    /\ UNCHANGED calls

GateLogout ==
    /\ On("gate") /\ page.token
    /\ Render([SessionOver(Stopped) EXCEPT !.events = {}, !.result = None], CamerasStopped)
    /\ UNCHANGED calls

-----------------------------------------------------------------------------
Operator ==
    \/ OpenGate \/ LeaveGate \/ SubmitGateLogin \/ SearchEvents
    \/ (\E event \in Events : SelectEvent(event))
    \/ StartCamera \/ StopCamera \/ SubmitCode \/ NextValidation \/ ChangeEvent \/ GateLogout

GateAnswers ==
    \E c \in calls : On("gate") /\ (GateLoginAnswered(c) \/ EventsAnswered(c) \/ ValidationAnswered(c))

GateNext ==
    \/ Operator \/ GateAnswers
    \/ \E c \in cameras : Granted(c) \/ Refused(c) \/ TimesOut(c) \/ Returned(c) \/ Decoded(c)
-----------------------------------------------------------------------------
(* A scan is sent for the event that the operator had fixed when the       *)
(* camera was started, and no other is fixed when it is sent: a camera     *)
(* that outlives the choice of its event is not listened to.               *)
ScansStayInEvent ==
    [][\A c \in calls' \ calls :
           c.op = "validate" => page.selectedEvent \in {c.about, None}]_<<page, calls>>

(* The start of the camera ends, also when the browser goes on asking for  *)
(* permission: it films, it is given up, or the operator has gone on;      *)
(* unless it was started while a code was being validated.                 *)
Starting ==
    /\ On("gate") /\ page.camera = "starting"
    /\ \A c \in cameras : c.n = page.attempt => ~c.deaf

StartupEnds == Starting ~> ~Starting

(* A camera that is not wanted any more goes off, however late the browser *)
(* grants it, on the page or after it: if no earlier attempt was still     *)
(* under way when it was started.                                          *)
Unwanted(n) ==
    /\ ~(On("gate") /\ page.attempt = n)
    /\ \E c \in cameras : c.n = n /\ c.live /\ c.alone

CameraGoesOff == \A n \in 1..MaxStarts : Unwanted(n) ~> ~Unwanted(n)

(* The result on the screen is shown with the event selected: it is of a   *)
(* code sent for that event.                                               *)
ResultIsOfSelectedEvent ==
    On("gate") /\ page.result # None /\ page.selectedEvent # None =>
        page.result = page.selectedEvent

-----------------------------------------------------------------------------
(* Why scans stay in their event: an attempt to start the camera is        *)
(* current only until another event is chosen, and films for nobody on     *)
(* another page.                                                           *)
GateFits ==
    /\ cameras \subseteq Camera
    /\ \A c, d \in cameras : c.n = d.n => c = d
    /\ ~On("gate") => \A c \in cameras : ~c.here
    /\ On("gate") =>
         /\ page \in GatePage
         /\ \A c \in cameras : c.n = page.attempt => page.selectedEvent \in {c.event, None}
         /\ \A c \in calls : c.op \in {"login", "events", "validate"}
         /\ \A c \in calls : c.op = "validate" => c.about \in Events

ASSUME BoundsOfTheGate == MaxStarts \in Nat \ {0}
=============================================================================
