--------------------------- MODULE ProgrammeProofs ---------------------------
(***************************************************************************)
(* Proofs, for every set of requests, users and events, of what module     *)
(* Programme promises: the invariant IInv, and what it implies.            *)
(***************************************************************************)
EXTENDS Programme, TLAPS

-----------------------------------------------------------------------------
(* Types                                                                   *)

(* What the statements of a handler write                                  *)
LEMMA NewRow ==
    ASSUME TypeOK, NEW p \in Requests, Serves(p), req[p].op = "create"
    PROVE  [owner |-> req[p].user, startsAt |-> req[p].startsAt, endsAt |-> req[p].endsAt,
            details |-> req[p].details, capacity |-> req[p].capacity,
            available |-> req[p].capacity, status |-> "DRAFT"] \in Row
BY DEF TypeOK, Serves, Request, Row

LEMMA EditedRow ==
    ASSUME NEW row \in Row, NEW r \in Request
    PROVE  Edited(row, r) \in Row
<1>1. Edited(row, r) = [row EXCEPT !.startsAt = Or(r.startsAt, row.startsAt),
                                  !.endsAt = Or(r.endsAt, row.endsAt),
                                  !.details = Or(r.details, row.details),
                                  !.capacity = Or(r.capacity, row.capacity),
                                  !.available = Or(r.capacity, row.available)]
  BY DEF Edited, Row
<1>2. /\ Or(r.startsAt, row.startsAt) \in Int /\ Or(r.endsAt, row.endsAt) \in Int
      /\ Or(r.details, row.details) \in Details
      /\ Or(r.capacity, row.capacity) \in Nat \ {0} /\ Or(r.capacity, row.available) \in Int
  BY DEF Or, Row, Request
<1> QED
  BY <1>1, <1>2 DEF Row

LEMMA EditedFields ==
    ASSUME NEW row \in Row, NEW r \in Request
    PROVE  /\ Edited(row, r).status = row.status
           /\ Edited(row, r).capacity = Or(r.capacity, row.capacity)
           /\ Edited(row, r).available = Or(r.capacity, row.available)
           /\ \A field \in Fields : Edited(row, r)[field] = Or(r[field], row[field])
<1>1. /\ Edited(row, r).status = row.status
      /\ Edited(row, r).capacity = Or(r.capacity, row.capacity)
      /\ Edited(row, r).available = Or(r.capacity, row.available)
      /\ Edited(row, r).startsAt = Or(r.startsAt, row.startsAt)
      /\ Edited(row, r).endsAt = Or(r.endsAt, row.endsAt)
      /\ Edited(row, r).details = Or(r.details, row.details)
  BY DEF Edited, Row
<1>2. ASSUME NEW field \in Fields PROVE Edited(row, r)[field] = Or(r[field], row[field])
  <2>1. CASE field = "startsAt"
    BY <1>1, <2>1
  <2>2. CASE field = "endsAt"
    BY <1>1, <2>2
  <2>3. CASE field = "details"
    BY <1>1, <2>3
  <2>4. CASE field = "capacity"
    BY <1>1, <2>4
  <2> QED
    BY <2>1, <2>2, <2>3, <2>4 DEF Fields
<1> QED
  BY <1>1, <1>2

LEMMA AnswerTypes ==
    ASSUME TypeOK, NEW p \in Requests, NEW code \in Codes, Answer(p, code)
    PROVE  /\ pc' \in [Requests -> Labels] /\ reply' \in [Requests -> Codes \cup {None}]
           /\ changed' \in [Requests -> BOOLEAN]
BY DEF TypeOK, Answer, Goto, Labels

LEMMA DeliverTypes ==
    ASSUME TypeOK, NEW p \in Requests, NEW code \in Codes, Deliver(p, code)
    PROVE  /\ pc' \in [Requests -> Labels] /\ reply' \in [Requests -> Codes \cup {None}]
           /\ changed' \in [Requests -> BOOLEAN] /\ failures' \in Nat
<1>1. "INTERNAL_ERROR" \in Codes
  BY DEF Codes
<1>2. failures' \in Nat
  BY DEF Deliver, TypeOK
<1> QED
  BY <1>1, <1>2, AnswerTypes DEF Deliver

LEMMA ProceedTypes ==
    ASSUME TypeOK, NEW p \in Requests, NEW label \in Labels, Proceed(p, label)
    PROVE  /\ pc' \in [Requests -> Labels] /\ reply' \in [Requests -> Codes \cup {None}]
           /\ changed' \in [Requests -> BOOLEAN]
BY DEF TypeOK, Proceed, Goto

LEMMA CallTypes ==
    ASSUME TypeOK, NEW p \in Requests
    PROVE  /\ CallTmdb(p) =>
                /\ pc' \in [Requests -> Labels] /\ reply' \in [Requests -> Codes \cup {None}]
                /\ changed' \in [Requests -> BOOLEAN]
                /\ timer' \in [Requests -> {"off", "set", "fired"}]
           /\ \A code \in Codes : CallEnds(p, code) =>
                /\ pc' \in [Requests -> Labels] /\ reply' \in [Requests -> Codes \cup {None}]
                /\ changed' \in [Requests -> BOOLEAN]
                /\ timer' \in [Requests -> {"off", "set", "fired"}]
<1>1. CallTmdb(p) => timer' \in [Requests -> {"off", "set", "fired"}]
  BY DEF CallTmdb, TypeOK
<1>2. \A code \in Codes : CallEnds(p, code) => timer' \in [Requests -> {"off", "set", "fired"}]
  BY DEF CallEnds, TypeOK
<1>3. "fetch" \in Labels /\ "CATALOG_UNAVAILABLE" \in Codes
  BY DEF Labels, Codes
<1> QED
  BY <1>1, <1>2, <1>3, AnswerTypes, ProceedTypes DEF CallTmdb, CallEnds

LEMMA BeganTypes ==
    ASSUME TypeOK, NEW p \in Requests, NEW op, Begins(p, op)
    PROVE  began' \in [Requests -> Nat]
BY DEF TypeOK, Begins

LEMMA CatalogTypes ==
    ASSUME IInv, NEW p \in Requests, Calling(p) \/ Tmdb(p) \/ TimerFires(p)
    PROVE  TypeOK'
<1>0. TypeOK
  BY DEF IInv
<1>a. /\ {"fetch", "body", "insert"} \subseteq Labels
      /\ {"MOVIES", "CATALOG_ITEM_NOT_FOUND", "CATALOG_TIMEOUT", "CATALOG_UNAVAILABLE"} \subseteq Codes
  BY DEF Labels, Codes
<1>1. CASE SearchBegins(p)
  <2>1. began' \in [Requests -> Nat]
    BY <1>0, <1>1 DEF SearchBegins, TypeOK
  <2> QED
    BY <1>0, <1>1, <2>1, CallTypes DEF SearchBegins, TypeOK
<1>2. CASE FetchAborted(p) \/ BodyAborted(p)
  BY <1>0, <1>a, <1>2, CallTypes DEF FetchAborted, BodyAborted, Waiting, TypeOK
<1>3. CASE Response(p)
  <2>1. CASE Proceed(p, "body") /\ UNCHANGED timer
    BY <1>0, <1>a, <1>3, <2>1, ProceedTypes DEF Response, Waiting, TypeOK
  <2>2. CASE \E code \in Codes : CallEnds(p, code)
    BY <1>0, <1>3, <2>2, CallTypes DEF Response, Waiting, TypeOK
  <2> QED
    BY <1>a, <1>3, <2>1, <2>2 DEF Response
<1>4. CASE Body(p)
  <2>1. CASE Proceed(p, "insert") /\ timer' = [timer EXCEPT ![p] = "off"]
    <3>1. timer' \in [Requests -> {"off", "set", "fired"}]
      BY <1>0, <2>1 DEF TypeOK
    <3> QED
      BY <1>0, <1>a, <1>4, <2>1, <3>1, ProceedTypes DEF Body, Waiting, TypeOK
  <2>2. CASE \E code \in Codes : CallEnds(p, code)
    BY <1>0, <1>4, <2>2, CallTypes DEF Body, Waiting, TypeOK
  <2> QED
    BY <1>a, <1>4, <2>1, <2>2 DEF Body
<1>5. CASE TimerFires(p)
  BY <1>0, <1>5 DEF TimerFires, TypeOK
<1> QED
  BY <1>1, <1>2, <1>3, <1>4, <1>5 DEF Calling, Tmdb

LEMMA ManagingTypes ==
    ASSUME IInv, NEW p \in Requests, Managing(p)
    PROVE  TypeOK'
<1>0. TypeOK /\ Serves(p) /\ req[p] \in Request
  BY DEF IInv, TypeOK
<1>1. CASE CreateBegins(p)
  <2>1. began' \in [Requests -> Nat]
    BY <1>0, <1>1, BeganTypes DEF CreateBegins
  <2>2. "INVALID_EVENT_SCHEDULE" \in Codes
    BY DEF Codes
  <2> QED
    BY <1>0, <1>1, <2>1, <2>2, AnswerTypes, CallTypes DEF CreateBegins, TypeOK
<1>2. CASE Insert(p)
  <2>1. "DRAFT" \in Codes
    BY DEF Codes
  <2>2. events' \in [Events -> Row \cup {None}]
    BY <1>0, <1>2, NewRow DEF Insert, Serves, TypeOK
  <2> QED
    BY <1>0, <1>2, <2>1, <2>2, DeliverTypes DEF Insert, TypeOK
<1>3. CASE EditBegins(p) \/ PublishBegins(p)
  <2>1. began' \in [Requests -> Nat]
    BY <1>0, <1>3, BeganTypes DEF EditBegins, PublishBegins
  <2>2. "editRead" \in Labels /\ "publishRead" \in Labels
    BY DEF Labels
  <2> QED
    BY <1>0, <1>3, <2>1, <2>2, ProceedTypes DEF EditBegins, PublishBegins, TypeOK
<1>4. CASE EditRead(p) \/ PublishRead(p)
  <2>1. "editWrite" \in Labels /\ "publishWrite" \in Labels
    BY DEF Labels
  <2>2. /\ {"EVENT_NOT_EDITABLE", "INVALID_EVENT_SCHEDULE", "PUBLISHED"} \subseteq Codes
        /\ NotOwned(p) \in Codes
    BY DEF Codes, NotOwned
  <2> QED
    BY <1>0, <1>4, <2>1, <2>2, AnswerTypes, ProceedTypes DEF EditRead, PublishRead, Reads, TypeOK
<1>5. CASE EditWrite(p)
  <2> DEFINE e == req[p].event
  <2>1. e \in Events /\ events[e] \in Row
    BY <1>0, <1>5 DEF EditWrite, Serves, TypeOK, Request
  <2>2. events' \in [Events -> Row \cup {None}]
    <3>1. Edited(events[e], req[p]) \in Row
      BY <1>0, <2>1, EditedRow
    <3>2. events' = events \/ events' = [events EXCEPT ![e] = Edited(events[e], req[p])]
      BY <1>5 DEF EditWrite
    <3> QED
      BY <1>0, <2>1, <3>1, <3>2 DEF TypeOK
  <2>3. "editReread" \in Labels /\ {"INTERNAL_ERROR", "EVENT_NOT_EDITABLE"} \subseteq Codes
    BY DEF Labels, Codes
  <2> QED
    BY <1>0, <1>5, <2>2, <2>3, AnswerTypes, ProceedTypes DEF EditWrite, TypeOK
<1>6. CASE PublishWrite(p)
  <2> DEFINE e == req[p].event
  <2>1. e \in Events /\ events[e] \in Row
    BY <1>0, <1>6 DEF PublishWrite, Serves, TypeOK, Request
  <2>2. [events[e] EXCEPT !.status = "PUBLISHED"] \in Row
    BY <2>1 DEF Row
  <2>3. events' \in [Events -> Row \cup {None}]
    BY <1>0, <1>6, <2>1, <2>2 DEF PublishWrite, TypeOK
  <2> QED
    BY <1>0, <1>6, <2>3 DEF PublishWrite, Goto, Labels, TypeOK
<1>7. CASE EditReread(p) \/ PublishReread(p)
  <2>1. events[req[p].event] \in Row
    BY <1>0, <1>7 DEF EditReread, PublishReread, Serves, TypeOK, Request
  <2>2. events[req[p].event].status \in Codes /\ "EVENT_NOT_PUBLISHABLE" \in Codes
    BY <2>1 DEF Row, Codes
  <2> QED
    BY <1>0, <1>7, <2>2, AnswerTypes DEF EditReread, PublishReread, Reads, TypeOK
<1> QED
  BY <1>1, <1>2, <1>3, <1>4, <1>5, <1>6, <1>7 DEF Managing

(* What a booking writes                                                   *)
LEMMA Books ==
    ASSUME TypeOK, NEW p \in Requests, Reserve(p), events' # events
    PROVE  \E e \in Events, n \in Nat :
              /\ events[e] \in Row /\ events[e].status = "PUBLISHED" /\ events[e].available >= n
              /\ events' = [events EXCEPT ![e].available = events[e].available - n]
              /\ booked' = [booked EXCEPT ![e] = booked[e] + n]
<1>1. req[p].event \in Events /\ req[p].quantity \in Nat
  BY DEF TypeOK, Request
<1> QED
  BY <1>1 DEF Reserve, TypeOK

LEMMA TypesStep ==
    ASSUME IInv, [Next]_vars PROVE TypeOK'
<1>0. TypeOK
  BY DEF IInv
<1>1. ASSUME NEW p \in Requests, Reserve(p) PROVE TypeOK'
  <2>1. began' \in [Requests -> Nat] /\ {"RESERVED", "EVENT_NOT_AVAILABLE"} \subseteq Codes
    BY <1>0, <1>1, BeganTypes DEF Reserve, Codes
  <2>2. events' \in [Events -> Row \cup {None}] /\ booked' \in [Events -> Nat]
    <3>1. CASE events' # events
      <4>1. PICK e \in Events, n \in Nat :
              /\ events[e] \in Row /\ events[e].available >= n
              /\ events' = [events EXCEPT ![e].available = events[e].available - n]
              /\ booked' = [booked EXCEPT ![e] = booked[e] + n]
        BY <1>0, <1>1, <3>1, Books
      <4>2. [events[e] EXCEPT !.available = events[e].available - n] \in Row
        BY <4>1 DEF Row
      <4> QED
        BY <1>0, <4>1, <4>2 DEF TypeOK
    <3>2. CASE events' = events
      <4>1. req[p].event \in Events /\ req[p].quantity \in Nat
        BY <1>0 DEF TypeOK, Request
      <4> QED
        BY <1>0, <1>1, <3>2, <4>1 DEF Reserve, TypeOK
    <3> QED
      BY <3>1, <3>2
  <2>3. /\ pc' \in [Requests -> Labels] /\ reply' \in [Requests -> Codes \cup {None}]
        /\ changed' \in [Requests -> BOOLEAN] /\ failures' \in Nat
    BY <1>0, <1>1, <2>1, AnswerTypes, DeliverTypes DEF Reserve, TypeOK
  <2> QED
    BY <1>0, <1>1, <2>1, <2>2, <2>3 DEF Reserve, TypeOK
<1>2. ASSUME NEW p \in Requests, Fail(p) PROVE TypeOK'
  <2>1. "INTERNAL_ERROR" \in Codes
    BY DEF Codes
  <2> QED
    BY <1>0, <1>2, <2>1, AnswerTypes DEF Fail, TypeOK
<1>3. CASE Tick \/ UNCHANGED vars
  BY <1>0, <1>3 DEF Tick, vars, TypeOK
<1> QED
  BY <1>1, <1>2, <1>3, CatalogTypes, ManagingTypes DEF Next, Step

-----------------------------------------------------------------------------
(* Who writes, and what                                                    *)

(* A step of p leaves the others where they are.                           *)
Alone(p) ==
    /\ UNCHANGED req
    /\ \A q \in Requests \ {p} : UNCHANGED <<pc[q], reply[q]>>

LEMMA OthersStay ==
    ASSUME TypeOK, NEW p \in Requests, Step(p) \/ Tmdb(p) \/ TimerFires(p) \/ Fail(p)
    PROVE  Alone(p) /\ (pc'[p] = pc[p] \/ pc'[p] # "idle")
<1> USE DEF Alone, TypeOK, Proceed, Goto, Answer, Deliver, Begins, Reads, CallTmdb, CallEnds, Waiting
<1>1. Calling(p) => Alone(p) /\ pc'[p] # "idle"
  BY DEF Calling, SearchBegins, FetchAborted, BodyAborted
<1>2. Tmdb(p) => Alone(p) /\ pc'[p] # "idle"
  BY DEF Tmdb, Response, Body
<1>3. CreateBegins(p) \/ Insert(p) => Alone(p) /\ pc'[p] # "idle"
  BY DEF CreateBegins, Insert
<1>4. EditBegins(p) \/ EditRead(p) \/ EditWrite(p) \/ EditReread(p) => Alone(p) /\ pc'[p] # "idle"
  BY DEF EditBegins, EditRead, EditWrite, EditReread
<1>5. PublishBegins(p) \/ PublishRead(p) \/ PublishWrite(p) \/ PublishReread(p)
        => Alone(p) /\ pc'[p] # "idle"
  BY DEF PublishBegins, PublishRead, PublishWrite, PublishReread
<1>6. Reserve(p) \/ Fail(p) => Alone(p) /\ pc'[p] # "idle"
  BY DEF Reserve, Fail
<1>7. TimerFires(p) => Alone(p) /\ pc'[p] = pc[p]
  BY DEF TimerFires
<1> QED
  BY <1>1, <1>2, <1>3, <1>4, <1>5, <1>6, <1>7 DEF Step, Managing

(* What a statement does to the events: a draft is stored, a draft edited, *)
(* a draft published, or a booking taken from what is published.           *)
Stores(e) ==
    /\ events[e] = None /\ UNCHANGED booked
    /\ \E row \in Row : /\ row.status = "DRAFT" /\ row.available = row.capacity
                        /\ events' = [events EXCEPT ![e] = row]

Edits(p, e) ==
    /\ EditWrite(p) /\ pc'[p] = "editReread"
    /\ events[e] \in Row /\ events[e].status = "DRAFT" /\ UNCHANGED booked
    /\ e = req[p].event /\ events' = [events EXCEPT ![e] = Edited(events[e], req[p])]

Publishes(e) ==
    /\ events[e] \in Row /\ events[e].status = "DRAFT" /\ UNCHANGED booked
    /\ events' = [events EXCEPT ![e].status = "PUBLISHED"]

Sells(e, n) ==
    /\ events[e] \in Row /\ events[e].status = "PUBLISHED" /\ events[e].available >= n
    /\ events' = [events EXCEPT ![e].available = events[e].available - n]
    /\ booked' = [booked EXCEPT ![e] = booked[e] + n]

LEMMA EventsStep ==
    ASSUME IInv, [Next]_vars
    PROVE  \/ UNCHANGED <<events, booked>>
           \/ \E e \in Events : \/ Stores(e) \/ Publishes(e)
                                \/ \E p \in Requests : Edits(p, e)
                                \/ \E n \in Nat : Sells(e, n)
<1>0. TypeOK
  BY DEF IInv
<1>1. ASSUME NEW p \in Requests, Insert(p) PROVE \E e \in Events : Stores(e)
  <2>1. Serves(p) /\ req[p].op = "create"
    BY <1>1 DEF IInv, Serves, Insert
  <2> QED
    BY <1>0, <1>1, <2>1, NewRow DEF Insert, Stores
<1>2. ASSUME NEW p \in Requests, EditWrite(p), events' # events
      PROVE  \E e \in Events : Edits(p, e)
  <2>1. Serves(p) /\ req[p].event \in Events /\ pc[p] = "editWrite" /\ pc \in [Requests -> Labels]
    BY <1>2 DEF IInv, TypeOK, Request, EditWrite
  <2>2. events[req[p].event] \in Row
    BY <1>0, <2>1 DEF Serves, TypeOK
  <2> QED
    BY <1>2, <2>1, <2>2 DEF EditWrite, Edits, Proceed, Goto
<1>3. ASSUME NEW p \in Requests, PublishWrite(p), events' # events
      PROVE  \E e \in Events : Publishes(e)
  <2>1. Serves(p) /\ req[p].event \in Events /\ pc[p] = "publishWrite"
    BY <1>3 DEF IInv, TypeOK, Request, PublishWrite
  <2>2. events[req[p].event] \in Row
    BY <1>0, <2>1 DEF Serves, TypeOK
  <2> QED
    BY <1>3, <2>1, <2>2 DEF PublishWrite, Publishes
<1>4. ASSUME NEW p \in Requests, EditWrite(p) \/ PublishWrite(p) PROVE UNCHANGED booked
  BY <1>4 DEF EditWrite, PublishWrite
<1>5. ASSUME NEW p \in Requests, Reserve(p)
      PROVE  \/ UNCHANGED <<events, booked>>
             \/ \E e \in Events, n \in Nat : Sells(e, n)
  <2>1. req[p].event \in Events /\ req[p].quantity \in Nat
    BY <1>0 DEF TypeOK, Request
  <2>2. events[req[p].event] # None => events[req[p].event] \in Row
    BY <1>0, <2>1 DEF TypeOK
  <2> QED
    BY <1>5, <2>1, <2>2 DEF Reserve, Sells
<1>6. ASSUME NEW p \in Requests, Step(p) \/ Tmdb(p) \/ TimerFires(p) \/ Fail(p),
             ~(Insert(p) \/ EditWrite(p) \/ PublishWrite(p) \/ Reserve(p))
      PROVE  UNCHANGED <<events, booked>>
  BY <1>6 DEF Step, Tmdb, TimerFires, Fail, Calling, Managing, SearchBegins, FetchAborted, BodyAborted,
     Response, Body, Waiting, CreateBegins, EditBegins, EditRead, EditReread, PublishBegins,
     PublishRead, PublishReread, Reads
<1>7. Tick \/ UNCHANGED vars => UNCHANGED <<events, booked>>
  BY DEF Tick, vars
<1> QED
  BY <1>1, <1>2, <1>3, <1>4, <1>5, <1>6, <1>7 DEF Next

(* An event that is there stays; once it is published only its stock moves.*)
LEMMA RowsStay ==
    ASSUME IInv, [Next]_vars, NEW e \in Events, events[e] # None
    PROVE  /\ events[e] \in Row /\ events'[e] # None
           /\ events[e].status = "PUBLISHED" =>
                 events'[e] = [events[e] EXCEPT !.available = events'[e].available]
<1>0. events \in [Events -> Row \cup {None}] /\ events' \in [Events -> Row \cup {None}] /\ events[e] \in Row
      /\ req \in [Requests -> Request]
  BY TypesStep DEF IInv, TypeOK
<1>1. CASE UNCHANGED <<events, booked>>
  BY <1>0, <1>1 DEF Row
<1>2. ASSUME NEW f \in Events, Stores(f)
      PROVE  events'[e] = events[e]
  BY <1>0, <1>2 DEF Stores
<1>3. ASSUME NEW f \in Events, NEW p \in Requests, Edits(p, f)
      PROVE  events'[e] # None /\ (events[e].status = "PUBLISHED" => events'[e] = events[e])
  <2>1. Edited(events[f], req[p]) # None
    <3>1. req[p] \in Request /\ events[f] \in Row
      BY <1>0, <1>3 DEF Edits
    <3>2. Edited(events[f], req[p]) \in Row
      BY <3>1, EditedRow
    <3> QED
      BY <3>2, NoneIsNoRow
  <2> QED
    BY <1>0, <1>3, <2>1 DEF Edits
<1>4. ASSUME NEW f \in Events, Publishes(f)
      PROVE  events'[e] # None /\ (events[e].status = "PUBLISHED" => events'[e] = events[e])
  <2>1. [events[f] EXCEPT !.status = "PUBLISHED"] \in Row
    BY <1>4 DEF Publishes, Row
  <2> QED
    BY <1>0, <1>4, <2>1, NoneIsNoRow DEF Publishes
<1>5. ASSUME NEW f \in Events, NEW n \in Nat, Sells(f, n)
      PROVE  /\ events'[e] # None
             /\ events'[e] = [events[e] EXCEPT !.available = events'[e].available]
  <2>1. [events[f] EXCEPT !.available = events[f].available - n] \in Row
    BY <1>5 DEF Sells, Row
  <2>2. CASE e = f
    BY <1>0, <1>5, <2>1, <2>2, NoneIsNoRow DEF Sells, Row
  <2>3. CASE e # f
    BY <1>0, <1>5, <2>3 DEF Sells, Row
  <2> QED
    BY <2>2, <2>3
<1>6. events'[e] = events[e] => events'[e] = [events[e] EXCEPT !.available = events'[e].available]
  BY <1>0 DEF Row
<1> QED
  BY <1>0, <1>1, <1>2, <1>3, <1>4, <1>5, <1>6, EventsStep

-----------------------------------------------------------------------------
(* The invariant                                                           *)

LEMMA StockStep ==
    ASSUME IInv, [Next]_vars PROVE StockIsWhole' /\ BookedIfPublished'
<1>0. /\ TypeOK /\ StockIsWhole /\ BookedIfPublished
      /\ events \in [Events -> Row \cup {None}] /\ booked \in [Events -> Nat]
      /\ req \in [Requests -> Request]
  BY DEF IInv, TypeOK
<1>1. CASE UNCHANGED <<events, booked>>
  BY <1>0, <1>1 DEF StockIsWhole, BookedIfPublished
<1>2. ASSUME NEW e \in Events,
             \A f \in Events \ {e} : events'[f] = events[f] /\ booked'[f] = booked[f],
             events'[e] \in Row,
             events'[e].available >= 0,
             events'[e].available + booked'[e] = events'[e].capacity,
             events'[e].status = "DRAFT" => booked'[e] = 0
      PROVE  StockIsWhole' /\ BookedIfPublished'
  BY <1>0, <1>2, NoneIsNoRow DEF StockIsWhole, BookedIfPublished
<1>3. ASSUME NEW e \in Events, Stores(e) PROVE StockIsWhole' /\ BookedIfPublished'
  <2>1. booked[e] = 0 /\ booked' = booked
    BY <1>0, <1>3 DEF Stores, BookedIfPublished
  <2>2. PICK row \in Row : /\ row.status = "DRAFT" /\ row.available = row.capacity
                           /\ events' = [events EXCEPT ![e] = row]
    BY <1>3 DEF Stores
  <2>3. events'[e] = row /\ \A f \in Events \ {e} : events'[f] = events[f]
    BY <1>0, <2>2
  <2>4. row.capacity \in Nat
    BY DEF Row
  <2> QED
    BY <1>2, <2>1, <2>2, <2>3, <2>4
<1>4. ASSUME NEW e \in Events, NEW p \in Requests, Edits(p, e)
      PROVE  StockIsWhole' /\ BookedIfPublished'
  <2> DEFINE new == Edited(events[e], req[p])
  <2>0. events[e] \in Row /\ events[e] # None /\ req[p] \in Request
    BY <1>0, <1>4, NoneIsNoRow DEF Edits
  <2>1. /\ new \in Row /\ new.status = events[e].status
        /\ new.capacity = Or(req[p].capacity, events[e].capacity)
        /\ new.available = Or(req[p].capacity, events[e].available)
    BY <2>0, EditedRow, EditedFields
  <2>2. booked[e] = 0 /\ booked' = booked /\ events[e].status = "DRAFT"
    BY <1>0, <1>4 DEF Edits, BookedIfPublished
  <2>3. events[e].available = events[e].capacity /\ events[e].available >= 0
    BY <1>0, <2>0, <2>2 DEF StockIsWhole, Row
  <2>4. events'[e] = new /\ \A f \in Events \ {e} : events'[f] = events[f]
    BY <1>0, <1>4 DEF Edits
  <2>5. new.available = new.capacity /\ new.available >= 0 /\ new.available \in Int
    BY <2>0, <2>1, <2>3 DEF Or, Row, Request
  <2> QED
    BY <1>2, <2>1, <2>2, <2>4, <2>5
<1>5. ASSUME NEW e \in Events, Publishes(e) PROVE StockIsWhole' /\ BookedIfPublished'
  <2> DEFINE new == [events[e] EXCEPT !.status = "PUBLISHED"]
  <2>0. events[e] \in Row /\ events[e] # None /\ booked' = booked
    BY <1>5, NoneIsNoRow DEF Publishes
  <2>1. /\ new \in Row /\ new.status = "PUBLISHED"
        /\ new.capacity = events[e].capacity /\ new.available = events[e].available
    BY <2>0 DEF Row
  <2>2. events[e].available >= 0 /\ events[e].available + booked[e] = events[e].capacity
    BY <1>0, <2>0 DEF StockIsWhole
  <2>3. events'[e] = new /\ \A f \in Events \ {e} : events'[f] = events[f]
    BY <1>0, <1>5 DEF Publishes
  <2> QED
    BY <1>2, <2>0, <2>1, <2>2, <2>3
<1>6. ASSUME NEW e \in Events, NEW n \in Nat, Sells(e, n)
      PROVE  StockIsWhole' /\ BookedIfPublished'
  <2> DEFINE new == [events[e] EXCEPT !.available = events[e].available - n]
  <2>0. /\ events[e] \in Row /\ events[e] # None /\ events[e].status = "PUBLISHED"
        /\ events[e].available >= n /\ events[e].available \in Int /\ events[e].capacity \in Int
        /\ booked[e] \in Nat
    BY <1>0, <1>6, NoneIsNoRow DEF Sells, Row
  <2>1. /\ new \in Row /\ new.status = "PUBLISHED"
        /\ new.capacity = events[e].capacity /\ new.available = events[e].available - n
    BY <2>0 DEF Row
  <2>2. events[e].available + booked[e] = events[e].capacity
    BY <1>0, <2>0 DEF StockIsWhole
  <2>3. /\ events'[e] = new /\ booked'[e] = booked[e] + n
        /\ \A f \in Events \ {e} : events'[f] = events[f] /\ booked'[f] = booked[f]
    BY <1>0, <1>6 DEF Sells
  <2>4. new.available >= 0 /\ new.available + booked'[e] = new.capacity
    BY <2>0, <2>1, <2>2, <2>3
  <2> QED
    BY <1>2, <2>1, <2>3, <2>4
<1> QED
  BY <1>1, <1>3, <1>4, <1>5, <1>6, EventsStep

(* A request is in its place after a step of its own.                      *)
LEMMA ServesStep ==
    ASSUME IInv, [Next]_vars,
           NEW p \in Requests, Step(p) \/ Tmdb(p) \/ TimerFires(p) \/ Fail(p)
    PROVE  Serves(p)'
<1>0. /\ TypeOK /\ Serves(p) /\ UNCHANGED req /\ req[p].event \in Events
      /\ events[req[p].event] # None => events'[req[p].event] # None
  BY OthersStay, RowsStay DEF IInv, TypeOK, Alone, Request
<1>1. /\ pc'[p] \in {"fetch", "body"} => req[p].op \in {"search", "create"}
      /\ pc'[p] = "insert" => req[p].op = "create"
      /\ pc'[p] \in {"editRead", "editWrite", "editReread"} => req[p].op = "edit"
      /\ pc'[p] \in {"publishRead", "publishWrite", "publishReread"} => req[p].op = "publish"
      /\ reply'[p] # None => pc'[p] = "done"
      /\ pc'[p] \in {"editWrite", "editReread", "publishWrite", "publishReread"} \/ Accepted(p)'
            => events[req[p].event] # None
  <2> USE <1>0 DEF Serves, TypeOK, Proceed, Goto, Answer, Deliver, Begins, Reads, CallTmdb, CallEnds,
                   Waiting, Accepted, Owns
  <2>1. CASE Calling(p)
    BY <2>1 DEF Calling, SearchBegins, FetchAborted, BodyAborted
  <2>2. CASE Tmdb(p)
    BY <2>2 DEF Tmdb, Response, Body
  <2>3. CASE CreateBegins(p) \/ Insert(p)
    BY <2>3 DEF CreateBegins, Insert
  <2>4. CASE EditBegins(p) \/ EditRead(p)
    BY <2>4 DEF EditBegins, EditRead, NotOwned
  <2>5. CASE EditWrite(p) \/ EditReread(p)
    BY <2>5 DEF EditWrite, EditReread
  <2>6. CASE PublishBegins(p) \/ PublishRead(p)
    BY <2>6 DEF PublishBegins, PublishRead, NotOwned
  <2>7. CASE PublishWrite(p) \/ PublishReread(p)
    BY <2>7 DEF PublishWrite, PublishReread
  <2>8. CASE Reserve(p) \/ Fail(p)
    BY <2>8 DEF Reserve, Fail
  <2>9. CASE TimerFires(p)
    BY <2>9 DEF TimerFires
  <2> QED
    BY <2>1, <2>2, <2>3, <2>4, <2>5, <2>6, <2>7, <2>8, <2>9 DEF Step, Managing
<1> QED
  BY <1>0, <1>1 DEF Serves

(* An edit of the event writes the fields it gives and no other.           *)
LEMMA KeptStep ==
    ASSUME IInv, [Next]_vars, NEW p \in Requests, NEW field \in Fields, Kept(p, field),
           events[req[p].event] # None,
           UNCHANGED req, \A q \in Requests : pc[q] # "idle" => pc'[q] # "idle"
    PROVE  Kept(p, field)'
<1> DEFINE e == req[p].event
<1>0. /\ e \in Events /\ events \in [Events -> Row \cup {None}] /\ events[e] \in Row
      /\ req \in [Requests -> Request]
      /\ field \in {"startsAt", "endsAt", "details", "capacity"}
  BY DEF IInv, TypeOK, Request, Fields
<1>1. CASE events'[e][field] = events[e][field]
  BY <1>1 DEF Kept, Given
<1>2. CASE events'[e][field] # events[e][field]
  <2>1. PICK q \in Requests : Edits(q, e)
    <3>1. ~UNCHANGED <<events, booked>>
      BY <1>2
    <3>2. ASSUME NEW f \in Events, Stores(f) \/ Publishes(f) PROVE FALSE
      BY <1>0, <1>2, <3>2 DEF Stores, Publishes, Row
    <3>3. ASSUME NEW f \in Events, NEW n \in Nat, Sells(f, n) PROVE FALSE
      BY <1>0, <1>2, <3>3 DEF Sells, Row
    <3>4. ASSUME NEW f \in Events, NEW q \in Requests, Edits(q, f) PROVE Edits(q, e)
      <4>1. f = e
        BY <1>0, <1>2, <3>4 DEF Edits
      <4> QED
        BY <3>4, <4>1
    <3> QED
      BY <3>1, <3>2, <3>3, <3>4, EventsStep
  <2>2. /\ req[q].op = "edit" /\ req[q].event = e /\ pc'[q] # "idle"
        /\ events'[e] = Edited(events[e], req[q])
    BY <1>0, <2>1 DEF Edits, EditWrite, IInv, Serves
  <2>3. Edited(events[e], req[q])[field] = Or(req[q][field], events[e][field])
    <3>1. req[q] \in Request
      BY <1>0
    <3> QED
      BY <1>0, <3>1, EditedFields
  <2>4. Given(q, field) /\ events'[e][field] = req[q][field]
    BY <1>2, <2>2, <2>3 DEF Given, Or
  <2> QED
    BY <2>2, <2>4 DEF Kept, Given
<1> QED
  BY <1>1, <1>2

(* Only a write of its own brings an edit where its fields are promised.   *)
LEMMA Before ==
    ASSUME IInv, [Next]_vars, NEW p \in Requests,
           pc'[p] = "editReread" \/ Accepted(p)'
    PROVE  pc[p] = "editReread" \/ Accepted(p) \/ Edits(p, req[p].event)
<1>0. TypeOK /\ Serves(p)
  BY DEF IInv
<1>1. CASE Step(p) \/ Tmdb(p) \/ Fail(p)
  <2>1. req' = req /\ (Accepted(p)' => reply'[p] \in {"DRAFT", "PUBLISHED"})
    BY <1>0, <1>1, OthersStay DEF Alone, Accepted
  <2>2. req[p].op = "edit" \/ pc'[p] = "editReread"
    BY <2>1 DEF Accepted
  <2> USE <1>0, <2>1 DEF TypeOK, Proceed, Goto, Answer, Deliver, Begins, CallTmdb, CallEnds, Waiting
  <2>3. CASE Calling(p) \/ Tmdb(p)
    BY <2>3 DEF Accepted, Calling, SearchBegins, FetchAborted, BodyAborted, Tmdb, Response, Body
  <2>4. CASE CreateBegins(p) \/ Insert(p)
    BY <2>2, <2>4 DEF CreateBegins, Insert, Serves
  <2>5. CASE EditBegins(p) \/ EditRead(p)
    BY <2>5 DEF Accepted, EditBegins, EditRead, Reads, NotOwned
  <2>6. CASE EditWrite(p)
    <3>1. pc'[p] = "editReread" /\ pc[p] = "editWrite"
      BY <2>6 DEF EditWrite
    <3>2. req[p].event \in Events /\ events[req[p].event] \in Row
      BY <3>1 DEF Serves, Request
    <3> QED
      BY <2>6, <3>1, <3>2 DEF EditWrite, Edits
  <2>7. CASE EditReread(p)
    BY <2>7 DEF EditReread
  <2>8. CASE PublishBegins(p) \/ PublishRead(p) \/ PublishWrite(p) \/ PublishReread(p)
    BY <2>2, <2>8 DEF PublishBegins, PublishRead, PublishWrite, PublishReread, Reads, Serves
  <2>9. CASE Reserve(p) \/ Fail(p)
    BY <2>9 DEF Reserve, Fail
  <2> QED
    BY <1>1, <2>3, <2>4, <2>5, <2>6, <2>7, <2>8, <2>9 DEF Step, Managing
<1>2. ASSUME NEW q \in Requests, q # p, Step(q) \/ Tmdb(q) \/ TimerFires(q) \/ Fail(q)
      PROVE  pc[p] = "editReread" \/ Accepted(p)
  BY <1>0, <1>2, OthersStay DEF Alone, Accepted
<1>3. CASE TimerFires(p) \/ Tick \/ UNCHANGED vars
  BY <1>3 DEF TimerFires, Tick, vars, Accepted
<1> QED
  BY <1>1, <1>2, <1>3 DEF Next

LEMMA KeepsStep ==
    ASSUME IInv, [Next]_vars, NEW p \in Requests PROVE Keeps(p)'
<1>0. TypeOK /\ Serves(p) /\ Keeps(p)
  BY DEF IInv
<1>1. UNCHANGED req /\ \A q \in Requests : pc[q] # "idle" => pc'[q] # "idle"
  <2>1. CASE Tick \/ UNCHANGED vars
    BY <2>1 DEF Tick, vars
  <2>2. ASSUME NEW q \in Requests, Step(q) \/ Tmdb(q) \/ TimerFires(q) \/ Fail(q)
        PROVE  UNCHANGED req /\ \A r \in Requests : pc[r] # "idle" => pc'[r] # "idle"
    BY <1>0, <2>2, OthersStay DEF Alone
  <2> QED
    BY <2>1, <2>2 DEF Next
<1>2. SUFFICES ASSUME pc'[p] = "editReread" \/ Accepted(p)',
                      NEW field \in Fields, req[p][field] # None
               PROVE  Kept(p, field)'
  BY <1>1 DEF Keeps, Given
<1>3. CASE pc[p] = "editReread" \/ Accepted(p)
  <2>1. Kept(p, field) /\ events[req[p].event] # None
    BY <1>0, <1>2, <1>3 DEF Keeps, Serves, Given
  <2> QED
    BY <1>1, <2>1, KeptStep
<1>4. CASE Edits(p, req[p].event)
  <2> DEFINE e == req[p].event
  <2>1. e \in Events /\ req[p] \in Request /\ req[p].op = "edit" /\ pc'[p] # "idle"
    BY <1>0, <1>4 DEF TypeOK, Request, Edits, EditWrite, Serves
  <2>2. events'[e] = Edited(events[e], req[p]) /\ events[e] \in Row
    BY <1>0, <1>4, <2>1 DEF Edits, TypeOK
  <2>3. events'[e][field] = req[p][field]
    BY <1>2, <2>1, <2>2, EditedFields DEF Or
  <2> QED
    BY <1>1, <1>2, <2>1, <2>3 DEF Kept, Given
<1> QED
  BY <1>2, <1>3, <1>4, Before

LEMMA ServesStays ==
    ASSUME IInv, [Next]_vars, NEW p \in Requests PROVE Serves(p)'
<1>0. TypeOK /\ Serves(p) /\ (events[req[p].event] # None => events'[req[p].event] # None)
  BY RowsStay DEF IInv, TypeOK, Request
<1>1. ASSUME NEW q \in Requests, q # p, Step(q) \/ Tmdb(q) \/ TimerFires(q) \/ Fail(q)
      PROVE  Serves(p)'
  BY <1>0, <1>1, OthersStay DEF Alone, Serves, Accepted
<1>2. CASE Tick \/ UNCHANGED vars
  BY <1>0, <1>2 DEF Tick, vars, Serves, Accepted
<1> QED
  BY <1>1, <1>2, ServesStep DEF Next

LEMMA Starts ==
    ASSUME Init PROVE IInv
<1>1. TypeOK
  BY NoneIsNoRow DEF Init, TypeOK, Labels
<1>2. StockIsWhole /\ BookedIfPublished
  <2>1. ASSUME NEW e \in Events, events[e] # None
        PROVE  events[e].available >= 0 /\ events[e].available + booked[e] = events[e].capacity
    <3>1. events[e] \in Row /\ events[e].available = events[e].capacity /\ booked[e] = 0
      BY <1>1, <2>1, StockOfInitialEvents DEF Init, TypeOK
    <3> QED
      BY <3>1 DEF Row
  <2> QED
    BY <2>1 DEF Init, StockIsWhole, BookedIfPublished
<1>3. ASSUME NEW p \in Requests PROVE Serves(p) /\ Keeps(p)
  <2>1. pc[p] = "idle" /\ reply[p] = None /\ ~Accepted(p)
    BY NoneIsNoRow DEF Init, Accepted, Codes
  <2>2. req[p].op = "create" =>
          None \notin {req[p].startsAt, req[p].endsAt, req[p].details, req[p].capacity}
    BY CreatesAreComplete DEF Init
  <2> QED
    BY <2>1, <2>2 DEF Serves, Keeps
<1> QED
  BY <1>1, <1>2, <1>3 DEF IInv

(* The organizer's invariant holds in every state that is reached.         *)
THEOREM Inductive == Spec => []IInv
<1>1. ASSUME IInv, [Next]_vars PROVE IInv'
  BY <1>1, TypesStep, StockStep, ServesStays, KeepsStep DEF IInv
<1> QED
  BY <1>1, Starts, PTL DEF Spec

-----------------------------------------------------------------------------
(* What follows                                                            *)

(* Every variable keeps its type: what a handler stores is a row, and what *)
(* it answers is a code of the contract.                                   *)
THEOREM WellTyped == Spec => []TypeOK
BY Inductive, PTL DEF IInv

(* Places booked and places left make up the capacity of every event,      *)
(* whatever edits, publications and bookings interleave and fail.          *)
THEOREM StockStaysWhole == Spec => []StockIsWhole
BY Inductive, PTL DEF IInv

(* No statement changes a published event but for its stock: the writes of *)
(* edits and publications carry the condition that it be a draft.          *)
THEOREM PublishedStays == Spec => PublishedFrozen
<1>1. ASSUME IInv, [Next]_vars
      PROVE  [\A e \in Events :
                events[e] # None /\ events[e].status = "PUBLISHED" =>
                    events'[e] = [events[e] EXCEPT !.available = events'[e].available]]_vars
  BY <1>1, RowsStay
<1> QED
  BY <1>1, Inductive, PTL DEF Spec, PublishedFrozen

(* A field that an accepted edit gave has its value, or that of another    *)
(* edit that gave it: no statement writes what it was not given.           *)
THEOREM EditsStay == Spec => []NoEditIsUndone
<1>1. IInv => NoEditIsUndone
  BY DEF IInv, Keeps, NoEditIsUndone
<1> QED
  BY <1>1, Inductive, PTL
=============================================================================
