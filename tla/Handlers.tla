------------------------------ MODULE Handlers ------------------------------
(***************************************************************************)
(* The state a request handler, or a run of the expiration timer, keeps in *)
(* the API process while it awaits the database.  Every label of pc stands *)
(* before one statement; between two of them any other process may run and *)
(* the clock may advance.                                                  *)
(***************************************************************************)
EXTENDS Database

CONSTANTS
    Scripts,     \* what the requests may turn out to be, together
    MaxFailures  \* bound: how many statements may fail in a behaviour

VARIABLES
    pc,        \* what each process does next
    req,       \* the request it serves
    now,       \* the `now` it last sampled
    todo,      \* expired reservations that its loop has yet to visit
    cur,       \* the reservation its expiring transaction is about
    seen,      \* the reservation row its transaction has read
    reply,     \* the response it gave
    failures   \* statements that have failed so far

locals == <<now, todo, cur, seen>>
vars == <<dbVars, pc, req, locals, reply, failures>>

Request == [op : {"create", "get", "cancel", "simulate"},
            customer : Customers, event : Events \cup {None},
            quantity : Int, reservation : ReservationIds,
            key : Keys \cup {None}, result : {"APPROVED", "DECLINED"}]

(* A response: the status of the reservation it shows, or the error code,  *)
(* and the sequences of the tickets in it.                                 *)
Success == Statuses
Errors == {"EVENT_NOT_FOUND", "EVENT_NOT_AVAILABLE", "INSUFFICIENT_INVENTORY",
           "INVALID_QUANTITY", "RESERVATION_NOT_FOUND", "RESERVATION_NOT_CANCELABLE",
           "RESERVATION_NOT_PAYABLE", "RESERVATION_EXPIRED",
           "IDEMPOTENCY_KEY_REQUIRED", "IDEMPOTENCY_KEY_REUSED", "INTERNAL_ERROR"}
Response == [code : Success \cup Errors, tickets : SUBSET (1..MaxQuantity)]

(* The labels: the expiring loop, then reservations, then payments.        *)
Labels == {"idle", "done",
           "findExpired", "expire", "expireUpdate", "expireIncrement", "expireCommit",
           "takeStock", "insert", "getRead", "getTickets", "cancelRead", "cancelUpdate",
           "increment", "commit",
           "replay", "replayTx", "payRead", "payCheck", "payRelease", "payUpdate",
           "payReread", "payInsert", "payTickets", "payCatch"}

Goto(p, label) == pc' = [pc EXCEPT ![p] = label]

(* On to the next statement, with what the handler knows so far            *)
Proceed(p, label) == Goto(p, label) /\ UNCHANGED <<locals, reply>>

(* The handler, or the run of the timer, returns and its locals are gone.  *)
Forget(p) ==
    /\ now' = [now EXCEPT ![p] = 0]
    /\ todo' = [todo EXCEPT ![p] = {}]
    /\ cur' = [cur EXCEPT ![p] = None]
    /\ seen' = [seen EXCEPT ![p] = None]

Answer(p, code, tix) ==
    /\ reply' = [reply EXCEPT ![p] = [code |-> code, tickets |-> tix]]
    /\ Goto(p, "done")
    /\ Forget(p)

(* Mutant of Rest: a timer set once (setTimeout for setInterval)            *)
RestForGood(p) == Goto(p, "done") /\ Forget(p) /\ UNCHANGED reply

Rest(p) == Goto(p, "idle") /\ Forget(p) /\ UNCHANGED reply

(* The row a request names, as far as its customer may see it              *)
Owned(p) ==
    LET r == req[p].reservation IN
    reservations[r] # None /\ reservations[r].customer = req[p].customer

(* A statement that throws, or whose process dies, ends its handler: the   *)
(* request is answered 500 if it is answered at all, and the timer         *)
(* swallows the error and waits for its next interval.                     *)
Throw(p) ==
    /\ failures < MaxFailures
    /\ failures' = failures + 1
    /\ \/ p \in Sweepers /\ Rest(p)
       \/ p \in Requests /\ Answer(p, "INTERNAL_ERROR", {})
    /\ UNCHANGED <<clock, req>>

(* Whatever its transaction wrote is rolled back,                          *)
Fail(p) ==
    /\ pc[p] \notin {"idle", "done"}
    /\ Rollback(p)
    /\ Throw(p)

(* unless it was the COMMIT, done but for its acknowledgement.             *)
CommitUnheard(p) ==
    /\ pc[p] \in {"expireCommit", "commit"}
    /\ Commit(p)
    /\ Throw(p)

(* COMMIT of a request's transaction, and its response: the row it wrote   *)
(* names the outcome.                                                      *)
CommitAndAnswer(p) ==
    /\ pc[p] = "commit"
    /\ Commit(p)
    /\ LET status == tx[p].image.status IN
       Answer(p, IF status = "EXPIRED" THEN "RESERVATION_EXPIRED" ELSE status,
                 tx[p].tickets)
    /\ UNCHANGED <<clock, req, failures>>

HandlersInit ==
    /\ pc = [p \in Processes |-> "idle"]
    /\ req \in Scripts
    /\ now = [p \in Processes |-> 0]
    /\ todo = [p \in Processes |-> {}]
    /\ cur = [p \in Processes |-> None]
    /\ seen = [p \in Processes |-> None]
    /\ reply = [p \in Requests |-> None]
    /\ failures = 0

ASSUME ScriptOfRequests ==
    /\ Requests \cap Sweepers = {}
    /\ Scripts \subseteq [Requests -> Request]
    /\ MaxFailures \in Nat
=============================================================================
