---------------------------- MODULE AnswerProofs ----------------------------
(***************************************************************************)
(* Proofs, for every set of requests, timers, events and reservations,     *)
(* that a response of the checkout says what the tables say, when it is    *)
(* given and ever after.  AnswersInv of Checkout is the invariant, beside  *)
(* that of CheckoutProofs.                                                 *)
(***************************************************************************)
EXTENDS OfficeProofs

-----------------------------------------------------------------------------
(* What the steps of others leave alone                                    *)

(* Who owns a row, and of what event and how many places it is, is fixed.  *)
LEMMA OwnerStays ==
    ASSUME IInv, [Next]_vars, NEW r \in ReservationIds, reservations[r] # None
    PROVE  reservations'[r] # None /\ reservations'[r].customer = reservations[r].customer
<1>1. CASE UNCHANGED tables
  BY <1>1 DEF tables
<1>2. ASSUME NEW p \in Processes, pc[p] \in {"expireCommit", "commit"}, Commit(p)
      PROVE  reservations'[r] # None /\ reservations'[r].customer = reservations[r].customer
  <2>1. CASE r # tx[p].row
    BY <1>2, <2>1, CommitRow
  <2>2. CASE r = tx[p].row
    <3>1. \E how : Settling(p, r, how)
      BY <1>2, <2>2, CommitRow DEF Booking, GivingBack, Selling
    <3>2. tx[p].image.customer = reservations[r].customer
      <4>1. PICK how : Settling(p, r, how)
        BY <3>1
      <4>2. reservations[r] \in Row
        BY <4>1, SettlingRow DEF IInv
      <4> QED
        BY <4>1, <4>2 DEF Settling, Row
    <3>3. reservations'[r] = tx[p].image /\ tx[p].image # None
      BY <1>2, <2>2, CommitRow, NoneIsNoValue DEF IInv, TypeOK
    <3> QED
      BY <3>2, <3>3
  <2> QED
    BY <2>1, <2>2
<1> QED
  BY <1>1, <1>2, TablesStep

(* What justified an answer goes on justifying it.                         *)
LEMMA JustifiedStays ==
    ASSUME IInv, [Next]_vars, UNCHANGED req, NEW p \in Requests, NEW code, NEW tix,
           Justified(p, code, tix)
    PROVE  Justified(p, code, tix)'
<1> DEFINE r == req[p].reservation
<1>1. r \in ReservationIds
  BY DEF IInv, TypeOK, Request
<1>2. reservations[r] # None /\ reservations[r].status \in {"PAID", "DECLINED", "CANCELED"} =>
        UNCHANGED <<reservations[r], payments[r], tickets[r]>>
  BY <1>1, SettledStep DEF SettledStays
<1>3. req' = req
  OBVIOUS
<1> QED
  BY <1>2, <1>3 DEF Justified, Owned

(* What a request knows stays so while others move.                        *)
LEMMA KnownStays ==
    ASSUME IInv, [Next]_vars, UNCHANGED req, NEW p \in Requests,
           UNCHANGED <<pc[p], seen[p], tx[p]>>, Known(p)
    PROVE  Known(p)'
<1> DEFINE r == req[p].reservation
<1>1. r \in ReservationIds /\ req' = req
  BY DEF IInv, TypeOK, Request
<1>2. Owned(p) => Owned(p)'
  BY <1>1, OwnerStays DEF Owned
<1>3. reservations[r] # None /\ reservations[r].status = "PAID" => UNCHANGED reservations[r]
  BY <1>1, SettledStep DEF SettledStays
<1>4. Serving(p)'
  BY <1>1 DEF Known, Serving
<1> QED
  BY <1>1, <1>2, <1>3, <1>4 DEF Known

-----------------------------------------------------------------------------
(* The step of a request: where it goes, or what it answers                *)

(* The handler ends with an answer that the tables justify.                *)
LEMMA AnswerStep ==
    ASSUME IInv, NEW p \in Requests, NEW code, NEW tix, Answer(p, code, tix), UNCHANGED req,
           Justified(p, code, tix)', tx'[p].payment = None
    PROVE  Known(p)' /\ Replied(p)'
<1>1. pc'[p] = "done" /\ reply'[p] = [code |-> code, tickets |-> tix]
  BY DEF IInv, TypeOK, Answer, Goto, Processes
<1>2. Replied(p)'
  BY <1>1 DEF Replied
<1>3. Known(p)'
  BY <1>1 DEF Known, Serving, SweepLabels
<1> QED
  BY <1>2, <1>3

(* An error says nothing of the reservation.                               *)
LEMMA ErrorJustified ==
    ASSUME NEW p, NEW code, NEW tix, code \notin {"PAID", "DECLINED", "CANCELED"}
    PROVE  Justified(p, code, tix)'
BY DEF Justified

(* The answers of the statements that only read                            *)
LEMMA QuietReply ==
    ASSUME IInv, NEW p \in Requests, NEW code, NEW tix, Answer(p, code, tix),
           UNCHANGED <<tables, tx, req>>, pc[p] \notin WritingLabels,
           code \in {"PAID", "DECLINED", "CANCELED"} => Justified(p, code, tix)
    PROVE  Known(p)' /\ Replied(p)'
<1>1. Justified(p, code, tix)'
  BY ErrorJustified DEF Justified, Owned, tables
<1>2. tx'[p].payment = None
  BY DEF IInv, Written, NotPaid, Processes
<1> QED
  BY <1>1, <1>2, AnswerStep

(* A step of p leaves the others where they are.                           *)
Alone(p) ==
    /\ UNCHANGED req
    /\ \A q \in Requests \ {p} : UNCHANGED <<pc[q], seen[q], tx[q], reply[q]>>

LEMMA OthersStay ==
    ASSUME IInv, NEW p \in Processes, Step(p) \/ Fail(p) \/ CommitUnheard(p)
    PROVE  Alone(p)
<1>0. /\ pc \in [Processes -> Labels] /\ seen \in [Processes -> Row \cup {None}]
      /\ tx \in [Processes -> Transaction] /\ reply \in [Requests -> Response \cup {None}]
      /\ Requests \subseteq Processes
  BY DEF IInv, TypeOK, Processes
<1> USE <1>0 DEF Alone, Proceed, Goto, Answer, Forget, Rest, WriteStatus, AddStock, Commit, Rollback,
                 dbVars, locals
<1>1. TimerFires(p) => Alone(p)
  BY DEF TimerFires
<1>2. Expiring(p) => Alone(p)
  <2>1. FindExpired(p) => Alone(p)
    BY DEF FindExpired
  <2>2. ExpireRead(p) => Alone(p)
    BY DEF ExpireRead
  <2>3. ExpireUpdate(p) => Alone(p)
    BY DEF ExpireUpdate
  <2>4. ExpireIncrement(p) => Alone(p)
    BY DEF ExpireIncrement
  <2>5. ExpireCommit(p) => Alone(p)
    BY DEF ExpireCommit
  <2>6. LoopEnds(p) => Alone(p)
    BY DEF LoopEnds
  <2> QED
    BY <2>1, <2>2, <2>3, <2>4, <2>5, <2>6 DEF Expiring
<1>3. Reserving(p) => Alone(p)
  <2>1. CreateBegins(p) => Alone(p)
    BY DEF CreateBegins
  <2>2. TakeStock(p) => Alone(p)
    BY DEF TakeStock
  <2>3. Insert(p) => Alone(p)
    BY DEF Insert
  <2>4. ExpiresFirst(p) => Alone(p)
    BY DEF ExpiresFirst
  <2>5. GetRead(p) => Alone(p)
    BY DEF GetRead
  <2>6. GetTickets(p) => Alone(p)
    BY DEF GetTickets
  <2>7. CancelRead(p) => Alone(p)
    BY DEF CancelRead
  <2>8. CancelUpdate(p) => Alone(p)
    BY DEF CancelUpdate
  <2>9. Increment(p) => Alone(p)
    BY DEF Increment
  <2> QED
    BY <2>1, <2>2, <2>3, <2>4, <2>5, <2>6, <2>7, <2>8, <2>9 DEF Reserving
<1>4. Paying(p) => Alone(p)
  <2>1. SimulateBegins(p) => Alone(p)
    BY DEF SimulateBegins
  <2>2. FindReplay(p) => Alone(p)
    BY DEF FindReplay
  <2>3. PayRead(p) => Alone(p)
    BY DEF PayRead
  <2>4. PayCheck(p) => Alone(p)
    BY DEF PayCheck
  <2>5. PayRelease(p) => Alone(p)
    BY DEF PayRelease
  <2>6. PayUpdate(p) => Alone(p)
    BY DEF PayUpdate
  <2>7. PayReread(p) => Alone(p)
    BY DEF PayReread
  <2>8. PayInsert(p) => Alone(p)
    BY DEF PayInsert
  <2>9. PayTickets(p) => Alone(p)
    BY DEF PayTickets
  <2>10. PayCatch(p) => Alone(p)
    BY DEF PayCatch
  <2> QED
    BY <2>1, <2>2, <2>3, <2>4, <2>5, <2>6, <2>7, <2>8, <2>9, <2>10 DEF Paying
<1>5. CommitAndAnswer(p) => Alone(p)
  BY DEF CommitAndAnswer
<1>6. Fail(p) => Alone(p)
  BY DEF Fail, Throw
<1>7. CommitUnheard(p) => Alone(p)
  BY DEF CommitUnheard, Throw
<1> QED
  BY <1>1, <1>2, <1>3, <1>4, <1>5, <1>6, <1>7 DEF Step

(* What was answered before stays answered.                                *)
LEMMA SameReply ==
    ASSUME IInv, [Next]_vars, UNCHANGED req, NEW p \in Requests, Replied(p), UNCHANGED reply[p]
    PROVE  Replied(p)'
BY JustifiedStays DEF Replied

LEMMA ExpiringAnswers ==
    ASSUME IInv, [Next]_vars, NEW p \in Requests, Known(p), Replied(p), Expiring(p)
    PROVE  Known(p)' /\ Replied(p)'
<1>0. TypeOK /\ Written(p) /\ Serving(p) /\ p \in Processes /\ p \notin Sweepers
  BY ScriptOfRequests DEF IInv, Known, Processes
<1> DEFINE Loop == {"expire", "expireUpdate", "expireIncrement", "expireCommit"}
<1>1. CASE FindExpired(p) \/ ExpireRead(p) \/ ExpireUpdate(p) \/ ExpireIncrement(p) \/ ExpireCommit(p)
  <2> USE DEF Proceed, Goto, locals, dbVars
  <2>1. /\ pc'[p] \in Loop /\ UNCHANGED <<req, reply>>
        /\ pc[p] \in SweepLabels \ {"idle"}
    <3>1. FindExpired(p) => pc' = [pc EXCEPT ![p] = "expire"] /\ UNCHANGED <<req, reply>>
                              /\ pc[p] = "findExpired"
      BY DEF FindExpired
    <3>2. ExpireRead(p) => /\ pc' = [pc EXCEPT ![p] = "expireUpdate"] \/ pc' = pc
                           /\ UNCHANGED <<req, reply>> /\ pc[p] = "expire"
      BY DEF ExpireRead
    <3>3. ExpireUpdate(p) => /\ \E l \in Loop : pc' = [pc EXCEPT ![p] = l]
                             /\ UNCHANGED <<req, reply>> /\ pc[p] = "expireUpdate"
      BY DEF ExpireUpdate
    <3>4. ExpireIncrement(p) => pc' = [pc EXCEPT ![p] = "expireCommit"] /\ UNCHANGED <<req, reply>>
                                  /\ pc[p] = "expireIncrement"
      BY DEF ExpireIncrement
    <3>5. ExpireCommit(p) => pc' = [pc EXCEPT ![p] = "expire"] /\ UNCHANGED <<req, reply>>
                               /\ pc[p] = "expireCommit"
      BY DEF ExpireCommit
    <3> QED
      BY <1>0, <1>1, <3>1, <3>2, <3>3, <3>4, <3>5 DEF TypeOK, SweepLabels
  <2>2. tx[p].payment = None
    BY <1>0, <2>1 DEF Written, NotPaid, SweepLabels, WritingLabels
  <2>3. tx'[p].payment = None
    BY <1>0, <1>1, <2>2
       DEF FindExpired, ExpireRead, ExpireUpdate, ExpireIncrement, ExpireCommit, WriteStatus, AddStock,
           Commit, NothingWritten, TypeOK, Transaction
  <2>4. Known(p)'
    BY <1>0, <2>1, <2>3 DEF Known, Serving, SweepLabels
  <2> QED
    BY <2>1, <2>4, SameReply
<1>2. CASE LoopEnds(p)
  <2>1. /\ UNCHANGED <<tables, tx, req, reply>> /\ pc[p] = "expire"
        /\ \/ pc'[p] = "takeStock" /\ req[p].op = "create"
           \/ pc'[p] = "getRead" /\ req[p].op = "get"
           \/ pc'[p] = "cancelRead" /\ req[p].op = "cancel"
    BY <1>0, <1>2 DEF LoopEnds, Proceed, Goto, dbVars, TypeOK
  <2>2. tx[p].payment = None
    BY <1>0, <2>1 DEF Written, NotPaid, WritingLabels
  <2>3. Known(p)'
    BY <2>1, <2>2 DEF Known, Serving, SweepLabels
  <2> QED
    BY <2>1, <2>3, SameReply
<1> QED
  BY <1>1, <1>2 DEF Expiring

(* A request that goes on, and knows at its next statement what it must    *)
LEMMA GoesOn ==
    ASSUME IInv, [Next]_vars, UNCHANGED <<req, reply>>, NEW p \in Requests, Replied(p),
           NEW l, pc' = [pc EXCEPT ![p] = l],
           tx'[p].payment = None, l \in Labels \ {"getTickets", "commit"},
           l \in {"payCheck", "payRelease", "payUpdate", "payReread", "payInsert", "payTickets",
                  "increment"} /\ req[p].op = "simulate" => Owned(p),
           l \in SweepLabels \ {"idle"} => req[p].op # "simulate",
           l \in {"takeStock", "insert"} => req[p].op = "create",
           l = "getRead" => req[p].op = "get",
           l \in {"cancelRead", "cancelUpdate"} => req[p].op = "cancel",
           l = "increment" => req[p].op \in {"cancel", "simulate"},
           l \in PayLabels => req[p].op = "simulate"
    PROVE  Known(p)' /\ Replied(p)'
<1>1. pc'[p] = l /\ req[p].reservation \in ReservationIds
  BY DEF IInv, TypeOK, Processes, Request
<1>2. Owned(p) => Owned(p)'
  BY <1>1, OwnerStays DEF Owned
<1>3. Serving(p)'
  BY <1>1 DEF Serving
<1>4. Known(p)'
  BY <1>1, <1>2, <1>3 DEF Known, PayLabels
<1> QED
  BY <1>4, SameReply

LEMMA ReservingAnswers ==
    ASSUME IInv, [Next]_vars, NEW p \in Requests, Known(p), Replied(p), Reserving(p)
    PROVE  Known(p)' /\ Replied(p)'
<1>0. /\ TypeOK /\ Written(p) /\ Serving(p) /\ p \in Processes /\ PaymentsMatch
      /\ req[p].reservation \in ReservationIds
  BY DEF IInv, Known, Processes, TypeOK, Request
<1>1. pc[p] \notin WritingLabels => tx[p].payment = None
  BY <1>0 DEF Written, NotPaid
<1> USE DEF Proceed, locals, dbVars
<1>2. CASE CreateBegins(p)
  <2>1. UNCHANGED <<tables, tx, req>> /\ pc[p] = "idle" /\ req[p].op = "create"
    BY <1>2 DEF CreateBegins
  <2>2. CASE Proceed(p, "findExpired")
    BY <1>1, <2>1, <2>2, GoesOn DEF WritingLabels, PayLabels, Labels, Goto
  <2>3. CASE Answer(p, "INVALID_QUANTITY", {})
    BY <2>1, <2>3, QuietReply DEF WritingLabels
  <2> QED
    BY <1>2, <2>2, <2>3 DEF CreateBegins
<1>3. CASE TakeStock(p)
  <2>1. UNCHANGED <<tables, req>> /\ pc[p] = "takeStock" /\ req[p].op = "create"
        /\ tx[p].payment = None
    BY <1>0, <1>1, <1>3 DEF TakeStock, Serving, WritingLabels
  <2>2. CASE \E e, n : AddStock(p, e, n) /\ Proceed(p, "insert")
    <3>1. tx'[p].payment = None
      BY <1>0, <2>1, <2>2 DEF AddStock, TypeOK, Transaction
    <3> QED
      BY <2>1, <2>2, <3>1, GoesOn DEF SweepLabels, PayLabels, Labels, Goto
  <2>3. CASE UNCHANGED tx /\ \E code \in {"EVENT_NOT_FOUND", "EVENT_NOT_AVAILABLE",
                                         "INSUFFICIENT_INVENTORY"} : Answer(p, code, {})
    BY <2>1, <2>3, QuietReply DEF WritingLabels
  <2> QED
    BY <1>3, <2>2, <2>3 DEF TakeStock
<1>4. CASE Insert(p)
  <2>1. UNCHANGED <<tables, req, reply>> /\ pc[p] = "insert" /\ pc'[p] = "commit"
        /\ req[p].op = "create"
    BY <1>0, <1>4 DEF Insert, Serving, Goto, TypeOK
  <2>2. tx'[p].payment = None
    <3>1. tx[p].payment = None
      BY <1>0, <2>1 DEF Written, NotPaid
    <3>2. \E r, image : tx' = [tx EXCEPT ![p].row = r, ![p].image = image]
      BY <1>4 DEF Insert
    <3> QED
      BY <1>0, <3>1, <3>2 DEF TypeOK, Transaction
  <2>3. Known(p)'
    BY <2>1, <2>2 DEF Known, Serving, SweepLabels
  <2> QED
    BY <2>1, <2>3, SameReply
<1>5. CASE ExpiresFirst(p)
  <2>1. /\ UNCHANGED <<tables, tx, req, reply>> /\ pc[p] = "idle"
        /\ pc' = [pc EXCEPT ![p] = "expire"] /\ req[p].op \in {"get", "cancel"}
    BY <1>5 DEF ExpiresFirst, Goto
  <2> QED
    BY <1>1, <2>1, GoesOn DEF WritingLabels, PayLabels, Labels
<1>6. CASE GetRead(p)
  <2>1. UNCHANGED <<tables, tx, req>> /\ pc[p] = "getRead" /\ req[p].op = "get"
        /\ tx[p].payment = None
    BY <1>0, <1>1, <1>6 DEF GetRead, Serving, WritingLabels
  <2>2. CASE /\ Owned(p) /\ UNCHANGED reply
             /\ seen' = [seen EXCEPT ![p] = reservations[req[p].reservation]]
             /\ Goto(p, "getTickets")
    <3>1. pc'[p] = "getTickets" /\ seen'[p] = reservations[req[p].reservation]
      BY <1>0, <2>2 DEF TypeOK, Goto
    <3>2. Known(p)'
      BY <2>1, <2>2, <3>1 DEF Known, Serving, SweepLabels, Owned, tables
    <3> QED
      BY <2>1, <2>2, <3>2, SameReply
  <2>3. CASE Answer(p, "RESERVATION_NOT_FOUND", {})
    BY <2>1, <2>3, QuietReply DEF WritingLabels
  <2> QED
    BY <1>6, <2>2, <2>3 DEF GetRead
<1>7. CASE GetTickets(p)
  <2>1. /\ UNCHANGED <<tables, tx, req>> /\ pc[p] = "getTickets" /\ req[p].op = "get"
        /\ Answer(p, seen[p].status, tickets[req[p].reservation])
    BY <1>0, <1>7 DEF GetTickets, Serving
  <2>2. Justified(p, seen[p].status, tickets[req[p].reservation])
    BY <2>1 DEF Justified, Known
  <2> QED
    BY <2>1, <2>2, QuietReply DEF WritingLabels
<1>8. CASE CancelRead(p)
  <2>1. UNCHANGED <<tables, tx, req>> /\ pc[p] = "cancelRead" /\ req[p].op = "cancel"
        /\ tx[p].payment = None
    BY <1>0, <1>1, <1>8 DEF CancelRead, Serving, WritingLabels
  <2>2. CASE \E code \in {"RESERVATION_NOT_FOUND", "RESERVATION_NOT_CANCELABLE"} : Answer(p, code, {})
    BY <2>1, <2>2, QuietReply DEF WritingLabels
  <2>3. CASE /\ Owned(p) /\ reservations[req[p].reservation].status = "CANCELED"
             /\ Answer(p, "CANCELED", {})
    BY <2>1, <2>3, QuietReply DEF WritingLabels, Justified, Owned
  <2>4. CASE Goto(p, "cancelUpdate") /\ UNCHANGED reply
    BY <2>1, <2>4, GoesOn DEF SweepLabels, PayLabels, Labels, Goto
  <2> QED
    BY <1>8, <2>2, <2>3, <2>4 DEF CancelRead
<1>9. CASE CancelUpdate(p)
  <2>1. UNCHANGED <<tables, req>> /\ pc[p] = "cancelUpdate" /\ req[p].op = "cancel"
        /\ tx[p].payment = None
    BY <1>0, <1>1, <1>9 DEF CancelUpdate, Serving, WritingLabels
  <2>2. CASE WriteStatus(p, req[p].reservation, "CANCELED", TRUE) /\ Proceed(p, "increment")
    <3>1. tx'[p].payment = None
      BY <1>0, <2>1, <2>2 DEF WriteStatus, TypeOK, Transaction
    <3> QED
      BY <2>1, <2>2, <3>1, GoesOn DEF SweepLabels, PayLabels, Labels, Goto
  <2>3. CASE UNCHANGED tx /\ Answer(p, "RESERVATION_NOT_CANCELABLE", {})
    BY <2>1, <2>3, QuietReply DEF WritingLabels
  <2> QED
    BY <1>9, <2>2, <2>3 DEF CancelUpdate
<1>10. CASE Increment(p)
  <2> DEFINE r == req[p].reservation
             l == IF tx[p].image.status = "DECLINED" THEN "payInsert" ELSE "commit"
  <2>1. /\ UNCHANGED <<tables, req, reply>> /\ pc[p] = "increment" /\ pc' = [pc EXCEPT ![p] = l]
        /\ \E e, n : AddStock(p, e, n)
    BY <1>10 DEF Increment, Goto
  <2>2. /\ req[p].op \in {"cancel", "simulate"}
        /\ req[p].op = "simulate" => Owned(p)
        /\ tx[p].row = r /\ tx[p].payment = None
        /\ tx[p].image.status = "DECLINED" => req[p].op = "simulate"
    BY <1>0, <2>1 DEF Known, Serving, Written, Settling, NotPaid
  <2>3. tx'[p].row = r /\ tx'[p].payment = None
    BY <1>0, <2>1, <2>2 DEF AddStock, TypeOK, Transaction
  <2>4. CASE l = "payInsert"
    BY <2>1, <2>2, <2>3, <2>4, GoesOn DEF SweepLabels, PayLabels, Labels
  <2>5. CASE l = "commit"
    <3>1. pc'[p] = "commit"
      BY <1>0, <2>1, <2>5 DEF TypeOK
    <3>2. Known(p)'
      BY <2>1, <2>2, <2>3, <3>1 DEF Known, Serving, SweepLabels, Owned, tables
    <3> QED
      BY <2>1, <3>2, SameReply
  <2> QED
    BY <2>4, <2>5
<1> QED
  BY <1>2, <1>3, <1>4, <1>5, <1>6, <1>7, <1>8, <1>9, <1>10, Zenon DEF Reserving

LEMMA PayingAnswers ==
    ASSUME IInv, [Next]_vars, NEW p \in Requests, Known(p), Replied(p), Paying(p)
    PROVE  Known(p)' /\ Replied(p)'
<1>0. /\ TypeOK /\ ControlOK /\ Written(p) /\ Serving(p) /\ p \in Processes /\ PaymentsMatch
      /\ req[p].reservation \in ReservationIds
  BY DEF IInv, Known, Processes, TypeOK, Request
<1>1. pc[p] \notin WritingLabels => tx[p].payment = None
  BY <1>0 DEF Written, NotPaid
<1>2. pc[p] \in PayLabels => req[p].op = "simulate"
  BY <1>0 DEF ControlOK
<1> DEFINE r == req[p].reservation
<1>3. ASSUME req[p].op = "simulate", NEW s \in PaidWith(req[p].key), SameRequest(p, s)
      PROVE  Justified(p, PaidStatus(s), tickets[s])
  <2>1. /\ s = r /\ payments[r] # None /\ payments[r].key = req[p].key
        /\ reservations[r].customer = req[p].customer /\ payments[r].status = req[p].result
    BY <1>3 DEF PaidWith, SameRequest
  <2>2. reservations[r] # None
    BY <1>0, <2>1 DEF PaymentsMatch
  <2>3. payments[r].status \in {"APPROVED", "DECLINED"}
    BY <1>0, <2>1, NoneIsNoValue DEF TypeOK, Payment
  <2>4. reservations[r].status = PaidStatus(s)
    BY <1>0, <2>1, <2>2, <2>3 DEF PaymentsMatch, PaidStatus
  <2> QED
    BY <1>3, <2>1, <2>2, <2>4 DEF Justified, Owned
<1>4. payments[r] # None /\ payments[r].status = "APPROVED" /\ req[p].result = "APPROVED" /\ Owned(p)
        => Justified(p, "PAID", tickets[r])
  BY <1>0 DEF Justified, PaymentsMatch
<1> USE DEF Proceed, locals, dbVars
<1>5. CASE SimulateBegins(p)
  <2>1. UNCHANGED <<tables, tx, req>> /\ pc[p] = "idle" /\ req[p].op = "simulate"
    BY <1>5 DEF SimulateBegins
  <2>2. CASE Proceed(p, "replay")
    BY <1>1, <2>1, <2>2, GoesOn DEF WritingLabels, SweepLabels, Labels, Goto
  <2>3. CASE Answer(p, "IDEMPOTENCY_KEY_REQUIRED", {})
    BY <2>1, <2>3, QuietReply DEF WritingLabels
  <2> QED
    BY <1>5, <2>2, <2>3 DEF SimulateBegins
<1>6. CASE FindReplay(p)
  <2>1. UNCHANGED <<tables, tx, req>> /\ pc[p] \in {"replay", "replayTx"} /\ req[p].op = "simulate"
        /\ tx[p].payment = None
    BY <1>1, <1>2, <1>6 DEF FindReplay, WritingLabels, PayLabels
  <2>2. CASE \E l \in {"replayTx", "payRead"} : Proceed(p, l)
    BY <2>1, <2>2, GoesOn DEF WritingLabels, SweepLabels, Labels, Goto
  <2>3. CASE \E s \in PaidWith(req[p].key) :
               SameRequest(p, s) /\ Answer(p, PaidStatus(s), tickets[s])
    BY <1>3, <2>1, <2>3, QuietReply DEF WritingLabels
  <2>4. CASE Answer(p, "IDEMPOTENCY_KEY_REUSED", {})
    BY <2>1, <2>4, QuietReply DEF WritingLabels
  <2> QED
    BY <1>6, <2>2, <2>3, <2>4 DEF FindReplay
<1>7. CASE PayRead(p)
  <2>1. UNCHANGED <<tables, tx, req>> /\ pc[p] = "payRead" /\ req[p].op = "simulate"
        /\ tx[p].payment = None
    BY <1>1, <1>2, <1>7 DEF PayRead, WritingLabels, PayLabels
  <2>2. CASE Owned(p) /\ Goto(p, "payCheck") /\ UNCHANGED reply
    BY <2>1, <2>2, GoesOn DEF SweepLabels, PayLabels, Labels, Goto
  <2>3. CASE Answer(p, "RESERVATION_NOT_FOUND", {})
    BY <2>1, <2>3, QuietReply DEF WritingLabels
  <2> QED
    BY <1>7, <2>2, <2>3 DEF PayRead
<1>8. CASE PayCheck(p)
  <2>1. UNCHANGED <<tables, tx, req>> /\ pc[p] = "payCheck" /\ req[p].op = "simulate"
        /\ tx[p].payment = None /\ Owned(p)
    BY <1>1, <1>2, <1>8 DEF PayCheck, WritingLabels, PayLabels, Known
  <2>2. CASE /\ payments[r] # None /\ payments[r].status = "APPROVED" /\ req[p].result = "APPROVED"
             /\ Answer(p, "PAID", tickets[r])
    BY <1>4, <2>1, <2>2, QuietReply DEF WritingLabels
  <2>3. CASE Answer(p, "RESERVATION_NOT_PAYABLE", {})
    BY <2>1, <2>3, QuietReply DEF WritingLabels
  <2>4. CASE (\E l \in {"payRelease", "payUpdate"} : Goto(p, l)) /\ UNCHANGED reply
    BY <2>1, <2>4, GoesOn DEF SweepLabels, PayLabels, Labels, Goto
  <2> QED
    BY <1>8, <2>2, <2>3, <2>4 DEF PayCheck
<1>9. CASE PayRelease(p)
  <2>1. UNCHANGED <<tables, req>> /\ pc[p] = "payRelease" /\ req[p].op = "simulate"
        /\ tx[p].payment = None /\ Owned(p)
    BY <1>1, <1>2, <1>9 DEF PayRelease, WritingLabels, PayLabels, Known
  <2>2. CASE WriteStatus(p, r, "EXPIRED", TRUE) /\ Proceed(p, "increment")
    <3>1. tx'[p].payment = None
      BY <1>0, <2>1, <2>2 DEF WriteStatus, TypeOK, Transaction
    <3> QED
      BY <2>1, <2>2, <3>1, GoesOn DEF SweepLabels, PayLabels, Labels, Goto
  <2>3. CASE UNCHANGED tx /\ Answer(p, "RESERVATION_EXPIRED", {})
    BY <2>1, <2>3, QuietReply DEF WritingLabels
  <2> QED
    BY <1>9, <2>2, <2>3 DEF PayRelease
<1>10. CASE PayUpdate(p)
  <2>1. UNCHANGED <<tables, req>> /\ pc[p] = "payUpdate" /\ req[p].op = "simulate"
        /\ tx[p].payment = None /\ Owned(p)
    BY <1>1, <1>2, <1>10 DEF PayUpdate, WritingLabels, PayLabels, Known
  <2>2. /\ \E l \in {"payInsert", "increment", "payReread"} : Proceed(p, l)
        /\ UNCHANGED tx \/ \E status, released : WriteStatus(p, r, status, released)
    BY <1>10 DEF PayUpdate
  <2>3. tx'[p].payment = None
    BY <1>0, <2>1, <2>2 DEF WriteStatus, TypeOK, Transaction
  <2> QED
    BY <2>1, <2>2, <2>3, GoesOn DEF SweepLabels, PayLabels, Labels, Goto
<1>11. CASE PayReread(p)
  <2>1. UNCHANGED <<tables, tx, req>> /\ pc[p] = "payReread" /\ req[p].op = "simulate"
        /\ tx[p].payment = None /\ Owned(p)
    BY <1>1, <1>2, <1>11 DEF PayReread, WritingLabels, PayLabels, Known
  <2>2. CASE Proceed(p, "payRelease")
    BY <2>1, <2>2, GoesOn DEF SweepLabels, PayLabels, Labels, Goto
  <2>3. CASE /\ reservations[r].status = "PAID" /\ req[p].result = "APPROVED"
             /\ Answer(p, PaidStatus(r), tickets[r])
    <3>1. payments[r] # None /\ payments[r].status = "APPROVED" /\ PaidStatus(r) = "PAID"
      BY <1>0, <2>1, <2>3 DEF PaymentsMatch, PaidStatus, Owned
    <3> QED
      BY <1>4, <2>1, <2>3, <3>1, QuietReply DEF WritingLabels
  <2>4. CASE Answer(p, "RESERVATION_NOT_PAYABLE", {})
    BY <2>1, <2>4, QuietReply DEF WritingLabels
  <2> QED
    BY <1>11, <2>2, <2>3, <2>4 DEF PayReread
<1>12. CASE PayInsert(p)
  <2> DEFINE pay == [key |-> req[p].key, status |-> req[p].result]
             l == IF req[p].result = "APPROVED" THEN "payTickets" ELSE "commit"
  <2>1. UNCHANGED <<req, reply>> /\ pc[p] = "payInsert" /\ req[p].op = "simulate"
        /\ Owned(p) /\ tx[p].row = r
    BY <1>0, <1>2, <1>12 DEF PayInsert, PayLabels, Known, Written, Settling
  <2>2. CASE Rollback(p) /\ Proceed(p, "payCatch")
    <3>1. tx'[p].payment = None
      BY <1>0, <2>2 DEF Rollback, NothingWritten, TypeOK
    <3> QED
      BY <2>1, <2>2, <3>1, GoesOn DEF SweepLabels, PayLabels, Labels, Goto
  <2>3. CASE /\ tx' = [tx EXCEPT ![p].payment = pay] /\ UNCHANGED tables
             /\ Proceed(p, l)
    <3> HIDE DEF pay
    <3>1. tx'[p].payment = pay /\ tx'[p].row = r /\ pc'[p] = l
      BY <1>0, <2>1, <2>3 DEF TypeOK, Transaction, Goto
    <3>2. pay = [key |-> req'[p].key, status |-> req'[p].result]
      BY <2>1 DEF pay
    <3>3. Owned(p)'
      BY <2>1, <2>3 DEF Owned, tables
    <3>4. Known(p)'
      BY <2>1, <3>1, <3>2, <3>3 DEF Known, Serving, SweepLabels
    <3> QED
      BY <2>1, <3>4, SameReply
  <2> QED
    BY <1>12, <2>2, <2>3 DEF PayInsert
<1>13. CASE PayTickets(p)
  <2>1. UNCHANGED <<tables, req, reply>> /\ pc[p] = "payTickets" /\ req[p].op = "simulate"
        /\ Owned(p) /\ tx[p].row = r /\ pc'[p] = "commit"
    BY <1>0, <1>2, <1>13 DEF PayTickets, PayLabels, Known, Written, Settling, Goto, TypeOK
  <2>2. tx'[p].payment = tx[p].payment /\ tx'[p].row = r
    <3>1. \E all : tx' = [tx EXCEPT ![p].tickets = all]
      BY <1>13 DEF PayTickets
    <3> QED
      BY <1>0, <2>1, <3>1 DEF TypeOK, Transaction
  <2>3. Owned(p)'
    BY <2>1 DEF Owned, tables
  <2>4. Known(p)'
    BY <2>1, <2>2, <2>3 DEF Known, Serving, SweepLabels
  <2> QED
    BY <2>1, <2>4, SameReply
<1>14. CASE PayCatch(p)
  <2>1. UNCHANGED <<tables, tx, req>> /\ pc[p] = "payCatch" /\ req[p].op = "simulate"
        /\ tx[p].payment = None
    BY <1>1, <1>2, <1>14 DEF PayCatch, WritingLabels, PayLabels
  <2>2. CASE \E s \in PaidWith(req[p].key) :
               SameRequest(p, s) /\ Answer(p, PaidStatus(s), tickets[s])
    BY <1>3, <2>1, <2>2, QuietReply DEF WritingLabels
  <2>3. CASE \E code \in {"IDEMPOTENCY_KEY_REUSED", "RESERVATION_NOT_PAYABLE"} : Answer(p, code, {})
    BY <2>1, <2>3, QuietReply DEF WritingLabels
  <2>4. CASE req[p].result = "APPROVED" /\ ApprovedFor(p) /\ Answer(p, "PAID", tickets[r])
    <3>1. Owned(p)
      BY <1>0, <2>4 DEF ApprovedFor, Owned, PaymentsMatch
    <3> QED
      BY <1>4, <2>1, <2>4, <3>1, QuietReply DEF WritingLabels, ApprovedFor
  <2> QED
    BY <1>14, <2>2, <2>3, <2>4 DEF PayCatch
<1> QED
  BY <1>5, <1>6, <1>7, <1>8, <1>9, <1>10, <1>11, <1>12, <1>13, <1>14, Zenon DEF Paying

(* The COMMIT of a request's transaction, and its answer                   *)
LEMMA CommitAnswers ==
    ASSUME IInv, [Next]_vars, NEW p \in Requests, Known(p), CommitAndAnswer(p)
    PROVE  Known(p)' /\ Replied(p)'
<1> DEFINE r == tx[p].row
           image == tx[p].image
<1>. PICK code, tix : /\ code = IF image.status = "EXPIRED" THEN "RESERVATION_EXPIRED" ELSE image.status
                      /\ tix = tx[p].tickets
  OBVIOUS
<1>0. /\ TypeOK /\ Written(p) /\ Serving(p) /\ p \in Processes /\ PaymentsMatch
      /\ pc[p] = "commit" /\ Commit(p) /\ UNCHANGED req /\ Answer(p, code, tix)
  BY DEF IInv, Known, Processes, CommitAndAnswer
<1>1. /\ r \in ReservationIds /\ image \in Row /\ image # None
      /\ reservations' = [reservations EXCEPT ![r] = image]
      /\ Booking(p) \/ GivingBack(p) \/ Selling(p)
  BY <1>0, CommitRow, NoneIsNoValue
<1>2. reservations'[r] = image
  BY <1>0, <1>1 DEF TypeOK
<1>3. tx'[p].payment = None
  BY <1>0 DEF Commit, NothingWritten, TypeOK
<1>4. req' = req /\ req[p].op \in {"create", "cancel", "simulate"}
  BY <1>0 DEF Serving, TypeOK, Request
<1>5. Justified(p, code, tix)'
  <2>1. CASE req[p].op = "create"
    BY <1>0, <2>1 DEF Justified
  <2>2. CASE req[p].op = "cancel" /\ code = "CANCELED"
    <3>1. req[p].reservation = r
      BY <1>0, <2>2 DEF Known
    <3> QED
      BY <1>0, <1>1, <1>2, <2>2, <3>1 DEF Justified
  <2>3. CASE req[p].op = "simulate" /\ code \in {"PAID", "DECLINED"}
    <3>1. /\ req[p].reservation = r /\ Owned(p)
          /\ tx[p].payment # None =>
               tx[p].payment = [key |-> req[p].key, status |-> req[p].result]
      BY <1>0, <2>3 DEF Known
    <3>2. image.status = code
      BY <2>3
    <3>3. GivingBack(p) \/ Selling(p)
      BY <1>1, <2>3 DEF Booking
    <3>4. /\ tx[p].payment # None /\ image.customer = reservations[r].customer
          /\ tickets[r] = {}
      <4>1. reservations[r] \in Row
        BY <1>0, <3>3, SettlingRow DEF GivingBack, Selling
      <4>2. image.customer = reservations[r].customer
        BY <3>3, <4>1 DEF GivingBack, Selling, Settling, Row
      <4>3. tickets[r] = {}
        BY <1>0, <1>1, <3>3 DEF GivingBack, Selling, Settling, PaymentsMatch
      <4> QED
        BY <2>3, <3>2, <3>3, <4>2, <4>3 DEF GivingBack, Selling, Settling, Paid
    <3>5. payments'[r] = tx[p].payment /\ tickets'[r] = tix
      BY <1>0, <1>1, <3>4 DEF Commit, TypeOK
    <3>6. Owned(p)'
      BY <1>0, <1>1, <1>2, <3>1, <3>4 DEF Owned
    <3>7. payments'[r] # None /\ payments'[r].key = req[p].key /\ payments'[r].status = req[p].result
      BY <3>1, <3>4, <3>5
    <3> HIDE DEF r, image
    <3> QED
      BY <1>2, <1>4, <2>3, <3>1, <3>2, <3>5, <3>6, <3>7 DEF Justified
  <2> HIDE DEF r, image
  <2> QED
    BY <1>4, <2>1, <2>2, <2>3 DEF Justified
<1> QED
  BY <1>0, <1>3, <1>5, AnswerStep

(* A statement that fails, or a COMMIT whose acknowledgement is lost       *)
LEMMA FailureAnswers ==
    ASSUME IInv, NEW p \in Requests, Fail(p) \/ CommitUnheard(p)
    PROVE  Known(p)' /\ Replied(p)'
<1>1. UNCHANGED req /\ Answer(p, "INTERNAL_ERROR", {})
  BY ScriptOfRequests DEF Fail, CommitUnheard, Throw
<1>2. tx'[p].payment = None
  BY DEF IInv, TypeOK, Processes, Fail, CommitUnheard, Rollback, Commit, NothingWritten
<1> QED
  BY <1>1, <1>2, ErrorJustified, AnswerStep

LEMMA AnswersStep == IInv /\ AnswersInv /\ [Next]_vars => AnswersInv'
<1> SUFFICES ASSUME IInv, AnswersInv, [Next]_vars, NEW q \in Requests
             PROVE  Known(q)' /\ Replied(q)'
  BY DEF AnswersInv
<1>0. Known(q) /\ Replied(q)
  BY DEF AnswersInv
<1>1. CASE UNCHANGED vars \/ Tick
  <2>1. UNCHANGED <<pc[q], seen[q], tx[q], reply[q], req>>
    BY <1>1 DEF vars, dbVars, locals, Tick
  <2> QED
    BY <1>0, <2>1, KnownStays, SameReply
<1>2. ASSUME NEW p \in Processes, p # q, Step(p) \/ Fail(p) \/ CommitUnheard(p)
      PROVE  Known(q)' /\ Replied(q)'
  <2>1. Alone(p)
    BY <1>2, OthersStay
  <2> QED
    BY <1>0, <1>2, <2>1, KnownStays, SameReply DEF Alone
<1>3. CASE Step(q)
  <2>1. ~TimerFires(q)
    BY ScriptOfRequests DEF TimerFires
  <2> QED
    BY <1>0, <1>3, <2>1, ExpiringAnswers, ReservingAnswers, PayingAnswers, CommitAnswers DEF Step
<1>4. CASE Fail(q) \/ CommitUnheard(q)
  BY <1>4, FailureAnswers
<1> QED
  BY <1>1, <1>2, <1>3, <1>4 DEF Next

LEMMA Answering == Spec => [](IInv /\ AnswersInv)
<1>1. Init => AnswersInv
  BY DEF Init, DbInit, HandlersInit, AnswersInv, Known, Serving, Replied, SweepLabels, Processes,
         NothingWritten
<1> QED
  BY <1>1, AnswersStep, Inductive, PTL DEF Spec

-----------------------------------------------------------------------------
(* The theorems                                                            *)

(* Whoever is told of a payment was told of their own, with the result     *)
(* they asked for, and no two payments share an Idempotency-Key:           *)
(* payments.service.ts never answers one customer or one request with the  *)
(* outcome of another, whatever retries and conflicts it goes through.     *)
THEOREM KeysBuyOnce == Spec => []OneOutcomePerKey
<1>1. IInv /\ AnswersInv => OneOutcomePerKey
  BY DEF IInv, KeysUnique, AnswersInv, Replied, Justified, Told, OneOutcomePerKey
<1> QED
  BY <1>1, Answering, PTL

(* A response stays true: who was told that a reservation is paid,         *)
(* declined or canceled finds it so for good, with every ticket there is.  *)
THEOREM AnswersHold == Spec => []RepliesAreTrue
<1>1. IInv /\ AnswersInv => RepliesAreTrue
  <2> SUFFICES ASSUME IInv, AnswersInv, NEW p \in Requests, Replied(p)
               PROVE  RepliesAreTrue!(p)
    BY DEF AnswersInv, RepliesAreTrue
  <2> QED
    BY DEF IInv, PaymentsMatch, TypeOK, Request, Replied, Justified, Told
<1> QED
  BY <1>1, Answering, PTL
=============================================================================
