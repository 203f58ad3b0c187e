--------------------------- MODULE CheckoutProofs ---------------------------
(***************************************************************************)
(* Proofs, for every set of requests, timers, events and reservations,     *)
(* that the checkout conserves stock and that reservations, payments and   *)
(* tickets agree.  IInv of Checkout is the inductive invariant.            *)
(***************************************************************************)
EXTENDS Checkout, FiniteSetTheorems, TLAPS

-----------------------------------------------------------------------------
(* Counting places                                                         *)

(* The places that reservations hold of an event are finitely many.        *)
LEMMA PlacesFinite ==
    ASSUME NEW rows, NEW e
    PROVE  IsFiniteSet(PlacesIn(rows, e)) /\ Cardinality(PlacesIn(rows, e)) \in Nat
<1>1. IsFiniteSet(1..MaxQuantity)
  BY SetsAreFinite, FS_Interval
<1>2. IsFiniteSet(ReservationIds \X (1..MaxQuantity))
  BY <1>1, SetsAreFinite, FS_Product
<1>3. PlacesIn(rows, e) \in SUBSET (ReservationIds \X (1..MaxQuantity))
  BY DEF PlacesIn
<1>4. IsFiniteSet(PlacesIn(rows, e))
  BY <1>2, <1>3, FS_Subset
<1> QED
  BY <1>4, FS_CardinalityType

(* One reservation of n places stands for n pairs.                         *)
LEMMA PlacesOfOne ==
    ASSUME NEW r, NEW n \in 1..MaxQuantity
    PROVE  IsFiniteSet({r} \X (1..n)) /\ Cardinality({r} \X (1..n)) = n
<1>1. n \in Nat /\ n >= 1
  BY SetsAreFinite
<1>2. IsFiniteSet(1..n) /\ Cardinality(1..n) = n
  BY <1>1, FS_Interval
<1>3. IsFiniteSet({r}) /\ Cardinality({r}) = 1
  BY FS_Singleton
<1>4. IsFiniteSet({r} \X (1..n)) /\ Cardinality({r} \X (1..n)) = 1 * n
  BY <1>2, <1>3, FS_Product
<1> QED
  BY <1>1, <1>4

(* A row that holds its places adds its quantity to those of its event,    *)
(* and nothing to those of another one.                                    *)
LEMMA PlacesGained ==
    ASSUME NEW rows \in [ReservationIds -> Row \cup {None}],
           NEW r \in ReservationIds, NEW row \in Row, NEW e,
           rows[r] = None \/ rows[r].released, ~row.released
    PROVE  /\ e = row.event =>
                Cardinality(PlacesIn([rows EXCEPT ![r] = row], e)) =
                  Cardinality(PlacesIn(rows, e)) + row.quantity
           /\ e # row.event =>
                Cardinality(PlacesIn([rows EXCEPT ![r] = row], e)) = Cardinality(PlacesIn(rows, e))
<1> DEFINE old == PlacesIn(rows, e)
           new == PlacesIn([rows EXCEPT ![r] = row], e)
           one == {r} \X (1..row.quantity)
<1>1. row # None /\ row.quantity \in 1..MaxQuantity
  BY NoneIsNoValue DEF Row
<1>2. CASE e = row.event
  <2>1. new = old \cup one
    BY <1>1, <1>2, SetsAreFinite DEF PlacesIn
  <2>2. old \cap one = {}
    BY DEF PlacesIn
  <2>3. IsFiniteSet(one) /\ Cardinality(one) = row.quantity
    BY <1>1, PlacesOfOne
  <2>4. IsFiniteSet(old) /\ Cardinality(old) \in Nat
    BY PlacesFinite
  <2>5. Cardinality(old \cup one) = Cardinality(old) + Cardinality(one) - Cardinality(old \cap one)
    BY <2>3, <2>4, FS_Union
  <2>6. Cardinality(old \cap one) = 0
    BY <2>2, FS_EmptySet
  <2>7. row.quantity \in Nat
    BY <1>1
  <2>8. Cardinality(new) = Cardinality(old) + row.quantity
    <3> HIDE DEF old, new, one
    <3> QED BY <2>1, <2>3, <2>4, <2>5, <2>6, <2>7
  <2> QED
    BY <1>2, <2>8
<1>3. CASE e # row.event
  <2>1. new = old
    BY <1>1, <1>3 DEF PlacesIn
  <2> QED
    BY <1>3, <2>1, PlacesFinite
<1> QED
  BY <1>2, <1>3

(* A row that is released takes its quantity off the places of its event.  *)
LEMMA PlacesLost ==
    ASSUME NEW rows \in [ReservationIds -> Row \cup {None}],
           NEW r \in ReservationIds, NEW row \in Row, NEW e,
           rows[r] # None, ~rows[r].released, row.released
    PROVE  /\ e = rows[r].event =>
                Cardinality(PlacesIn([rows EXCEPT ![r] = row], e)) =
                  Cardinality(PlacesIn(rows, e)) - rows[r].quantity
           /\ e # rows[r].event =>
                Cardinality(PlacesIn([rows EXCEPT ![r] = row], e)) = Cardinality(PlacesIn(rows, e))
<1> DEFINE new == [rows EXCEPT ![r] = row]
<1>1. new \in [ReservationIds -> Row \cup {None}]
  OBVIOUS
<1>2. new[r] = None \/ new[r].released
  OBVIOUS
<1>3. rows[r] \in Row /\ rows = [new EXCEPT ![r] = rows[r]]
  OBVIOUS
<1>4. /\ e = rows[r].event =>
           Cardinality(PlacesIn([new EXCEPT ![r] = rows[r]], e)) =
             Cardinality(PlacesIn(new, e)) + rows[r].quantity
      /\ e # rows[r].event =>
           Cardinality(PlacesIn([new EXCEPT ![r] = rows[r]], e)) = Cardinality(PlacesIn(new, e))
  BY <1>1, <1>2, <1>3, PlacesGained
<1>5. rows[r].quantity \in Int
  BY <1>3, SetsAreFinite DEF Row
<1>6. Cardinality(PlacesIn(new, e)) \in Nat /\ Cardinality(PlacesIn(rows, e)) \in Nat
  BY PlacesFinite
<1> QED
  BY <1>3, <1>4, <1>5, <1>6

(* A row that keeps its event, its quantity and its inventory leaves the   *)
(* places as they are.                                                     *)
LEMMA PlacesKept ==
    ASSUME NEW rows \in [ReservationIds -> Row \cup {None}],
           NEW r \in ReservationIds, NEW row \in Row, NEW e,
           rows[r] # None, ~rows[r].released, ~row.released,
           row.event = rows[r].event, row.quantity = rows[r].quantity
    PROVE  PlacesIn([rows EXCEPT ![r] = row], e) = PlacesIn(rows, e)
<1>1. row # None
  BY NoneIsNoValue
<1> QED
  BY <1>1 DEF PlacesIn

-----------------------------------------------------------------------------
(* The initial states                                                      *)

LEMMA InitInv == Init => IInv
<1> SUFFICES ASSUME Init PROVE IInv
  OBVIOUS
<1> USE DEF Init, DbInit, HandlersInit
<1>1. TypeOK
  <2>1. reservations \in [ReservationIds -> Row \cup {None}]
    BY InitialRowsArePending
  <2>2. available \in [Events -> Int]
    BY PlacesFinite, EventsHaveCapacity DEF HeldPlaces
  <2>3. tx \in [Processes -> Transaction]
    BY DEF Transaction, NothingWritten
  <2>4. req \in [Requests -> Request]
    BY ScriptOfRequests
  <2>5. pc \in [Processes -> Labels]
    BY DEF Labels
  <2> QED
    BY <2>1, <2>2, <2>3, <2>4, <2>5 DEF TypeOK
<1>2. ControlOK
  BY DEF ControlOK, SweepLabels, PayLabels, Processes
<1>3. LocksExclusive /\ KeysUnique
  BY DEF LocksExclusive, KeysUnique, NothingWritten
<1>4. \A p \in Processes : Written(p)
  BY DEF Written, StockUntouched, NotPaid, NothingWritten, WritingLabels
<1>5. StockConserved
  BY InitialRowsArePending, EventsHaveCapacity, PlacesFinite DEF StockConserved, HeldPlaces
<1>6. PaymentsMatch
  BY InitialRowsArePending DEF PaymentsMatch, Row
<1> QED
  BY <1>1, <1>2, <1>3, <1>4, <1>5, <1>6 DEF IInv

-----------------------------------------------------------------------------
(* Control: who may be where, step by step                                 *)

LEMMA ControlStep == IInv /\ [Next]_vars => ControlOK'
<1> SUFFICES ASSUME IInv, [Next]_vars PROVE ControlOK'
  OBVIOUS
<1> USE ScriptOfRequests, NoneIsNoValue DEF IInv, TypeOK, ControlOK, SweepLabels, PayLabels, Processes
<1>1. CASE UNCHANGED vars
  BY <1>1 DEF vars, locals
<1>2. CASE Tick
  BY <1>2 DEF Tick, locals
<1>3. ASSUME NEW p \in Processes, TimerFires(p) PROVE ControlOK'
  BY <1>3 DEF TimerFires, Proceed, Goto, locals
<1>4. ASSUME NEW p \in Processes, Expiring(p) PROVE ControlOK'
  <2>1. CASE FindExpired(p)
    BY <2>1 DEF FindExpired, Goto
  <2>2. CASE ExpireRead(p)
    BY <2>2 DEF ExpireRead, Goto
  <2>3. CASE ExpireUpdate(p)
    <3>1. /\ pc[p] = "expireUpdate"
          /\ \E l \in {"expire", "expireIncrement"} : pc' = [pc EXCEPT ![p] = l]
          /\ UNCHANGED <<req, seen, cur>>
      BY <2>3 DEF ExpireUpdate, Proceed, Goto, locals
    <3> QED
      BY <3>1
  <2>4. CASE ExpireIncrement(p)
    BY <2>4 DEF ExpireIncrement, Proceed, Goto, locals
  <2>5. CASE ExpireCommit(p)
    BY <2>5 DEF ExpireCommit, Proceed, Goto, locals
  <2>6. CASE LoopEnds(p)
    BY <2>6 DEF LoopEnds, Rest, Forget, Proceed, Goto, locals
  <2> QED
    BY <1>4, <2>1, <2>2, <2>3, <2>4, <2>5, <2>6 DEF Expiring
<1>5. ASSUME NEW p \in Processes, Reserving(p) PROVE ControlOK'
  <2>1. CASE CreateBegins(p)
    BY <2>1 DEF CreateBegins, Answer, Forget, Proceed, Goto, locals
  <2>2. CASE TakeStock(p)
    BY <2>2 DEF TakeStock, Answer, Forget, Proceed, Goto, locals
  <2>3. CASE Insert(p)
    BY <2>3 DEF Insert, Proceed, Goto, locals
  <2>4. CASE ExpiresFirst(p)
    BY <2>4 DEF ExpiresFirst, Goto
  <2>5. CASE GetRead(p)
    BY <2>5 DEF GetRead, Owned, Answer, Forget, Goto
  <2>6. CASE GetTickets(p)
    BY <2>6 DEF GetTickets, Answer, Forget, Goto
  <2>7. CASE CancelRead(p)
    BY <2>7 DEF CancelRead, Answer, Forget, Goto
  <2>8. CASE CancelUpdate(p)
    <3>1. /\ pc[p] = "cancelUpdate" /\ UNCHANGED req
          /\ \/ pc' = [pc EXCEPT ![p] = "increment"] /\ UNCHANGED <<seen, cur>>
             \/ /\ pc' = [pc EXCEPT ![p] = "done"]
                /\ seen' = [seen EXCEPT ![p] = None]
                /\ cur' = [cur EXCEPT ![p] = None]
      BY <2>8 DEF CancelUpdate, Answer, Forget, Proceed, Goto, locals
    <3> QED
      BY <3>1
  <2>9. CASE Increment(p)
    BY <2>9 DEF Increment, Written, WritingLabels, Unpaid, Settling, Proceed, Goto, locals
  <2> QED
    BY <1>5, <2>1, <2>2, <2>3, <2>4, <2>5, <2>6, <2>7, <2>8, <2>9 DEF Reserving
<1>6. ASSUME NEW p \in Processes, Paying(p) PROVE ControlOK'
  <2>1. CASE SimulateBegins(p)
    BY <2>1 DEF SimulateBegins, Answer, Forget, Proceed, Goto, locals
  <2>2. CASE FindReplay(p)
    <3>1. /\ pc[p] \in {"replay", "replayTx"} /\ UNCHANGED req
          /\ \/ /\ \E l \in {"replayTx", "payRead"} : pc' = [pc EXCEPT ![p] = l]
                /\ UNCHANGED <<seen, cur>>
             \/ /\ pc' = [pc EXCEPT ![p] = "done"]
                /\ seen' = [seen EXCEPT ![p] = None]
                /\ cur' = [cur EXCEPT ![p] = None]
      BY <2>2 DEF FindReplay, Answer, Forget, Proceed, Goto, locals
    <3> QED
      BY <3>1
  <2>3. CASE PayRead(p)
    BY <2>3 DEF PayRead, Owned, Answer, Forget, Goto
  <2>4. CASE PayCheck(p)
    <3>1. /\ pc[p] = "payCheck" /\ UNCHANGED req
          /\ \E l \in {"payRelease", "payUpdate", "done"} : pc' = [pc EXCEPT ![p] = l]
          /\ seen' = [seen EXCEPT ![p] = None]
          /\ cur' = cur \/ cur' = [cur EXCEPT ![p] = None]
      BY <2>4 DEF PayCheck, Answer, Forget, Goto
    <3> QED
      BY <3>1
  <2>5. CASE PayRelease(p)
    <3>1. /\ pc[p] = "payRelease" /\ UNCHANGED req
          /\ \/ pc' = [pc EXCEPT ![p] = "increment"] /\ UNCHANGED <<seen, cur>>
             \/ /\ pc' = [pc EXCEPT ![p] = "done"]
                /\ seen' = [seen EXCEPT ![p] = None]
                /\ cur' = [cur EXCEPT ![p] = None]
      BY <2>5 DEF PayRelease, Answer, Forget, Proceed, Goto, locals
    <3> QED
      BY <3>1
  <2>6. CASE PayUpdate(p)
    <3>1. /\ pc[p] = "payUpdate" /\ UNCHANGED <<req, seen, cur>>
          /\ \E l \in {"payInsert", "increment", "payReread"} : pc' = [pc EXCEPT ![p] = l]
      BY <2>6 DEF PayUpdate, Proceed, Goto, locals
    <3> QED
      BY <3>1
  <2>7. CASE PayReread(p)
    BY <2>7 DEF PayReread, Answer, Forget, Proceed, Goto, locals
  <2>8. CASE PayInsert(p)
    BY <2>8 DEF PayInsert, Proceed, Goto, locals
  <2>9. CASE PayTickets(p)
    BY <2>9 DEF PayTickets, Proceed, Goto, locals
  <2>10. CASE PayCatch(p)
    <3>1. /\ pc[p] = "payCatch" /\ UNCHANGED req
          /\ pc' = [pc EXCEPT ![p] = "done"]
          /\ seen' = [seen EXCEPT ![p] = None]
          /\ cur' = [cur EXCEPT ![p] = None]
      BY <2>10 DEF PayCatch, Answer, Forget, Goto
    <3> QED
      BY <3>1
  <2> QED
    BY <1>6, <2>1, <2>2, <2>3, <2>4, <2>5, <2>6, <2>7, <2>8, <2>9, <2>10 DEF Paying
<1>7. ASSUME NEW p \in Processes, CommitAndAnswer(p) PROVE ControlOK'
  BY <1>7 DEF CommitAndAnswer, Answer, Forget, Goto
<1>8. ASSUME NEW p \in Processes, Fail(p) PROVE ControlOK'
  BY <1>8 DEF Fail, Throw, Rest, Answer, Forget, Goto
<1>9. ASSUME NEW p \in Processes, CommitUnheard(p) PROVE ControlOK'
  BY <1>9 DEF CommitUnheard, Throw, Rest, Answer, Forget, Goto
<1> QED
  BY <1>1, <1>2, <1>3, <1>4, <1>5, <1>6, <1>7, <1>8, <1>9 DEF Next, Step, Processes

-----------------------------------------------------------------------------
(* Types *)

LocalsTyped ==
    /\ pc \in [Processes -> Labels]
    /\ now \in [Processes -> Int]
    /\ todo \in [Processes -> SUBSET ReservationIds]
    /\ cur \in [Processes -> ReservationIds \cup {None}]
    /\ seen \in [Processes -> Row \cup {None}]
    /\ reply \in [Requests -> Response \cup {None}]

TxTyped == tx \in [Processes -> Transaction]

TablesTyped ==
    /\ reservations \in [ReservationIds -> Row \cup {None}]
    /\ available \in [Events -> Int]
    /\ payments \in [ReservationIds -> Payment \cup {None}]
    /\ tickets \in [ReservationIds -> SUBSET (1..MaxQuantity)]

(* Going on, returning and resting keep the locals typed.                  *)
LEMMA ProceedTyped ==
    ASSUME TypeOK, NEW p, NEW l \in Labels, Proceed(p, l)
    PROVE  LocalsTyped'
BY DEF TypeOK, LocalsTyped, Proceed, Goto, locals

LEMMA ForgetTyped ==
    ASSUME TypeOK, NEW p \in Processes, Forget(p)
    PROVE  /\ (now \in [Processes -> Int])'
           /\ (todo \in [Processes -> SUBSET ReservationIds])'
           /\ (cur \in [Processes -> ReservationIds \cup {None}])'
           /\ (seen \in [Processes -> Row \cup {None}])'
<1>1. (now \in [Processes -> Int])'
  <2>1. now \in [Processes -> Int] /\ now' = [now EXCEPT ![p] = 0]
    BY DEF TypeOK, Forget
  <2> QED
    BY <2>1
<1>2. (todo \in [Processes -> SUBSET ReservationIds])'
  BY DEF TypeOK, Forget
<1>3. (cur \in [Processes -> ReservationIds \cup {None}])'
  BY DEF TypeOK, Forget
<1>4. (seen \in [Processes -> Row \cup {None}])'
  BY DEF TypeOK, Forget
<1> QED
  BY <1>1, <1>2, <1>3, <1>4

LEMMA AnswerTyped ==
    ASSUME TypeOK, NEW p \in Processes, NEW code \in Success \cup Errors, NEW tix \in SUBSET (1..MaxQuantity),
           Answer(p, code, tix)
    PROVE  LocalsTyped'
<1>1. [code |-> code, tickets |-> tix] \in Response
  BY DEF Response
<1>2. (reply \in [Requests -> Response \cup {None}])'
  BY <1>1 DEF TypeOK, Answer
<1>3. (pc \in [Processes -> Labels])'
  BY DEF TypeOK, Answer, Goto, Labels
<1> QED
  BY <1>2, <1>3, ForgetTyped DEF LocalsTyped, Answer

LEMMA RestTyped ==
    ASSUME TypeOK, NEW p \in Processes, Rest(p)
    PROVE  LocalsTyped'
<1>1. (pc \in [Processes -> Labels])'
  BY DEF TypeOK, Rest, Goto, Labels
<1> QED
  BY <1>1, ForgetTyped DEF TypeOK, LocalsTyped, Rest

(* The statements that write keep the transactions typed.                  *)
LEMMA WriteStatusTyped ==
    ASSUME TypeOK, NEW p \in Processes, NEW r \in ReservationIds, reservations[r] # None,
           NEW status \in Statuses, NEW released \in BOOLEAN,
           WriteStatus(p, r, status, released)
    PROVE  TxTyped'
<1> DEFINE image == [reservations[r] EXCEPT !.status = status, !.released = released]
<1>1. reservations[r] \in Row
  BY DEF TypeOK
<1>2. image \in Row
  BY <1>1 DEF Row
<1>3. tx[p] \in Transaction
  BY DEF TypeOK
<1> HIDE DEF image
<1>4. [tx[p] EXCEPT !.row = r, !.image = image] \in Transaction
  BY <1>2, <1>3 DEF Transaction
<1>5. tx' = [tx EXCEPT ![p] = [tx[p] EXCEPT !.row = r, !.image = image]]
  BY DEF WriteStatus, TypeOK, image
<1> QED
  BY <1>4, <1>5 DEF TypeOK, TxTyped

LEMMA AddStockTyped ==
    ASSUME TypeOK, NEW p \in Processes, NEW e \in Events, NEW n \in Int, AddStock(p, e, n)
    PROVE  TxTyped'
<1>1. tx[p] \in Transaction
  BY DEF TypeOK
<1>2. [tx[p] EXCEPT !.event = e, !.delta = n] \in Transaction
  BY <1>1 DEF Transaction
<1>3. tx' = [tx EXCEPT ![p] = [tx[p] EXCEPT !.event = e, !.delta = n]]
  BY DEF AddStock, TypeOK
<1> QED
  BY <1>2, <1>3 DEF TypeOK, TxTyped

LEMMA EmptyTyped == NothingWritten \in Transaction
BY DEF NothingWritten, Transaction

LEMMA RollbackTyped ==
    ASSUME TypeOK, NEW p, Rollback(p)
    PROVE  TxTyped' /\ TablesTyped'
BY EmptyTyped DEF TypeOK, TxTyped, TablesTyped, Rollback, tables

LEMMA CommitTyped ==
    ASSUME TypeOK, NEW p \in Processes, Commit(p),
           tx[p].row # None => tx[p].image # None
    PROVE  TxTyped' /\ TablesTyped'
<1>1. tx[p] \in Transaction
  BY DEF TypeOK
<1>2. TxTyped'
  BY EmptyTyped DEF TypeOK, TxTyped, Commit
<1>3. (reservations \in [ReservationIds -> Row \cup {None}])'
  BY <1>1 DEF TypeOK, Commit, Transaction
<1>4. (available \in [Events -> Int])'
  BY <1>1 DEF TypeOK, Commit, Transaction
<1>5. (payments \in [ReservationIds -> Payment \cup {None}])'
  BY <1>1 DEF TypeOK, Commit, Transaction
<1>6. (tickets \in [ReservationIds -> SUBSET (1..MaxQuantity)])'
  BY <1>1 DEF TypeOK, Commit, Transaction
<1> QED
  BY <1>2, <1>3, <1>4, <1>5, <1>6 DEF TablesTyped

(* Nothing else has a type to lose.                                        *)
LEMMA TypedParts ==
    ASSUME TypeOK, LocalsTyped', TxTyped', TablesTyped',
           UNCHANGED req, clock' \in Nat, failures' \in Nat
    PROVE  TypeOK'
BY DEF TypeOK, LocalsTyped, TxTyped, TablesTyped

(* A request that waits for an answer is no timer.                         *)
LEMMA OnlyRequests ==
    ASSUME ControlOK, NEW p \in Processes, pc[p] \notin SweepLabels
    PROVE  p \in Requests
BY DEF ControlOK, Processes

(* What is not written keeps its type.                                     *)
LEMMA QuietTyped ==
    ASSUME TypeOK, UNCHANGED <<tables, tx>> PROVE TxTyped' /\ TablesTyped'
BY DEF TypeOK, TablesTyped, TxTyped, tables

(* A transaction that settles a row is about a row that exists.            *)
LEMMA SettlingRow ==
    ASSUME TypeOK, NEW p, NEW r, NEW how, Settling(p, r, how)
    PROVE  /\ r \in ReservationIds /\ reservations[r] \in Row
           /\ reservations[r].event \in Events /\ reservations[r].quantity \in Int
           /\ reservations[r].quantity \in 1..MaxQuantity
BY SetsAreFinite DEF Settling, TypeOK, Row

LEMMA ExpiringTyped ==
    ASSUME IInv, NEW p \in Processes, Expiring(p) PROVE TypeOK'
<1>0. TypeOK /\ ControlOK /\ Written(p)
  BY DEF IInv
<1> USE <1>0
<1>1. CASE FindExpired(p)
  <2>1. LocalsTyped'
    BY <1>1 DEF FindExpired, Goto, Labels, LocalsTyped, TypeOK
  <2>2. UNCHANGED <<clock, tables, tx, req, failures>>
    BY <1>1 DEF FindExpired, dbVars
  <2> QED
    BY <2>1, <2>2, QuietTyped, TypedParts DEF TypeOK
<1>2. CASE ExpireRead(p)
  <2>1. LocalsTyped'
    <3>1. PICK r \in todo[p] :
            \/ /\ cur' = [cur EXCEPT ![p] = r] /\ now' = [now EXCEPT ![p] = clock]
               /\ pc' = [pc EXCEPT ![p] = "expireUpdate"]
            \/ UNCHANGED <<pc, cur, now>>
      BY <1>2 DEF ExpireRead, Goto
    <3>2. todo' \in [Processes -> SUBSET ReservationIds] /\ UNCHANGED <<seen, reply>>
      BY <1>2 DEF ExpireRead, TypeOK
    <3>3. r \in ReservationIds /\ clock \in Int
      BY DEF TypeOK
    <3> QED
      BY <3>1, <3>2, <3>3 DEF LocalsTyped, TypeOK, Labels
  <2>2. UNCHANGED <<clock, tables, tx, req, failures>>
    BY <1>2 DEF ExpireRead, dbVars
  <2> QED
    BY <2>1, <2>2, QuietTyped, TypedParts DEF TypeOK
<1>3. CASE ExpireUpdate(p)
  <2>1. LocalsTyped'
    BY <1>3, ProceedTyped DEF ExpireUpdate, Labels
  <2>2. cur[p] \in ReservationIds
    BY <1>3 DEF ExpireUpdate, ControlOK, TypeOK
  <2>3. UNCHANGED <<clock, tables, req, failures>>
    BY <1>3 DEF ExpireUpdate
  <2>4. TxTyped'
    BY <1>3, <2>2, <2>3, WriteStatusTyped, QuietTyped DEF ExpireUpdate, Lapsed, Statuses
  <2> QED
    BY <2>1, <2>3, <2>4, TypedParts DEF TypeOK, tables, TablesTyped
<1>4. CASE ExpireIncrement(p)
  <2>1. LocalsTyped'
    BY <1>4, ProceedTyped DEF ExpireIncrement, Labels
  <2>2. UNCHANGED <<clock, tables, req, failures>>
    BY <1>4 DEF ExpireIncrement
  <2>3. Settling(p, cur[p], {"EXPIRED"})
    BY <1>4 DEF ExpireIncrement, Written
  <2>4. TxTyped'
    BY <1>4, <2>3, SettlingRow, AddStockTyped DEF ExpireIncrement
  <2> QED
    BY <2>1, <2>2, <2>4, TypedParts DEF TypeOK, tables, TablesTyped
<1>5. CASE ExpireCommit(p)
  <2>1. LocalsTyped'
    BY <1>5, ProceedTyped DEF ExpireCommit, Labels
  <2>2. UNCHANGED <<clock, req, failures>>
    BY <1>5 DEF ExpireCommit
  <2>3. Settling(p, cur[p], {"EXPIRED"})
    BY <1>5 DEF ExpireCommit, Written
  <2>4. TxTyped' /\ TablesTyped'
    BY <1>5, <2>3, CommitTyped DEF ExpireCommit, Settling
  <2> QED
    BY <2>1, <2>2, <2>4, TypedParts DEF TypeOK
<1>6. CASE LoopEnds(p)
  <2>1. LocalsTyped'
    <3>1. CASE Rest(p)
      BY <3>1, RestTyped
    <3>2. CASE \E l \in {"getRead", "cancelRead"} : Proceed(p, l)
      BY <3>2, ProceedTyped DEF Labels
    <3>3. CASE /\ now' = [now EXCEPT ![p] = clock] /\ Goto(p, "takeStock")
               /\ UNCHANGED <<todo, cur, seen, reply>>
      BY <3>3 DEF Goto, Labels, LocalsTyped, TypeOK
    <3> QED
      BY <1>6, <3>1, <3>2, <3>3 DEF LoopEnds
  <2>2. UNCHANGED <<clock, tables, tx, req, failures>>
    BY <1>6 DEF LoopEnds, dbVars
  <2> QED
    BY <2>1, <2>2, QuietTyped, TypedParts DEF TypeOK
<1> QED
  BY <1>1, <1>2, <1>3, <1>4, <1>5, <1>6 DEF Expiring

LEMMA ReservingTyped ==
    ASSUME IInv, NEW p \in Processes, Reserving(p) PROVE TypeOK'
<1>0. TypeOK /\ ControlOK /\ Written(p)
  BY DEF IInv
<1> USE <1>0
<1>1. CASE CreateBegins(p)
  <2>1. LocalsTyped'
    BY <1>1, AnswerTyped, ProceedTyped DEF CreateBegins, Labels, Errors
  <2>2. UNCHANGED <<clock, tables, tx, req, failures>>
    BY <1>1 DEF CreateBegins, dbVars
  <2> QED
    BY <2>1, <2>2, QuietTyped, TypedParts DEF TypeOK
<1>2. CASE TakeStock(p)
  <2>1. p \in Requests /\ req[p].op = "create" /\ req[p].quantity \in 1..MaxQuantity
    BY <1>2, OnlyRequests DEF TakeStock, SweepLabels, ControlOK
  <2>2. LocalsTyped'
    BY <1>2, AnswerTyped, ProceedTyped DEF TakeStock, Labels, Errors
  <2>3. UNCHANGED <<clock, tables, req, failures>>
    BY <1>2 DEF TakeStock
  <2>4. TxTyped'
    <3>1. CASE UNCHANGED tx
      BY <2>3, <3>1, QuietTyped
    <3>2. CASE Bookable(req[p].event, req[p].quantity, now[p])
               /\ AddStock(p, req[p].event, -req[p].quantity)
      <4>1. req[p].event \in Events /\ -req[p].quantity \in Int
        BY <2>1, <3>2, EventsHaveCapacity, SetsAreFinite DEF Bookable
      <4> QED
        BY <3>2, <4>1, AddStockTyped
    <3> QED
      BY <1>2, <3>1, <3>2 DEF TakeStock
  <2> QED
    BY <2>2, <2>3, <2>4, TypedParts DEF TypeOK, tables, TablesTyped
<1>3. CASE Insert(p)
  <2>1. p \in Requests /\ req[p].op = "create" /\ req[p].quantity \in 1..MaxQuantity
    BY <1>3, OnlyRequests DEF Insert, SweepLabels, ControlOK
  <2>2. req[p].event \in Events /\ req[p].customer \in Customers
    BY <1>3, <2>1, EventsHaveCapacity DEF Insert, Written, StockTaken, TypeOK, Request
  <2>3. LocalsTyped'
    BY <1>3, ProceedTyped DEF Insert, Labels
  <2>4. UNCHANGED <<clock, tables, req, failures>>
    BY <1>3 DEF Insert
  <2> DEFINE image == [status |-> "PENDING_PAYMENT", customer |-> req[p].customer,
                       event |-> req[p].event, quantity |-> req[p].quantity,
                       expiresAt |-> now[p] + HoldTime, released |-> FALSE]
  <2>5. image \in Row
    <3>1. now[p] + HoldTime \in Int
      BY Durations DEF TypeOK
    <3> QED
      BY <2>1, <2>2, <3>1 DEF Row, Statuses
  <2>6. TxTyped'
    <3> HIDE DEF image
    <3>1. PICK r \in ReservationIds : tx' = [tx EXCEPT ![p].row = r, ![p].image = image]
      BY <1>3 DEF Insert, image
    <3>4. tx[p] \in Transaction
      BY DEF TypeOK
    <3>2. [tx[p] EXCEPT !.row = r, !.image = image] \in Transaction
      BY <2>5, <3>4 DEF Transaction
    <3>3. tx' = [tx EXCEPT ![p] = [tx[p] EXCEPT !.row = r, !.image = image]]
      BY <3>1 DEF TypeOK
    <3> QED
      BY <3>2, <3>3 DEF TypeOK, TxTyped
  <2> QED
    BY <2>3, <2>4, <2>6, TypedParts DEF TypeOK, tables, TablesTyped
<1>4. CASE ExpiresFirst(p)
  <2>1. LocalsTyped'
    BY <1>4 DEF ExpiresFirst, Goto, Labels, LocalsTyped, TypeOK, Request
  <2>2. UNCHANGED <<clock, tables, tx, req, failures>>
    BY <1>4 DEF ExpiresFirst, dbVars
  <2> QED
    BY <2>1, <2>2, QuietTyped, TypedParts DEF TypeOK
<1>5. CASE GetRead(p)
  <2>1. p \in Requests
    BY <1>5, OnlyRequests DEF GetRead, SweepLabels
  <2>2. LocalsTyped'
    <3>1. CASE Answer(p, "RESERVATION_NOT_FOUND", {})
      BY <3>1, AnswerTyped DEF Errors
    <3>2. CASE /\ seen' = [seen EXCEPT ![p] = reservations[req[p].reservation]]
               /\ Goto(p, "getTickets") /\ UNCHANGED <<now, todo, cur, reply>>
      BY <2>1, <3>2 DEF Goto, Labels, LocalsTyped, TypeOK, Request
    <3> QED
      BY <1>5, <3>1, <3>2 DEF GetRead
  <2>3. UNCHANGED <<clock, tables, tx, req, failures>>
    BY <1>5 DEF GetRead, dbVars
  <2> QED
    BY <2>2, <2>3, QuietTyped, TypedParts DEF TypeOK
<1>6. CASE GetTickets(p)
  <2>1. p \in Requests /\ seen[p] \in Row
    BY <1>6, OnlyRequests DEF GetTickets, SweepLabels, ControlOK, TypeOK
  <2>2. seen[p].status \in Success /\ tickets[req[p].reservation] \in SUBSET (1..MaxQuantity)
    BY <2>1 DEF Row, Success, TypeOK, Request
  <2>3. LocalsTyped'
    BY <1>6, <2>2, AnswerTyped DEF GetTickets
  <2>4. UNCHANGED <<clock, tables, tx, req, failures>>
    BY <1>6 DEF GetTickets, dbVars
  <2> QED
    BY <2>3, <2>4, QuietTyped, TypedParts DEF TypeOK
<1>7. CASE CancelRead(p)
  <2>1. LocalsTyped'
    <3>1. CASE \E code \in {"RESERVATION_NOT_FOUND", "RESERVATION_NOT_CANCELABLE", "CANCELED"} :
                 Answer(p, code, {})
      BY <3>1, AnswerTyped DEF Errors, Success, Statuses
    <3>2. CASE /\ now' = [now EXCEPT ![p] = clock] /\ Goto(p, "cancelUpdate")
               /\ UNCHANGED <<todo, cur, seen, reply>>
      BY <3>2 DEF Goto, Labels, LocalsTyped, TypeOK
    <3> QED
      BY <1>7, <3>1, <3>2 DEF CancelRead
  <2>2. UNCHANGED <<clock, tables, tx, req, failures>>
    BY <1>7 DEF CancelRead, dbVars
  <2> QED
    BY <2>1, <2>2, QuietTyped, TypedParts DEF TypeOK
<1>8. CASE CancelUpdate(p)
  <2>1. req[p].reservation \in ReservationIds
    BY <1>8, OnlyRequests DEF CancelUpdate, SweepLabels, TypeOK, Request
  <2>2. LocalsTyped'
    BY <1>8, AnswerTyped, ProceedTyped DEF CancelUpdate, Labels, Errors
  <2>3. UNCHANGED <<clock, tables, req, failures>>
    BY <1>8 DEF CancelUpdate
  <2>4. TxTyped'
    BY <1>8, <2>1, <2>3, WriteStatusTyped, QuietTyped DEF CancelUpdate, Live, Statuses
  <2> QED
    BY <2>2, <2>3, <2>4, TypedParts DEF TypeOK, tables, TablesTyped
<1>9. CASE Increment(p)
  <2>1. LocalsTyped'
    BY <1>9, ProceedTyped DEF Increment, Labels
  <2>2. UNCHANGED <<clock, tables, req, failures>>
    BY <1>9 DEF Increment
  <2>3. Settling(p, req[p].reservation, Unpaid \cup {"DECLINED"})
    BY <1>9 DEF Increment, Written
  <2>4. TxTyped'
    BY <1>9, <2>3, SettlingRow, AddStockTyped DEF Increment
  <2> QED
    BY <2>1, <2>2, <2>4, TypedParts DEF TypeOK, tables, TablesTyped
<1> QED
  BY <1>1, <1>2, <1>3, <1>4, <1>5, <1>6, <1>7, <1>8, <1>9 DEF Reserving

(* A request under simulate names a reservation, a key and a result.       *)
LEMMA PayingRequest ==
    ASSUME TypeOK, ControlOK, NEW p \in Processes, pc[p] \in PayLabels
    PROVE  /\ p \in Requests /\ req[p].reservation \in ReservationIds
           /\ req[p].key \in Keys /\ req[p].result \in {"APPROVED", "DECLINED"}
<1>1. p \in Requests
  BY OnlyRequests DEF SweepLabels, PayLabels
<1> QED
  BY <1>1 DEF TypeOK, ControlOK, Request

(* The answers that show a payment.                                        *)
LEMMA PaymentShown ==
    ASSUME TypeOK, NEW r \in ReservationIds
    PROVE  PaidStatus(r) \in Success /\ tickets[r] \in SUBSET (1..MaxQuantity)
BY DEF TypeOK, PaidStatus, Success, Statuses

LEMMA PayingTyped ==
    ASSUME IInv, NEW p \in Processes, Paying(p) PROVE TypeOK'
<1>0. TypeOK /\ ControlOK /\ Written(p)
  BY DEF IInv
<1> USE <1>0
<1>1. CASE SimulateBegins(p)
  <2>1. LocalsTyped'
    BY <1>1, AnswerTyped, ProceedTyped DEF SimulateBegins, Labels, Errors
  <2>2. UNCHANGED <<clock, tables, tx, req, failures>>
    BY <1>1 DEF SimulateBegins, dbVars
  <2> QED
    BY <2>1, <2>2, QuietTyped, TypedParts DEF TypeOK
<1>2. CASE FindReplay(p)
  <2>1. LocalsTyped'
    <3>1. CASE \E l \in {"replayTx", "payRead"} : Proceed(p, l)
      BY <3>1, ProceedTyped DEF Labels
    <3>2. CASE \E r \in ReservationIds : Answer(p, PaidStatus(r), tickets[r])
      BY <3>2, PaymentShown, AnswerTyped
    <3>3. CASE Answer(p, "IDEMPOTENCY_KEY_REUSED", {})
      BY <3>3, AnswerTyped DEF Errors
    <3> QED
      BY <1>2, <3>1, <3>2, <3>3 DEF FindReplay, PaidWith
  <2>2. UNCHANGED <<clock, tables, tx, req, failures>>
    BY <1>2 DEF FindReplay, dbVars
  <2> QED
    BY <2>1, <2>2, QuietTyped, TypedParts DEF TypeOK
<1>3. CASE PayRead(p)
  <2>1. p \in Requests /\ req[p].reservation \in ReservationIds
    BY <1>3, PayingRequest DEF PayRead, PayLabels
  <2>2. LocalsTyped'
    <3>1. CASE Answer(p, "RESERVATION_NOT_FOUND", {})
      BY <3>1, AnswerTyped DEF Errors
    <3>2. CASE /\ seen' = [seen EXCEPT ![p] = reservations[req[p].reservation]]
               /\ Goto(p, "payCheck") /\ UNCHANGED <<now, todo, cur, reply>>
      BY <2>1, <3>2 DEF Goto, Labels, LocalsTyped, TypeOK
    <3> QED
      BY <1>3, <3>1, <3>2 DEF PayRead
  <2>3. UNCHANGED <<clock, tables, tx, req, failures>>
    BY <1>3 DEF PayRead, dbVars
  <2> QED
    BY <2>2, <2>3, QuietTyped, TypedParts DEF TypeOK
<1>4. CASE PayCheck(p)
  <2>1. req[p].reservation \in ReservationIds
    BY <1>4, PayingRequest DEF PayCheck, PayLabels
  <2>2. LocalsTyped'
    <3>1. CASE Answer(p, "PAID", tickets[req[p].reservation])
      BY <2>1, <3>1, AnswerTyped DEF TypeOK, Success, Statuses
    <3>2. CASE Answer(p, "RESERVATION_NOT_PAYABLE", {})
      BY <3>2, AnswerTyped DEF Errors
    <3>3. CASE /\ now' = [now EXCEPT ![p] = clock] /\ seen' = [seen EXCEPT ![p] = None]
               /\ \E l \in {"payRelease", "payUpdate"} : Goto(p, l)
               /\ UNCHANGED <<todo, cur, reply>>
      BY <3>3 DEF Goto, Labels, LocalsTyped, TypeOK
    <3> QED
      BY <1>4, <3>1, <3>2, <3>3 DEF PayCheck
  <2>3. UNCHANGED <<clock, tables, tx, req, failures>>
    BY <1>4 DEF PayCheck, dbVars
  <2> QED
    BY <2>2, <2>3, QuietTyped, TypedParts DEF TypeOK
<1>5. CASE PayRelease(p)
  <2>1. req[p].reservation \in ReservationIds
    BY <1>5, PayingRequest DEF PayRelease, PayLabels
  <2>2. LocalsTyped'
    BY <1>5, AnswerTyped, ProceedTyped DEF PayRelease, Labels, Errors
  <2>3. UNCHANGED <<clock, tables, req, failures>>
    BY <1>5 DEF PayRelease
  <2>4. TxTyped'
    BY <1>5, <2>1, <2>3, WriteStatusTyped, QuietTyped DEF PayRelease, Lapsed, Statuses
  <2> QED
    BY <2>2, <2>3, <2>4, TypedParts DEF TypeOK, tables, TablesTyped
<1>6. CASE PayUpdate(p)
  <2>1. req[p].reservation \in ReservationIds
    BY <1>6, PayingRequest DEF PayUpdate, PayLabels
  <2>2. LocalsTyped'
    BY <1>6, ProceedTyped DEF PayUpdate, Labels
  <2>3. UNCHANGED <<clock, tables, req, failures>>
    BY <1>6 DEF PayUpdate
  <2>4. TxTyped'
    BY <1>6, <2>1, <2>3, WriteStatusTyped, QuietTyped DEF PayUpdate, Live, Statuses
  <2> QED
    BY <2>2, <2>3, <2>4, TypedParts DEF TypeOK, tables, TablesTyped
<1>7. CASE PayReread(p)
  <2>1. req[p].reservation \in ReservationIds
    BY <1>7, PayingRequest DEF PayReread, PayLabels
  <2>2. LocalsTyped'
    <3>1. CASE Proceed(p, "payRelease")
      BY <3>1, ProceedTyped DEF Labels
    <3>2. CASE Answer(p, PaidStatus(req[p].reservation), tickets[req[p].reservation])
      BY <2>1, <3>2, PaymentShown, AnswerTyped
    <3>3. CASE Answer(p, "RESERVATION_NOT_PAYABLE", {})
      BY <3>3, AnswerTyped DEF Errors
    <3> QED
      BY <1>7, <3>1, <3>2, <3>3 DEF PayReread
  <2>3. UNCHANGED <<clock, tables, tx, req, failures>>
    BY <1>7 DEF PayReread, dbVars
  <2> QED
    BY <2>2, <2>3, QuietTyped, TypedParts DEF TypeOK
<1>8. CASE PayInsert(p)
  <2>1. req[p].key \in Keys /\ req[p].result \in {"APPROVED", "DECLINED"}
    BY <1>8, PayingRequest DEF PayInsert, PayLabels
  <2>2. LocalsTyped'
    BY <1>8, ProceedTyped DEF PayInsert, Labels
  <2>3. UNCHANGED <<clock, req, failures>>
    BY <1>8 DEF PayInsert
  <2>4. TxTyped' /\ TablesTyped'
    <3>1. CASE Rollback(p)
      BY <3>1, RollbackTyped
    <3>2. CASE /\ tx' = [tx EXCEPT ![p].payment = [key |-> req[p].key, status |-> req[p].result]]
               /\ UNCHANGED tables
      <4>1. [key |-> req[p].key, status |-> req[p].result] \in Payment
        BY <2>1 DEF Payment
      <4>3. tx[p] \in Transaction
        BY DEF TypeOK
      <4>2. [tx[p] EXCEPT !.payment = [key |-> req[p].key, status |-> req[p].result]] \in Transaction
        BY <4>1, <4>3 DEF Transaction
      <4> QED
        BY <3>2, <4>2 DEF TypeOK, TxTyped, TablesTyped, tables
    <3> QED
      BY <1>8, <3>1, <3>2 DEF PayInsert
  <2> QED
    BY <2>2, <2>3, <2>4, TypedParts DEF TypeOK
<1>9. CASE PayTickets(p)
  <2>1. LocalsTyped'
    BY <1>9, ProceedTyped DEF PayTickets, Labels
  <2>2. UNCHANGED <<clock, tables, req, failures>>
    BY <1>9 DEF PayTickets
  <2>3. Settling(p, req[p].reservation, {"PAID"})
    BY <1>9 DEF PayTickets, Written
  <2> DEFINE all == 1..reservations[req[p].reservation].quantity
  <2>4. all \in SUBSET (1..MaxQuantity)
    BY <2>3, SettlingRow, SetsAreFinite
  <2>5. TxTyped'
    <3> HIDE DEF all
    <3>1. tx' = [tx EXCEPT ![p].tickets = all]
      BY <1>9 DEF PayTickets, all
    <3>3. tx[p] \in Transaction
      BY DEF TypeOK
    <3>2. [tx[p] EXCEPT !.tickets = all] \in Transaction
      BY <2>4, <3>3 DEF Transaction
    <3> QED
      BY <3>1, <3>2 DEF TypeOK, TxTyped
  <2> QED
    BY <2>1, <2>2, <2>5, TypedParts DEF TypeOK, tables, TablesTyped
<1>10. CASE PayCatch(p)
  <2>1. req[p].reservation \in ReservationIds
    BY <1>10, PayingRequest DEF PayCatch, PayLabels
  <2>2. LocalsTyped'
    <3>1. CASE \E r \in ReservationIds : Answer(p, PaidStatus(r), tickets[r])
      BY <3>1, PaymentShown, AnswerTyped
    <3>2. CASE Answer(p, "PAID", tickets[req[p].reservation])
      BY <2>1, <3>2, AnswerTyped DEF TypeOK, Success, Statuses
    <3>3. CASE \E code \in {"IDEMPOTENCY_KEY_REUSED", "RESERVATION_NOT_PAYABLE"} : Answer(p, code, {})
      BY <3>3, AnswerTyped DEF Errors
    <3> QED
      BY <1>10, <3>1, <3>2, <3>3 DEF PayCatch, PaidWith
  <2>3. UNCHANGED <<clock, tables, tx, req, failures>>
    BY <1>10 DEF PayCatch, dbVars
  <2> QED
    BY <2>2, <2>3, QuietTyped, TypedParts DEF TypeOK
<1> QED
  BY <1>1, <1>2, <1>3, <1>4, <1>5, <1>6, <1>7, <1>8, <1>9, <1>10 DEF Paying

(* Type correctness is preserved by every step.                            *)
LEMMA TypeStep == IInv /\ [Next]_vars => TypeOK'
<1> SUFFICES ASSUME IInv, [Next]_vars PROVE TypeOK'
  OBVIOUS
<1>0. TypeOK /\ ControlOK /\ \A p \in Processes : Written(p)
  BY DEF IInv
<1>1. CASE UNCHANGED vars
  BY <1>0, <1>1 DEF TypeOK, vars, dbVars, tables, locals
<1>2. CASE Tick
  BY <1>0, <1>2 DEF TypeOK, Tick, tables, locals
<1>3. ASSUME NEW p \in Processes, TimerFires(p) PROVE TypeOK'
  <2>1. LocalsTyped'
    BY <1>0, <1>3, ProceedTyped DEF TimerFires, Labels
  <2>2. UNCHANGED <<clock, tables, tx, req, failures>>
    BY <1>3 DEF TimerFires, dbVars
  <2> QED
    BY <1>0, <2>1, <2>2, QuietTyped, TypedParts DEF TypeOK
<1>4. ASSUME NEW p \in Processes, CommitAndAnswer(p) PROVE TypeOK'
  <2>1. tx[p].row # None /\ tx[p].image # None
    BY <1>0, <1>4, NoneIsNoValue DEF CommitAndAnswer, Written, Settling
  <2>2. tx[p] \in Transaction /\ tx[p].image \in Row
    BY <1>0, <2>1 DEF TypeOK, Transaction
  <2>3. tx[p].image.status \in Success /\ tx[p].tickets \in SUBSET (1..MaxQuantity)
    BY <2>2 DEF Transaction, Row, Success
  <2>4. LocalsTyped'
    BY <1>0, <1>4, <2>3, AnswerTyped DEF CommitAndAnswer, Errors
  <2>5. TxTyped' /\ TablesTyped'
    BY <1>0, <1>4, <2>1, CommitTyped DEF CommitAndAnswer
  <2>6. UNCHANGED <<clock, req, failures>>
    BY <1>4 DEF CommitAndAnswer
  <2> QED
    BY <1>0, <2>4, <2>5, <2>6, TypedParts DEF TypeOK
<1>5. ASSUME NEW p \in Processes, Fail(p) PROVE TypeOK'
  <2>1. LocalsTyped'
    BY <1>0, <1>5, AnswerTyped, RestTyped DEF Fail, Throw, Errors
  <2>2. TxTyped' /\ TablesTyped'
    BY <1>0, <1>5, RollbackTyped DEF Fail
  <2>3. UNCHANGED <<clock, req>> /\ failures' \in Nat
    BY <1>0, <1>5 DEF Fail, Throw, TypeOK
  <2> QED
    BY <1>0, <2>1, <2>2, <2>3, TypedParts DEF TypeOK
<1>6. ASSUME NEW p \in Processes, CommitUnheard(p) PROVE TypeOK'
  <2>1. LocalsTyped'
    BY <1>0, <1>6, AnswerTyped, RestTyped DEF CommitUnheard, Throw, Errors
  <2>2. tx[p].row # None => tx[p].image # None
    BY <1>0, <1>6, NoneIsNoValue DEF CommitUnheard, Written, Settling
  <2>3. TxTyped' /\ TablesTyped'
    BY <1>0, <1>6, <2>2, CommitTyped DEF CommitUnheard
  <2>4. UNCHANGED <<clock, req>> /\ failures' \in Nat
    BY <1>0, <1>6 DEF CommitUnheard, Throw, TypeOK
  <2> QED
    BY <1>0, <2>1, <2>3, <2>4, TypedParts DEF TypeOK
<1> QED
  BY <1>1, <1>2, <1>3, <1>4, <1>5, <1>6, ExpiringTyped, ReservingTyped, PayingTyped DEF Next, Step

-----------------------------------------------------------------------------
(* What the tables and the open transactions hold                          *)

DataOK ==
    /\ LocksExclusive /\ KeysUnique
    /\ \A p \in Processes : Written(p)
    /\ StockConserved /\ PaymentsMatch

(* What q has written stays right while q stays where it is, its row and   *)
(* its event unchanged by the others.                                      *)
LEMMA WrittenKept ==
    ASSUME NEW q \in Processes, Written(q), UNCHANGED <<tx[q], pc[q], cur[q], req>>,
           tx[q].row # None => UNCHANGED reservations[tx[q].row],
           tx[q].event # None => UNCHANGED available[tx[q].event],
           TypeOK, ControlOK
    PROVE  Written(q)'
<1>1. UNCHANGED <<StockUntouched(q), StockReturned(q), NotPaid(q), tx[q].payment>>
  BY DEF StockUntouched, StockReturned, NotPaid
<1>2. UNCHANGED <<Paid(q, "APPROVED"), Paid(q, "DECLINED")>>
  BY DEF Paid
<1>4. pc[q] = "insert" => req[q].event # None /\ (StockTaken(q, req[q].event, req[q].quantity))'
  BY NoneIsNoValue, EventsHaveCapacity DEF Written, StockTaken
<1>5. UNCHANGED <<req[q].reservation, req[q].event, req[q].quantity, req[q].result,
                  req[q].op, req[q].key, tx[q].row, tx[q].image>>
  OBVIOUS
<1>6. CASE pc[q] \notin WritingLabels
  BY <1>1, <1>6 DEF Written, WritingLabels
<1>7. CASE pc[q] = "expireIncrement"
  <2>1. Settling(q, cur[q], {"EXPIRED"}) /\ StockUntouched(q) /\ NotPaid(q)
    BY <1>7 DEF Written
  <2>2. Settling(q, cur[q], {"EXPIRED"})'
    <3>1. cur[q] # None /\ tx[q].row = cur[q]
      BY <2>1, NoneIsNoValue DEF Settling
    <3>2. UNCHANGED <<reservations[cur[q]], cur[q], tx[q]>>
      BY <3>1
    <3> QED
      BY <2>1, <3>2 DEF Settling
  <2> QED
    BY <1>1, <1>7, <2>1, <2>2 DEF Written, WritingLabels
<1>8. CASE pc[q] = "expireCommit"
  <2>1. Settling(q, cur[q], {"EXPIRED"}) /\ StockReturned(q) /\ NotPaid(q)
    BY <1>8 DEF Written
  <2>2. Settling(q, cur[q], {"EXPIRED"})'
    <3>1. cur[q] # None /\ tx[q].row = cur[q]
      BY <2>1, NoneIsNoValue DEF Settling
    <3>2. UNCHANGED <<reservations[cur[q]], cur[q], tx[q]>>
      BY <3>1
    <3> QED
      BY <2>1, <3>2 DEF Settling
  <2> QED
    BY <1>1, <1>8, <2>1, <2>2 DEF Written, WritingLabels
<1>9. CASE pc[q] = "insert"
  BY <1>1, <1>4, <1>5, <1>9 DEF Written, WritingLabels
<1>10. CASE pc[q] = "increment"
  <2>1. Settling(q, req[q].reservation, Unpaid \cup {"DECLINED"})
    BY <1>10 DEF Written
  <2>2. Settling(q, req[q].reservation, Unpaid \cup {"DECLINED"})'
    <3>1. req[q].reservation # None /\ tx[q].row = req[q].reservation
      BY <2>1, NoneIsNoValue DEF Settling
    <3>2. UNCHANGED <<reservations[req[q].reservation], req[q].reservation, tx[q]>>
      BY <1>5, <3>1
    <3> QED
      BY <2>1, <3>2 DEF Settling
  <2> QED
    BY <1>1, <1>5, <1>10, <2>2 DEF Written, WritingLabels
<1>11. CASE pc[q] = "payInsert"
  <2>1. Settling(q, req[q].reservation, {"PAID", "DECLINED"})
    BY <1>11 DEF Written
  <2>2. Settling(q, req[q].reservation, {"PAID", "DECLINED"})'
    <3>1. req[q].reservation # None /\ tx[q].row = req[q].reservation
      BY <2>1, NoneIsNoValue DEF Settling
    <3>2. UNCHANGED <<reservations[req[q].reservation], req[q].reservation, tx[q]>>
      BY <1>5, <3>1
    <3> QED
      BY <2>1, <3>2 DEF Settling
  <2> QED
    BY <1>1, <1>5, <1>11, <2>2 DEF Written, WritingLabels
<1>12. CASE pc[q] = "payTickets"
  <2>1. Settling(q, req[q].reservation, {"PAID"})
    BY <1>12 DEF Written
  <2>2. Settling(q, req[q].reservation, {"PAID"})'
    <3>1. req[q].reservation # None /\ tx[q].row = req[q].reservation
      BY <2>1, NoneIsNoValue DEF Settling
    <3>2. UNCHANGED <<reservations[req[q].reservation], req[q].reservation, tx[q]>>
      BY <1>5, <3>1
    <3> QED
      BY <2>1, <3>2 DEF Settling
  <2> QED
    BY <1>1, <1>2, <1>5, <1>12, <2>2 DEF Written, WritingLabels, Paid
<1>13. CASE pc[q] = "commit"
  BY <1>13, NoneIsNoValue, EventsHaveCapacity
     DEF Written, Settling, StockUntouched, StockReturned, StockTaken, NotPaid, Paid,
         WritingLabels, Unpaid
<1> QED
  BY <1>6, <1>7, <1>8, <1>9, <1>10, <1>11, <1>12, <1>13 DEF WritingLabels

(* A step that neither writes nor ends a transaction.                      *)
LEMMA QuietStep ==
    ASSUME IInv, NEW p \in Processes, UNCHANGED <<tables, tx, req>>,
           pc[p] \notin WritingLabels, NEW l, l \notin WritingLabels,
           pc' = [pc EXCEPT ![p] = l] \/ UNCHANGED pc,
           \A q \in Processes \ {p} : UNCHANGED cur[q]
    PROVE  DataOK'
<1>1. LocksExclusive' /\ KeysUnique' /\ StockConserved' /\ PaymentsMatch'
  BY DEF IInv, LocksExclusive, KeysUnique, StockConserved, PaymentsMatch, HeldPlaces, tables
<1>2. ASSUME NEW q \in Processes PROVE Written(q)'
  <2>1. CASE q = p
    BY <2>1 DEF IInv, TypeOK, Written, StockUntouched, NotPaid, WritingLabels, tables
  <2>2. CASE q # p
    BY <2>2, WrittenKept DEF IInv, TypeOK, tables
  <2> QED
    BY <2>1, <2>2
<1> QED
  BY <1>1, <1>2 DEF DataOK

(* A statement of p's transaction that writes t, having waited for the     *)
(* locks on what it writes.                                                *)
LEMMA WritingStep ==
    ASSUME IInv, NEW p \in Processes, UNCHANGED <<tables, req>>,
           NEW t, tx' = [tx EXCEPT ![p] = t],
           \A q \in Processes \ {p} :
               /\ UNCHANGED <<pc[q], cur[q]>>
               /\ t.row # None => tx[q].row # t.row
               /\ t.event # None => tx[q].event # t.event
               /\ t.payment # None /\ tx[q].payment # None => tx[q].payment.key # t.payment.key,
           \A r \in ReservationIds :
               t.payment # None /\ payments[r] # None => payments[r].key # t.payment.key,
           Written(p)'
    PROVE  DataOK'
<1>0. TypeOK /\ ControlOK /\ LocksExclusive /\ KeysUnique /\ \A q \in Processes : Written(q)
  BY DEF IInv
<1>1. StockConserved' /\ PaymentsMatch'
  BY DEF IInv, StockConserved, PaymentsMatch, HeldPlaces, tables
<1>2. tx'[p] = t /\ \A q \in Processes \ {p} : UNCHANGED tx[q]
  BY <1>0 DEF TypeOK
<1>3. LocksExclusive'
  BY <1>0, <1>2 DEF LocksExclusive
<1>4. KeysUnique'
  BY <1>0, <1>2 DEF KeysUnique, tables
<1>5. ASSUME NEW q \in Processes PROVE Written(q)'
  <2>1. CASE q # p
    BY <1>0, <1>2, <2>1, WrittenKept DEF tables
  <2> QED
    BY <2>1
<1> QED
  BY <1>1, <1>3, <1>4, <1>5 DEF DataOK

(* The update that settles a pending row of an idle transaction            *)
LEMMA SettlingBegins ==
    ASSUME IInv, NEW p \in Processes, pc[p] \notin WritingLabels,
           NEW r \in ReservationIds, reservations[r] # None,
           reservations[r].status = "PENDING_PAYMENT", ~reservations[r].released,
           NEW status \in {"PAID", "DECLINED", "CANCELED", "EXPIRED"},
           NEW released, released = (status # "PAID"),
           WriteStatus(p, r, status, released), UNCHANGED <<tables, req>>,
           \A q \in Processes \ {p} : UNCHANGED <<pc[q], cur[q]>>
    PROVE  /\ tx'[p].row = r /\ tx'[p].image.status = status
           /\ tx'[p].image = [reservations[r] EXCEPT !.status = status, !.released = released]
           /\ tx'[p].image # None
           /\ (StockUntouched(p) /\ NotPaid(p))'
           /\ Written(p)' => DataOK'
<1> DEFINE image == [reservations[r] EXCEPT !.status = status, !.released = released]
           t == [tx[p] EXCEPT !.row = r, !.image = image]
<1>1. TypeOK /\ tx[p] \in Transaction /\ reservations[r] \in Row
  BY DEF IInv, TypeOK
<1>2. StockUntouched(p) /\ NotPaid(p)
  BY DEF IInv, Written
<1>3. image \in Row /\ image.status = status
  BY <1>1 DEF Row, Statuses
<1>4. tx' = [tx EXCEPT ![p] = t]
  BY <1>1 DEF TypeOK, WriteStatus
<1>5. /\ t.row = r /\ t.image = image /\ t.event = None /\ t.delta = 0
      /\ t.payment = None /\ t.tickets = {}
  BY <1>1, <1>2 DEF Transaction, StockUntouched, NotPaid
<1>6. tx'[p] = t
  BY <1>1, <1>4 DEF TypeOK
<1>7. \A q \in Processes \ {p} : tx[q].row # r
  BY DEF WriteStatus, RowFree, RowHolders
<1> HIDE DEF t
<1>8. Written(p)' => DataOK'
  <2> HIDE DEF image
  <2> SUFFICES ASSUME Written(p)' PROVE DataOK'
    OBVIOUS
  <2>1. t.event = None /\ t.payment = None /\ t.row = r
    BY <1>5
  <2>2. \A q \in Processes \ {p} :
            /\ UNCHANGED <<pc[q], cur[q]>>
            /\ t.row # None => tx[q].row # t.row
    BY <1>7, <2>1
  <2> QED
    BY <1>4, <2>1, <2>2, WritingStep
<1> QED
  BY <1>3, <1>5, <1>6, <1>8, NoneIsNoValue DEF StockUntouched, NotPaid

(* The increment that returns the stock of the row being settled           *)
LEMMA StockReturns ==
    ASSUME IInv, NEW p \in Processes, NEW r, NEW how, Settling(p, r, how),
           StockUntouched(p), NotPaid(p),
           AddStock(p, reservations[r].event, reservations[r].quantity),
           UNCHANGED <<tables, req>>,
           \A q \in Processes \ {p} : UNCHANGED <<pc[q], cur[q]>>
    PROVE  /\ Settling(p, r, how)' /\ (StockReturned(p) /\ NotPaid(p))'
           /\ UNCHANGED <<tx[p].row, tx[p].image>>
           /\ Written(p)' => DataOK'
<1> DEFINE e == reservations[r].event
           n == reservations[r].quantity
           t == [tx[p] EXCEPT !.event = e, !.delta = n]
<1>1. TypeOK /\ tx[p] \in Transaction /\ r \in ReservationIds /\ LocksExclusive
  BY DEF IInv, TypeOK, Settling
<1>2. reservations[r] \in Row
  BY <1>1, SettlingRow
<1>3. tx' = [tx EXCEPT ![p] = t]
  BY <1>1 DEF TypeOK, AddStock
<1>4. /\ t.row = tx[p].row /\ t.image = tx[p].image /\ t.event = e /\ t.delta = n
      /\ t.payment = None /\ t.tickets = {}
  BY <1>1 DEF Transaction, NotPaid
<1>5. tx'[p] = t
  BY <1>1, <1>3 DEF TypeOK
<1>6. tx[p].image.event = e /\ tx[p].image.quantity = n
  BY <1>2 DEF Settling, Row
<1> HIDE DEF t
<1>7. Settling(p, r, how)'
  BY <1>4, <1>5 DEF Settling, tables
<1>8. (StockReturned(p) /\ NotPaid(p))'
  BY <1>4, <1>5, <1>6 DEF StockReturned, NotPaid
<1>9. \A q \in Processes \ {p} : tx[q].event # e /\ (tx[p].row # None => tx[q].row # tx[p].row)
  BY <1>1 DEF AddStock, EventFree, EventHolders, LocksExclusive
<1>10. Written(p)' => DataOK'
  BY <1>3, <1>4, <1>9, WritingStep
<1> QED
  BY <1>4, <1>5, <1>7, <1>8, <1>10

(* ROLLBACK: nothing of p's transaction is left.                           *)
LEMMA RollbackStep ==
    ASSUME IInv, NEW p \in Processes, Rollback(p), UNCHANGED req,
           NEW l, l \notin WritingLabels, pc' = [pc EXCEPT ![p] = l],
           \A q \in Processes \ {p} : UNCHANGED cur[q]
    PROVE  DataOK'
<1>0. TypeOK /\ ControlOK /\ LocksExclusive /\ KeysUnique /\ \A q \in Processes : Written(q)
  BY DEF IInv
<1>1. tx'[p] = NothingWritten /\ \A q \in Processes \ {p} : UNCHANGED <<tx[q], pc[q]>>
  BY <1>0 DEF TypeOK, Rollback
<1>2. StockConserved' /\ PaymentsMatch'
  BY DEF IInv, StockConserved, PaymentsMatch, HeldPlaces, tables, Rollback
<1>3. LocksExclusive'
  BY <1>0, <1>1 DEF LocksExclusive, NothingWritten
<1>4. KeysUnique'
  BY <1>0, <1>1 DEF KeysUnique, NothingWritten, tables, Rollback
<1>5. ASSUME NEW q \in Processes PROVE Written(q)'
  <2>1. CASE q # p
    BY <1>0, <1>1, <2>1, WrittenKept DEF tables, Rollback
  <2>2. CASE q = p
    <3>1. pc'[p] = l
      BY <1>0 DEF TypeOK
    <3> QED
      BY <1>1, <2>2, <3>1 DEF Written, StockUntouched, NotPaid, NothingWritten, WritingLabels
  <2> QED
    BY <2>1, <2>2
<1> QED
  BY <1>2, <1>3, <1>4, <1>5 DEF DataOK

(* What may be committed: a new reservation, or the settlement of a        *)
(* pending one with all that goes with it.                                 *)
Booking(p) ==
    /\ tx[p].row \in ReservationIds /\ reservations[tx[p].row] = None
    /\ tx[p].image # None /\ tx[p].image.status = "PENDING_PAYMENT" /\ ~tx[p].image.released
    /\ StockTaken(p, tx[p].image.event, tx[p].image.quantity) /\ NotPaid(p)

GivingBack(p) ==
    /\ Settling(p, tx[p].row, {"EXPIRED", "CANCELED", "DECLINED"})
    /\ StockReturned(p) /\ tx[p].tickets = {}
    /\ IF tx[p].image.status = "DECLINED" THEN Paid(p, "DECLINED") ELSE NotPaid(p)

Selling(p) ==
    /\ Settling(p, tx[p].row, {"PAID"})
    /\ StockUntouched(p) /\ Paid(p, "APPROVED") /\ tx[p].tickets = 1..tx[p].image.quantity

LEMMA Committing ==
    ASSUME IInv, NEW p \in Processes, pc[p] \in {"expireCommit", "commit"}
    PROVE  Booking(p) \/ GivingBack(p) \/ Selling(p)
<1>1. Written(p) /\ tx[p] \in Transaction
  BY DEF IInv, TypeOK
<1>2. CASE pc[p] = "expireCommit"
  <2>1. Settling(p, cur[p], {"EXPIRED"}) /\ StockReturned(p) /\ NotPaid(p)
    BY <1>1, <1>2 DEF Written
  <2> QED
    BY <2>1 DEF GivingBack, Settling, NotPaid
<1>3. CASE pc[p] = "commit"
  <2>1. CASE /\ tx[p].row # None /\ reservations[tx[p].row] = None
             /\ tx[p].image # None /\ tx[p].image.status = "PENDING_PAYMENT" /\ ~tx[p].image.released
             /\ StockTaken(p, tx[p].image.event, tx[p].image.quantity) /\ NotPaid(p)
    BY <1>1, <2>1 DEF Booking, Transaction
  <2>2. CASE Settling(p, tx[p].row, Unpaid) /\ StockReturned(p) /\ NotPaid(p)
    BY <2>2 DEF GivingBack, Settling, NotPaid, Unpaid
  <2>3. CASE /\ Settling(p, tx[p].row, {"DECLINED"}) /\ StockReturned(p)
             /\ Paid(p, "DECLINED") /\ tx[p].tickets = {}
    BY <2>3 DEF GivingBack, Settling
  <2>4. CASE /\ Settling(p, tx[p].row, {"PAID"}) /\ StockUntouched(p)
             /\ Paid(p, "APPROVED") /\ tx[p].tickets = 1..tx[p].image.quantity
    BY <2>4 DEF Selling
  <2> QED
    BY <1>1, <1>3, <2>1, <2>2, <2>3, <2>4 DEF Written
<1> QED
  BY <1>2, <1>3

(* What a commit does to the places and the stock of an event              *)
LEMMA CommitConserves ==
    ASSUME IInv, NEW p \in Processes, Commit(p), Booking(p) \/ GivingBack(p) \/ Selling(p)
    PROVE  StockConserved'
<1> DEFINE t == tx[p]
<1>1. t \in Transaction /\ reservations \in [ReservationIds -> Row \cup {None}]
      /\ available \in [Events -> Int] /\ StockConserved
  BY DEF IInv, TypeOK
<1>2. t.row \in ReservationIds /\ t.image \in Row
  BY <1>1 DEF Booking, GivingBack, Selling, Settling, Transaction
<1>3. reservations' = [reservations EXCEPT ![t.row] = t.image]
  BY <1>2, NoneIsNoValue DEF Commit
<1>4. t.image.event \in Events /\ t.image.quantity \in Int /\ t.image.quantity >= 1
      /\ t.image.event # None
  BY <1>2, SetsAreFinite, NoneIsNoValue DEF Row
<1>5. SUFFICES ASSUME NEW e \in Events
               PROVE  /\ available'[e] + Cardinality(PlacesIn(reservations', e)) = Capacity[e]
                      /\ available'[e] \in 0..Capacity[e]
  BY DEF StockConserved, HeldPlaces
<1> DEFINE held == Cardinality(PlacesIn(reservations, e))
           after == Cardinality(PlacesIn([reservations EXCEPT ![t.row] = t.image], e))
<1>6. /\ available[e] + held = Capacity[e] /\ available[e] \in 0..Capacity[e]
      /\ available[e] \in Int /\ held \in Nat /\ after \in Nat /\ Capacity[e] \in Nat
  BY <1>1, PlacesFinite, EventsHaveCapacity DEF StockConserved, HeldPlaces
<1>7. CASE Booking(p)
  <2>1. /\ e = t.image.event => after = held + t.image.quantity
        /\ e # t.image.event => after = held
    BY <1>1, <1>2, <1>7, PlacesGained DEF Booking
  <2>2. available' = [available EXCEPT ![t.image.event] = @ + (-t.image.quantity)]
        /\ available[t.image.event] >= t.image.quantity
    BY <1>4, <1>7 DEF Booking, StockTaken, Commit
  <2>3. available'[e] = IF e = t.image.event THEN available[e] - t.image.quantity ELSE available[e]
    BY <1>1, <1>4, <2>2
  <2> HIDE DEF t, held, after
  <2>4. after = Cardinality(PlacesIn(reservations', e))
    BY <1>3 DEF after
  <2> QED
    BY <1>4, <1>6, <2>1, <2>2, <2>3, <2>4
<1>8. CASE GivingBack(p)
  <2>1. /\ reservations[t.row] # None /\ ~reservations[t.row].released /\ t.image.released
        /\ reservations[t.row] \in Row
        /\ reservations[t.row].event = t.image.event /\ reservations[t.row].quantity = t.image.quantity
    BY <1>1, <1>2, <1>8 DEF GivingBack, Settling, Row
  <2>2. /\ e = t.image.event => after = held - t.image.quantity
        /\ e # t.image.event => after = held
    <3>1. /\ e = reservations[t.row].event => after = held - reservations[t.row].quantity
          /\ e # reservations[t.row].event => after = held
      BY <1>1, <1>2, <2>1, PlacesLost
    <3> HIDE DEF t, held, after
    <3> QED
      BY <2>1, <3>1
  <2>3. available' = [available EXCEPT ![t.image.event] = @ + t.image.quantity]
    BY <1>4, <1>8 DEF GivingBack, StockReturned, Commit
  <2>4. available'[e] = IF e = t.image.event THEN available[e] + t.image.quantity ELSE available[e]
    BY <1>1, <1>4, <2>3
  <2> HIDE DEF t, held, after
  <2>5. after = Cardinality(PlacesIn(reservations', e))
    BY <1>3 DEF after
  <2> QED
    BY <1>4, <1>6, <2>2, <2>4, <2>5
<1>9. CASE Selling(p)
  <2>1. /\ reservations[t.row] # None /\ ~reservations[t.row].released /\ ~t.image.released
        /\ reservations[t.row] \in Row
        /\ reservations[t.row].event = t.image.event /\ reservations[t.row].quantity = t.image.quantity
    BY <1>1, <1>2, <1>9 DEF Selling, Settling, Row
  <2>2. after = held
    BY <1>1, <1>2, <2>1, PlacesKept
  <2>3. available' = available
    BY <1>9 DEF Selling, StockUntouched, Commit
  <2> HIDE DEF t, held, after
  <2>4. after = Cardinality(PlacesIn(reservations', e))
    BY <1>3 DEF after
  <2> QED
    BY <1>6, <2>2, <2>3, <2>4
<1> QED
  BY <1>7, <1>8, <1>9

LEMMA CommitMatches ==
    ASSUME IInv, NEW p \in Processes, Commit(p), Booking(p) \/ GivingBack(p) \/ Selling(p)
    PROVE  PaymentsMatch'
<1> DEFINE t == tx[p]
<1>1. /\ t \in Transaction /\ reservations \in [ReservationIds -> Row \cup {None}]
      /\ payments \in [ReservationIds -> Payment \cup {None}]
      /\ tickets \in [ReservationIds -> SUBSET (1..MaxQuantity)] /\ PaymentsMatch
  BY DEF IInv, TypeOK
<1>2. t.row \in ReservationIds /\ t.image \in Row /\ t.image # None
  BY <1>1, NoneIsNoValue DEF Booking, GivingBack, Selling, Settling, Transaction
<1>3. reservations' = [reservations EXCEPT ![t.row] = t.image]
  BY <1>2, NoneIsNoValue DEF Commit
<1>4. SUFFICES ASSUME NEW r \in ReservationIds
               PROVE  LET row == reservations'[r] IN
        /\ row = None => payments'[r] = None /\ tickets'[r] = {}
        /\ row # None =>
             /\ row.released <=> row.status \in {"DECLINED", "CANCELED", "EXPIRED"}
             /\ (row.status = "PAID") <=> (payments'[r] # None /\ payments'[r].status = "APPROVED")
             /\ (row.status = "DECLINED") <=> (payments'[r] # None /\ payments'[r].status = "DECLINED")
             /\ tickets'[r] = IF row.status = "PAID" THEN 1..row.quantity ELSE {}
  BY DEF PaymentsMatch
<1>5. CASE r # t.row
  <2>1. UNCHANGED <<reservations[r], payments[r], tickets[r]>>
    BY <1>1, <1>2, <1>3, <1>5 DEF Commit
  <2> QED
    BY <1>1, <2>1 DEF PaymentsMatch
<1>6. CASE r = t.row
  <2>0. reservations'[r] = t.image
    BY <1>1, <1>2, <1>3, <1>6
  <2>1. CASE Booking(p)
    <3>1. payments' = payments /\ tickets' = tickets
      BY <2>1 DEF Booking, NotPaid, Commit
    <3>2. payments[r] = None /\ tickets[r] = {}
      BY <1>1, <1>6, <2>1 DEF Booking, PaymentsMatch
    <3> QED
      BY <1>2, <2>0, <2>1, <3>1, <3>2 DEF Booking
  <2>2. ASSUME GivingBack(p) \/ Selling(p) PROVE payments[r] = None /\ tickets[r] = {}
    <3>1. reservations[r] # None /\ reservations[r].status = "PENDING_PAYMENT"
      BY <1>6, <2>2 DEF GivingBack, Selling, Settling
    <3>2. payments[r] = None \/ payments[r].status \in {"APPROVED", "DECLINED"}
      BY <1>1 DEF Payment
    <3> QED
      BY <1>1, <3>1, <3>2 DEF PaymentsMatch
  <2>3. CASE GivingBack(p)
    <3>1. t.image.released /\ t.image.status \in {"EXPIRED", "CANCELED", "DECLINED"}
      BY <2>3 DEF GivingBack, Settling
    <3>2. payments'[r] = t.payment
      BY <1>1, <1>6, <2>2, <2>3, <1>2 DEF Commit
    <3>3. tickets'[r] = {}
      BY <1>1, <1>6, <2>2, <2>3, <1>2 DEF Commit, GivingBack
    <3>4. IF t.image.status = "DECLINED" THEN t.payment # None /\ t.payment.status = "DECLINED"
          ELSE t.payment = None
      BY <2>3 DEF GivingBack, Paid, NotPaid
    <3> QED
      BY <1>2, <2>0, <3>1, <3>2, <3>3, <3>4
  <2>4. CASE Selling(p)
    <3>1. ~t.image.released /\ t.image.status = "PAID"
      BY <2>4 DEF Selling, Settling
    <3>2. t.payment # None /\ t.payment.status = "APPROVED"
      BY <2>4 DEF Selling, Paid
    <3>3. payments'[r] = t.payment
      BY <1>1, <1>2, <1>6, <3>2 DEF Commit
    <3>4. tickets'[r] = 1..t.image.quantity
      BY <1>1, <1>2, <1>6, <2>2, <2>4, <3>2 DEF Commit, Selling
    <3> QED
      BY <1>2, <2>0, <3>1, <3>2, <3>3, <3>4
  <2> QED
    BY <2>1, <2>3, <2>4
<1> QED
  BY <1>5, <1>6

LEMMA CommitStep ==
    ASSUME IInv, NEW p \in Processes, pc[p] \in {"expireCommit", "commit"}, Commit(p),
           UNCHANGED req, NEW l, l \notin WritingLabels, pc' = [pc EXCEPT ![p] = l],
           \A q \in Processes \ {p} : UNCHANGED cur[q]
    PROVE  DataOK'
<1> DEFINE t == tx[p]
<1>0. TypeOK /\ ControlOK /\ LocksExclusive /\ KeysUnique /\ \A q \in Processes : Written(q)
  BY DEF IInv
<1>1. tx'[p] = NothingWritten /\ \A q \in Processes \ {p} : UNCHANGED <<tx[q], pc[q]>>
  BY <1>0 DEF TypeOK, Commit
<1>2. Booking(p) \/ GivingBack(p) \/ Selling(p)
  BY Committing
<1>3. t.row \in ReservationIds /\ t.row # None
  BY <1>2, NoneIsNoValue DEF Booking, GivingBack, Selling, Settling
<1>4. LocksExclusive'
  BY <1>0, <1>1 DEF LocksExclusive, NothingWritten
<1>5. KeysUnique'
  <2>1. \A r \in ReservationIds : payments'[r] = IF t.payment # None /\ r = t.row THEN t.payment
                                                 ELSE payments[r]
    BY <1>0, <1>3 DEF TypeOK, Commit
  <2>2. \A q \in Processes \ {p} : t.payment # None /\ tx[q].payment # None =>
            tx[q].payment.key # t.payment.key
    BY <1>0 DEF LocksExclusive
  <2>3. \A r \in ReservationIds : t.payment # None /\ payments[r] # None => payments[r].key # t.payment.key
    BY <1>0 DEF KeysUnique
  <2> HIDE DEF t
  <2>4. \A r, s \in ReservationIds :
          r # s /\ payments'[r] # None /\ payments'[s] # None => payments'[r].key # payments'[s].key
    BY <1>0, <2>1, <2>3 DEF KeysUnique
  <2>5. ASSUME NEW q \in Processes, NEW r \in ReservationIds,
               tx'[q].payment # None, payments'[r] # None
        PROVE  payments'[r].key # tx'[q].payment.key
    <3>1. q # p /\ tx'[q] = tx[q]
      BY <1>1, <2>5 DEF NothingWritten
    <3>2. CASE t.payment # None /\ r = t.row
      BY <2>1, <2>2, <2>5, <3>1, <3>2
    <3>3. CASE ~(t.payment # None /\ r = t.row)
      BY <1>0, <2>1, <2>5, <3>1, <3>3 DEF KeysUnique
    <3> QED
      BY <3>2, <3>3
  <2> QED
    BY <2>4, <2>5 DEF KeysUnique
<1>6. ASSUME NEW q \in Processes PROVE Written(q)'
  <2>1. CASE q # p
    <3>1. tx[q].row # None => UNCHANGED reservations[tx[q].row]
      <4>1. tx[q].row # None => tx[q].row # t.row /\ tx[q].row \in ReservationIds
        BY <1>0, <2>1, <1>3 DEF LocksExclusive, TypeOK, Transaction
      <4> QED
        BY <1>0, <4>1 DEF Commit, TypeOK
    <3>2. tx[q].event # None => UNCHANGED available[tx[q].event]
      <4>1. tx[q].event # None => tx[q].event # t.event /\ tx[q].event \in Events
        BY <1>0, <2>1 DEF LocksExclusive, TypeOK, Transaction
      <4> QED
        BY <1>0, <4>1 DEF Commit, TypeOK
    <3>3. UNCHANGED <<tx[q], pc[q], cur[q], req>>
      BY <1>1, <2>1
    <3> QED
      BY <1>0, <3>1, <3>2, <3>3, WrittenKept
  <2>2. CASE q = p
    <3>1. pc'[p] = l
      BY <1>0 DEF TypeOK
    <3> QED
      BY <1>1, <2>2, <3>1 DEF Written, StockUntouched, NotPaid, NothingWritten, WritingLabels
  <2> QED
    BY <2>1, <2>2
<1>7. StockConserved' /\ PaymentsMatch'
  BY <1>2, CommitConserves, CommitMatches
<1> QED
  BY <1>4, <1>5, <1>6, <1>7 DEF DataOK

-----------------------------------------------------------------------------
(* Every step keeps it                                                     *)

LEMMA ExpiringData ==
    ASSUME IInv, NEW p \in Processes, Expiring(p) PROVE DataOK'
<1> USE DEF Goto, Proceed, locals
<1>0. TypeOK /\ ControlOK /\ Written(p)
  BY DEF IInv
<1>1. CASE FindExpired(p)
  BY <1>1, QuietStep DEF FindExpired, dbVars, WritingLabels
<1>2. CASE ExpireRead(p)
  <2>1. UNCHANGED <<tables, tx, req>> /\ pc[p] \notin WritingLabels
    BY <1>2 DEF ExpireRead, dbVars, WritingLabels
  <2>2. \A q \in Processes \ {p} : UNCHANGED cur[q]
    BY <1>0, <1>2 DEF ExpireRead, TypeOK
  <2>3. pc' = [pc EXCEPT ![p] = "expireUpdate"] \/ UNCHANGED pc
    BY <1>2 DEF ExpireRead
  <2> QED
    BY <2>1, <2>2, <2>3, QuietStep DEF WritingLabels
<1>3. CASE ExpireUpdate(p)
  <2>1. /\ UNCHANGED <<tables, req, cur>> /\ pc[p] \notin WritingLabels
        /\ cur[p] \in ReservationIds /\ \A q \in Processes \ {p} : UNCHANGED <<pc[q], cur[q]>>
    BY <1>0, <1>3 DEF ExpireUpdate, WritingLabels, ControlOK, TypeOK
  <2>2. CASE /\ Lapsed(cur[p], now[p])
             /\ WriteStatus(p, cur[p], "EXPIRED", TRUE)
             /\ Proceed(p, "expireIncrement")
    <3>1. /\ tx'[p].row = cur[p] /\ tx'[p].image.status = "EXPIRED"
          /\ tx'[p].image = [reservations[cur[p]] EXCEPT !.status = "EXPIRED", !.released = TRUE]
          /\ tx'[p].image # None
          /\ (StockUntouched(p) /\ NotPaid(p))'
          /\ Written(p)' => DataOK'
      BY <2>1, <2>2, SettlingBegins DEF Lapsed
    <3>2. reservations[cur[p]] \in Row /\ pc'[p] = "expireIncrement"
      BY <1>0, <2>1, <2>2 DEF TypeOK, Lapsed
    <3>3. Settling(p, cur[p], {"EXPIRED"})'
      BY <2>1, <2>2, <3>1, <3>2 DEF Settling, tables, Lapsed, Row
    <3>4. Written(p)'
      BY <3>1, <3>2, <3>3 DEF Written, WritingLabels
    <3> QED
      BY <3>1, <3>4
  <2>3. CASE Proceed(p, "expire") /\ UNCHANGED tx
    BY <2>1, <2>3, QuietStep DEF WritingLabels
  <2> QED
    BY <1>3, <2>2, <2>3 DEF ExpireUpdate
<1>4. CASE ExpireIncrement(p)
  <2>1. /\ UNCHANGED <<tables, req, cur>> /\ pc[p] = "expireIncrement" /\ pc'[p] = "expireCommit"
        /\ \A q \in Processes \ {p} : UNCHANGED <<pc[q], cur[q]>>
    BY <1>0, <1>4 DEF ExpireIncrement, TypeOK
  <2>2. Settling(p, cur[p], {"EXPIRED"}) /\ StockUntouched(p) /\ NotPaid(p)
    BY <1>0, <2>1 DEF Written
  <2>3. AddStock(p, reservations[cur[p]].event, reservations[cur[p]].quantity)
    BY <1>4 DEF ExpireIncrement
  <2>4. /\ Settling(p, cur[p], {"EXPIRED"})' /\ (StockReturned(p) /\ NotPaid(p))'
        /\ Written(p)' => DataOK'
    BY <2>1, <2>2, <2>3, StockReturns
  <2>5. Written(p)'
    BY <2>1, <2>4 DEF Written, WritingLabels
  <2> QED
    BY <2>4, <2>5
<1>5. CASE ExpireCommit(p)
  BY <1>5, CommitStep DEF ExpireCommit, WritingLabels
<1>6. CASE LoopEnds(p)
  <2>1. UNCHANGED <<tables, tx, req>> /\ pc[p] \notin WritingLabels
    BY <1>6 DEF LoopEnds, dbVars, WritingLabels
  <2>2. \A q \in Processes \ {p} : UNCHANGED cur[q]
    BY <1>0, <1>6 DEF LoopEnds, Rest, Forget, TypeOK
  <2>3. \E l \in {"idle", "takeStock", "getRead", "cancelRead"} : pc' = [pc EXCEPT ![p] = l]
    BY <1>6 DEF LoopEnds, Rest
  <2> QED
    BY <2>1, <2>2, <2>3, QuietStep DEF WritingLabels
<1> QED
  BY <1>1, <1>2, <1>3, <1>4, <1>5, <1>6 DEF Expiring

LEMMA QuietAnswer ==
    ASSUME IInv, NEW p \in Processes, UNCHANGED <<tables, tx, req>>, pc[p] \notin WritingLabels,
           NEW code, NEW tix, Answer(p, code, tix)
    PROVE  DataOK'
<1>1. \A q \in Processes \ {p} : UNCHANGED cur[q]
  BY DEF IInv, TypeOK, Answer, Forget
<1>2. pc' = [pc EXCEPT ![p] = "done"]
  BY DEF Answer, Goto
<1> QED
  BY <1>1, <1>2, QuietStep DEF WritingLabels

LEMMA ReservingData ==
    ASSUME IInv, NEW p \in Processes, Reserving(p) PROVE DataOK'
<1> USE DEF Goto, Proceed, locals
<1>0. TypeOK /\ ControlOK /\ Written(p) /\ LocksExclusive /\ KeysUnique
  BY DEF IInv
<1>1. CASE CreateBegins(p)
  <2>1. UNCHANGED <<tables, tx, req>> /\ pc[p] \notin WritingLabels
    BY <1>1 DEF CreateBegins, dbVars, WritingLabels
  <2>2. CASE Proceed(p, "findExpired")
    BY <2>1, <2>2, QuietStep DEF WritingLabels
  <2>3. CASE Answer(p, "INVALID_QUANTITY", {})
    BY <2>1, <2>3, QuietAnswer
  <2> QED
    BY <1>1, <2>2, <2>3 DEF CreateBegins
<1>2. CASE TakeStock(p)
  <2>1. UNCHANGED <<tables, req>> /\ pc[p] \notin WritingLabels
    BY <1>2 DEF TakeStock, WritingLabels
  <2>2. CASE /\ Bookable(req[p].event, req[p].quantity, now[p])
             /\ AddStock(p, req[p].event, -req[p].quantity)
             /\ Proceed(p, "insert")
    <3> DEFINE e == req[p].event
               n == req[p].quantity
               t == [tx[p] EXCEPT !.event = e, !.delta = -n]
    <3>1. tx[p] \in Transaction /\ tx' = [tx EXCEPT ![p] = t] /\ tx'[p] = t
      BY <1>0, <2>2 DEF TypeOK, AddStock
    <3>2. /\ t.row = None /\ t.image = None /\ t.event = e /\ t.delta = -n
          /\ t.payment = None /\ t.tickets = {}
      BY <1>0, <2>1, <3>1 DEF Transaction, Written, NotPaid
    <3>3. e \in Published /\ available[e] >= n
      BY <2>2 DEF Bookable
    <3>4. \A q \in Processes \ {p} : UNCHANGED <<pc[q], cur[q]>> /\ tx[q].event # e
      BY <1>0, <2>2 DEF AddStock, EventFree, EventHolders, TypeOK
    <3>5. pc'[p] = "insert"
      BY <1>0, <2>2 DEF TypeOK
    <3> HIDE DEF t
    <3>6. Written(p)'
      BY <2>1, <3>1, <3>2, <3>3, <3>5 DEF Written, WritingLabels, StockTaken, NotPaid, tables
    <3> QED
      BY <2>1, <3>1, <3>2, <3>4, <3>6, WritingStep
  <2>3. CASE (\E code : Answer(p, code, {})) /\ UNCHANGED tx
    BY <2>1, <2>3, QuietAnswer
  <2> QED
    BY <1>2, <2>2, <2>3 DEF TakeStock
<1>3. CASE Insert(p)
  <2>1. UNCHANGED <<tables, req>> /\ pc[p] = "insert"
    BY <1>3 DEF Insert
  <2>2. PICK r \in ReservationIds :
         /\ reservations[r] = None /\ RowHolders(r) = {}
         /\ tx' = [tx EXCEPT ![p].row = r, ![p].image =
                     [status |-> "PENDING_PAYMENT", customer |-> req[p].customer,
                      event |-> req[p].event, quantity |-> req[p].quantity,
                      expiresAt |-> now[p] + HoldTime, released |-> FALSE]]
    BY <1>3 DEF Insert
  <2> DEFINE image == [status |-> "PENDING_PAYMENT", customer |-> req[p].customer,
                       event |-> req[p].event, quantity |-> req[p].quantity,
                       expiresAt |-> now[p] + HoldTime, released |-> FALSE]
             t == [tx[p] EXCEPT !.row = r, !.image = image]
  <2>3. tx[p] \in Transaction /\ tx' = [tx EXCEPT ![p] = t] /\ tx'[p] = t
    BY <1>0, <2>2 DEF TypeOK
  <2>4. StockTaken(p, req[p].event, req[p].quantity) /\ NotPaid(p)
    BY <1>0, <2>1 DEF Written
  <2>5. /\ t.row = r /\ t.image = image /\ t.event = tx[p].event /\ t.delta = tx[p].delta
        /\ t.payment = None /\ t.tickets = {}
    BY <2>3, <2>4 DEF Transaction, NotPaid
  <2>6. \A q \in Processes \ {p} :
            /\ UNCHANGED <<pc[q], cur[q]>> /\ tx[q].row # r
            /\ t.event # None => tx[q].event # t.event
    BY <1>0, <1>3, <2>2, <2>5 DEF Insert, TypeOK, RowHolders, LocksExclusive
  <2>7. pc'[p] = "commit"
    BY <1>0, <1>3 DEF Insert, TypeOK
  <2>8. /\ image.status = "PENDING_PAYMENT" /\ ~image.released /\ image.event = req[p].event
        /\ image.quantity = req[p].quantity
    OBVIOUS
  <2>9. image # None
    <3>1. p \in Requests
      BY <1>0, <2>1, OnlyRequests DEF SweepLabels
    <3>2. req[p] \in Request /\ now[p] \in Int /\ req[p].quantity \in 1..MaxQuantity
      BY <1>0, <2>1, <3>1 DEF TypeOK, ControlOK
    <3>3. req[p].event \in Events /\ req[p].customer \in Customers
      BY <2>4, <3>2, EventsHaveCapacity DEF StockTaken, Request
    <3>4. image \in Row
      BY <3>2, <3>3, Durations DEF Row, Statuses
    <3> QED
      BY <3>4, NoneIsNoValue
  <2> HIDE DEF t, image
  <2>10. Written(p)'
    <3>1. /\ tx'[p].row # None /\ reservations'[tx'[p].row] = None
          /\ tx'[p].image # None /\ tx'[p].image.status = "PENDING_PAYMENT" /\ ~tx'[p].image.released
      BY <2>1, <2>2, <2>3, <2>5, <2>8, <2>9, NoneIsNoValue DEF tables
    <3>2. StockTaken(p, tx[p].image.event, tx[p].image.quantity)'
      BY <2>1, <2>3, <2>4, <2>5, <2>8 DEF StockTaken, tables
    <3>3. NotPaid(p)'
      BY <2>3, <2>5 DEF NotPaid
    <3> QED
      BY <2>7, <3>1, <3>2, <3>3 DEF Written, WritingLabels
  <2> QED
    BY <2>1, <2>3, <2>5, <2>6, <2>10, WritingStep
<1>4. CASE ExpiresFirst(p)
  BY <1>4, QuietStep DEF ExpiresFirst, dbVars, WritingLabels
<1>5. CASE GetRead(p)
  <2>1. UNCHANGED <<tables, tx, req>> /\ pc[p] \notin WritingLabels
    BY <1>5 DEF GetRead, dbVars, WritingLabels
  <2>2. CASE pc' = [pc EXCEPT ![p] = "getTickets"] /\ UNCHANGED cur
    BY <2>1, <2>2, QuietStep DEF WritingLabels
  <2>3. CASE Answer(p, "RESERVATION_NOT_FOUND", {})
    BY <2>1, <2>3, QuietAnswer
  <2> QED
    BY <1>5, <2>2, <2>3 DEF GetRead
<1>6. CASE GetTickets(p)
  <2>1. UNCHANGED <<tables, tx, req>> /\ pc[p] \notin WritingLabels
    BY <1>6 DEF GetTickets, dbVars, WritingLabels
  <2> QED
    BY <1>6, <2>1, QuietAnswer DEF GetTickets
<1>7. CASE CancelRead(p)
  <2>1. UNCHANGED <<tables, tx, req>> /\ pc[p] \notin WritingLabels
    BY <1>7 DEF CancelRead, dbVars, WritingLabels
  <2>2. CASE pc' = [pc EXCEPT ![p] = "cancelUpdate"] /\ UNCHANGED cur
    BY <2>1, <2>2, QuietStep DEF WritingLabels
  <2>3. CASE \E code : Answer(p, code, {})
    BY <2>1, <2>3, QuietAnswer
  <2> QED
    BY <1>7, <2>2, <2>3 DEF CancelRead
<1>8. CASE CancelUpdate(p)
  <2> DEFINE r == req[p].reservation
  <2>1. /\ UNCHANGED <<tables, req>> /\ pc[p] \notin WritingLabels /\ r \in ReservationIds
    <3>1. p \in Requests
      BY <1>0, <1>8, OnlyRequests DEF CancelUpdate, SweepLabels
    <3> QED
      BY <1>0, <1>8, <3>1 DEF CancelUpdate, WritingLabels, TypeOK, Request
  <2>2. CASE /\ Live(r, now[p])
             /\ WriteStatus(p, r, "CANCELED", TRUE)
             /\ Proceed(p, "increment")
    <3>1. \A q \in Processes \ {p} : UNCHANGED <<pc[q], cur[q]>>
      BY <1>0, <2>2 DEF TypeOK
    <3>2. /\ tx'[p].row = r /\ tx'[p].image.status = "CANCELED"
          /\ tx'[p].image = [reservations[r] EXCEPT !.status = "CANCELED", !.released = TRUE]
          /\ tx'[p].image # None
          /\ (StockUntouched(p) /\ NotPaid(p))'
          /\ Written(p)' => DataOK'
      BY <2>1, <2>2, <3>1, SettlingBegins DEF Live
    <3>3. reservations[r] \in Row /\ pc'[p] = "increment" /\ req' = req
      BY <1>0, <2>1, <2>2 DEF TypeOK, Live
    <3>4. Settling(p, req[p].reservation, Unpaid \cup {"DECLINED"})'
      BY <2>1, <2>2, <3>2, <3>3 DEF Settling, tables, Live, Row, Unpaid
    <3>5. Written(p)'
      BY <3>2, <3>3, <3>4 DEF Written, WritingLabels
    <3> QED
      BY <3>2, <3>5
  <2>3. CASE Answer(p, "RESERVATION_NOT_CANCELABLE", {}) /\ UNCHANGED tx
    BY <2>1, <2>3, QuietAnswer
  <2> QED
    BY <1>8, <2>2, <2>3 DEF CancelUpdate
<1>9. CASE Increment(p)
  <2> DEFINE r == req[p].reservation
  <2>1. /\ UNCHANGED <<tables, req, cur>> /\ pc[p] = "increment"
        /\ pc'[p] = IF tx[p].image.status = "DECLINED" THEN "payInsert" ELSE "commit"
        /\ \A q \in Processes \ {p} : UNCHANGED <<pc[q], cur[q]>>
    BY <1>0, <1>9 DEF Increment, TypeOK
  <2>2. /\ Settling(p, r, Unpaid \cup {"DECLINED"}) /\ StockUntouched(p) /\ NotPaid(p)
        /\ tx[p].image.status = "DECLINED" => req[p].result = "DECLINED"
    BY <1>0, <2>1 DEF Written
  <2>3. AddStock(p, reservations[r].event, reservations[r].quantity)
    BY <1>9 DEF Increment
  <2>4. /\ Settling(p, r, Unpaid \cup {"DECLINED"})' /\ (StockReturned(p) /\ NotPaid(p))'
        /\ UNCHANGED <<tx[p].row, tx[p].image>>
        /\ Written(p)' => DataOK'
    BY <2>1, <2>2, <2>3, StockReturns
  <2>5. Written(p)'
    <3>1. CASE tx[p].image.status = "DECLINED"
      <4>1. pc'[p] = "payInsert" /\ req'[p].result = "DECLINED" /\ tx'[p].image.status = "DECLINED"
        BY <2>1, <2>2, <2>4, <3>1
      <4>2. Settling(p, req[p].reservation, {"PAID", "DECLINED"})'
        BY <2>4, <4>1 DEF Settling
      <4> QED
        BY <2>4, <4>1, <4>2 DEF Written, WritingLabels
    <3>2. CASE tx[p].image.status # "DECLINED"
      <4>1. pc'[p] = "commit" /\ tx'[p].image.status # "DECLINED"
        BY <2>1, <2>4, <3>2
      <4>2. Settling(p, tx[p].row, Unpaid)'
        BY <2>4, <4>1 DEF Settling
      <4> QED
        BY <2>4, <4>1, <4>2 DEF Written, WritingLabels
    <3> QED
      BY <3>1, <3>2
  <2> QED
    BY <2>4, <2>5
<1> QED
  BY <1>1, <1>2, <1>3, <1>4, <1>5, <1>6, <1>7, <1>8, <1>9 DEF Reserving

LEMMA PayingData ==
    ASSUME IInv, NEW p \in Processes, Paying(p) PROVE DataOK'
<1> USE DEF Goto, Proceed, locals
<1>0. TypeOK /\ ControlOK /\ Written(p) /\ LocksExclusive /\ KeysUnique
  BY DEF IInv
<1>1. CASE SimulateBegins(p)
  <2>1. UNCHANGED <<tables, tx, req>> /\ pc[p] \notin WritingLabels
    BY <1>1 DEF SimulateBegins, dbVars, WritingLabels
  <2> QED
    BY <1>1, <2>1, QuietStep, QuietAnswer DEF SimulateBegins, WritingLabels
<1>2. CASE FindReplay(p)
  <2>1. UNCHANGED <<tables, tx, req>> /\ pc[p] \notin WritingLabels
    BY <1>2 DEF FindReplay, dbVars, WritingLabels
  <2>2. CASE \E l \in {"replayTx", "payRead"} : Proceed(p, l)
    BY <2>1, <2>2, QuietStep DEF WritingLabels
  <2>3. CASE \E code, tix : Answer(p, code, tix)
    BY <2>1, <2>3, QuietAnswer
  <2> QED
    BY <1>2, <2>2, <2>3 DEF FindReplay
<1>3. CASE PayRead(p)
  <2>1. UNCHANGED <<tables, tx, req>> /\ pc[p] \notin WritingLabels
    BY <1>3 DEF PayRead, dbVars, WritingLabels
  <2>2. CASE pc' = [pc EXCEPT ![p] = "payCheck"] /\ UNCHANGED cur
    BY <2>1, <2>2, QuietStep DEF WritingLabels
  <2>3. CASE Answer(p, "RESERVATION_NOT_FOUND", {})
    BY <2>1, <2>3, QuietAnswer
  <2> QED
    BY <1>3, <2>2, <2>3 DEF PayRead
<1>4. CASE PayCheck(p)
  <2>1. UNCHANGED <<tables, tx, req>> /\ pc[p] \notin WritingLabels
    BY <1>4 DEF PayCheck, dbVars, WritingLabels
  <2>2. CASE (\E l \in {"payRelease", "payUpdate"} : pc' = [pc EXCEPT ![p] = l]) /\ UNCHANGED cur
    BY <2>1, <2>2, QuietStep DEF WritingLabels
  <2>3. CASE \E code, tix : Answer(p, code, tix)
    BY <2>1, <2>3, QuietAnswer
  <2> QED
    BY <1>4, <2>2, <2>3 DEF PayCheck
<1>5. CASE PayRelease(p)
  <2> DEFINE r == req[p].reservation
  <2>1. /\ UNCHANGED <<tables, req>> /\ pc[p] \notin WritingLabels /\ r \in ReservationIds
    BY <1>0, <1>5, PayingRequest DEF PayRelease, WritingLabels, PayLabels
  <2>2. CASE /\ Lapsed(r, now[p])
             /\ WriteStatus(p, r, "EXPIRED", TRUE)
             /\ Proceed(p, "increment")
    <3>1. \A q \in Processes \ {p} : UNCHANGED <<pc[q], cur[q]>>
      BY <1>0, <2>2 DEF TypeOK
    <3>2. /\ tx'[p].row = r /\ tx'[p].image.status = "EXPIRED"
          /\ tx'[p].image = [reservations[r] EXCEPT !.status = "EXPIRED", !.released = TRUE]
          /\ tx'[p].image # None
          /\ (StockUntouched(p) /\ NotPaid(p))'
          /\ Written(p)' => DataOK'
      BY <2>1, <2>2, <3>1, SettlingBegins DEF Lapsed
    <3>3. reservations[r] \in Row /\ pc'[p] = "increment" /\ req' = req
      BY <1>0, <2>1, <2>2 DEF TypeOK, Lapsed
    <3>4. Settling(p, req[p].reservation, Unpaid \cup {"DECLINED"})'
      BY <2>1, <2>2, <3>2, <3>3 DEF Settling, tables, Lapsed, Row, Unpaid
    <3>5. Written(p)'
      BY <3>2, <3>3, <3>4 DEF Written, WritingLabels
    <3> QED
      BY <3>2, <3>5
  <2>3. CASE Answer(p, "RESERVATION_EXPIRED", {}) /\ UNCHANGED tx
    BY <2>1, <2>3, QuietAnswer
  <2> QED
    BY <1>5, <2>2, <2>3 DEF PayRelease
<1>6. CASE PayUpdate(p)
  <2> DEFINE r == req[p].reservation
  <2>1. /\ UNCHANGED <<tables, req, cur>> /\ pc[p] \notin WritingLabels /\ r \in ReservationIds
        /\ req[p].op = "simulate" /\ req[p].key # None
    BY <1>0, <1>6, PayingRequest, NoneIsNoValue DEF PayUpdate, WritingLabels, PayLabels, ControlOK
  <2>2. \A q \in Processes \ {p} : UNCHANGED <<pc[q], cur[q]>>
    BY <1>0, <1>6 DEF PayUpdate, TypeOK
  <2>3. CASE /\ Live(r, now[p]) /\ req[p].result = "APPROVED"
             /\ WriteStatus(p, r, "PAID", FALSE)
             /\ Proceed(p, "payInsert")
    <3>2. /\ tx'[p].row = r /\ tx'[p].image.status = "PAID"
          /\ tx'[p].image = [reservations[r] EXCEPT !.status = "PAID", !.released = FALSE]
          /\ tx'[p].image # None
          /\ (StockUntouched(p) /\ NotPaid(p))'
          /\ Written(p)' => DataOK'
      BY <2>1, <2>2, <2>3, SettlingBegins DEF Live
    <3>3. reservations[r] \in Row /\ pc'[p] = "payInsert" /\ req' = req
      BY <1>0, <2>1, <2>3 DEF TypeOK, Live
    <3>4. Settling(p, req[p].reservation, {"PAID", "DECLINED"})'
      BY <2>1, <2>3, <3>2, <3>3 DEF Settling, tables, Live, Row
    <3>5. Written(p)'
      BY <2>3, <3>2, <3>3, <3>4 DEF Written, WritingLabels
    <3> QED
      BY <3>2, <3>5
  <2>4. CASE /\ Live(r, now[p]) /\ req[p].result = "DECLINED"
             /\ WriteStatus(p, r, "DECLINED", TRUE)
             /\ Proceed(p, "increment")
    <3>2. /\ tx'[p].row = r /\ tx'[p].image.status = "DECLINED"
          /\ tx'[p].image = [reservations[r] EXCEPT !.status = "DECLINED", !.released = TRUE]
          /\ tx'[p].image # None
          /\ (StockUntouched(p) /\ NotPaid(p))'
          /\ Written(p)' => DataOK'
      BY <2>1, <2>2, <2>4, SettlingBegins DEF Live
    <3>3. reservations[r] \in Row /\ pc'[p] = "increment" /\ req' = req
      BY <1>0, <2>1, <2>4 DEF TypeOK, Live
    <3>4. Settling(p, req[p].reservation, Unpaid \cup {"DECLINED"})'
      BY <2>1, <2>4, <3>2, <3>3 DEF Settling, tables, Live, Row, Unpaid
    <3>5. Written(p)'
      BY <2>1, <2>4, <3>2, <3>3, <3>4 DEF Written, WritingLabels
    <3> QED
      BY <3>2, <3>5
  <2>5. CASE Proceed(p, "payReread") /\ UNCHANGED tx
    BY <2>1, <2>5, QuietStep DEF WritingLabels
  <2> QED
    BY <1>6, <2>3, <2>4, <2>5 DEF PayUpdate
<1>7. CASE PayReread(p)
  <2>1. UNCHANGED <<tables, tx, req>> /\ pc[p] \notin WritingLabels
    BY <1>7 DEF PayReread, dbVars, WritingLabels
  <2>2. CASE Proceed(p, "payRelease")
    BY <2>1, <2>2, QuietStep DEF WritingLabels
  <2>3. CASE \E code, tix : Answer(p, code, tix)
    BY <2>1, <2>3, QuietAnswer
  <2> QED
    BY <1>7, <2>2, <2>3 DEF PayReread
<1>8. CASE PayInsert(p)
  <2> DEFINE r == req[p].reservation
             k == req[p].key
  <2>1. /\ UNCHANGED <<req, cur>> /\ pc[p] = "payInsert" /\ r \in ReservationIds /\ k \in Keys
        /\ req[p].result \in {"APPROVED", "DECLINED"}
    BY <1>0, <1>8, PayingRequest DEF PayInsert, PayLabels
  <2>2. CASE Rollback(p) /\ Proceed(p, "payCatch")
    BY <2>1, <2>2, RollbackStep DEF WritingLabels
  <2>3. CASE /\ PaidWith(k) = {}
             /\ KeyFree(p, k)
             /\ tx' = [tx EXCEPT ![p].payment = [key |-> k, status |-> req[p].result]]
             /\ Proceed(p, IF req[p].result = "APPROVED" THEN "payTickets" ELSE "commit")
             /\ UNCHANGED tables
    <3> DEFINE pay == [key |-> k, status |-> req[p].result]
               t == [tx[p] EXCEPT !.payment = pay]
    <3>1. tx[p] \in Transaction /\ tx' = [tx EXCEPT ![p] = t] /\ tx'[p] = t
      BY <1>0, <2>3 DEF TypeOK
    <3>2. /\ Settling(p, r, {"PAID", "DECLINED"}) /\ NotPaid(p)
          /\ tx[p].image.status = IF req[p].result = "APPROVED" THEN "PAID" ELSE "DECLINED"
          /\ IF req[p].result = "APPROVED" THEN StockUntouched(p) ELSE StockReturned(p)
      BY <1>0, <2>1 DEF Written
    <3>3. pay # None /\ pay.key = k /\ pay.status = req[p].result
      <4>1. pay \in Payment
        BY <2>1 DEF Payment
      <4> QED
        BY <4>1, NoneIsNoValue
    <3>4. /\ t.row = tx[p].row /\ t.image = tx[p].image /\ t.event = tx[p].event
          /\ t.delta = tx[p].delta /\ t.payment = pay /\ t.tickets = {}
      BY <3>1, <3>2 DEF Transaction, NotPaid
    <3> HIDE DEF t, pay
    <3>5. pc'[p] = IF req[p].result = "APPROVED" THEN "payTickets" ELSE "commit"
      BY <1>0, <2>3 DEF TypeOK
    <3>6. \A q \in Processes \ {p} :
            /\ UNCHANGED <<pc[q], cur[q]>>
            /\ t.row # None => tx[q].row # t.row
            /\ t.event # None => tx[q].event # t.event
            /\ t.payment # None /\ tx[q].payment # None => tx[q].payment.key # t.payment.key
      BY <1>0, <2>1, <2>3, <3>3, <3>4 DEF TypeOK, LocksExclusive, KeyFree, KeyHolders
    <3>7. \A s \in ReservationIds :
              t.payment # None /\ payments[s] # None => payments[s].key # t.payment.key
      BY <2>3, <3>3, <3>4 DEF PaidWith
    <3>8. Written(p)'
      <4>1. CASE req[p].result = "APPROVED"
        <5>1. Settling(p, req[p].reservation, {"PAID"})'
          BY <2>1, <2>3, <3>1, <3>2, <3>4, <4>1 DEF Settling, tables
        <5>2. (StockUntouched(p) /\ Paid(p, "APPROVED"))'
          BY <3>1, <3>2, <3>3, <3>4, <4>1 DEF StockUntouched, Paid
        <5>3. pc'[p] = "payTickets"
          BY <3>5, <4>1
        <5> QED
          BY <5>1, <5>2, <5>3 DEF Written, WritingLabels
      <4>2. CASE req[p].result = "DECLINED"
        <5>1. Settling(p, tx[p].row, {"DECLINED"})'
          BY <2>1, <2>3, <3>1, <3>2, <3>4, <4>2 DEF Settling, tables
        <5>2. (StockReturned(p) /\ Paid(p, "DECLINED"))' /\ tx'[p].tickets = {}
          BY <3>1, <3>2, <3>3, <3>4, <4>2 DEF StockReturned, Paid
        <5>3. pc'[p] = "commit"
          BY <3>5, <4>2
        <5> QED
          BY <5>1, <5>2, <5>3 DEF Written, WritingLabels
      <4> QED
        BY <2>1, <4>1, <4>2
    <3> QED
      BY <2>1, <2>3, <3>1, <3>6, <3>7, <3>8, WritingStep
  <2> QED
    BY <1>8, <2>2, <2>3 DEF PayInsert
<1>9. CASE PayTickets(p)
  <2> DEFINE r == req[p].reservation
             all == 1..reservations[r].quantity
             t == [tx[p] EXCEPT !.tickets = all]
  <2>1. /\ UNCHANGED <<tables, req, cur>> /\ pc[p] = "payTickets" /\ pc'[p] = "commit"
        /\ tx' = [tx EXCEPT ![p].tickets = all]
        /\ \A q \in Processes \ {p} : UNCHANGED <<pc[q], cur[q]>>
    BY <1>0, <1>9 DEF PayTickets, TypeOK
  <2>2. Settling(p, r, {"PAID"}) /\ StockUntouched(p) /\ Paid(p, "APPROVED")
    BY <1>0, <2>1 DEF Written
  <2>3. tx[p] \in Transaction /\ tx' = [tx EXCEPT ![p] = t] /\ tx'[p] = t
    BY <1>0, <2>1 DEF TypeOK
  <2>4. /\ t.row = tx[p].row /\ t.image = tx[p].image /\ t.event = tx[p].event
        /\ t.delta = tx[p].delta /\ t.payment = tx[p].payment /\ t.tickets = all
    BY <2>3 DEF Transaction
  <2>5. tx[p].image.quantity = reservations[r].quantity
    <3>1. reservations[r] \in Row
      BY <1>0, <2>2, SettlingRow
    <3>2. tx[p].image = [reservations[r] EXCEPT !.status = tx[p].image.status,
                                                !.released = tx[p].image.released]
      BY <2>2 DEF Settling
    <3> QED
      BY <3>1, <3>2 DEF Row
  <2> HIDE DEF t
  <2>6. \A q \in Processes \ {p} :
            /\ UNCHANGED <<pc[q], cur[q]>>
            /\ t.row # None => tx[q].row # t.row
            /\ t.event # None => tx[q].event # t.event
            /\ t.payment # None /\ tx[q].payment # None => tx[q].payment.key # t.payment.key
    BY <1>0, <2>1, <2>4 DEF LocksExclusive
  <2>7. \A s \in ReservationIds :
            t.payment # None /\ payments[s] # None => payments[s].key # t.payment.key
    BY <1>0, <2>4 DEF KeysUnique
  <2>8. Written(p)'
    <3>1. Settling(p, tx[p].row, {"PAID"})'
      BY <2>1, <2>2, <2>3, <2>4 DEF Settling, tables
    <3>2. (StockUntouched(p) /\ Paid(p, "APPROVED"))'
      BY <2>2, <2>3, <2>4 DEF StockUntouched, Paid
    <3>3. tx'[p].tickets = 1..tx'[p].image.quantity
      BY <2>3, <2>4, <2>5
    <3> QED
      BY <2>1, <3>1, <3>2, <3>3 DEF Written, WritingLabels
  <2> HIDE DEF all
  <2> QED
    BY <2>1, <2>3, <2>6, <2>7, <2>8, WritingStep
<1>10. CASE PayCatch(p)
  <2>1. UNCHANGED <<tables, tx, req>> /\ pc[p] \notin WritingLabels
    BY <1>10 DEF PayCatch, dbVars, WritingLabels
  <2>2. \E code, tix : Answer(p, code, tix)
    BY <1>10 DEF PayCatch
  <2> QED
    BY <2>1, <2>2, QuietAnswer
<1> QED
  BY <1>1, <1>2, <1>3, <1>4, <1>5, <1>6, <1>7, <1>8, <1>9, <1>10 DEF Paying

LEMMA DataStep == IInv /\ [Next]_vars => DataOK'
<1> SUFFICES ASSUME IInv, [Next]_vars PROVE DataOK'
  OBVIOUS
<1>0. TypeOK /\ ControlOK /\ DataOK
  BY DEF IInv, DataOK
<1>1. CASE UNCHANGED vars \/ Tick
  <2>1. UNCHANGED <<tables, tx, pc, req, cur>>
    BY <1>1 DEF vars, dbVars, locals, Tick
  <2>2. LocksExclusive' /\ KeysUnique' /\ StockConserved' /\ PaymentsMatch'
    BY <1>0, <2>1 DEF DataOK, LocksExclusive, KeysUnique, StockConserved, PaymentsMatch, HeldPlaces, tables
  <2>3. \A q \in Processes : Written(q)'
    BY <1>0, <2>1, WrittenKept DEF DataOK, tables
  <2> QED
    BY <2>2, <2>3 DEF DataOK
<1>2. ASSUME NEW p \in Processes, TimerFires(p) PROVE DataOK'
  BY <1>2, QuietStep DEF TimerFires, Proceed, Goto, dbVars, locals, WritingLabels
<1>3. ASSUME NEW p \in Processes, CommitAndAnswer(p) PROVE DataOK'
  <2>1. \A q \in Processes \ {p} : UNCHANGED cur[q]
    BY <1>0, <1>3 DEF CommitAndAnswer, Answer, Forget, TypeOK
  <2>2. pc' = [pc EXCEPT ![p] = "done"]
    BY <1>3 DEF CommitAndAnswer, Answer, Goto
  <2> QED
    BY <1>3, <2>1, <2>2, CommitStep DEF CommitAndAnswer, WritingLabels
<1>4. ASSUME NEW p \in Processes, Fail(p) PROVE DataOK'
  <2>1. \A q \in Processes \ {p} : UNCHANGED cur[q]
    BY <1>0, <1>4 DEF Fail, Throw, Rest, Answer, Forget, TypeOK
  <2>2. \E l \in {"idle", "done"} : pc' = [pc EXCEPT ![p] = l]
    BY <1>4 DEF Fail, Throw, Rest, Answer, Goto
  <2>3. UNCHANGED req
    BY <1>4 DEF Fail, Throw
  <2> QED
    BY <1>4, <2>1, <2>2, <2>3, RollbackStep DEF Fail, WritingLabels
<1>5. ASSUME NEW p \in Processes, CommitUnheard(p) PROVE DataOK'
  <2>1. \A q \in Processes \ {p} : UNCHANGED cur[q]
    BY <1>0, <1>5 DEF CommitUnheard, Throw, Rest, Answer, Forget, TypeOK
  <2>2. \E l \in {"idle", "done"} : pc' = [pc EXCEPT ![p] = l]
    BY <1>5 DEF CommitUnheard, Throw, Rest, Answer, Goto
  <2>3. UNCHANGED req
    BY <1>5 DEF CommitUnheard, Throw
  <2> QED
    BY <1>5, <2>1, <2>2, <2>3, CommitStep DEF CommitUnheard, WritingLabels
<1> QED
  BY <1>1, <1>2, <1>3, <1>4, <1>5, ExpiringData, ReservingData, PayingData DEF Next, Step

-----------------------------------------------------------------------------
(* The theorems                                                            *)

LEMMA Inductive == Spec => []IInv
<1>1. Init => IInv
  BY InitInv
<1>2. IInv /\ [Next]_vars => IInv'
  BY TypeStep, ControlStep, DataStep DEF IInv, DataOK
<1> QED
  BY <1>1, <1>2, PTL DEF Spec

(* Every table, transaction and local stays within its type.               *)
THEOREM TypeCorrect == Spec => []TypeOK
<1>1. IInv => TypeOK
  BY DEF IInv
<1> QED
  BY <1>1, Inductive, PTL

(* Whatever the number of requests, timers and events, the stock and what  *)
(* the reservations hold add up to the capacity: reservations.service.ts   *)
(* and payments.service.ts return each place exactly once.                 *)
THEOREM Conservation == Spec => []StockConserved
<1>1. IInv => StockConserved
  BY DEF IInv
<1> QED
  BY <1>1, Inductive, PTL

(* Reservations, payments and tickets agree at every commit: a paid        *)
(* reservation has its approved payment and a ticket per unit, and nothing *)
(* else has either.                                                        *)
THEOREM Agreement == Spec => []PaymentsMatch
<1>1. IInv => PaymentsMatch
  BY DEF IInv
<1> QED
  BY <1>1, Inductive, PTL
=============================================================================
