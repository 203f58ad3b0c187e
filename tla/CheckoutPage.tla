---------------------------- MODULE CheckoutPage ----------------------------
(***************************************************************************)
(* EventCheckout, the page that reserves and pays: its React state, the    *)
(* calls it has in flight, the countdown with its reconciliation, and the  *)
(* office behind the API.  The office serves payments and cancellations    *)
(* read by read and write by write, and goes on with a call that the       *)
(* browser has given up: what it does for that one and for the next, which *)
(* may be a retry of it, interleaves.                                      *)
(***************************************************************************)
EXTENDS Integers, FiniteSets

CONSTANTS
    Ids,          \* reservations that the office can make for this customer
    HoldTime,     \* how long a reservation is held
    Shown,        \* the availability that EventDetail has fetched
    Skew,         \* how far the browser's clock is ahead
    MaxClock,     \* bound: the last instant a behaviour reaches
    MaxLost,      \* bound: how many calls lose their answer
    None

VARIABLES
    clock,
    rows,         \* the office's reservations of this customer
    late,         \* calls given up by the browser: the API may still serve them
    lost,         \* calls given up so far
    view, token, quantity, reservation, payment, paymentKey, paymentIntent, busy,
    inventoryRestored,
    available,    \* event.availableQuantity as EventDetail shows it
    keys,         \* how many keys crypto.randomUUID has made
    call,         \* the call that `busy` stands for, with what its closure holds
    look          \* the reconciliation of the current effect

Empty == ""    \* the string of a state that is about nothing

office == <<clock, rows, late, lost>>
form   == <<token, quantity, payment, paymentKey, paymentIntent, keys>>
vars   == <<office, view, form, reservation, busy, inventoryRestored, available, call, look>>

Results == {"APPROVED", "DECLINED"}
Statuses == {"PENDING_PAYMENT", "PAID", "DECLINED", "CANCELED", "EXPIRED"}
Row == [status : Statuses, quantity : Nat \ {0}, expiresAt : Int, key : Nat]
Snapshot == [id : Ids, status : Statuses, quantity : Nat \ {0}, expiresAt : Int]
Answers == {"CUSTOMER", "FORBIDDEN", "UNAUTHENTICATED", "INSUFFICIENT_INVENTORY", "NETWORK",
            "PAID", "DECLINED", "IDEMPOTENCY_KEY_REUSED", "RESERVATION_EXPIRED",
            "RESERVATION_NOT_PAYABLE", "CANCELED", "RESERVATION_NOT_CANCELABLE"}
Steps == {"sent", "missed", "pending", "inTime"}   \* how far the office is with a call
Views == {"idle", "login", "pending", "approved", "declined", "canceled", "expired"}
Call == [op : {"login", "reserve", "payment", "cancel"},
         quantity : Nat \ {0}, reservation : Snapshot \cup {None}, key : Nat,
         result : Results \cup {None}, answer : Answers \cup Ids \cup {None},
         step : Steps,
         given : Nat,            \* its number among the calls given up, if it was
         overlaps : BOOLEAN]     \* was one about its reservation then under way?

-----------------------------------------------------------------------------
(* The office                                                              *)

Overdue(r) == rows[r].status = "PENDING_PAYMENT" /\ rows[r].expiresAt <= clock
PaidUnder(key) == {r \in Ids : rows[r] # None /\ rows[r].key = key}
Settled(r, status, key) == [rows EXCEPT ![r].status = status, ![r].key = key]

Charged(result) == IF result = "APPROVED" THEN "PAID" ELSE "DECLINED"
Going(c, step) == [c EXCEPT !.step = step]
Told(c, answer) == [c EXCEPT !.step = "sent", !.answer = answer]    \* the step is over

(* simulate: both lookups of the key, of which the second decides unless   *)
(* the first has found it                                                  *)
LookedUp(c) ==
    LET status == Charged(c.result) IN
    CASE PaidUnder(c.key) = {} -> <<rows, Going(c, "missed")>>
      [] PaidUnder(c.key) # {} ->
           <<rows, Told(c, IF /\ PaidUnder(c.key) = {c.reservation.id}
                              /\ rows[c.reservation.id].status = status
                           THEN status ELSE "IDEMPOTENCY_KEY_REUSED")>>

(* What it says of a reservation found settled                             *)
FoundSettled(c) ==
    LET status == rows[c.reservation.id].status IN
    CASE status = "EXPIRED" -> <<rows, Told(c, "RESERVATION_EXPIRED")>>
      [] status = "PAID" /\ c.result = "APPROVED" -> <<rows, Told(c, "PAID")>>
      [] OTHER -> <<rows, Told(c, "RESERVATION_NOT_PAYABLE")>>

(* The reservation is read, with its payment.                              *)
PayRead(c) ==
    IF rows[c.reservation.id].status = "PENDING_PAYMENT"
    THEN <<rows, Going(c, "pending")>> ELSE FoundSettled(c)

(* A reservation read as pending is in time, or is expired if it is still  *)
(* pending; the customer is told that it expired whether or not it was.    *)
PayDecided(c) ==
    LET r == c.reservation.id IN
    CASE rows[r].expiresAt > clock -> <<rows, Going(c, "inTime")>>
      [] rows[r].expiresAt <= clock ->
           <<IF Overdue(r) THEN Settled(r, "EXPIRED", 0) ELSE rows,
             Told(c, "RESERVATION_EXPIRED")>>

(* The conditional update, through the commit: nobody pays another         *)
(* reservation under this key, so the insertion of the payment is no race. *)
PayWritten(c) ==
    LET r == c.reservation.id IN
    IF rows[r].status = "PENDING_PAYMENT"
    THEN <<Settled(r, Charged(c.result), c.key), Told(c, Charged(c.result))>>
    ELSE FoundSettled(c)

(* cancel: expireReservation and the read, the time, the conditional update*)
CancelRead(c) ==
    LET r == c.reservation.id IN
    CASE rows[r].status = "CANCELED" -> <<rows, Told(c, "CANCELED")>>
      [] rows[r].status = "PENDING_PAYMENT" /\ ~Overdue(r) -> <<rows, Going(c, "pending")>>
      [] Overdue(r) -> <<Settled(r, "EXPIRED", 0), Told(c, "RESERVATION_NOT_CANCELABLE")>>
      [] OTHER -> <<rows, Told(c, "RESERVATION_NOT_CANCELABLE")>>

CancelDecided(c) ==
    <<rows, IF rows[c.reservation.id].expiresAt > clock
            THEN Going(c, "inTime") ELSE Told(c, "RESERVATION_NOT_CANCELABLE")>>

CancelWritten(c) ==
    LET r == c.reservation.id IN
    IF rows[r].status = "PENDING_PAYMENT"
    THEN <<Settled(r, "CANCELED", 0), Told(c, "CANCELED")>>
    ELSE <<rows, Told(c, "RESERVATION_NOT_CANCELABLE")>>

Paid(c) ==
    CASE c.step = "sent" -> {LookedUp(c), <<rows, Told(c, "UNAUTHENTICATED")>>}
      [] c.step = "missed" -> {PayRead(c)}
      [] c.step = "pending" -> {PayDecided(c)}
      [] c.step = "inTime" -> {PayWritten(c)}

Canceled(c) ==
    CASE c.step = "sent" -> {CancelRead(c), <<rows, Told(c, "UNAUTHENTICATED")>>}
      [] c.step \in {"missed", "pending"} -> {CancelDecided(c)}
      [] c.step = "inTime" -> {CancelWritten(c)}

(* The ids are used up in some order (none is left: the bound is reached). *)
NextId == LET free == {r \in Ids : rows[r] = None} IN
          IF free = {} THEN {} ELSE {CHOOSE r \in free : TRUE}

(* What the office may do next for a call: the rows and the call it leaves.*)
(* Other customers may leave it no stock, and the session may have ended.  *)
Served(c) ==
    CASE c.op = "login" -> {<<rows, Told(c, "CUSTOMER")>>, <<rows, Told(c, "FORBIDDEN")>>}
      [] c.op = "reserve" ->
           {<<rows, Told(c, "INSUFFICIENT_INVENTORY")>>, <<rows, Told(c, "UNAUTHENTICATED")>>}
           \cup {<<[rows EXCEPT ![r] = [status |-> "PENDING_PAYMENT", quantity |-> c.quantity,
                                        expiresAt |-> clock + HoldTime, key |-> 0]], Told(c, r)>> :
                   r \in NextId}
      [] c.op = "payment" -> Paid(c)
      [] c.op = "cancel" -> Canceled(c)

page == <<view, form, reservation, busy, inventoryRestored, available, look>>

Serve ==
    /\ call # None /\ call.answer = None
    /\ \E s \in Served(call) : rows' = s[1] /\ call' = s[2]
    /\ UNCHANGED <<clock, late, lost, page>>

(* The browser gives the call up, wherever the API is with it.             *)
GiveUp ==
    /\ call # None /\ call.answer = None
    /\ lost < MaxLost /\ lost' = lost + 1
    /\ late' = late \cup {[call EXCEPT !.given = lost']}
    /\ call' = Told(call, "NETWORK")
    /\ UNCHANGED <<clock, rows, page>>

(* The API goes on with it, and answers nobody; what it would have         *)
(* answered stays on record.                                               *)
ServeLate ==
    /\ \E c \in late :
         /\ c.answer = None
         /\ \E s \in Served(c) : rows' = s[1] /\ late' = (late \ {c}) \cup {s[2]}
    /\ UNCHANGED <<clock, lost, page, call>>

(* The timer of the API, or somebody else's request, expires a reservation.*)
Expire ==
    /\ \E r \in Ids : rows[r] # None /\ Overdue(r) /\ rows' = Settled(r, "EXPIRED", 0)
    /\ UNCHANGED <<clock, late, lost, page, call>>

Tick ==
    /\ clock < MaxClock /\ clock' = clock + 1
    /\ UNCHANGED <<rows, late, lost, page, call>>

-----------------------------------------------------------------------------
(* The page                                                                *)

(* The calls about a reservation that were given up                        *)
About(r) == {c \in late : c.op \in {"payment", "cancel"} /\ c.reservation.id = r}
UnderWay(r) == \E c \in About(r) : c.answer = None

Send(op, key, result) ==
    call' = [op |-> op, quantity |-> quantity, reservation |-> reservation,
             key |-> key, result |-> result, answer |-> None, step |-> "sent", given |-> 0,
             overlaps |-> reservation # None /\ UnderWay(reservation.id)]

SetBusy(label) == busy' = label

(* setView, and the cleanup of the effect that depends on the view         *)
SetView(v) == view' = v /\ look' = IF v = view THEN look ELSE "none"

(* Mutant of RestoreInventory: without the ref                             *)
RestoreInventoryAgain(n) ==
    /\ available' = available + n
    /\ UNCHANGED inventoryRestored

(* restoreInventory, for the quantity its closure knows                    *)
RestoreInventory(n) ==
    /\ available' = IF inventoryRestored THEN available ELSE available + n
    /\ inventoryRestored' = TRUE

KeepInventory == UNCHANGED <<available, inventoryRestored>>

(* Mutant of ChangeQuantity: the button - is never disabled                *)
ChangeQuantityFreely ==
    /\ view = "idle"
    /\ quantity' \in {quantity - 1, quantity + 1}
    /\ quantity' <= (IF available < 6 THEN available ELSE 6)
    /\ UNCHANGED <<office, view, token, payment, paymentKey, paymentIntent, keys,
                   reservation, busy, inventoryRestored, available, call, look>>

(* The buttons + and - of IdleCheckout, which busy does not disable        *)
ChangeQuantity ==
    /\ view = "idle"
    /\ quantity' \in {quantity - 1, quantity + 1}
    /\ quantity' \in 1..(IF available < 6 THEN available ELSE 6)
    /\ UNCHANGED <<office, view, token, payment, paymentKey, paymentIntent, keys,
                   reservation, busy, inventoryRestored, available, call, look>>

Continue ==
    /\ view = "idle" /\ busy = Empty /\ available > 0
    /\ \/ token /\ Send("reserve", 0, None) /\ SetBusy("reserve") /\ UNCHANGED <<view, look>>
       \/ ~token /\ SetView("login") /\ UNCHANGED <<call, busy>>
    /\ KeepInventory
    /\ UNCHANGED <<office, form, reservation>>

Back ==
    /\ view = "login"
    /\ SetView("idle") /\ KeepInventory
    /\ UNCHANGED <<office, form, reservation, busy, call>>

SubmitLogin ==
    /\ view = "login" /\ busy = Empty
    /\ Send("login", 0, None) /\ SetBusy("login")
    /\ KeepInventory
    /\ UNCHANGED <<office, view, form, reservation, look>>

Answered(op) == call # None /\ call.op = op /\ call.answer # None

(* handleLogin goes on to createReservation with the quantity it had.      *)
LoggedIn ==
    /\ Answered("login")
    /\ \/ /\ call.answer = "CUSTOMER"
          /\ token' = TRUE
          /\ call' = [call EXCEPT !.op = "reserve", !.answer = None]
          /\ SetBusy("reserve")
       \/ /\ call.answer # "CUSTOMER"
          /\ call' = None /\ SetBusy(Empty) /\ UNCHANGED token
    /\ KeepInventory
    /\ UNCHANGED <<office, view, quantity, payment, paymentKey, paymentIntent, keys,
                   reservation, look>>

(* createReservation, onInventoryDelta included                            *)
Reserved ==
    /\ Answered("reserve")
    /\ \/ /\ call.answer \in Ids
          /\ inventoryRestored' = FALSE
          /\ reservation' = [id |-> call.answer, status |-> "PENDING_PAYMENT",
                             quantity |-> call.quantity,
                             expiresAt |-> rows[call.answer].expiresAt]
          /\ SetView("pending")
          /\ available' = IF available > call.quantity THEN available - call.quantity ELSE 0
          /\ UNCHANGED token
       \/ /\ call.answer = "UNAUTHENTICATED"
          /\ token' = FALSE /\ SetView("login")
          /\ KeepInventory /\ UNCHANGED reservation
       \/ /\ call.answer \notin Ids \cup {"UNAUTHENTICATED"}
          /\ KeepInventory /\ UNCHANGED <<token, view, look, reservation>>
    /\ call' = None /\ SetBusy(Empty)
    /\ UNCHANGED <<office, quantity, payment, paymentKey, paymentIntent, keys>>

(* Mutant of Pay: a key for every attempt                                  *)
PayUnderNewKey(result) ==
    /\ view = "pending" /\ reservation # None
    /\ busy = Empty /\ paymentIntent \in {Empty, result}
    /\ keys' = keys + 1
    /\ paymentKey' = keys'
    /\ paymentIntent' = result
    /\ Send("payment", paymentKey', result) /\ SetBusy("payment")
    /\ KeepInventory
    /\ UNCHANGED <<office, view, token, quantity, payment, reservation, look>>

(* processPayment: one key for all attempts at this reservation, and after *)
(* the first attempt one result                                            *)
Pay(result) ==
    /\ view = "pending" /\ reservation # None
    /\ busy = Empty /\ paymentIntent \in {Empty, result}
    /\ keys' = IF paymentKey = 0 THEN keys + 1 ELSE keys
    /\ paymentKey' = IF paymentKey = 0 THEN keys' ELSE paymentKey
    /\ paymentIntent' = result
    /\ Send("payment", paymentKey', result) /\ SetBusy("payment")
    /\ KeepInventory
    /\ UNCHANGED <<office, view, token, quantity, payment, reservation, look>>

PaymentAnswered ==
    /\ Answered("payment")
    /\ \/ call.answer = "PAID" /\ payment' = "APPROVED" /\ SetView("approved") /\ KeepInventory
       \/ call.answer = "DECLINED" /\ payment' = "DECLINED" /\ SetView("declined")
            /\ RestoreInventory(call.reservation.quantity)
       \/ call.answer = "RESERVATION_EXPIRED" /\ SetView("expired")
            /\ RestoreInventory(call.reservation.quantity) /\ UNCHANGED payment
       \/ /\ call.answer \notin {"PAID", "DECLINED", "RESERVATION_EXPIRED"}
          /\ KeepInventory /\ UNCHANGED <<view, look, payment>>
    /\ call' = None /\ SetBusy(Empty)
    /\ UNCHANGED <<office, token, quantity, paymentKey, paymentIntent, keys, reservation>>

Cancel ==
    /\ view = "pending" /\ reservation # None /\ busy = Empty
    /\ Send("cancel", 0, None) /\ SetBusy("cancel")
    /\ KeepInventory
    /\ UNCHANGED <<office, view, form, reservation, look>>

CancelAnswered ==
    /\ Answered("cancel")
    /\ \/ /\ call.answer = "CANCELED"
          /\ reservation' = [call.reservation EXCEPT !.status = "CANCELED"]
          /\ RestoreInventory(call.reservation.quantity) /\ SetView("canceled")
       \/ /\ call.answer # "CANCELED"
          /\ KeepInventory /\ UNCHANGED <<view, look, reservation>>
    /\ call' = None /\ SetBusy(Empty)
    /\ UNCHANGED <<office, form>>

StartAgain ==
    /\ view \in {"declined", "canceled", "expired"}
    /\ reservation' = None /\ payment' = None
    /\ paymentKey' = 0 /\ paymentIntent' = Empty
    /\ quantity' = 1
    /\ SetView("idle") /\ KeepInventory
    /\ UNCHANGED <<office, token, keys, busy, call>>

-----------------------------------------------------------------------------
(* The effect of the countdown                                             *)

Countdown == view = "pending" /\ reservation # None /\ token

IntervalFires ==
    /\ Countdown /\ look = "none"
    /\ clock + Skew >= reservation.expiresAt
    /\ look' = "asked"
    /\ UNCHANGED <<office, view, form, reservation, busy, inventoryRestored, available, call>>

(* GET /reservations/:id, which expires what is overdue; when it fails it  *)
(* may have reached the API or not.                                        *)
LookServed ==
    /\ look = "asked"
    /\ LET r == reservation.id
           left == IF Overdue(r) THEN Settled(r, "EXPIRED", 0) ELSE rows IN
       \/ rows' = left /\ look' = left[r].status /\ UNCHANGED lost
       \/ rows' \in {rows, left} /\ look' = "failed" /\ lost < MaxLost /\ lost' = lost + 1
    /\ UNCHANGED <<clock, late, view, form, reservation, busy, inventoryRestored, available, call>>

(* Mutant of Reconciled: the flag outlives the effect                      *)
ReconciledOnce ==
    /\ Countdown /\ look \notin {"none", "asked", "failed"}
    /\ reservation' = [reservation EXCEPT !.status = look]
    /\ \/ look = "EXPIRED" /\ RestoreInventory(reservation.quantity) /\ view' = "expired"
       \/ look # "EXPIRED" /\ KeepInventory /\ UNCHANGED view
    /\ look' = IF look = "EXPIRED" THEN "none" ELSE look
    /\ UNCHANGED <<office, form, busy, call>>

(* Mutant of Reconciled: whatever the answer, the time is up               *)
ReconciledBlindly ==
    /\ Countdown /\ look \notin {"none", "asked", "failed"}
    /\ reservation' = [reservation EXCEPT !.status = look]
    /\ RestoreInventory(reservation.quantity) /\ view' = "expired" /\ look' = "none"
    /\ UNCHANGED <<office, form, busy, call>>

(* The answer is a new object, so the effect is set up afresh; a failure   *)
(* is swallowed, and the flag stays up.                                    *)
Reconciled ==
    /\ Countdown /\ look \notin {"none", "asked", "failed"}
    /\ reservation' = [reservation EXCEPT !.status = look]
    /\ \/ look = "EXPIRED" /\ RestoreInventory(reservation.quantity) /\ view' = "expired"
       \/ look # "EXPIRED" /\ KeepInventory /\ UNCHANGED view
    /\ look' = "none"
    /\ UNCHANGED <<office, form, busy, call>>

-----------------------------------------------------------------------------
Init ==
    /\ clock = 0 /\ rows = [r \in Ids |-> None] /\ late = {} /\ lost = 0
    /\ view = "idle" /\ token \in BOOLEAN /\ quantity = 1
    /\ reservation = None /\ payment = None /\ paymentKey = 0 /\ paymentIntent = Empty
    /\ busy = Empty /\ inventoryRestored = FALSE /\ available = Shown
    /\ keys = 0 /\ call = None /\ look = "none"

Customer ==
    \/ ChangeQuantity \/ Continue \/ Back \/ SubmitLogin
    \/ (\E result \in Results : Pay(result)) \/ Cancel \/ StartAgain

Page == LoggedIn \/ Reserved \/ PaymentAnswered \/ CancelAnswered \/ IntervalFires \/ Reconciled
Api  == Serve \/ GiveUp \/ ServeLate \/ Expire \/ LookServed

Next == Customer \/ Page \/ Api \/ Tick
Spec == Init /\ [][Next]_vars

(* The browser runs the interval and its continuation and the API answers  *)
(* the reconciliation; the customer need not do anything, and no other     *)
(* call need be answered.                                                  *)
FairSpec == Spec /\ WF_vars(IntervalFires) /\ WF_vars(LookServed) /\ WF_vars(Reconciled)

-----------------------------------------------------------------------------
TypeOK ==
    /\ clock \in Nat /\ lost \in Nat /\ keys \in Nat /\ paymentKey \in Nat
    /\ rows \in [Ids -> Row \cup {None}]
    /\ view \in Views /\ token \in BOOLEAN /\ quantity \in Nat \ {0}
    /\ reservation \in Snapshot \cup {None} /\ call \in Call \cup {None}
    /\ payment \in Results \cup {None} /\ paymentIntent \in Results \cup {Empty}
    /\ busy \in {Empty, "login", "reserve", "payment", "cancel"}
    /\ inventoryRestored \in BOOLEAN /\ available \in Nat
    /\ look \in {"none", "asked", "failed"} \cup Statuses

(* What the page says is so: the customer who reads that the payment was   *)
(* approved or declined, or that the reservation was canceled, finds it so *)
(* at the API, whatever answers were lost and whatever the API did late.   *)
(* Where the page says that it expired it has, unless a call that the      *)
(* browser had given up settled it in the last moment: the retry beside    *)
(* it, which read a pending reservation, is told that the time was up.     *)
Outcome == [approved |-> "PAID", declined |-> "DECLINED",
            canceled |-> "CANCELED", expired |-> "EXPIRED"]
SettledLate(r) == \E c \in About(r) : c.answer = rows[r].status

ShownIsTrue ==
    view \in DOMAIN Outcome /\ reservation # None =>
        \/ rows[reservation.id].status = Outcome[view]
        \/ view = "expired" /\ SettledLate(reservation.id)

(* The availability beside the checkout is what was fetched less the       *)
(* places that the page knows to be held: they are put back once when the  *)
(* countdown and a payment both find that the reservation has expired, and *)
(* the cut at zero never swallows any.                                     *)
ShownStock ==
    available = Shown - (IF reservation # None /\ view \in {"pending", "approved"}
                         THEN reservation.quantity ELSE 0)

(* An attempt to pay after one that was given up is never refused for its  *)
(* key.  Unless the office was still busy with a call given up, the        *)
(* attempt is told what became of the reservation: not payable only if     *)
(* canceled, expired only if expired.  If it was, the attempt may also     *)
(* find the reservation declined, under its own key, or settled by that    *)
(* call when the time was up.                                              *)
PaymentsRecover ==
    call # None /\ call.op = "payment" =>
        LET r == call.reservation.id IN
        /\ call.answer # "IDEMPOTENCY_KEY_REUSED"
        /\ call.answer = "RESERVATION_NOT_PAYABLE" =>
             \/ rows[r].status = "CANCELED"
             \/ call.overlaps /\ rows[r].status = "DECLINED" /\ rows[r].key = call.key
        /\ call.answer = "RESERVATION_EXPIRED" =>
             rows[r].status = "EXPIRED" \/ (call.overlaps /\ SettledLate(r))

(* The countdown ends: once the reservation has expired the page says so   *)
(* by itself, also when the browser's clock is fast and it asked too soon; *)
(* unless the one call that would have told it failed.                     *)
ExpiryIsShown ==
    (view = "pending" /\ rows[reservation.id].status = "EXPIRED")
        ~> (view # "pending" \/ look = "failed")

-----------------------------------------------------------------------------
(* Why these hold: an inductive invariant, of named parts                  *)

InFlight == {c \in late \cup {call} : c # None}
Holding == view \in {"pending", "approved"}

(* Under which key a reservation is paid, and with what outcome, is on     *)
(* record in calls, on the page and in the rows.                           *)
Charge(r, key, status) == [id |-> r, key |-> key, status |-> status]
Asked == {Charge(c.reservation.id, c.key, Charged(c.result)) : c \in {d \in InFlight : d.op = "payment"}}
Meant == IF paymentKey = 0 THEN {} ELSE {Charge(reservation.id, paymentKey, Charged(paymentIntent))}
Made == {Charge(r, rows[r].key, rows[r].status) : r \in {q \in Ids : rows[q] # None /\ rows[q].key # 0}}
Charges == Asked \cup Meant \cup Made

(* All records of one reservation agree, and no key is used for two.       *)
OneKeyEach == \A u, v \in Charges : u.id = v.id \/ u.key = v.key => u = v
Recorded == \A u \in Charges : u.id \in Ids /\ rows[u.id] # None /\ u.key \in 1..keys

(* A reservation that the page has yet to pay is charged nowhere.          *)
Unpaid(r) == \A u \in Charges : u.id # r

FreshUnpaid ==
    /\ reservation # None /\ paymentKey = 0 => Unpaid(reservation.id)
    /\ call # None /\ call.op = "reserve" /\ call.answer \in Ids => Unpaid(call.answer)

RowsKeyed ==
    \A r \in Ids : rows[r] # None => (rows[r].key # 0 <=> rows[r].status \in {"PAID", "DECLINED"})

(* A call about a reservation, however late, is about one that was made.   *)
CallsFit ==
    /\ late \subseteq Call
    /\ \A c \in InFlight :
         /\ c.op \in {"payment", "cancel"} => c.reservation # None /\ rows[c.reservation.id] # None
         /\ c.op = "payment" => c.key # 0
    /\ call # None /\ call.op = "reserve" /\ call.answer \in Ids => rows[call.answer] # None

(* Nobody has yet asked anything about a reservation just made.            *)
NewUntouched ==
    call # None /\ call.op = "reserve" /\ call.answer \in Ids =>
        /\ About(call.answer) = {}
        /\ rows[call.answer].status \in {"PENDING_PAYMENT", "EXPIRED"}

(* What a payment has found out holds until the office writes, unless it   *)
(* overlaps with another call.                                             *)
FindingsHold ==
    call # None /\ call.op = "payment" /\ call.answer = None /\ ~call.overlaps =>
        LET r == call.reservation.id IN
        /\ ~UnderWay(r)
        /\ call.step # "sent" => rows[r].status \notin {"PAID", "DECLINED"}
        /\ call.step \in {"pending", "inTime"} => rows[r].status # "CANCELED"

(* What the page does not know to be settled was settled by a call that it *)
(* gave up, or is about to be answered.                                    *)
SettlersKnown ==
    view = "pending" /\ rows[reservation.id].status \in {"PAID", "DECLINED", "CANCELED"} =>
        \/ SettledLate(reservation.id)
        \/ /\ call # None /\ call.answer = rows[reservation.id].status
           /\ call.op = IF call.answer = "CANCELED" THEN "cancel" ELSE "payment"

(* What the office has done for the page's call is so, and stays so.       *)
AnswersTrue ==
    call # None /\ call.op \in {"payment", "cancel"} /\ call.answer \in {"PAID", "DECLINED", "CANCELED"} =>
        rows[call.reservation.id].status = call.answer

(* The page fits its call: a call about a reservation outlives it only on  *)
(* a page that has found it expired.                                       *)
PageFits ==
    /\ busy = IF call = None THEN Empty ELSE call.op
    /\ call # None /\ call.op \in {"login", "reserve"} => view \in {"idle", "login"}
    /\ call # None /\ call.op \in {"payment", "cancel"} =>
         /\ reservation # None => /\ reservation.id = call.reservation.id
                                  /\ reservation.quantity = call.reservation.quantity
         /\ view # "pending" =>
              inventoryRestored /\ rows[call.reservation.id].status = "EXPIRED"

ReservationFits ==
    /\ view \in {"idle", "login"} => reservation = None
    /\ view \in {"pending", "approved", "declined", "canceled"} => reservation # None
    /\ reservation # None => /\ rows[reservation.id] # None
                             /\ inventoryRestored <=> ~Holding
    /\ reservation = None => paymentKey = 0
    /\ paymentKey = 0 <=> paymentIntent = Empty
    /\ look # "none" => view = "pending"
    /\ look = "EXPIRED" => rows[reservation.id].status = "EXPIRED"

(* Nobody asks for more than the page has shown.                           *)
QuantitiesFit ==
    /\ quantity = 1 \/ quantity <= Shown
    /\ view = "login" => Shown > 0
    /\ call # None /\ call.op \in {"login", "reserve"} => call.quantity <= Shown
    /\ reservation # None => reservation.quantity <= Shown

IInv ==
    /\ TypeOK /\ OneKeyEach /\ Recorded /\ FreshUnpaid /\ RowsKeyed /\ CallsFit /\ NewUntouched
    /\ AnswersTrue /\ PaymentsRecover /\ FindingsHold /\ SettlersKnown
    /\ PageFits /\ ReservationFits /\ QuantitiesFit /\ ShownIsTrue /\ ShownStock

-----------------------------------------------------------------------------
ASSUME NumbersOfThePage ==
    /\ HoldTime \in Nat \ {0} /\ Shown \in Nat /\ Skew \in Int
    /\ MaxClock \in Nat /\ MaxLost \in Nat
    /\ Ids \cap (Answers \cup Statuses) = {}    \* a UUID is no error code
    /\ None \notin Ids \cup Answers \cup Statuses /\ None \notin Row /\ None \notin Snapshot /\ None \notin Call
=============================================================================
