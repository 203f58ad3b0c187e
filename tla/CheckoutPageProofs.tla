------------------------- MODULE CheckoutPageProofs -------------------------
(***************************************************************************)
(* Proofs, for every set of reservations, every stock and every skew of    *)
(* the clocks, of what module CheckoutPage promises: the invariant IInv,   *)
(* and what it implies.                                                    *)
(***************************************************************************)
EXTENDS CheckoutPage, TLAPS

-----------------------------------------------------------------------------
(* The office                                                              *)

(* What a call leaves of the rows: a reservation made, or one settled      *)
Makes(r, new) ==
    /\ rows[r] = None
    /\ \E row \in Row : /\ row.key = 0 /\ row.status = "PENDING_PAYMENT"
                        /\ new = [rows EXCEPT ![r] = row]

Settles(r, new) ==
    /\ rows[r] \in Row
    /\ \E row \in Row :
         /\ new = [rows EXCEPT ![r] = row]
         /\ rows[r].status = "PENDING_PAYMENT" \/ (rows[r].status = "EXPIRED" /\ row.status = "EXPIRED")
         /\ row.key # 0 <=> row.status \in {"PAID", "DECLINED"}
         /\ row.key # 0 => Charge(r, row.key, row.status) \in Asked

Leaves(new) == new = rows \/ \E r \in Ids : Makes(r, new) \/ Settles(r, new)

LEMMA SettledRow ==
    ASSUME TypeOK, NEW r \in Ids, rows[r] # None,
           NEW status \in Statuses, NEW key \in Nat,
           rows[r].status = "PENDING_PAYMENT" \/ (rows[r].status = "EXPIRED" /\ status = "EXPIRED"),
           key # 0 <=> status \in {"PAID", "DECLINED"},
           key # 0 => Charge(r, key, status) \in Asked
    PROVE  /\ Leaves(Settled(r, status, key))
           /\ Settled(r, status, key)[r] # None /\ Settled(r, status, key)[r].status = status
<1> DEFINE row == [rows[r] EXCEPT !.status = status, !.key = key]
<1>1. rows[r] \in Row /\ rows \in [Ids -> Row \cup {None}]
  BY DEF TypeOK
<1>2. row \in Row /\ row.status = status /\ row.key = key
  BY <1>1 DEF Row, Statuses
<1>3. Settled(r, status, key) = [rows EXCEPT ![r] = row]
  BY <1>1 DEF Settled, Row
<1>4. Settles(r, Settled(r, status, key))
  BY <1>1, <1>2, <1>3 DEF Settles
<1> QED
  BY <1>1, <1>2, <1>3, <1>4, NumbersOfThePage DEF Leaves

(* A step of the office for a call leaves the same call.                   *)
Follows(c, d) ==
    /\ d \in Call
    /\ d.op = c.op /\ d.quantity = c.quantity /\ d.reservation = c.reservation
    /\ d.key = c.key /\ d.result = c.result /\ d.overlaps = c.overlaps

LEMMA Followed ==
    ASSUME NEW c \in Call
    PROVE  /\ \A step \in Steps : /\ Follows(c, Going(c, step))
                                  /\ Going(c, step).step = step /\ Going(c, step).answer = c.answer
           /\ \A answer \in Answers \cup Ids : Follows(c, Told(c, answer)) /\ Told(c, answer).answer = answer
BY DEF Call, Going, Told, Follows, Steps

(* It touches no reservation but its own, which it leaves expired or as it *)
(* answers.                                                                *)
Touches(c, d, new) ==
    LET r == c.reservation.id IN
    /\ \A q \in Ids \ {r} : new[q] = rows[q]
    /\ new[r] # rows[r] => new[r].status \in {"EXPIRED", d.answer}
    /\ d.answer \in {"PAID", "DECLINED", "CANCELED"} => new[r].status = d.answer
    /\ d.answer \in {"PAID", "DECLINED"} => c.op = "payment"
    /\ d.answer = "CANCELED" => c.op = "cancel"

LEMMA TouchesOne ==
    ASSUME TypeOK, NEW c, NEW d, c.reservation.id \in Ids, rows[c.reservation.id] # None,
           NEW status \in Statuses, NEW key \in Nat,
           status = "EXPIRED" \/ d.answer = status,
           d.answer \in {"PAID", "DECLINED", "CANCELED"} => status = d.answer,
           d.answer \in {"PAID", "DECLINED"} => c.op = "payment",
           d.answer = "CANCELED" => c.op = "cancel"
    PROVE  Touches(c, d, Settled(c.reservation.id, status, key))
<1> DEFINE r == c.reservation.id
           row == [rows[r] EXCEPT !.status = status, !.key = key]
<1>1. rows[r] \in Row /\ rows \in [Ids -> Row \cup {None}]
  BY DEF TypeOK
<1>2. row.status = status
  BY <1>1 DEF Row
<1>3. Settled(r, status, key) = [rows EXCEPT ![r] = row]
  BY <1>1 DEF Settled, Row
<1>4. /\ Settled(r, status, key)[r].status = status
      /\ \A q \in Ids \ {r} : Settled(r, status, key)[q] = rows[q]
  BY <1>1, <1>2, <1>3
<1> QED
  BY <1>4 DEF Touches

(* What a payment, when it is next looked at, has found out or is told     *)
Finds(c, d, new) ==
    LET r == c.reservation.id IN
    /\ d.answer # "IDEMPOTENCY_KEY_REUSED"
    /\ d.answer = "RESERVATION_NOT_PAYABLE" =>
         /\ c.step # "sent" /\ new = rows
         /\ \/ rows[r].status = "CANCELED"
            \/ rows[r].status = "DECLINED" /\ rows[r].key = c.key
    /\ d.answer = "RESERVATION_EXPIRED" =>
         \/ new[r].status = "EXPIRED"
         \/ /\ c.step = "pending" /\ new = rows
            /\ rows[r].status \in {"PAID", "DECLINED", "CANCELED"}
    /\ d.answer = None =>
         /\ new = rows /\ d.step # "sent"
         /\ \/ d.step = "missed" /\ rows[r].status \notin {"PAID", "DECLINED"}
            \/ d.step = "pending" /\ rows[r].status = "PENDING_PAYMENT"
            \/ d.step = "inTime" /\ c.step = "pending"

(* The key of a payment is that of no other, and a reservation settled     *)
(* under it has the outcome that is asked for.                             *)
LEMMA PaymentFacts ==
    ASSUME IInv, NEW c \in InFlight, c \in Call, c.op = "payment"
    PROVE  /\ c.reservation.id \in Ids /\ rows[c.reservation.id] \in Row
           /\ rows[c.reservation.id].status \in Statuses /\ rows[c.reservation.id].key \in Nat
           /\ c.key \in Nat /\ c.key # 0
           /\ Charge(c.reservation.id, c.key, Charged(c.result)) \in Asked
           /\ \A q \in PaidUnder(c.key) : q = c.reservation.id
           /\ rows[c.reservation.id].key # 0 =>
                /\ rows[c.reservation.id].key = c.key
                /\ rows[c.reservation.id].status = Charged(c.result)
           /\ rows[c.reservation.id].key # 0 <=> rows[c.reservation.id].status \in {"PAID", "DECLINED"}
           /\ PaidUnder(c.key) # {} =>
                PaidUnder(c.key) = {c.reservation.id} /\ rows[c.reservation.id].status = Charged(c.result)
           /\ Charged(c.result) \in {"PAID", "DECLINED"}
           /\ Charged(c.result) = "PAID" <=> c.result = "APPROVED"
<1> DEFINE r == c.reservation.id
<1>0. /\ TypeOK /\ OneKeyEach /\ RowsKeyed
      /\ c.reservation # None /\ rows[r] # None /\ c.key # 0
  BY DEF IInv, CallsFit
<1>1. r \in Ids /\ c.key \in Nat /\ rows \in [Ids -> Row \cup {None}] /\ rows[r] \in Row
  BY <1>0 DEF TypeOK, Call, Snapshot
<1>2. rows[r].status \in Statuses /\ rows[r].key \in Nat
  BY <1>1 DEF Row, Statuses
<1>3. Charge(r, c.key, Charged(c.result)) \in Asked
  BY DEF Asked
<1>4. ASSUME NEW q \in Ids, rows[q] # None, rows[q].key # 0, q = r \/ rows[q].key = c.key
      PROVE  q = r /\ rows[q].key = c.key /\ rows[q].status = Charged(c.result)
  <2>1. Charge(q, rows[q].key, rows[q].status) \in Made
    BY <1>4 DEF Made
  <2>2. Charge(q, rows[q].key, rows[q].status) = Charge(r, c.key, Charged(c.result))
    BY <1>0, <1>3, <1>4, <2>1 DEF OneKeyEach, Charges, Charge
  <2> QED
    BY <2>2 DEF Charge
<1>5. \A q \in PaidUnder(c.key) : q = r /\ rows[r].status = Charged(c.result)
  BY <1>0, <1>4 DEF PaidUnder
<1>6. rows[r].key # 0 => rows[r].key = c.key /\ rows[r].status = Charged(c.result)
  BY <1>0, <1>1, <1>4
<1>7. rows[r].key # 0 <=> rows[r].status \in {"PAID", "DECLINED"}
  BY <1>0, <1>1 DEF RowsKeyed
<1>8. PaidUnder(c.key) # {} => PaidUnder(c.key) = {r} /\ rows[r].status = Charged(c.result)
  BY <1>5
<1>9. Charged(c.result) \in {"PAID", "DECLINED"} /\ (Charged(c.result) = "PAID" <=> c.result = "APPROVED")
  BY DEF Charged
<1> QED
  BY <1>0, <1>1, <1>2, <1>3, <1>5, <1>6, <1>7, <1>8, <1>9

LEMMA FoundSettledFinds ==
    ASSUME IInv, NEW c \in InFlight, c \in Call, c.op = "payment", c.step # "sent",
           rows[c.reservation.id].status # "PENDING_PAYMENT"
    PROVE  LET s == FoundSettled(c) IN
           Leaves(s[1]) /\ Follows(c, s[2]) /\ Touches(c, s[2], s[1]) /\ Finds(c, s[2], s[1])
<1> DEFINE r == c.reservation.id
<1>0. /\ {"RESERVATION_EXPIRED", "PAID", "RESERVATION_NOT_PAYABLE"} \subseteq Answers
      /\ rows[r].status \in Statuses
      /\ None \notin {"RESERVATION_EXPIRED", "PAID", "RESERVATION_NOT_PAYABLE"}
  BY PaymentFacts, NumbersOfThePage DEF Answers
<1>1. CASE rows[r].status = "EXPIRED"
  <2>1. FoundSettled(c) = <<rows, Told(c, "RESERVATION_EXPIRED")>>
    BY <1>1 DEF FoundSettled
  <2> QED
    BY <1>0, <1>1, <2>1, Followed DEF Leaves, Touches, Finds
<1>2. CASE rows[r].status = "PAID" /\ c.result = "APPROVED"
  <2>1. FoundSettled(c) = <<rows, Told(c, "PAID")>>
    BY <1>2 DEF FoundSettled
  <2> QED
    BY <1>0, <1>2, <2>1, Followed DEF Leaves, Touches, Finds
<1>3. CASE rows[r].status # "EXPIRED" /\ ~(rows[r].status = "PAID" /\ c.result = "APPROVED")
  <2>1. FoundSettled(c) = <<rows, Told(c, "RESERVATION_NOT_PAYABLE")>>
    BY <1>3 DEF FoundSettled
  <2>2. \/ rows[r].status = "CANCELED"
        \/ rows[r].status = "DECLINED" /\ rows[r].key = c.key
    BY <1>0, <1>3, PaymentFacts DEF Statuses
  <2> QED
    BY <1>0, <2>1, <2>2, Followed DEF Leaves, Touches, Finds
<1> QED
  BY <1>1, <1>2, <1>3

LEMMA PaymentStep ==
    ASSUME IInv, NEW c \in InFlight, c \in Call, c.op = "payment", c.answer = None, NEW s \in Paid(c)
    PROVE  Leaves(s[1]) /\ Follows(c, s[2]) /\ Touches(c, s[2], s[1]) /\ Finds(c, s[2], s[1])
<1> DEFINE r == c.reservation.id
           status == Charged(c.result)
<1>0. /\ TypeOK /\ r \in Ids /\ rows[r] \in Row /\ rows[r] # None /\ status \in Answers
      /\ {"RESERVATION_EXPIRED", "UNAUTHENTICATED", "RESERVATION_NOT_PAYABLE"} \subseteq Answers
      /\ {"missed", "pending", "inTime"} \subseteq Steps
      /\ None \notin {"RESERVATION_EXPIRED", "UNAUTHENTICATED", "RESERVATION_NOT_PAYABLE", "PAID", "DECLINED",
                    "CANCELED", "IDEMPOTENCY_KEY_REUSED"}
  BY PaymentFacts, NumbersOfThePage DEF IInv, Answers, Steps
<1>1. CASE s = <<rows, Told(c, "UNAUTHENTICATED")>>
  BY <1>0, <1>1, Followed DEF Leaves, Touches, Finds
<1>2. CASE s = LookedUp(c)
  <2>1. CASE PaidUnder(c.key) = {}
    <3>1. s = <<rows, Going(c, "missed")>>
      BY <1>2, <2>1 DEF LookedUp
    <3>2. rows[r].status \notin {"PAID", "DECLINED"}
      BY <1>0, <2>1, PaymentFacts DEF PaidUnder
    <3> QED
      BY <1>0, <3>1, <3>2, Followed DEF Leaves, Touches, Finds
  <2>2. CASE PaidUnder(c.key) # {}
    <3>1. PaidUnder(c.key) = {r} /\ rows[r].status = status
      BY <2>2, PaymentFacts
    <3>2. s = <<rows, Told(c, status)>>
      BY <1>2, <2>2, <3>1 DEF LookedUp
    <3>3. status \in {"PAID", "DECLINED"}
      BY PaymentFacts
    <3> QED
      BY <1>0, <3>1, <3>2, <3>3, Followed DEF Leaves, Touches, Finds
  <2> QED
    BY <2>1, <2>2
<1>3. CASE c.step = "missed" /\ s = PayRead(c)
  <2>1. CASE rows[r].status = "PENDING_PAYMENT"
    <3>1. s = <<rows, Going(c, "pending")>>
      BY <1>3, <2>1 DEF PayRead
    <3> QED
      BY <1>0, <2>1, <3>1, Followed DEF Leaves, Touches, Finds
  <2>2. CASE rows[r].status # "PENDING_PAYMENT"
    BY <1>3, <2>2, FoundSettledFinds DEF PayRead
  <2> QED
    BY <2>1, <2>2
<1>4. CASE c.step = "pending" /\ s = PayDecided(c)
  <2>0. rows[r].expiresAt \in Int /\ clock \in Int /\ rows[r].status \in Statuses
    BY <1>0, PaymentFacts DEF TypeOK, Row
  <2>1. CASE rows[r].expiresAt > clock
    <3>1. s = <<rows, Going(c, "inTime")>>
      BY <1>4, <2>0, <2>1 DEF PayDecided
    <3> QED
      BY <1>0, <1>4, <3>1, Followed DEF Leaves, Touches, Finds
  <2>2. CASE rows[r].expiresAt <= clock /\ rows[r].status = "PENDING_PAYMENT"
    <3>1. s = <<Settled(r, "EXPIRED", 0), Told(c, "RESERVATION_EXPIRED")>>
      BY <1>4, <2>0, <2>2 DEF PayDecided, Overdue
    <3>2. Leaves(s[1]) /\ s[1][r].status = "EXPIRED"
      BY <1>0, <2>2, <3>1, SettledRow DEF Statuses
    <3>3. Told(c, "RESERVATION_EXPIRED").answer = "RESERVATION_EXPIRED" /\ Follows(c, s[2])
      BY <1>0, <3>1, Followed
    <3>4. Touches(c, s[2], s[1])
      BY <1>0, <3>1, <3>3, TouchesOne DEF Statuses
    <3> QED
      BY <1>0, <3>1, <3>2, <3>3, <3>4 DEF Finds
  <2>3. CASE rows[r].expiresAt <= clock /\ rows[r].status # "PENDING_PAYMENT"
    <3>1. s = <<rows, Told(c, "RESERVATION_EXPIRED")>>
      BY <1>4, <2>0, <2>3 DEF PayDecided, Overdue
    <3> QED
      BY <1>0, <1>4, <2>0, <2>3, <3>1, Followed DEF Leaves, Touches, Finds, Statuses
  <2> QED
    BY <2>0, <2>1, <2>2, <2>3
<1>5. CASE c.step = "inTime" /\ s = PayWritten(c)
  <2>1. CASE rows[r].status = "PENDING_PAYMENT"
    <3>1. s = <<Settled(r, status, c.key), Told(c, status)>>
      BY <1>5, <2>1 DEF PayWritten
    <3>2. status \in {"PAID", "DECLINED"} /\ Charge(r, c.key, status) \in Asked /\ c.key \in Nat /\ c.key # 0
      BY PaymentFacts
    <3>3. Leaves(s[1]) /\ s[1][r].status = status
      BY <1>0, <2>1, <3>1, <3>2, SettledRow DEF Statuses
    <3>4. Told(c, status).answer = status /\ Follows(c, s[2])
      BY <1>0, <3>1, Followed
    <3>5. Touches(c, s[2], s[1])
      BY <1>0, <3>1, <3>2, <3>4, TouchesOne DEF Statuses
    <3> QED
      BY <1>0, <3>1, <3>2, <3>3, <3>4, <3>5 DEF Finds
  <2>2. CASE rows[r].status # "PENDING_PAYMENT"
    BY <1>5, <2>2, FoundSettledFinds DEF PayWritten
  <2> QED
    BY <2>1, <2>2
<1> QED
  BY <1>1, <1>2, <1>3, <1>4, <1>5 DEF Paid, Call, Steps

LEMMA CancelStep ==
    ASSUME IInv, NEW c \in InFlight, c \in Call, c.op = "cancel", c.answer = None, NEW s \in Canceled(c)
    PROVE  Leaves(s[1]) /\ Follows(c, s[2]) /\ Touches(c, s[2], s[1])
<1> DEFINE r == c.reservation.id
<1>0. /\ TypeOK /\ rows[r] # None /\ r \in Ids
      /\ {"RESERVATION_NOT_CANCELABLE", "UNAUTHENTICATED", "CANCELED"} \subseteq Answers
      /\ {"pending", "inTime"} \subseteq Steps
      /\ None \notin {"RESERVATION_NOT_CANCELABLE", "UNAUTHENTICATED", "CANCELED", "PAID", "DECLINED"}
  BY NumbersOfThePage DEF IInv, CallsFit, Call, Snapshot, Answers, Steps
<1>1. ASSUME s[1] = rows,
             \/ s[2] = Told(c, "UNAUTHENTICATED")
             \/ s[2] = Told(c, "RESERVATION_NOT_CANCELABLE")
             \/ s[2] = Told(c, "CANCELED") /\ rows[r].status = "CANCELED"
             \/ s[2] = Going(c, "pending") \/ s[2] = Going(c, "inTime")
      PROVE  Leaves(s[1]) /\ Follows(c, s[2]) /\ Touches(c, s[2], s[1])
  BY <1>0, <1>1, Followed DEF Leaves, Touches
<1>2. CASE s = <<Settled(r, "EXPIRED", 0), Told(c, "RESERVATION_NOT_CANCELABLE")>> /\ Overdue(r)
  <2>1. /\ Told(c, "RESERVATION_NOT_CANCELABLE").answer = "RESERVATION_NOT_CANCELABLE"
        /\ Follows(c, s[2])
    BY <1>0, <1>2, Followed
  <2>2. Leaves(s[1])
    BY <1>0, <1>2, SettledRow DEF Statuses, Overdue
  <2>3. Touches(c, s[2], s[1])
    BY <1>0, <1>2, <2>1, TouchesOne DEF Statuses
  <2> QED
    BY <2>1, <2>2, <2>3
<1>3. CASE s = <<Settled(r, "CANCELED", 0), Told(c, "CANCELED")>> /\ rows[r].status = "PENDING_PAYMENT"
  <2>1. Told(c, "CANCELED").answer = "CANCELED" /\ Follows(c, s[2])
    BY <1>0, <1>3, Followed
  <2>2. Leaves(s[1])
    BY <1>0, <1>3, SettledRow DEF Statuses
  <2>3. Touches(c, s[2], s[1])
    BY <1>0, <1>3, <2>1, TouchesOne DEF Statuses
  <2> QED
    BY <2>1, <2>2, <2>3
<1>4. s \in {<<rows, Told(c, "UNAUTHENTICATED")>>, CancelRead(c), CancelDecided(c), CancelWritten(c)}
  BY DEF Canceled, Call, Steps
<1>5. CASE s = CancelRead(c)
  BY <1>1, <1>2, <1>5 DEF CancelRead, Overdue
<1>6. CASE s = CancelDecided(c)
  BY <1>1, <1>6 DEF CancelDecided
<1>7. CASE s = CancelWritten(c)
  BY <1>1, <1>3, <1>7 DEF CancelWritten
<1> QED
  BY <1>1, <1>4, <1>5, <1>6, <1>7

(* The calls of a set that are about a reservation                         *)
OfThem(them, r) == {c \in them : c.op \in {"payment", "cancel"} /\ c.reservation.id = r}

(* What the office does next for a call                                    *)
Does(c, d, new) ==
    /\ Leaves(new) /\ Follows(c, d)
    /\ c.op \in {"payment", "cancel"} => Touches(c, d, new)
    /\ c.op = "payment" => Finds(c, d, new)
    /\ c.op \in {"login", "reserve"} =>
         /\ \A q \in Ids : rows[q] # None => new[q] = rows[q]
         /\ d.answer \in Ids =>
              rows[d.answer] = None /\ new[d.answer] # None /\ new[d.answer].status = "PENDING_PAYMENT"

LEMMA ServedDoes ==
    ASSUME IInv, NEW c \in InFlight, c.answer = None, NEW s \in Served(c)
    PROVE  Does(c, s[2], s[1])
<1>0. TypeOK /\ c \in Call
  BY DEF IInv, TypeOK, CallsFit, InFlight
<1>1. ASSUME c.op \in {"login", "reserve"},
             NEW answer \in {"CUSTOMER", "FORBIDDEN", "INSUFFICIENT_INVENTORY", "UNAUTHENTICATED"},
             s = <<rows, Told(c, answer)>>
      PROVE  Does(c, s[2], s[1])
  <2>1. answer \in Answers /\ answer \notin Ids
    BY NumbersOfThePage DEF Answers
  <2>2. Follows(c, s[2]) /\ s[2].answer = answer
    BY <1>0, <1>1, <2>1, Followed
  <2> QED
    BY <1>1, <2>1, <2>2 DEF Does, Leaves
<1>2. ASSUME c.op = "reserve", NEW r \in NextId,
             s = <<[rows EXCEPT ![r] = [status |-> "PENDING_PAYMENT", quantity |-> c.quantity,
                                        expiresAt |-> clock + HoldTime, key |-> 0]], Told(c, r)>>
      PROVE  Does(c, s[2], s[1])
  <2> DEFINE row == [status |-> "PENDING_PAYMENT", quantity |-> c.quantity,
                     expiresAt |-> clock + HoldTime, key |-> 0]
  <2>1. r \in Ids /\ rows[r] = None
    BY DEF NextId
  <2>2. row \in Row /\ row # None
    <3>1. HoldTime \in Int
      BY NumbersOfThePage
    <3>2. clock \in Nat
      BY <1>0 DEF TypeOK
    <3>3. c.quantity \in Nat \ {0}
      BY <1>0 DEF Call
    <3>4. row \in Row
      BY <3>1, <3>2, <3>3 DEF Row, Statuses
    <3> QED
      BY <3>4, NumbersOfThePage
  <2>3. s[1] = [rows EXCEPT ![r] = row] /\ s[2] = Told(c, r)
    BY <1>2
  <2>4. Makes(r, s[1])
    BY <2>1, <2>2, <2>3 DEF Makes
  <2>5. s[1][r] = row /\ \A q \in Ids : rows[q] # None => s[1][q] = rows[q]
    BY <1>0, <2>1, <2>3 DEF TypeOK
  <2>6. Follows(c, s[2]) /\ s[2].answer = r
    BY <1>0, <2>1, <2>3, Followed
  <2> QED
    BY <1>2, <2>1, <2>2, <2>4, <2>5, <2>6 DEF Does, Leaves
<1>3. CASE c.op \in {"login", "reserve"}
  BY <1>1, <1>2, <1>3 DEF Served
<1>4. CASE c.op = "payment"
  BY <1>0, <1>4, PaymentStep DEF Served, Does
<1>5. CASE c.op = "cancel"
  BY <1>0, <1>5, CancelStep DEF Served, Does
<1> QED
  BY <1>0, <1>3, <1>4, <1>5 DEF Call

LEMMA ExpiredLeaves ==
    ASSUME TypeOK, NEW r \in Ids, rows[r] # None, Overdue(r)
    PROVE  /\ Leaves(Settled(r, "EXPIRED", 0))
           /\ Settled(r, "EXPIRED", 0)[r] # None /\ Settled(r, "EXPIRED", 0)[r].status = "EXPIRED"
           /\ \A q \in Ids \ {r} : Settled(r, "EXPIRED", 0)[q] = rows[q]
<1>1. rows[r].status = "PENDING_PAYMENT"
  BY DEF Overdue
<1>2. \A q \in Ids \ {r} : Settled(r, "EXPIRED", 0)[q] = rows[q]
  BY DEF TypeOK, Settled
<1> QED
  BY <1>1, <1>2, SettledRow DEF Statuses

(* The call that is served                                                 *)
LEMMA Serving ==
    ASSUME IInv, Serve
    PROVE  /\ call \in Call /\ call \in InFlight /\ call.answer = None /\ call # None
           /\ Does(call, call', rows') /\ late' = late
<1>1. call \in Call /\ call \in InFlight /\ call.answer = None /\ call # None /\ late' = late
  BY DEF Serve, IInv, TypeOK, InFlight
<1>2. PICK s \in Served(call) : rows' = s[1] /\ call' = s[2]
  BY DEF Serve
<1>3. Does(call, s[2], s[1])
  BY <1>1, ServedDoes
<1> QED
  BY <1>1, <1>2, <1>3

LEMMA ServingLate ==
    ASSUME IInv, ServeLate
    PROVE  /\ \E c \in late, d \in Call :
                /\ c \in Call /\ c \in InFlight /\ c.answer = None
                /\ Does(c, d, rows') /\ late' = (late \ {c}) \cup {d}
           /\ call' = call
<1>1. PICK c \in late : /\ c.answer = None
                       /\ \E s \in Served(c) : rows' = s[1] /\ late' = (late \ {c}) \cup {s[2]}
  BY DEF ServeLate
<1>2. PICK s \in Served(c) : rows' = s[1] /\ late' = (late \ {c}) \cup {s[2]}
  BY <1>1
<1>3. c \in Call /\ c \in InFlight
  BY <1>1, NumbersOfThePage DEF IInv, CallsFit, InFlight
<1>4. Does(c, s[2], s[1])
  BY <1>1, <1>3, ServedDoes
<1>5. s[2] \in Call
  BY <1>4 DEF Does, Follows
<1>6. Does(c, s[2], rows')
  BY <1>2, <1>4
<1> QED
  BY <1>1, <1>2, <1>3, <1>5, <1>6 DEF ServeLate

(* A reservation that lapses, at the timer or when it is looked at         *)
LEMMA Lapsing ==
    ASSUME IInv, Expire \/ LookServed
    PROVE  /\ Leaves(rows') /\ UNCHANGED <<late, call>>
           /\ \A q \in Ids : rows[q] # None => rows'[q].status \in {rows[q].status, "EXPIRED"}
<1>0. TypeOK
  BY DEF IInv
<1>1. CASE Expire
  BY <1>0, <1>1, ExpiredLeaves DEF Expire, page
<1>2. CASE LookServed
  <2>1. reservation # None /\ rows[reservation.id] # None /\ reservation.id \in Ids
    BY <1>2, NumbersOfThePage DEF LookServed, IInv, ReservationFits, TypeOK, Snapshot
  <2> QED
    BY <1>0, <1>2, <2>1, ExpiredLeaves DEF LookServed, Leaves
<1> QED
  BY <1>1, <1>2

(* No other step changes the rows, or the calls given up.                  *)
LEMMA RowsRest ==
    ASSUME GiveUp \/ Tick \/ Customer \/ Page \/ UNCHANGED vars
    PROVE  rows' = rows /\ (GiveUp \/ late' = late)
BY DEF GiveUp, Tick, Customer, Page, vars, office, ChangeQuantity, Continue, Back, SubmitLogin,
   Pay, Cancel, StartAgain, LoggedIn, Reserved, PaymentAnswered, CancelAnswered, IntervalFires, Reconciled

LEMMA RowsStep ==
    ASSUME IInv, [Next]_vars PROVE Leaves(rows')
<1>1. CASE Serve
  BY <1>1, Serving DEF Does
<1>2. CASE ServeLate
  BY <1>2, ServingLate DEF Does
<1>3. CASE Expire \/ LookServed
  BY <1>3, Lapsing
<1>4. CASE GiveUp \/ Tick \/ Customer \/ Page \/ UNCHANGED vars
  BY <1>4, RowsRest DEF Leaves
<1> QED
  BY <1>1, <1>2, <1>3, <1>4 DEF Next, Api

(* What follows of the rows                                                *)
LEMMA RowsKept ==
    ASSUME IInv, Leaves(rows')
    PROVE  /\ rows' \in [Ids -> Row \cup {None}]
           /\ RowsKeyed'
           /\ Made' \subseteq Made \cup Asked
           /\ \A r \in Ids : rows[r] # None =>
                 /\ rows'[r] # None
                 /\ rows[r].status # "PENDING_PAYMENT" => rows'[r].status = rows[r].status
                 /\ rows[r].status \notin {"PENDING_PAYMENT", "EXPIRED"} => rows'[r] = rows[r]
<1>0. TypeOK /\ rows \in [Ids -> Row \cup {None}] /\ RowsKeyed
  BY DEF IInv, TypeOK
<1>1. CASE rows' = rows
  BY <1>0, <1>1 DEF RowsKeyed, Made
<1>2. ASSUME NEW r \in Ids, NEW row \in Row, rows' = [rows EXCEPT ![r] = row],
             rows[r] # None =>
               rows[r].status = "PENDING_PAYMENT" \/ (rows[r].status = "EXPIRED" /\ row.status = "EXPIRED"),
             row.key # 0 <=> row.status \in {"PAID", "DECLINED"},
             row.key # 0 => Charge(r, row.key, row.status) \in Asked
      PROVE  /\ rows' \in [Ids -> Row \cup {None}]
             /\ RowsKeyed'
             /\ Made' \subseteq Made \cup Asked
             /\ \A q \in Ids : rows[q] # None =>
                   /\ rows'[q] # None
                   /\ rows[q].status # "PENDING_PAYMENT" => rows'[q].status = rows[q].status
                   /\ rows[q].status \notin {"PENDING_PAYMENT", "EXPIRED"} => rows'[q] = rows[q]
  <2>1. rows'[r] = row /\ row # None /\ \A q \in Ids \ {r} : rows'[q] = rows[q]
    BY <1>0, <1>2, NumbersOfThePage
  <2>2. rows' \in [Ids -> Row \cup {None}]
    BY <1>0, <1>2
  <2>3. RowsKeyed'
    BY <1>0, <1>2, <2>1 DEF RowsKeyed
  <2>4. Made' \subseteq Made \cup Asked
    BY <1>2, <2>1 DEF Made
  <2> QED
    BY <1>2, <2>1, <2>2, <2>3, <2>4
<1>3. ASSUME NEW r \in Ids, Makes(r, rows')
      PROVE  \E row \in Row : /\ rows' = [rows EXCEPT ![r] = row] /\ rows[r] = None
                              /\ row.key = 0 /\ row.status = "PENDING_PAYMENT"
  BY <1>3 DEF Makes
<1>4. ASSUME NEW r \in Ids, Settles(r, rows')
      PROVE  /\ rows' \in [Ids -> Row \cup {None}]
             /\ RowsKeyed'
             /\ Made' \subseteq Made \cup Asked
             /\ \A q \in Ids : rows[q] # None =>
                   /\ rows'[q] # None
                   /\ rows[q].status # "PENDING_PAYMENT" => rows'[q].status = rows[q].status
                   /\ rows[q].status \notin {"PENDING_PAYMENT", "EXPIRED"} => rows'[q] = rows[q]
  BY <1>2, <1>4 DEF Settles
<1> QED
  BY <1>1, <1>2, <1>3, <1>4 DEF Leaves

-----------------------------------------------------------------------------
(* Types                                                                   *)

LEMMA Numbers ==
    ASSUME TypeOK
    PROVE  /\ clock \in Nat /\ keys \in Nat /\ paymentKey \in Nat /\ available \in Nat
           /\ quantity \in Nat \ {0} /\ inventoryRestored \in BOOLEAN
BY DEF TypeOK

LEMMA SendTypes ==
    ASSUME TypeOK, NEW op \in {"login", "reserve", "payment", "cancel"}, NEW key \in Nat,
           NEW result \in Results \cup {None}, Send(op, key, result)
    PROVE  call' \in Call
BY DEF TypeOK, Send, Call, Steps, UnderWay

LEMMA RestoreTypes ==
    ASSUME TypeOK, NEW n \in Nat, RestoreInventory(n)
    PROVE  available' \in Nat /\ inventoryRestored' \in BOOLEAN
BY Numbers DEF RestoreInventory

LEMMA LookTypes ==
    ASSUME TypeOK, NEW v \in Views, SetView(v)
    PROVE  /\ view' \in Views
           /\ look' \in {"none", "asked", "failed"} \cup Statuses
BY DEF TypeOK, SetView, Statuses

LEMMA CustomerTypes ==
    ASSUME IInv, Customer PROVE TypeOK'
<1>0. /\ TypeOK /\ {"login", "idle"} \subseteq Views
      /\ None \in Results \cup {None} /\ 0 \in Nat
  BY DEF IInv, Views
<1>1. CASE ChangeQuantity
  <2>1. quantity' \in Nat \ {0}
    BY <1>1 DEF ChangeQuantity
  <2> QED
    BY <1>0, <1>1, <2>1 DEF ChangeQuantity, office, TypeOK
<1>2. CASE Continue
  <2>1. CASE Send("reserve", 0, None) /\ SetBusy("reserve") /\ UNCHANGED <<view, look>>
    <3>1. call' \in Call
      BY <1>0, <2>1, SendTypes
    <3> QED
      BY <1>0, <1>2, <2>1, <3>1 DEF Continue, KeepInventory, SetBusy, office, form, TypeOK
  <2>2. CASE SetView("login") /\ UNCHANGED <<call, busy>>
    <3>1. view' \in Views /\ look' \in {"none", "asked", "failed"} \cup Statuses
      BY <1>0, <2>2, LookTypes
    <3> QED
      BY <1>0, <1>2, <2>2, <3>1 DEF Continue, KeepInventory, office, form, TypeOK, Statuses
  <2> QED
    BY <1>2, <2>1, <2>2 DEF Continue
<1>3. CASE Back
  <2>1. view' \in Views /\ look' \in {"none", "asked", "failed"} \cup Statuses
    BY <1>0, <1>3, LookTypes DEF Back
  <2> QED
    BY <1>0, <1>3, <2>1 DEF Back, KeepInventory, office, form, TypeOK, Statuses
<1>4. CASE SubmitLogin
  <2>1. call' \in Call
    BY <1>0, <1>4, SendTypes DEF SubmitLogin
  <2> QED
    BY <1>0, <1>4, <2>1 DEF SubmitLogin, KeepInventory, SetBusy, office, form, TypeOK
<1>5. ASSUME NEW result \in Results, Pay(result) PROVE TypeOK'
  <2>1. paymentKey' \in Nat /\ keys' \in Nat
    BY <1>0, <1>5, Numbers DEF Pay, office
  <2>2. call' \in Call
    BY <1>0, <1>5, <2>1, SendTypes DEF Pay
  <2> QED
    BY <1>0, <1>5, <2>1, <2>2 DEF Pay, KeepInventory, SetBusy, office, TypeOK
<1>6. CASE Cancel
  <2>1. call' \in Call
    BY <1>0, <1>6, SendTypes DEF Cancel
  <2> QED
    BY <1>0, <1>6, <2>1 DEF Cancel, KeepInventory, SetBusy, office, form, TypeOK
<1>7. CASE StartAgain
  <2>1. view' \in Views /\ look' \in {"none", "asked", "failed"} \cup Statuses
    BY <1>0, <1>7, LookTypes DEF StartAgain
  <2>2. paymentKey' \in Nat /\ quantity' \in Nat \ {0}
    BY <1>7 DEF StartAgain, office
  <2> QED
    BY <1>0, <1>7, <2>1, <2>2 DEF StartAgain, KeepInventory, office, TypeOK, Statuses
<1> QED
  BY <1>1, <1>2, <1>3, <1>4, <1>5, <1>6, <1>7 DEF Customer

(* What an answer is about                                                 *)
LEMMA AnsweredCall ==
    ASSUME TypeOK, NEW op, Answered(op)
    PROVE  /\ call \in Call /\ call.op = op /\ call.answer \in Answers \cup Ids \cup {None}
           /\ call.quantity \in Nat \ {0} /\ call.reservation \in Snapshot \cup {None}
BY DEF TypeOK, Answered, Call

LEMMA SnapshotFields ==
    ASSUME NEW snapshot \in Snapshot
    PROVE  /\ snapshot.id \in Ids /\ snapshot.quantity \in Nat \ {0} /\ snapshot # None
           /\ \A status \in Statuses :
                 /\ [snapshot EXCEPT !.status = status] \in Snapshot
                 /\ [snapshot EXCEPT !.status = status].id = snapshot.id
                 /\ [snapshot EXCEPT !.status = status].quantity = snapshot.quantity
BY NumbersOfThePage DEF Snapshot, Statuses

LEMMA PageTypes ==
    ASSUME IInv, Page PROVE TypeOK'
<1>0. /\ TypeOK /\ CallsFit
      /\ {"login", "idle", "pending", "approved", "declined", "expired", "canceled"} \subseteq Views
  BY DEF IInv, Views
<1>1. CASE LoggedIn
  <2>1. call' \in Call \cup {None}
    BY <1>1, <1>0, AnsweredCall DEF LoggedIn, Call
  <2> QED
    BY <1>0, <1>1, <2>1 DEF LoggedIn, KeepInventory, SetBusy, office, TypeOK
<1>2. CASE Reserved
  <2>0. /\ call.answer \in Ids => rows[call.answer] \in Row /\ rows[call.answer].expiresAt \in Int
        /\ call.quantity \in Nat \ {0} /\ available \in Nat
    <3>1. call \in Call /\ call.op = "reserve" /\ call.quantity \in Nat \ {0} /\ available \in Nat
      BY <1>0, <1>2, AnsweredCall, Numbers DEF Reserved
    <3>2. call.answer \in Ids => rows[call.answer] \in Row
      BY <1>0, <1>2, <3>1, NumbersOfThePage DEF CallsFit, TypeOK
    <3> QED
      BY <3>1, <3>2 DEF Row
  <2>1. CASE /\ call.answer \in Ids
             /\ inventoryRestored' = FALSE
             /\ reservation' = [id |-> call.answer, status |-> "PENDING_PAYMENT",
                                quantity |-> call.quantity,
                                expiresAt |-> rows[call.answer].expiresAt]
             /\ SetView("pending")
             /\ available' = IF available > call.quantity THEN available - call.quantity ELSE 0
             /\ UNCHANGED token
    <3>1. available' \in Nat /\ inventoryRestored' \in BOOLEAN /\ reservation' \in Snapshot
      <4>1. available' \in Nat
        BY <2>0, <2>1
      <4>2. reservation' \in Snapshot
        BY <2>0, <2>1 DEF Snapshot, Statuses
      <4> QED
        BY <2>1, <4>1, <4>2
    <3>2. view' \in Views /\ look' \in {"none", "asked", "failed"} \cup Statuses
      BY <1>0, <2>1, LookTypes
    <3> QED
      BY <1>0, <1>2, <3>1, <3>2 DEF Reserved, SetBusy, office, TypeOK, Statuses
  <2>2. CASE KeepInventory /\ SetView("login") /\ token' = FALSE /\ UNCHANGED reservation
    <3>2. view' \in Views /\ look' \in {"none", "asked", "failed"} \cup Statuses
      BY <1>0, <2>2, LookTypes
    <3> QED
      BY <1>0, <1>2, <2>2, <3>2 DEF Reserved, KeepInventory, SetBusy, office, TypeOK, Statuses
  <2>3. CASE KeepInventory /\ UNCHANGED <<token, view, look, reservation>>
    BY <1>0, <1>2, <2>3 DEF Reserved, KeepInventory, SetBusy, office, TypeOK
  <2> QED
    BY <1>2, <2>1, <2>2, <2>3 DEF Reserved
<1>3. CASE PaymentAnswered
  <2>1. call.reservation.quantity \in Nat
    BY <1>0, <1>3, AnsweredCall, SnapshotFields DEF PaymentAnswered, CallsFit, InFlight, Answered
  <2>2. available' \in Nat /\ inventoryRestored' \in BOOLEAN
    BY <1>0, <1>3, <2>1, RestoreTypes DEF PaymentAnswered, KeepInventory, TypeOK
  <2>3. view' \in Views /\ look' \in {"none", "asked", "failed"} \cup Statuses
    BY <1>0, <1>3, LookTypes DEF PaymentAnswered, TypeOK, Statuses
  <2>4. payment' \in Results \cup {None}
    BY <1>0, <1>3 DEF PaymentAnswered, TypeOK, Results
  <2> QED
    BY <1>0, <1>3, <2>2, <2>3, <2>4 DEF PaymentAnswered, SetBusy, office, TypeOK, Statuses
<1>4. CASE CancelAnswered
  <2>1. call.reservation \in Snapshot /\ call.reservation.quantity \in Nat
    BY <1>0, <1>4, AnsweredCall, SnapshotFields DEF CancelAnswered, CallsFit, InFlight, Answered
  <2>2. available' \in Nat /\ inventoryRestored' \in BOOLEAN
    BY <1>0, <1>4, <2>1, RestoreTypes DEF CancelAnswered, KeepInventory, TypeOK
  <2>3. view' \in Views /\ look' \in {"none", "asked", "failed"} \cup Statuses
    BY <1>0, <1>4, LookTypes DEF CancelAnswered, TypeOK, Statuses
  <2>4. reservation' \in Snapshot \cup {None}
    BY <1>0, <1>4, <2>1, SnapshotFields DEF CancelAnswered, TypeOK, Statuses
  <2> QED
    BY <1>0, <1>4, <2>2, <2>3, <2>4 DEF CancelAnswered, SetBusy, office, form, TypeOK, Statuses
<1>5. CASE IntervalFires
  BY <1>0, <1>5 DEF IntervalFires, office, form, TypeOK
<1>6. CASE Reconciled
  <2>1. reservation \in Snapshot /\ look \in Statuses /\ reservation.quantity \in Nat
    BY <1>0, <1>6, SnapshotFields DEF Reconciled, Countdown, TypeOK, Statuses
  <2>2. available' \in Nat /\ inventoryRestored' \in BOOLEAN
    BY <1>0, <1>6, <2>1, RestoreTypes DEF Reconciled, KeepInventory, TypeOK
  <2>3. reservation' \in Snapshot /\ view' \in Views /\ look' = "none"
    BY <1>0, <1>6, <2>1, SnapshotFields DEF Reconciled, TypeOK
  <2> QED
    BY <1>0, <1>6, <2>2, <2>3 DEF Reconciled, office, form, TypeOK
<1> QED
  BY <1>1, <1>2, <1>3, <1>4, <1>5, <1>6 DEF Page

LEMMA ApiTypes ==
    ASSUME IInv, Api \/ Tick PROVE TypeOK' /\ late' \subseteq Call
<1>0. /\ TypeOK /\ late \subseteq Call /\ clock \in Nat /\ lost \in Nat
      /\ rows' \in [Ids -> Row \cup {None}]
  BY RowsStep, RowsKept DEF IInv, TypeOK, CallsFit, Next
<1>1. CASE Serve
  <2>1. call' \in Call /\ late' = late
    BY <1>1, Serving DEF Does, Follows
  <2> QED
    BY <1>0, <1>1, <2>1 DEF Serve, page, form, TypeOK
<1>2. CASE GiveUp
  <2>1. call \in Call /\ "NETWORK" \in Answers /\ lost' \in Nat
    BY <1>0, <1>2 DEF GiveUp, TypeOK, Answers
  <2>2. call' \in Call
    BY <1>2, <2>1, Followed DEF GiveUp, Follows
  <2>3. late' \subseteq Call
    BY <1>0, <1>2, <2>1 DEF GiveUp, Call
  <2> QED
    BY <1>0, <1>2, <2>1, <2>2, <2>3 DEF GiveUp, page, form, TypeOK
<1>3. CASE ServeLate
  <2>1. late' \subseteq Call
    BY <1>0, <1>3, ServingLate
  <2> QED
    BY <1>0, <1>3, <2>1 DEF ServeLate, page, form, TypeOK
<1>4. CASE Expire
  BY <1>0, <1>4 DEF Expire, page, form, TypeOK
<1>5. CASE LookServed
  <2>1. /\ reservation # None /\ rows[reservation.id] # None /\ reservation.id \in Ids
    BY <1>5, NumbersOfThePage DEF LookServed, IInv, ReservationFits, TypeOK, Snapshot
  <2>2. rows'[reservation.id] # None
    BY <1>5, <2>1, RowsStep, RowsKept DEF Next, Api
  <2>3. rows'[reservation.id].status \in Statuses
    BY <1>0, <2>1, <2>2 DEF Row, Statuses
  <2>4. look' \in Statuses \cup {"failed"} /\ lost' \in Nat
    BY <1>0, <1>5, <2>3 DEF LookServed
  <2> QED
    BY <1>0, <1>5, <2>4 DEF LookServed, form, TypeOK, Statuses
<1>6. CASE Tick
  <2>1. clock' \in Nat
    BY <1>0, <1>6 DEF Tick
  <2> QED
    BY <1>0, <1>6, <2>1 DEF Tick, page, form, TypeOK
<1> QED
  BY <1>1, <1>2, <1>3, <1>4, <1>5, <1>6 DEF Api

LEMMA TypesStep ==
    ASSUME IInv, [Next]_vars PROVE TypeOK' /\ late' \subseteq Call
<1>1. CASE Customer \/ Page
  BY <1>1, CustomerTypes, PageTypes DEF IInv, CallsFit, Customer, Page, office, ChangeQuantity, Continue,
     Back, SubmitLogin, Pay, Cancel, StartAgain, LoggedIn, Reserved, PaymentAnswered, CancelAnswered,
     IntervalFires, Reconciled
<1>2. CASE UNCHANGED vars
  BY <1>2 DEF IInv, CallsFit, TypeOK, vars, office, form
<1> QED
  BY <1>1, <1>2, ApiTypes DEF Next

-----------------------------------------------------------------------------
(* What is charged                                                         *)

(* A step that sends no payment charges nothing that was not charged: each *)
(* payment in flight was in flight, and the page means what it meant.  All *)
(* that it may send about a reservation is the cancellation of the page's. *)
SendsNoPayment ==
    /\ keys' = keys
    /\ \A c \in InFlight' : c.op \in {"payment", "cancel"} =>
         \/ \E d \in InFlight : /\ d.op = c.op /\ d.reservation = c.reservation
                                /\ d.key = c.key /\ d.result = c.result
         \/ c.op = "cancel" /\ c.reservation = reservation /\ reservation # None
    /\ \/ paymentKey' = 0
       \/ /\ UNCHANGED <<paymentKey, paymentIntent>>
          /\ paymentKey # 0 => reservation'.id = reservation.id

(* and what it shows that is to be paid was so, or has just been made.     *)
ShowsUnpaid ==
    /\ reservation' # None /\ paymentKey' = 0 =>
         \/ reservation # None /\ paymentKey = 0 /\ reservation'.id = reservation.id
         \/ /\ call # None /\ call.op = "reserve" /\ call.answer \in Ids
            /\ reservation'.id = call.answer
    /\ call' # None /\ call'.op = "reserve" /\ call'.answer \in Ids =>
         call' = call \/ (rows[call'.answer] = None /\ rows'[call'.answer] # None)

LEMMA NoNames ==
    /\ None \notin Call /\ None \notin Snapshot /\ None \notin Row /\ None \notin Ids
    /\ Ids \cap Answers = {}
BY NumbersOfThePage

LEMMA SentCall ==
    ASSUME TypeOK, NEW op \in {"login", "reserve", "payment", "cancel"}, NEW key \in Nat,
           NEW result \in Results \cup {None}, Send(op, key, result)
    PROVE  /\ call' # None /\ call'.op = op /\ call'.quantity = quantity
           /\ call'.reservation = reservation /\ call'.answer = None
<1>1. call' # None
  BY SendTypes, NoNames
<1> QED
  BY <1>1 DEF Send

LEMMA NoAnswer == None \notin Answers
BY NumbersOfThePage

LEMMA CustomerCharges ==
    ASSUME IInv, Customer, ~\E result \in Results : Pay(result)
    PROVE  SendsNoPayment /\ ShowsUnpaid
<1>0. /\ TypeOK /\ PageFits /\ ReservationFits /\ (call # None => call \in Call)
      /\ view \in {"idle", "login"} => reservation = None /\ paymentKey = 0
  BY DEF IInv, TypeOK, ReservationFits
<1>1. CASE ChangeQuantity \/ Back
  BY <1>0, <1>1 DEF ChangeQuantity, Back, office, form, SendsNoPayment, ShowsUnpaid, InFlight
<1>2. CASE Continue \/ SubmitLogin \/ Cancel
  <2>1. UNCHANGED <<form, reservation, late>>
    BY <1>2 DEF Continue, SubmitLogin, Cancel, office
  <2>2. \/ call' = call
        \/ call'.op \in {"reserve", "login"} /\ call'.answer = None
        \/ call'.op = "cancel" /\ call'.reservation = reservation /\ reservation # None
    BY <1>2 DEF Continue, SubmitLogin, Cancel, Send
  <2> QED
    BY <1>0, <2>1, <2>2, NoNames DEF form, SendsNoPayment, ShowsUnpaid, InFlight
<1>3. CASE StartAgain
  BY <1>0, <1>3 DEF StartAgain, office, SendsNoPayment, ShowsUnpaid, InFlight
<1> QED
  BY <1>1, <1>2, <1>3 DEF Customer

LEMMA PageCharges ==
    ASSUME IInv, Page PROVE SendsNoPayment /\ ShowsUnpaid
<1>0. /\ TypeOK /\ CallsFit /\ PageFits /\ (call # None => call \in Call)
      /\ view \in {"idle", "login"} => reservation = None
      /\ view \in {"pending", "approved", "declined", "canceled"} => reservation # None
      /\ reservation = None => paymentKey = 0
  BY DEF IInv, TypeOK, ReservationFits
<1>1. CASE LoggedIn
  <2>1. UNCHANGED <<late, paymentKey, paymentIntent, keys, reservation>>
    BY <1>1 DEF LoggedIn, office
  <2>2. call' = None \/ (call'.op = "reserve" /\ call'.answer = None)
    BY <1>0, <1>1 DEF LoggedIn, Answered, Call
  <2> QED
    BY <2>1, <2>2, NoNames DEF SendsNoPayment, ShowsUnpaid, InFlight
<1>2. CASE Reserved
  <2>1. call # None /\ call.op = "reserve" /\ reservation = None /\ paymentKey = 0 /\ call' = None
    BY <1>0, <1>2 DEF Reserved, Answered, PageFits
  <2>2. UNCHANGED <<late, paymentKey, paymentIntent, keys>>
    BY <1>2 DEF Reserved, office
  <2>3. reservation' # None => call.answer \in Ids /\ reservation'.id = call.answer
    BY <1>2, <2>1 DEF Reserved
  <2> QED
    BY <2>1, <2>2, <2>3 DEF SendsNoPayment, ShowsUnpaid, InFlight
<1>3. CASE PaymentAnswered
  BY <1>3 DEF PaymentAnswered, office, SendsNoPayment, ShowsUnpaid, InFlight
<1>4. CASE CancelAnswered
  <2>1. UNCHANGED <<late, paymentKey, paymentIntent, keys>> /\ call' = None
    BY <1>4 DEF CancelAnswered, office, form
  <2>2. reservation' = reservation \/ (reservation # None /\ reservation'.id = reservation.id)
    <3>1. call \in Call /\ call.op = "cancel" /\ call.reservation \in Snapshot
      BY <1>0, <1>4, AnsweredCall DEF CancelAnswered, CallsFit, InFlight, Answered
    <3>2. call.answer = "CANCELED" => rows[call.reservation.id].status = "CANCELED"
      BY <1>4, <3>1 DEF CancelAnswered, Answered, IInv, AnswersTrue
    <3>3. call.answer = "CANCELED" => view = "pending"
      BY <1>0, <1>4, <3>1, <3>2 DEF CancelAnswered, Answered, PageFits
    <3>4. call.answer = "CANCELED" => reservation # None /\ reservation.id = call.reservation.id
      BY <1>0, <1>4, <3>1, <3>3 DEF CancelAnswered, Answered, PageFits
    <3> QED
      BY <1>4, <3>1, <3>4, SnapshotFields DEF CancelAnswered, Statuses
  <2> QED
    BY <1>0, <2>1, <2>2 DEF SendsNoPayment, ShowsUnpaid, InFlight
<1>5. CASE IntervalFires
  BY <1>5 DEF IntervalFires, office, form, SendsNoPayment, ShowsUnpaid, InFlight
<1>6. CASE Reconciled
  <2>1. UNCHANGED <<late, paymentKey, paymentIntent, keys, call>>
    BY <1>6 DEF Reconciled, office, form
  <2>2. reservation # None /\ reservation'.id = reservation.id
    <3>1. reservation \in Snapshot /\ look \in Statuses
      BY <1>0, <1>6 DEF Reconciled, Countdown, TypeOK, Statuses
    <3> QED
      BY <1>6, <3>1, SnapshotFields DEF Reconciled
  <2> QED
    BY <2>1, <2>2 DEF SendsNoPayment, ShowsUnpaid, InFlight
<1> QED
  BY <1>1, <1>2, <1>3, <1>4, <1>5, <1>6 DEF Page

LEMMA ApiCharges ==
    ASSUME IInv, Api \/ Tick PROVE SendsNoPayment /\ ShowsUnpaid
<1>0. /\ (call # None => call \in Call) /\ UNCHANGED <<keys, paymentKey, paymentIntent, reservation>>
  BY DEF IInv, TypeOK, Api, Tick, Serve, GiveUp, ServeLate, Expire, LookServed, page, form
<1>1. CASE Serve
  BY <1>0, <1>1, Serving DEF Does, Follows, SendsNoPayment, ShowsUnpaid, InFlight
<1>2. CASE GiveUp
  <2>1. call \in Call /\ call \in InFlight /\ late' = late \cup {[call EXCEPT !.given = lost']}
    BY <1>0, <1>2 DEF GiveUp, InFlight
  <2>2. "NETWORK" \in Answers /\ "NETWORK" \notin Ids
    BY NoNames DEF Answers
  <2>3. Follows(call, call') /\ call'.answer = "NETWORK"
    BY <1>2, <2>1, <2>2, Followed DEF GiveUp
  <2>4. \A c \in {[call EXCEPT !.given = lost']} :
          c.op = call.op /\ c.reservation = call.reservation /\ c.key = call.key /\ c.result = call.result
    BY <2>1 DEF Call
  <2> QED
    BY <1>0, <2>1, <2>2, <2>3, <2>4 DEF Follows, SendsNoPayment, ShowsUnpaid, InFlight
<1>3. CASE ServeLate
  BY <1>0, <1>3, ServingLate DEF Does, Follows, SendsNoPayment, ShowsUnpaid, InFlight
<1>4. CASE Expire \/ LookServed \/ Tick
  BY <1>0, <1>4 DEF Expire, LookServed, Tick, SendsNoPayment, ShowsUnpaid, InFlight
<1> QED
  BY <1>1, <1>2, <1>3, <1>4 DEF Api

LEMMA FewerCharges ==
    ASSUME IInv, Leaves(rows'), SendsNoPayment PROVE Charges' \subseteq Charges
<1>1. Asked' \subseteq Asked
  BY DEF Asked, SendsNoPayment
<1>2. Meant' \subseteq Meant
  BY DEF Meant, SendsNoPayment
<1>3. Made' \subseteq Made \cup Asked
  BY RowsKept
<1> QED
  BY <1>1, <1>2, <1>3 DEF Charges

LEMMA ChargesStep ==
    ASSUME IInv, [Next]_vars PROVE OneKeyEach' /\ Recorded' /\ FreshUnpaid'
<1>0. /\ TypeOK /\ OneKeyEach /\ Recorded /\ FreshUnpaid /\ keys \in Nat /\ paymentKey \in Nat
      /\ \A r \in Ids : rows[r] # None => rows'[r] # None
      /\ Leaves(rows')
  BY RowsStep, RowsKept, Numbers DEF IInv
<1>1. CASE SendsNoPayment /\ ShowsUnpaid
  <2>1. Charges' \subseteq Charges /\ keys' = keys
    BY <1>0, <1>1, FewerCharges DEF SendsNoPayment
  <2>2. OneKeyEach'
    BY <1>0, <2>1 DEF OneKeyEach
  <2>3. Recorded'
    BY <1>0, <2>1 DEF Recorded
  <2>4. ASSUME NEW r, Unpaid(r) PROVE Unpaid(r)'
    BY <2>1, <2>4 DEF Unpaid
  <2>5. ASSUME NEW r, r \in Ids, rows[r] = None PROVE Unpaid(r)
    BY <1>0, <2>5 DEF Recorded, Unpaid
  <2>6. ASSUME reservation' # None, paymentKey' = 0
        PROVE  \A u \in Charges' : u.id # reservation'.id
    <3>1. \A r : r = reservation'.id => Unpaid(r)
      BY <1>0, <1>1, <2>6 DEF ShowsUnpaid, FreshUnpaid
    <3> QED
      BY <2>1, <3>1 DEF Unpaid
  <2>7. ASSUME call' # None, call'.op = "reserve", call'.answer \in Ids
        PROVE  \A u \in Charges' : u.id # call'.answer
    <3>1. \A r : r = call'.answer => Unpaid(r)
      BY <1>0, <1>1, <2>5, <2>7 DEF ShowsUnpaid, FreshUnpaid
    <3> QED
      BY <2>1, <3>1 DEF Unpaid
  <2> QED
    BY <2>2, <2>3, <2>6, <2>7 DEF FreshUnpaid, Unpaid
<1>2. ASSUME NEW result \in Results, Pay(result) PROVE OneKeyEach' /\ Recorded' /\ FreshUnpaid'
  <2> DEFINE new == Charge(reservation.id, paymentKey', Charged(result))
  <2>0. /\ call = None /\ reservation \in Snapshot /\ reservation.id \in Ids /\ rows[reservation.id] # None
        /\ paymentKey = 0 <=> paymentIntent = Empty
    BY <1>0, <1>2, SnapshotFields DEF Pay, IInv, PageFits, ReservationFits, TypeOK, Call, Empty
  <2>1. /\ UNCHANGED <<rows, late, reservation>>
        /\ call' = [op |-> "payment", quantity |-> quantity, reservation |-> reservation,
                    key |-> paymentKey', result |-> result, answer |-> None,
                    step |-> "sent", given |-> 0, overlaps |-> call'.overlaps]
        /\ paymentIntent' = result /\ paymentKey' # 0 /\ paymentKey' \in Nat
        /\ paymentKey = 0 => paymentKey' = keys + 1 /\ keys' = keys + 1
        /\ paymentKey # 0 => paymentKey' = paymentKey /\ keys' = keys
    BY <1>0, <1>2 DEF Pay, Send, office
  <2>2. Charges' = Charges \cup {new}
    <3>1. InFlight' = InFlight \cup {call'}
      <4>1. call' # None
        BY <1>0, <1>2, <2>1, SendTypes, NoNames DEF Pay
      <4> QED
        BY <2>0, <2>1, <4>1 DEF InFlight
    <3>2. Asked' = Asked \cup {new}
      BY <2>1, <3>1 DEF Asked
    <3>3. Meant' = {new}
      BY <2>1 DEF Meant
    <3>4. Meant \subseteq {new}
      <4>1. CASE paymentKey # 0
        <5>1. paymentIntent = result
          BY <1>2, <2>0, <4>1 DEF Pay
        <5> QED
          BY <2>1, <4>1, <5>1 DEF Meant
      <4> QED
        BY <4>1 DEF Meant
    <3>5. Made' = Made
      BY <2>1 DEF Made
    <3> QED
      BY <3>2, <3>3, <3>4, <3>5 DEF Charges
  <2>3. CASE paymentKey = 0
    <3>1. \A u \in Charges : u.id # reservation.id /\ u.key # paymentKey' /\ u.key \in 1..keys'
      <4>1. Unpaid(reservation.id)
        BY <1>0, <1>2, <2>3 DEF FreshUnpaid, Pay
      <4>2. \A u \in Charges : u.key \in 1..keys
        BY <1>0 DEF Recorded
      <4> QED
        BY <1>0, <2>1, <2>3, <4>1, <4>2 DEF Unpaid
    <3>2. new.id = reservation.id /\ new.key = paymentKey' /\ new.key \in 1..keys'
      BY <1>0, <2>1, <2>3 DEF Charge
    <3>3. OneKeyEach'
      BY <1>0, <2>2, <3>1, <3>2 DEF OneKeyEach
    <3>4. Recorded'
      BY <1>0, <2>0, <2>1, <2>2, <3>1, <3>2 DEF Recorded
    <3> QED
      BY <2>1, <3>3, <3>4 DEF FreshUnpaid
  <2>4. CASE paymentKey # 0
    <3>1. new \in Charges
      BY <1>2, <2>0, <2>1, <2>4 DEF Pay, Charges, Meant
    <3>2. Charges' = Charges
      BY <2>2, <3>1
    <3> QED
      BY <1>0, <2>1, <2>4, <3>2 DEF OneKeyEach, Recorded, FreshUnpaid
  <2> QED
    BY <2>3, <2>4
<1>3. UNCHANGED vars => SendsNoPayment /\ ShowsUnpaid
  BY DEF vars, office, form, SendsNoPayment, ShowsUnpaid, InFlight
<1> QED
  BY <1>1, <1>2, <1>3, CustomerCharges, PageCharges, ApiCharges DEF Next, Customer

-----------------------------------------------------------------------------
(* The calls                                                               *)

LEMMA CallsStep ==
    ASSUME IInv, [Next]_vars PROVE CallsFit'
<1>0. /\ TypeOK /\ CallsFit /\ late' \subseteq Call
      /\ \A r \in Ids : rows[r] # None => rows'[r] # None
      /\ reservation # None => reservation.id \in Ids /\ rows[reservation.id] # None
      /\ \A c \in InFlight : c \in Call
  BY RowsStep, RowsKept, TypesStep, SnapshotFields DEF IInv, TypeOK, ReservationFits, CallsFit, InFlight
<1>1. ASSUME NEW c \in InFlight, c.op \in {"payment", "cancel"}
      PROVE  /\ c.reservation \in Snapshot /\ c.reservation.id \in Ids /\ rows[c.reservation.id] # None
             /\ c.op = "payment" => c.key # 0
  <2>1. c.reservation \in Snapshot
    BY <1>0, <1>1 DEF CallsFit, Call
  <2> QED
    BY <1>0, <1>1, <2>1, SnapshotFields DEF CallsFit
<1>2. ASSUME SendsNoPayment, NEW c \in InFlight', c.op \in {"payment", "cancel"}
      PROVE  /\ c.reservation # None /\ rows'[c.reservation.id] # None
             /\ c.op = "payment" => c.key # 0
  <2>1. CASE c.op = "cancel" /\ c.reservation = reservation /\ reservation # None
    BY <1>0, <2>1
  <2>2. ASSUME NEW d \in InFlight, d.op = c.op, d.reservation = c.reservation,
               d.key = c.key, d.result = c.result
        PROVE  /\ c.reservation # None /\ rows'[c.reservation.id] # None
               /\ c.op = "payment" => c.key # 0
    BY <1>0, <1>1, <1>2, <2>2, NoNames
  <2> QED
    BY <1>2, <2>1, <2>2 DEF SendsNoPayment
<1>3. ASSUME ShowsUnpaid, call' # None, call'.op = "reserve", call'.answer \in Ids
      PROVE  rows'[call'.answer] # None
  BY <1>0, <1>3 DEF ShowsUnpaid, CallsFit
<1>4. ASSUME NEW result \in Results, Pay(result) PROVE CallsFit'
  <2>1. call' \in Call /\ call'.op = "payment" /\ call'.reservation = reservation /\ reservation # None
        /\ call'.key # 0
    <3>1. paymentKey' \in Nat /\ paymentKey' # 0
      BY <1>0, <1>4, Numbers DEF Pay
    <3>2. call' = [op |-> "payment", quantity |-> quantity, reservation |-> reservation,
                   key |-> paymentKey', result |-> result, answer |-> None,
                   step |-> "sent", given |-> 0, overlaps |-> call'.overlaps]
      BY <1>4 DEF Pay, Send
    <3>3. call' \in Call
      BY <1>0, <1>4, <3>1, SendTypes DEF Pay
    <3> QED
      BY <1>4, <3>1, <3>2, <3>3 DEF Pay
  <2>2. UNCHANGED late
    BY <1>4 DEF Pay, office
  <2> QED
    BY <1>0, <1>1, <2>1, <2>2 DEF CallsFit, InFlight
<1>5. UNCHANGED vars => SendsNoPayment /\ ShowsUnpaid
  BY DEF vars, office, form, SendsNoPayment, ShowsUnpaid, InFlight
<1> QED
  BY <1>0, <1>2, <1>3, <1>4, <1>5, CustomerCharges, PageCharges, ApiCharges DEF CallsFit, Next, Customer

(* The page's call is kept, served, dropped, or has nothing to tell.       *)
LEMMA CallChanges ==
    ASSUME IInv, [Next]_vars
    PROVE  call' = call \/ Serve \/ call' = None \/ call'.answer \in {None, "NETWORK"}
<1>1. CASE Customer
  BY <1>1 DEF Customer, ChangeQuantity, Continue, Back, SubmitLogin, Pay, Cancel, StartAgain, Send
<1>2. CASE LoggedIn
  <2>1. call # None => call \in Call
    BY DEF IInv, TypeOK
  <2> QED
    BY <1>2, <2>1 DEF LoggedIn, Answered, Call
<1>3. CASE Page /\ ~LoggedIn
  BY <1>3 DEF Page, Reserved, PaymentAnswered, CancelAnswered, IntervalFires, Reconciled
<1>4. CASE GiveUp
  <2>1. call \in Call /\ "NETWORK" \in Answers
    BY <1>4 DEF GiveUp, IInv, TypeOK, Answers
  <2> QED
    BY <1>4, <2>1, Followed DEF GiveUp
<1>5. CASE ServeLate \/ Expire \/ LookServed \/ Tick \/ UNCHANGED vars
  BY <1>5 DEF ServeLate, Expire, LookServed, Tick, vars
<1> QED
  BY <1>1, <1>2, <1>3, <1>4, <1>5 DEF Next, Api

(* What a call is about was made.                                          *)
LEMMA CallAbout ==
    ASSUME IInv, NEW c \in InFlight, c.op \in {"payment", "cancel"}
    PROVE  c \in Call /\ c.reservation.id \in Ids /\ rows[c.reservation.id] # None
<1>1. c \in Call /\ c.reservation # None /\ rows[c.reservation.id] # None
  BY DEF IInv, TypeOK, CallsFit, InFlight
<1> QED
  BY <1>1 DEF Call, Snapshot

LEMMA LateInFlight ==
    ASSUME IInv PROVE late \subseteq InFlight
BY NoNames DEF IInv, CallsFit, InFlight

(* What was settled late stays so.                                         *)
LEMMA SettledLateStays ==
    ASSUME IInv, [Next]_vars, NEW r \in Ids, rows[r] # None, SettledLate(r)
    PROVE  SettledLate(r)' /\ rows'[r] = rows[r] /\ rows[r].status \in {"PAID", "DECLINED", "CANCELED"}
<1>1. PICK d \in late : d.op \in {"payment", "cancel"} /\ d.reservation.id = r /\ d.answer = rows[r].status
  BY DEF SettledLate, About
<1>2. rows[r].status \in {"PAID", "DECLINED", "CANCELED"}
  <2>1. rows[r].status \in Statuses
    BY DEF IInv, TypeOK, Row, Statuses
  <2>2. d.answer \in Answers \cup Ids \cup {None}
    BY <1>1 DEF IInv, CallsFit, Call
  <2>3. d.answer \in Answers \cap Statuses
    BY <1>1, <2>1, <2>2, NumbersOfThePage
  <2> QED
    BY <1>1, <2>3 DEF Answers, Statuses
<1>3. rows'[r] = rows[r]
  BY <1>2, RowsStep, RowsKept
<1>4. d \in late'
  <2>1. CASE ServeLate
    BY <1>1, <1>2, <2>1, ServingLate, NoAnswer DEF Answers
  <2>2. CASE Serve \/ Expire \/ LookServed
    BY <1>1, <2>2, Serving, Lapsing
  <2>3. CASE GiveUp \/ Tick \/ Customer \/ Page \/ UNCHANGED vars
    BY <1>1, <2>3, RowsRest DEF GiveUp
  <2> QED
    BY <2>1, <2>2, <2>3 DEF Next, Api
<1> QED
  BY <1>1, <1>2, <1>3, <1>4 DEF SettledLate, About

(* A reservation with no late call under way only lapses, unless the page's*)
(* own call is served.                                                     *)
LEMMA LeftAlone ==
    ASSUME IInv, [Next]_vars, ~Serve, NEW r \in Ids, rows[r] # None, ~UnderWay(r)
    PROVE  /\ rows'[r] = rows[r] \/ rows'[r].status \in {rows[r].status, "EXPIRED"}
           /\ GiveUp \/ (~UnderWay(r))'
           /\ About(r) = {} => GiveUp \/ About(r)' = {}
<1>1. CASE ServeLate
  <2>1. PICK c \in late, d \in Call :
               /\ c \in Call /\ c \in InFlight /\ c.answer = None
               /\ Does(c, d, rows') /\ late' = (late \ {c}) \cup {d}
    BY <1>1, ServingLate
  <2>2. c.op \in {"payment", "cancel"} => c.reservation.id # r
    BY <2>1 DEF UnderWay, About
  <2>3. d.op = c.op /\ d.reservation = c.reservation
    BY <2>1 DEF Does, Follows
  <2>4. rows'[r] = rows[r]
    <3>1. CASE c.op \in {"payment", "cancel"}
      BY <2>1, <2>2, <3>1 DEF Does, Touches
    <3>2. CASE c.op \in {"login", "reserve"}
      BY <2>1, <3>2 DEF Does
    <3> QED
      BY <2>1, <3>1, <3>2 DEF Call
  <2>5. About(r)' = About(r)
    BY <2>1, <2>2, <2>3 DEF About
  <2> QED
    BY <2>4, <2>5 DEF UnderWay
<1>2. CASE Expire \/ LookServed
  BY <1>2, Lapsing DEF UnderWay, About
<1>3. CASE GiveUp \/ Tick \/ Customer \/ Page \/ UNCHANGED vars
  BY <1>3, RowsRest DEF UnderWay, About
<1> QED
  BY <1>1, <1>2, <1>3 DEF Next, Api

LEMMA NewStep ==
    ASSUME IInv, [Next]_vars PROVE NewUntouched'
<1>0. /\ TypeOK /\ CallsFit /\ NewUntouched /\ "NETWORK" \notin Ids /\ None \notin Ids
      /\ call # None => call \in Call
  BY NoNames DEF IInv, Answers, TypeOK
<1>1. ASSUME call' # None, call'.op = "reserve", call'.answer \in Ids
      PROVE  /\ OfThem(late', call'.answer) = {}
             /\ rows'[call'.answer].status \in {"PENDING_PAYMENT", "EXPIRED"}
  <2>1. CASE call' = call /\ ~Serve /\ ~GiveUp
    <3>1. /\ call.answer \in Ids /\ rows[call.answer] # None /\ About(call.answer) = {}
          /\ rows[call.answer].status \in {"PENDING_PAYMENT", "EXPIRED"}
      BY <1>0, <1>1, <2>1 DEF CallsFit, NewUntouched
    <3>2. ASSUME NEW r \in Ids, r = call.answer
          PROVE  About(r)' = {} /\ rows'[r].status \in {"PENDING_PAYMENT", "EXPIRED"}
      BY <2>1, <3>1, <3>2, LeftAlone DEF UnderWay
    <3> QED
      BY <2>1, <3>1, <3>2 DEF About, OfThem
  <2>2. CASE Serve
    <3>1. /\ rows[call'.answer] = None /\ rows'[call'.answer].status = "PENDING_PAYMENT" /\ late' = late
      BY <1>1, <2>2, Serving DEF Does, Follows
    <3>2. \A c \in late : c.op \in {"payment", "cancel"} => c.reservation.id # call'.answer
      BY <3>1, LateInFlight, CallAbout
    <3> QED
      BY <3>1, <3>2 DEF About, OfThem
  <2>3. CASE GiveUp
    <3>1. call'.answer = "NETWORK"
      BY <1>0, <2>3, Followed DEF GiveUp, Answers
    <3> QED
      BY <1>0, <1>1, <3>1
  <2> QED
    BY <1>0, <1>1, <2>1, <2>2, <2>3, CallChanges
<1> QED
  BY <1>1 DEF NewUntouched, About, OfThem

(* What the office has settled is not settled otherwise.                   *)
LEMMA AnswersStep ==
    ASSUME IInv, [Next]_vars PROVE AnswersTrue' /\ PaymentsRecover'
<1>0. /\ TypeOK /\ CallsFit /\ AnswersTrue /\ PaymentsRecover /\ (call # None => call \in Call)
      /\ FindingsHold /\ SettlersKnown /\ PageFits /\ ReservationFits
  BY DEF IInv, TypeOK
<1>1. CASE call' = call
  <2>1. ASSUME NEW r, r = call.reservation.id, call # None, call.op \in {"payment", "cancel"}
        PROVE  /\ r \in Ids /\ rows[r] # None
               /\ rows[r].status # "PENDING_PAYMENT" => rows'[r].status = rows[r].status
               /\ rows[r].status \notin {"PENDING_PAYMENT", "EXPIRED"} => rows'[r] = rows[r]
               /\ SettledLate(r) => SettledLate(r)'
    <3>1. call \in InFlight
      BY <2>1 DEF InFlight
    <3>2. r \in Ids /\ rows[r] # None
      BY <2>1, <3>1, CallAbout
    <3> QED
      BY <3>2, RowsStep, RowsKept, SettledLateStays
  <2>2. AnswersTrue'
    BY <1>0, <1>1, <2>1 DEF AnswersTrue
  <2>3. PaymentsRecover'
    <3>1. ASSUME NEW r, r = call.reservation.id, call # None, call.op = "payment"
          PROVE  /\ call.answer # "IDEMPOTENCY_KEY_REUSED"
                 /\ call.answer = "RESERVATION_NOT_PAYABLE" =>
                      \/ rows'[r].status = "CANCELED"
                      \/ call.overlaps /\ rows'[r].status = "DECLINED" /\ rows'[r].key = call.key
                 /\ call.answer = "RESERVATION_EXPIRED" =>
                      rows'[r].status = "EXPIRED" \/ (call.overlaps /\ SettledLate(r)')
      BY <1>0, <2>1, <3>1 DEF PaymentsRecover
    <3> QED
      BY <1>1, <3>1 DEF PaymentsRecover, SettledLate, About
  <2> QED
    BY <2>2, <2>3
<1>2. CASE Serve
  <2>1. /\ call \in Call /\ call # None /\ call.answer = None /\ late' = late
        /\ Leaves(rows') /\ Follows(call, call')
        /\ call.op \in {"payment", "cancel"} => Touches(call, call', rows')
        /\ call.op = "payment" => Finds(call, call', rows')
    BY <1>2, Serving DEF Does
  <2>2. AnswersTrue'
    BY <2>1 DEF Follows, Touches, AnswersTrue
  <2>3. ASSUME call.op = "payment" PROVE PaymentsRecover'
    <3> DEFINE r == call.reservation.id
    <3>1. /\ call'.op = "payment" /\ call'.reservation = call.reservation
          /\ call'.key = call.key /\ call'.overlaps = call.overlaps /\ call.overlaps \in BOOLEAN
      BY <2>1, <2>3 DEF Follows, Call
    <3>2. ASSUME rows[r].status \in {"PAID", "DECLINED", "CANCELED"} PROVE SettledLate(r)
      <4>1. view = "pending" /\ reservation # None /\ reservation.id = r
        BY <1>0, <2>1, <2>3, <3>2 DEF PageFits, ReservationFits
      <4>2. None \notin {"PAID", "DECLINED", "CANCELED"}
        BY NoAnswer DEF Answers
      <4> QED
        BY <1>0, <2>1, <3>2, <4>1, <4>2 DEF SettlersKnown
    <3>3. ~call.overlaps =>
             /\ call.step # "sent" => rows[r].status \notin {"PAID", "DECLINED"}
             /\ call.step \in {"pending", "inTime"} => rows[r].status # "CANCELED"
      BY <1>0, <2>1, <2>3 DEF FindingsHold
    <3>4. rows' = rows /\ SettledLate(r) => \E c \in OfThem(late', call'.reservation.id) : c.answer = rows'[call'.reservation.id].status
      BY <2>1, <3>1 DEF SettledLate, About, OfThem
    <3> QED
      BY <2>1, <2>3, <3>1, <3>2, <3>3, <3>4 DEF Finds, PaymentsRecover, SettledLate, About, OfThem
  <2>4. call.op # "payment" => PaymentsRecover'
    BY <2>1 DEF Follows, PaymentsRecover
  <2> QED
    BY <2>2, <2>3, <2>4
<1>3. ASSUME call' = None \/ call'.answer \in {None, "NETWORK"}
      PROVE  AnswersTrue' /\ PaymentsRecover'
  BY <1>3, NoAnswer DEF AnswersTrue, PaymentsRecover, Answers
<1> QED
  BY <1>1, <1>2, <1>3, CallChanges

(* A payment that goes on has found what is still so.                      *)
LEMMA FindingsStep ==
    ASSUME IInv, [Next]_vars PROVE FindingsHold'
<1>0. /\ TypeOK /\ FindingsHold /\ (call # None => call \in Call)
  BY DEF IInv, TypeOK
<1>1. CASE call' = call /\ ~Serve /\ ~GiveUp
  <2>1. ASSUME NEW r, r = call.reservation.id, call # None, call.op = "payment", call.answer = None,
               ~call.overlaps
        PROVE  /\ (~UnderWay(r))'
               /\ call.step # "sent" => rows'[r].status \notin {"PAID", "DECLINED"}
               /\ call.step \in {"pending", "inTime"} => rows'[r].status # "CANCELED"
    <3>1. call \in InFlight
      BY <2>1 DEF InFlight
    <3>2. r \in Ids /\ rows[r] # None
      BY <2>1, <3>1, CallAbout
    <3>3. ~UnderWay(r)
      BY <1>0, <2>1 DEF FindingsHold
    <3>4. (~UnderWay(r))' /\ (rows'[r] = rows[r] \/ rows'[r].status \in {rows[r].status, "EXPIRED"})
      BY <1>1, <3>2, <3>3, LeftAlone
    <3> QED
      BY <1>0, <2>1, <3>4 DEF FindingsHold
  <2> QED
    BY <1>1, <2>1 DEF FindingsHold, UnderWay, About
<1>2. CASE Serve
  <2>1. /\ call \in Call /\ call # None /\ call.answer = None /\ late' = late /\ Follows(call, call')
        /\ call.op = "payment" => Finds(call, call', rows')
    BY <1>2, Serving DEF Does
  <2>2. ASSUME call'.op = "payment", call'.answer = None, ~call'.overlaps PROVE FindingsHold'
    <3>1. /\ call.op = "payment" /\ ~call.overlaps /\ call'.reservation = call.reservation
          /\ rows' = rows /\ Finds(call, call', rows')
      BY <2>1, <2>2 DEF Follows, Finds
    <3>2. /\ ~UnderWay(call.reservation.id)
          /\ call.step = "pending" =>
               rows[call.reservation.id].status \notin {"PAID", "DECLINED", "CANCELED"}
      BY <1>0, <2>1, <3>1 DEF FindingsHold
    <3>3. ~\E c \in OfThem(late', call'.reservation.id) : c.answer = None
      BY <2>1, <3>1, <3>2 DEF UnderWay, About, OfThem
    <3> QED
      BY <2>2, <3>1, <3>2, <3>3 DEF Finds, FindingsHold, UnderWay, About, OfThem
  <2> QED
    BY <2>2 DEF FindingsHold
<1>3. ASSUME NEW result \in Results, Pay(result) PROVE FindingsHold'
  <2>1. /\ call'.step = "sent" /\ call'.reservation = reservation /\ late' = late
        /\ call'.overlaps = (reservation # None /\ UnderWay(reservation.id)) /\ reservation # None
    BY <1>3 DEF Pay, Send, office
  <2>2. ~call'.overlaps => ~\E c \in OfThem(late', call'.reservation.id) : c.answer = None
    BY <2>1 DEF UnderWay, About, OfThem
  <2> QED
    BY <2>1, <2>2 DEF FindingsHold, UnderWay, About, OfThem
<1>4. CASE call' = None \/ call'.op # "payment" \/ call'.answer # None
  BY <1>4 DEF FindingsHold
<1>5. CASE GiveUp
  <2>1. call'.answer = "NETWORK" /\ "NETWORK" # None
    BY <1>0, <1>5, Followed, NoAnswer DEF GiveUp, Answers
  <2> QED
    BY <1>4, <2>1
<1>6. CASE Customer /\ ~\E result \in Results : Pay(result)
  <2>1. call' = call \/ call'.op # "payment"
    BY <1>6 DEF Customer, ChangeQuantity, Continue, Back, SubmitLogin, Cancel, StartAgain, Send
  <2> QED
    BY <1>1, <1>2, <1>4, <1>5, <2>1
<1>7. CASE Page
  <2>1. call' = call \/ call' = None \/ call'.op # "payment"
    BY <1>0, <1>7 DEF Page, LoggedIn, Reserved, PaymentAnswered, CancelAnswered, IntervalFires, Reconciled, Answered, Call
  <2> QED
    BY <1>1, <1>2, <1>4, <1>5, <2>1
<1>8. CASE ServeLate \/ Expire \/ LookServed \/ Tick \/ UNCHANGED vars
  <2>1. call' = call
    BY <1>8 DEF ServeLate, Expire, LookServed, Tick, vars
  <2> QED
    BY <1>1, <1>2, <1>5, <2>1
<1> QED
  BY <1>2, <1>3, <1>5, <1>6, <1>7, <1>8 DEF Next, Api, Customer

-----------------------------------------------------------------------------
(* The page                                                                *)

Shape == PageFits /\ ReservationFits /\ QuantitiesFit /\ ShownIsTrue /\ ShownStock

LEMMA ApiShape ==
    ASSUME IInv, Api \/ Tick PROVE Shape'
<1> DEFINE r == reservation.id
           q == call.reservation.id
<1>0. /\ TypeOK /\ CallsFit /\ PageFits /\ ReservationFits /\ QuantitiesFit /\ ShownIsTrue /\ ShownStock
      /\ call # None => call \in Call
      /\ reservation # None => reservation \in Snapshot /\ r \in Ids
  BY SnapshotFields DEF IInv, TypeOK
<1>1. /\ UNCHANGED <<view, token, quantity, payment, paymentKey, paymentIntent, reservation, busy,
                     inventoryRestored, available>>
      /\ look' = look \/ LookServed
  BY DEF Api, Tick, Serve, GiveUp, ServeLate, Expire, LookServed, page, form
<1>2. /\ (call = None <=> call' = None)
      /\ call # None => /\ call'.op = call.op /\ call'.reservation = call.reservation
                        /\ call'.quantity = call.quantity
  <2>1. CASE Serve \/ GiveUp
    <3>1. call \in Call /\ call # None /\ "NETWORK" \in Answers
      BY <1>0, <2>1 DEF Serve, GiveUp, Answers
    <3>2. Follows(call, call')
      BY <2>1, <3>1, Serving, Followed DEF Does, GiveUp
    <3> QED
      BY <3>1, <3>2, NoNames DEF Follows
  <2>2. CASE ServeLate \/ Expire \/ LookServed \/ Tick
    BY <2>2 DEF ServeLate, Expire, LookServed, Tick
  <2> QED
    BY <2>1, <2>2 DEF Api
<1>3. ASSUME NEW s, s \in Ids, rows[s] # None
      PROVE  /\ rows'[s] # None
             /\ \A status \in Statuses \ {"PENDING_PAYMENT"} :
                   rows[s].status = status => rows'[s].status = status
  BY <1>3, RowsStep, RowsKept DEF Next, Statuses
<1>4. PageFits'
  <2>1. ASSUME call # None, call.op \in {"payment", "cancel"}, view # "pending"
        PROVE  rows'[q].status = "EXPIRED"
    <3>1. q \in Ids /\ rows[q] # None /\ rows[q].status = "EXPIRED"
      BY <1>0, <2>1, SnapshotFields DEF CallsFit, PageFits, InFlight, Call
    <3> QED
      BY <1>3, <3>1 DEF Statuses
  <2> QED
    BY <1>0, <1>1, <1>2, <2>1 DEF PageFits
<1>5. ReservationFits'
  <2>1. reservation # None => rows'[r] # None
    BY <1>0, <1>3 DEF ReservationFits
  <2>2. look' # "none" => view = "pending" /\ reservation # None
    BY <1>0, <1>1 DEF ReservationFits, LookServed
  <2>3. look' = "EXPIRED" => rows'[r].status = "EXPIRED"
    <3>1. CASE look' = look
      BY <1>0, <1>3, <2>2, <3>1 DEF ReservationFits, Statuses
    <3>2. CASE LookServed
      BY <3>2 DEF LookServed
    <3> QED
      BY <1>1, <3>1, <3>2
  <2> QED
    BY <1>0, <1>1, <2>1, <2>2, <2>3 DEF ReservationFits, Holding
<1>6. QuantitiesFit'
  BY <1>0, <1>1, <1>2 DEF QuantitiesFit
<1>7. ShownIsTrue'
  <2>1. ASSUME NEW v \in DOMAIN Outcome, view = v, reservation # None
        PROVE  rows'[r].status = Outcome[v] \/ (v = "expired" /\ SettledLate(r)')
    <3>1. Outcome[v] \in Statuses \ {"PENDING_PAYMENT"} /\ rows[r] # None
      BY <1>0, <2>1 DEF Outcome, Statuses, ReservationFits
    <3>2. CASE rows[r].status = Outcome[v]
      BY <1>0, <1>3, <2>1, <3>1, <3>2
    <3>3. CASE v = "expired" /\ SettledLate(r)
      <4>1. PICK p \in Ids : p = reservation.id
        BY <1>0, <2>1
      <4>2. rows[p] # None /\ SettledLate(p)
        BY <3>1, <3>3, <4>1
      <4>3. SettledLate(p)' /\ reservation' = reservation
        BY <1>0, <1>1, <4>2, SettledLateStays DEF Next
      <4> QED
        BY <2>1, <3>3, <4>1, <4>3 DEF SettledLate, About
    <3> QED
      BY <1>0, <2>1, <3>2, <3>3 DEF ShownIsTrue
  <2> QED
    BY <1>1, <2>1 DEF ShownIsTrue, SettledLate, About
<1>8. ShownStock'
  BY <1>0, <1>1 DEF ShownStock
<1> QED
  BY <1>4, <1>5, <1>6, <1>7, <1>8 DEF Shape

(* What the page shows as pending is what it showed, or was just made.     *)
LEMMA PendingBefore ==
    ASSUME IInv, [Next]_vars, view' = "pending"
    PROVE  \/ /\ view = "pending" /\ reservation # None /\ reservation.id \in Ids
              /\ reservation'.id = reservation.id
           \/ /\ Reserved /\ call # None /\ call.op = "reserve" /\ call.answer \in Ids
              /\ reservation'.id = call.answer
<1>0. /\ TypeOK /\ PageFits /\ ReservationFits /\ (call # None => call \in Call)
      /\ view = "pending" => reservation \in Snapshot /\ reservation.id \in Ids /\ reservation # None
  BY SnapshotFields DEF IInv, TypeOK, ReservationFits
<1>1. CASE Customer
  BY <1>0, <1>1 DEF Customer, ChangeQuantity, Continue, Back, SubmitLogin, Pay, Cancel, StartAgain, SetView
<1>2. CASE Reserved
  <2>1. call # None /\ call.op = "reserve" /\ view \in {"idle", "login"}
    BY <1>0, <1>2 DEF Reserved, Answered, PageFits
  <2> QED
    BY <1>2, <2>1 DEF Reserved, SetView
<1>3. CASE LoggedIn \/ PaymentAnswered \/ IntervalFires
  BY <1>0, <1>3 DEF LoggedIn, PaymentAnswered, IntervalFires, SetView
<1>4. CASE CancelAnswered
  BY <1>0, <1>4 DEF CancelAnswered, SetView
<1>5. CASE Reconciled
  <2>1. view = "pending" /\ reservation' = [reservation EXCEPT !.status = look] /\ look \in Statuses
    BY <1>0, <1>5 DEF Reconciled, Countdown, TypeOK, Statuses
  <2> QED
    BY <1>0, <2>1, SnapshotFields
<1>6. CASE Api \/ Tick \/ UNCHANGED vars
  BY <1>0, <1>6 DEF Api, Tick, Serve, GiveUp, ServeLate, Expire, LookServed, page, form, vars
<1> QED
  BY <1>1, <1>2, <1>3, <1>4, <1>5, <1>6 DEF Next, Page

(* The page's call, once it tells how a reservation was settled, is not    *)
(* forgotten while the page shows it as pending.                           *)
LEMMA TellingCallStays ==
    ASSUME IInv, [Next]_vars, view = "pending", view' = "pending", call # None,
           call.answer \in {"PAID", "DECLINED", "CANCELED"},
           call.op = IF call.answer = "CANCELED" THEN "cancel" ELSE "payment"
    PROVE  call' = call
<1>1. call.answer # None /\ busy = call.op /\ busy # Empty
  BY NoAnswer DEF IInv, PageFits, Answers, Empty
<1>2. CASE Customer
  BY <1>1, <1>2 DEF Customer, ChangeQuantity, Continue, Back, SubmitLogin, Pay, Cancel, StartAgain
<1>3. CASE Page
  BY <1>3 DEF Page, LoggedIn, Reserved, PaymentAnswered, CancelAnswered, IntervalFires, Reconciled,
     Answered, SetView
<1>4. CASE Api \/ Tick \/ UNCHANGED vars
  BY <1>1, <1>4 DEF Api, Tick, Serve, GiveUp, ServeLate, Expire, LookServed, vars
<1> QED
  BY <1>2, <1>3, <1>4 DEF Next

(* What settles the reservation of the page is its call or a late one.     *)
LEMMA SettledBy ==
    ASSUME IInv, [Next]_vars, view = "pending", reservation # None,
           NEW r \in Ids, r = reservation.id, rows[r] # None, rows'[r] # rows[r],
           rows'[r].status \in {"PAID", "DECLINED", "CANCELED"},
           rows[r].status \notin {"PAID", "DECLINED", "CANCELED"}
    PROVE  \/ SettledLate(r)'
           \/ /\ call' # None /\ call'.answer = rows'[r].status
              /\ call'.op = IF call'.answer = "CANCELED" THEN "cancel" ELSE "payment"
<1>1. CASE Serve
  <2>1. /\ call \in Call /\ call \in InFlight /\ call # None /\ Does(call, call', rows') /\ call' \in Call
    BY <1>1, Serving DEF Does, Follows
  <2>2. call.op \in {"payment", "cancel"}
    BY <2>1 DEF Does, Call
  <2>3. r = call.reservation.id
    BY <2>1, <2>2 DEF IInv, PageFits
  <2>4. call'.answer = rows'[r].status /\ call'.op = call.op
    BY <2>1, <2>2, <2>3 DEF Does, Touches, Follows
  <2>5. call'.op = IF call'.answer = "CANCELED" THEN "cancel" ELSE "payment"
    BY <2>1, <2>2, <2>4 DEF Does, Touches
  <2> QED
    BY <2>1, <2>4, <2>5, NoNames
<1>2. CASE ServeLate
  <2>1. PICK c \in late, d \in Call :
               /\ c \in Call /\ c \in InFlight /\ c.answer = None
               /\ Does(c, d, rows') /\ late' = (late \ {c}) \cup {d}
    BY <1>2, ServingLate
  <2>2. c.op \in {"payment", "cancel"}
    BY <2>1 DEF Does, Call
  <2>3. c.reservation.id = r
    BY <2>1, <2>2 DEF Does, Touches
  <2>4. d.answer = rows'[r].status /\ d.op = c.op /\ d.reservation = c.reservation
    BY <2>1, <2>2, <2>3 DEF Does, Touches, Follows
  <2> QED
    BY <2>1, <2>2, <2>3, <2>4 DEF SettledLate, About, OfThem
<1>3. CASE Expire \/ LookServed
  BY <1>3, Lapsing
<1>4. CASE GiveUp \/ Tick \/ Customer \/ Page \/ UNCHANGED vars
  BY <1>4, RowsRest
<1> QED
  BY <1>1, <1>2, <1>3, <1>4 DEF Next, Api

LEMMA SettlersStep ==
    ASSUME IInv, [Next]_vars PROVE SettlersKnown'
<1>0. /\ SettlersKnown /\ ReservationFits /\ NewUntouched
  BY DEF IInv
<1>1. ASSUME Reserved, call # None, call.op = "reserve", call.answer \in Ids,
             reservation'.id = call.answer
      PROVE  rows'[reservation'.id].status \notin {"PAID", "DECLINED", "CANCELED"}
  BY <1>0, <1>1 DEF NewUntouched, Reserved, office
<1>2. ASSUME view = "pending", view' = "pending", reservation # None,
             NEW r \in Ids, r = reservation.id,
             rows'[r].status \in {"PAID", "DECLINED", "CANCELED"}
      PROVE  \/ SettledLate(r)'
             \/ /\ call' # None /\ call'.answer = rows'[r].status
                /\ call'.op = IF call'.answer = "CANCELED" THEN "cancel" ELSE "payment"
  <2>0. rows[r] # None
    BY <1>0, <1>2 DEF ReservationFits
  <2>1. CASE rows[r].status \notin {"PAID", "DECLINED", "CANCELED"}
    BY <1>2, <2>0, <2>1, SettledBy
  <2>2. CASE rows[r].status \in {"PAID", "DECLINED", "CANCELED"}
    <3>1. rows'[r] = rows[r]
      BY <2>0, <2>2, RowsStep, RowsKept
    <3>2. CASE SettledLate(r)
      BY <2>0, <3>2, SettledLateStays
    <3>3. CASE ~SettledLate(r)
      <4>1. /\ call # None /\ call.answer = rows[r].status
            /\ call.op = IF call.answer = "CANCELED" THEN "cancel" ELSE "payment"
        BY <1>0, <1>2, <2>2, <3>3 DEF SettlersKnown
      <4>2. call' = call
        BY <1>2, <2>2, <4>1, TellingCallStays
      <4> QED
        BY <3>1, <4>1, <4>2
    <3> QED
      BY <3>2, <3>3
  <2> QED
    BY <2>1, <2>2
<1>3. ASSUME view' = "pending", rows'[reservation'.id].status \in {"PAID", "DECLINED", "CANCELED"}
      PROVE  \/ \E c \in OfThem(late', reservation'.id) : c.answer = rows'[reservation'.id].status
             \/ /\ call' # None /\ call'.answer = rows'[reservation'.id].status
                /\ call'.op = IF call'.answer = "CANCELED" THEN "cancel" ELSE "payment"
  <2>1. /\ view = "pending" /\ reservation # None /\ reservation.id \in Ids
        /\ reservation'.id = reservation.id
    BY <1>1, <1>3, PendingBefore
  <2>2. \A r \in Ids : r = reservation.id =>
           \/ SettledLate(r)'
           \/ /\ call' # None /\ call'.answer = rows'[r].status
              /\ call'.op = IF call'.answer = "CANCELED" THEN "cancel" ELSE "payment"
    BY <1>2, <1>3, <2>1
  <2> QED
    BY <2>1, <2>2 DEF SettledLate, About, OfThem
<1> QED
  BY <1>3 DEF SettlersKnown, SettledLate, About, OfThem

LEMMA CustomerShape ==
    ASSUME IInv, Customer PROVE Shape'
<1>0. /\ TypeOK /\ CallsFit /\ PageFits /\ ReservationFits /\ QuantitiesFit /\ ShownIsTrue /\ ShownStock
      /\ call # None => call \in Call /\ call.op \in {"login", "reserve", "payment", "cancel"}
      /\ reservation # None => /\ reservation \in Snapshot /\ reservation.id \in Ids
                               /\ reservation.quantity \in Nat
      /\ available \in Nat /\ quantity \in Nat \ {0} /\ Shown \in Nat
  BY Numbers, SnapshotFields, NumbersOfThePage DEF IInv, TypeOK, Call
<1>a. /\ UNCHANGED <<rows, late>>
      /\ Empty \notin {"login", "reserve", "payment", "cancel"} /\ Empty \notin Results
  BY DEF Customer, ChangeQuantity, Continue, Back, SubmitLogin, Pay, Cancel, StartAgain, office,
         Empty, Results
<1>1. CASE ChangeQuantity
  <2>1. /\ view = "idle" /\ UNCHANGED <<view, reservation, paymentKey, paymentIntent, busy,
                                       inventoryRestored, available, call, look>>
        /\ quantity' \in 1..(IF available < 6 THEN available ELSE 6)
    BY <1>1 DEF ChangeQuantity
  <2>2. quantity' <= Shown
    BY <1>0, <2>1 DEF ShownStock
  <2> QED
    BY <1>0, <1>a, <2>1, <2>2 DEF Shape, PageFits, ReservationFits, Holding, QuantitiesFit, ShownIsTrue, SettledLate, About, ShownStock
<1>2. CASE Continue
  <2>1. /\ view = "idle" /\ busy = Empty /\ available > 0 /\ call = None /\ reservation = None
        /\ UNCHANGED <<reservation, paymentKey, paymentIntent, inventoryRestored, available, quantity>>
        /\ Shown > 0 /\ quantity <= Shown
    <3>1. /\ view = "idle" /\ busy = Empty /\ available > 0
          /\ UNCHANGED <<reservation, paymentKey, paymentIntent, inventoryRestored, available, quantity>>
      BY <1>2 DEF Continue, KeepInventory, form
    <3>2. call = None /\ reservation = None
      BY <1>0, <1>a, <3>1 DEF PageFits, ReservationFits
    <3>3. available = Shown
      BY <1>0, <3>2 DEF ShownStock
    <3> QED
      BY <1>0, <3>1, <3>2, <3>3 DEF QuantitiesFit
  <2>2. \/ /\ UNCHANGED <<view, look>> /\ busy' = "reserve"
           /\ call' # None /\ call'.op = "reserve" /\ call'.quantity = quantity
        \/ view' = "login" /\ look' = "none" /\ UNCHANGED <<call, busy>>
    <3>1. CASE Send("reserve", 0, None) /\ SetBusy("reserve") /\ UNCHANGED <<view, look>>
      BY <1>0, <3>1, SentCall DEF SetBusy
    <3>2. CASE SetView("login") /\ UNCHANGED <<call, busy>>
      BY <2>1, <3>2 DEF SetView
    <3> QED
      BY <1>2, <3>1, <3>2 DEF Continue
  <2> QED
    BY <1>0, <1>a, <2>1, <2>2 DEF Shape, PageFits, ReservationFits, Holding, QuantitiesFit, ShownIsTrue, SettledLate, About, ShownStock
<1>3. CASE Back
  <2>1. /\ view = "login" /\ view' = "idle" /\ look' = "none" /\ reservation = None
        /\ UNCHANGED <<reservation, paymentKey, paymentIntent, inventoryRestored, available, quantity,
                      busy, call>>
    BY <1>0, <1>3 DEF Back, KeepInventory, form, SetView, ReservationFits
  <2> QED
    BY <1>0, <1>a, <2>1 DEF Shape, PageFits, ReservationFits, Holding, QuantitiesFit, ShownIsTrue, SettledLate, About, ShownStock
<1>4. CASE SubmitLogin
  <2>1. /\ view = "login" /\ busy' = "login" /\ reservation = None
        /\ call' # None /\ call'.op = "login" /\ call'.quantity = quantity
        /\ UNCHANGED <<reservation, paymentKey, paymentIntent, inventoryRestored, available, quantity,
                      view, look>>
    BY <1>0, <1>4, SentCall DEF SubmitLogin, KeepInventory, SetBusy, form, ReservationFits
  <2> QED
    BY <1>0, <1>a, <2>1 DEF Shape, PageFits, ReservationFits, Holding, QuantitiesFit, ShownIsTrue, SettledLate, About, ShownStock
<1>5. CASE Cancel \/ \E result \in Results : Pay(result)
  <2>1. /\ view = "pending" /\ reservation # None
        /\ UNCHANGED <<reservation, inventoryRestored, available, quantity, view, look>>
    BY <1>5 DEF Cancel, Pay, KeepInventory, form
  <2>2. /\ call' # None /\ call'.op \in {"payment", "cancel"} /\ busy' = call'.op
        /\ call'.reservation = reservation
    <3>1. ASSUME NEW result \in Results, Pay(result) PROVE paymentKey' \in Nat
      BY <3>1, CustomerTypes, Numbers DEF IInv, Pay
    <3> QED
      BY <1>0, <1>5, <3>1, SentCall DEF Cancel, Pay, SetBusy
  <2>3. paymentKey' = 0 <=> paymentIntent' = Empty
    <3>1. CASE Cancel
      BY <1>0, <3>1 DEF Cancel, form, ReservationFits
    <3>2. ASSUME NEW result \in Results, Pay(result) PROVE paymentKey' # 0 /\ paymentIntent' # Empty
      <4>1. paymentKey' # 0
        BY <1>0, <3>2, Numbers DEF Pay
      <4> QED
        BY <1>a, <3>2, <4>1 DEF Pay
    <3> QED
      BY <1>5, <3>1, <3>2
  <2> QED
    BY <1>0, <1>a, <2>1, <2>2, <2>3 DEF Shape, PageFits, ReservationFits, Holding, QuantitiesFit, ShownIsTrue, SettledLate, About, ShownStock
<1>6. CASE StartAgain
  <2>1. /\ view \in {"declined", "canceled", "expired"} /\ view' = "idle" /\ look' = "none"
        /\ reservation' = None /\ paymentKey' = 0 /\ paymentIntent' = Empty /\ quantity' = 1
        /\ UNCHANGED <<inventoryRestored, available, busy, call>>
    BY <1>6 DEF StartAgain, KeepInventory, SetView
  <2>2. call # None /\ call.op \in {"payment", "cancel"} =>
          inventoryRestored /\ rows[call.reservation.id].status = "EXPIRED"
    BY <1>0, <2>1 DEF PageFits
  <2>3. call # None => call.op \notin {"login", "reserve"}
    BY <1>0, <2>1 DEF PageFits
  <2> QED
    BY <1>0, <1>a, <2>1, <2>2, <2>3
       DEF Shape, PageFits, ReservationFits, Holding, QuantitiesFit, ShownIsTrue, Outcome, SettledLate, About, ShownStock
<1> QED
  BY <1>1, <1>2, <1>3, <1>4, <1>5, <1>6 DEF Customer

(* What an answer says of the reservation, when there is one, that the     *)
(* page shows: unless it has expired the page still shows it pending.      *)
LEMMA AnswerShown ==
    ASSUME IInv, NEW op \in {"payment", "cancel"}, Answered(op)
    PROVE  /\ call # None /\ call.op = op
           /\ call.reservation \in Snapshot /\ call.reservation.id \in Ids
           /\ call.reservation.quantity \in Nat /\ rows[call.reservation.id] # None
           /\ reservation # None => /\ reservation.id = call.reservation.id
                                    /\ reservation.quantity = call.reservation.quantity
           /\ view = "pending" =>
                /\ reservation # None /\ ~inventoryRestored
                /\ available = Shown - call.reservation.quantity
                /\ call.reservation.quantity <= Shown
           /\ view # "pending" =>
                /\ inventoryRestored /\ rows[call.reservation.id].status = "EXPIRED"
                /\ view \in {"idle", "login", "declined", "canceled", "expired"}
                /\ available = Shown /\ look = "none"
           /\ call.answer \in {"PAID", "DECLINED", "CANCELED"} =>
                view = "pending" /\ rows[call.reservation.id].status = call.answer
           /\ call.op = "payment" /\ call.answer = "RESERVATION_EXPIRED" =>
                rows[call.reservation.id].status = "EXPIRED" \/ SettledLate(call.reservation.id)
<1>0. /\ TypeOK /\ CallsFit /\ PageFits /\ ReservationFits /\ QuantitiesFit /\ ShownStock
      /\ AnswersTrue /\ PaymentsRecover
      /\ call # None /\ call.op = op /\ call \in Call /\ call \in InFlight
      /\ call.reservation \in Snapshot /\ Shown \in Nat
  BY AnsweredCall, NumbersOfThePage DEF IInv, TypeOK, CallsFit, Answered, InFlight
<1>1. /\ call.reservation.id \in Ids /\ call.reservation.quantity \in Nat
      /\ rows[call.reservation.id] # None
  BY <1>0, SnapshotFields DEF CallsFit
<1>2. reservation # None => /\ reservation.id = call.reservation.id
                            /\ reservation.quantity = call.reservation.quantity
  BY <1>0 DEF PageFits
<1>3. view = "pending" => /\ reservation # None /\ ~inventoryRestored
                          /\ available = Shown - call.reservation.quantity
                          /\ call.reservation.quantity <= Shown
  BY <1>0, <1>1, <1>2 DEF ReservationFits, Holding, QuantitiesFit, ShownStock
<1>4. view # "pending" => /\ inventoryRestored /\ rows[call.reservation.id].status = "EXPIRED"
                          /\ view \in {"idle", "login", "declined", "canceled", "expired"}
                          /\ available = Shown /\ look = "none"
  BY <1>0, <1>1, <1>2 DEF PageFits, ReservationFits, Holding, ShownStock, TypeOK, Views
<1>5. call.answer \in {"PAID", "DECLINED", "CANCELED"} =>
        view = "pending" /\ rows[call.reservation.id].status = call.answer
  BY <1>0, <1>4 DEF AnswersTrue
<1>6. call.op = "payment" /\ call.answer = "RESERVATION_EXPIRED" =>
        rows[call.reservation.id].status = "EXPIRED" \/ SettledLate(call.reservation.id)
  BY <1>0 DEF PaymentsRecover
<1> QED
  BY <1>0, <1>1, <1>2, <1>3, <1>4, <1>5, <1>6

LEMMA PageShape ==
    ASSUME IInv, Page PROVE Shape'
<1>0. /\ TypeOK /\ CallsFit /\ PageFits /\ ReservationFits /\ QuantitiesFit /\ ShownIsTrue /\ ShownStock
      /\ call # None => call \in Call /\ call.op \in {"login", "reserve", "payment", "cancel"}
      /\ reservation # None => /\ reservation \in Snapshot /\ reservation.id \in Ids
                               /\ reservation.quantity \in Nat
      /\ available \in Nat /\ quantity \in Nat \ {0} /\ Shown \in Nat
  BY Numbers, SnapshotFields, NumbersOfThePage DEF IInv, TypeOK, Call
<1>a. UNCHANGED <<rows, late>>
  BY DEF Page, LoggedIn, Reserved, PaymentAnswered, CancelAnswered, IntervalFires, Reconciled, office
<1>1. CASE LoggedIn
  <2>1. /\ call # None /\ call.op = "login"
        /\ UNCHANGED <<view, look, reservation, inventoryRestored, available, quantity,
                      paymentKey, paymentIntent>>
    BY <1>1 DEF LoggedIn, Answered, KeepInventory
  <2>2. \/ call' = None /\ busy' = Empty
        \/ /\ busy' = "reserve" /\ call' # None
           /\ call'.op = "reserve" /\ call'.quantity = call.quantity
    <3>1. CASE call.answer = "CUSTOMER"
      <4>1. call' = [call EXCEPT !.op = "reserve", !.answer = None] /\ busy' = "reserve"
        BY <1>1, <3>1 DEF LoggedIn, SetBusy
      <4>2. call' \in Call
        BY <1>0, <2>1, <4>1 DEF Call
      <4> QED
        BY <1>0, <2>1, <4>1, <4>2, NoNames DEF Call
    <3>2. CASE call.answer # "CUSTOMER"
      BY <1>1, <3>2 DEF LoggedIn, SetBusy
    <3> QED
      BY <3>1, <3>2
  <2> QED
    BY <1>0, <1>a, <2>1, <2>2 DEF Shape, PageFits, ReservationFits, Holding, QuantitiesFit, ShownIsTrue, SettledLate, About, ShownStock
<1>2. CASE Reserved
  <2>1. /\ call # None /\ call.op = "reserve" /\ call' = None /\ busy' = Empty
        /\ call.quantity \in Nat \ {0} /\ call.quantity <= Shown
        /\ UNCHANGED <<quantity, paymentKey, paymentIntent>>
        /\ view \in {"idle", "login"} /\ reservation = None /\ available = Shown /\ Shown > 0
        /\ paymentKey = 0 /\ look = "none"
    <3>1. /\ call # None /\ call.op = "reserve" /\ call' = None /\ busy' = Empty
          /\ UNCHANGED <<quantity, paymentKey, paymentIntent>>
      BY <1>2 DEF Reserved, Answered, SetBusy
    <3>2. view \in {"idle", "login"} /\ reservation = None /\ paymentKey = 0 /\ look = "none"
      BY <1>0, <3>1 DEF PageFits, ReservationFits
    <3>3. call.quantity \in Nat \ {0} /\ call.quantity <= Shown
      BY <1>0, <3>1 DEF QuantitiesFit, Call
    <3>4. available = Shown /\ Shown > 0
      BY <1>0, <3>2, <3>3 DEF ShownStock
    <3> QED
      BY <3>1, <3>2, <3>3, <3>4
  <2>2. CASE call.answer \in Ids
    <3>1. /\ inventoryRestored' = FALSE /\ view' = "pending" /\ look' = "none"
          /\ reservation' = [id |-> call.answer, status |-> "PENDING_PAYMENT",
                             quantity |-> call.quantity,
                             expiresAt |-> rows[call.answer].expiresAt]
          /\ available' = IF available > call.quantity THEN available - call.quantity ELSE 0
      BY <1>2, <2>1, <2>2, NoNames DEF Reserved, SetView, Answers
    <3>2. available' = Shown - call.quantity
      BY <1>0, <2>1, <3>1
    <3>3. rows[call.answer] # None
      BY <1>0, <2>1, <2>2 DEF CallsFit
    <3>4. reservation' # None
      <4>1. rows[call.answer] \in Row
        BY <1>0, <2>2, <3>3 DEF TypeOK
      <4>2. rows[call.answer].expiresAt \in Int
        BY <4>1 DEF Row
      <4>3. reservation' \in Snapshot
        BY <2>1, <2>2, <3>1, <4>2 DEF Snapshot, Statuses
      <4> QED
        BY <4>3, NoNames
    <3> QED
      BY <1>0, <1>a, <2>1, <3>1, <3>2, <3>3, <3>4
         DEF Shape, PageFits, ReservationFits, Holding, QuantitiesFit, ShownIsTrue, Outcome, SettledLate, About, ShownStock
  <2>3. CASE call.answer \notin Ids
    <3>1. /\ UNCHANGED <<available, inventoryRestored, reservation>>
          /\ look' = "none" /\ view' \in {view, "login"}
      BY <1>2, <2>1, <2>3 DEF Reserved, SetView, KeepInventory
    <3> QED
      BY <1>0, <1>a, <2>1, <3>1
         DEF Shape, PageFits, ReservationFits, Holding, QuantitiesFit, ShownIsTrue, Outcome, SettledLate, About, ShownStock
  <2> QED
    BY <2>2, <2>3
<1>3. CASE PaymentAnswered
  <2>1. Answered("payment") /\ call' = None /\ busy' = Empty
        /\ UNCHANGED <<quantity, paymentKey, paymentIntent, reservation>>
    BY <1>3 DEF PaymentAnswered, SetBusy
  <2>2. CASE call.answer = "PAID" /\ SetView("approved") /\ KeepInventory
    <3>1. /\ view = "pending" /\ view' = "approved" /\ look' = "none"
          /\ UNCHANGED <<available, inventoryRestored>>
      BY <2>1, <2>2, AnswerShown DEF SetView, KeepInventory
    <3> QED
      BY <1>0, <1>a, <2>1, <2>2, <3>1, AnswerShown
         DEF Shape, PageFits, ReservationFits, Holding, QuantitiesFit, ShownIsTrue, Outcome, SettledLate, About, ShownStock
  <2>3. CASE /\ call.answer \in {"DECLINED", "RESERVATION_EXPIRED"}
             /\ SetView(IF call.answer = "DECLINED" THEN "declined" ELSE "expired")
             /\ RestoreInventory(call.reservation.quantity)
    <3>1. available' = Shown /\ inventoryRestored' = TRUE
      BY <1>0, <2>1, <2>3, AnswerShown DEF RestoreInventory
    <3>2. /\ view' = IF call.answer = "DECLINED" THEN "declined" ELSE "expired"
          /\ look' = "none"
      BY <2>1, <2>3, AnswerShown DEF SetView
    <3>3. call.answer = "DECLINED" => reservation # None
      BY <2>1, AnswerShown
    <3>4. IF call.answer = "DECLINED"
          THEN rows[call.reservation.id].status = "DECLINED"
          ELSE rows[call.reservation.id].status = "EXPIRED" \/ SettledLate(call.reservation.id)
      BY <2>1, <2>3, AnswerShown DEF Answered
    <3> QED
      BY <1>0, <1>a, <2>1, <2>3, <3>1, <3>2, <3>3, <3>4, AnswerShown
         DEF Shape, PageFits, ReservationFits, Holding, QuantitiesFit, ShownIsTrue, Outcome, SettledLate, About, ShownStock
  <2>4. CASE KeepInventory /\ UNCHANGED <<view, look, payment>>
    <3>1. UNCHANGED <<available, inventoryRestored, view, look>>
      BY <2>4 DEF KeepInventory
    <3> QED
      BY <1>0, <1>a, <2>1, <3>1
         DEF Shape, PageFits, ReservationFits, Holding, QuantitiesFit, ShownIsTrue, SettledLate, About, ShownStock
  <2> QED
    BY <1>3, <2>2, <2>3, <2>4 DEF PaymentAnswered
<1>4. CASE CancelAnswered
  <2>1. Answered("cancel") /\ call' = None /\ busy' = Empty
        /\ UNCHANGED <<quantity, paymentKey, paymentIntent>>
    BY <1>4 DEF CancelAnswered, SetBusy, form
  <2>2. CASE call.answer = "CANCELED"
    <3>1. /\ reservation' = [call.reservation EXCEPT !.status = "CANCELED"]
          /\ RestoreInventory(call.reservation.quantity) /\ SetView("canceled")
      BY <1>4, <2>2 DEF CancelAnswered
    <3>2. /\ reservation' # None /\ reservation'.id = call.reservation.id
          /\ reservation'.quantity = call.reservation.quantity
      BY <2>1, <3>1, AnswerShown, SnapshotFields DEF Statuses
    <3>3. available' = Shown /\ inventoryRestored' = TRUE
      BY <1>0, <2>1, <2>2, <3>1, AnswerShown DEF RestoreInventory
    <3>4. view' = "canceled" /\ look' = "none"
      BY <2>1, <2>2, <3>1, AnswerShown DEF SetView
    <3> QED
      BY <1>0, <1>a, <2>1, <2>2, <3>2, <3>3, <3>4, AnswerShown
         DEF Shape, PageFits, ReservationFits, Holding, QuantitiesFit, ShownIsTrue, Outcome, SettledLate, About, ShownStock
  <2>3. CASE call.answer # "CANCELED"
    <3>1. UNCHANGED <<available, inventoryRestored, view, look, reservation>>
      BY <1>4, <2>3 DEF CancelAnswered, KeepInventory
    <3> QED
      BY <1>0, <1>a, <2>1, <3>1
         DEF Shape, PageFits, ReservationFits, Holding, QuantitiesFit, ShownIsTrue, SettledLate, About, ShownStock
  <2> QED
    BY <2>2, <2>3
<1>5. CASE IntervalFires
  <2>1. /\ view = "pending" /\ look' = "asked"
        /\ UNCHANGED <<view, quantity, paymentKey, paymentIntent, reservation, busy, call,
                      inventoryRestored, available>>
    BY <1>5 DEF IntervalFires, Countdown, form
  <2> QED
    BY <1>0, <1>a, <2>1
       DEF Shape, PageFits, ReservationFits, Holding, QuantitiesFit, ShownIsTrue, SettledLate, About, ShownStock
<1>6. CASE Reconciled
  <2>1. /\ view = "pending" /\ reservation # None /\ look \in Statuses /\ look' = "none"
        /\ UNCHANGED <<quantity, paymentKey, paymentIntent, busy, call>>
        /\ reservation' = [reservation EXCEPT !.status = look]
    BY <1>0, <1>6 DEF Reconciled, Countdown, form, TypeOK, Statuses
  <2>2. /\ reservation' # None /\ reservation'.id = reservation.id
        /\ reservation'.quantity = reservation.quantity
    BY <1>0, <2>1, SnapshotFields
  <2>3. ~inventoryRestored /\ available = Shown - reservation.quantity
    BY <1>0, <2>1 DEF ReservationFits, Holding, ShownStock
  <2>4. CASE look = "EXPIRED"
    <3>1. view' = "expired" /\ inventoryRestored' = TRUE /\ available' = Shown
      <4>1. RestoreInventory(reservation.quantity) /\ view' = "expired"
        BY <1>6, <2>4 DEF Reconciled
      <4> QED
        BY <1>0, <2>1, <2>3, <4>1 DEF RestoreInventory
    <3>2. rows[reservation.id].status = "EXPIRED"
      BY <1>0, <2>4 DEF ReservationFits
    <3> QED
      BY <1>0, <1>a, <2>1, <2>2, <3>1, <3>2
         DEF Shape, PageFits, ReservationFits, Holding, QuantitiesFit, ShownIsTrue, Outcome, SettledLate, About, ShownStock
  <2>5. CASE look # "EXPIRED"
    <3>1. UNCHANGED <<view, available, inventoryRestored>>
      BY <1>6, <2>5 DEF Reconciled, KeepInventory
    <3> QED
      BY <1>0, <1>a, <2>1, <2>2, <3>1
         DEF Shape, PageFits, ReservationFits, Holding, QuantitiesFit, ShownIsTrue, Outcome, SettledLate, About, ShownStock
  <2> QED
    BY <2>4, <2>5
<1> QED
  BY <1>1, <1>2, <1>3, <1>4, <1>5, <1>6 DEF Page

-----------------------------------------------------------------------------
(* The invariant                                                           *)

LEMMA Starts ==
    ASSUME Init PROVE IInv
<1>1. TypeOK
  <2>1. "idle" \in Views /\ Shown \in Nat
    BY NumbersOfThePage DEF Views
  <2>2. rows \in [Ids -> Row \cup {None}] /\ available \in Nat
    BY <2>1 DEF Init
  <2>3. 0 \in Nat /\ 1 \in Nat \ {0}
    OBVIOUS
  <2> QED
    BY <2>1, <2>2, <2>3 DEF Init, TypeOK
<1>2. /\ late = {} /\ call = None /\ reservation = None /\ paymentKey = 0 /\ paymentIntent = Empty
      /\ \A r \in Ids : rows[r] = None
      /\ view = "idle" /\ busy = Empty /\ look = "none" /\ quantity = 1 /\ available = Shown
  BY DEF Init
<1>3. InFlight = {} /\ Charges = {}
  BY <1>2 DEF InFlight, Asked, Meant, Made, Charges
<1>4. OneKeyEach /\ Recorded /\ FreshUnpaid /\ RowsKeyed /\ CallsFit /\ NewUntouched
      /\ AnswersTrue /\ PaymentsRecover /\ FindingsHold /\ SettlersKnown
  BY <1>2, <1>3 DEF OneKeyEach, Recorded, FreshUnpaid, RowsKeyed, CallsFit, NewUntouched, AnswersTrue,
     PaymentsRecover, FindingsHold, SettlersKnown
<1>5. PageFits /\ ReservationFits /\ QuantitiesFit
  BY <1>2 DEF PageFits, ReservationFits, QuantitiesFit
<1>6. ShownIsTrue /\ ShownStock
  BY <1>2, NumbersOfThePage DEF ShownIsTrue, ShownStock
<1> QED
  BY <1>1, <1>4, <1>5, <1>6 DEF IInv

(* The invariant of the page and its calls holds in every state.           *)
THEOREM Inductive == Spec => []IInv
<1>1. ASSUME IInv, [Next]_vars PROVE IInv'
  <2>1. Shape'
    <3>1. UNCHANGED vars => Shape'
      BY <1>1 DEF IInv, Shape, vars, office, form, PageFits, ReservationFits, Holding, QuantitiesFit,
                  ShownIsTrue, SettledLate, About, ShownStock
    <3> QED
      BY <1>1, <3>1, CustomerShape, PageShape, ApiShape DEF Next
  <2>2. TypeOK' /\ RowsKeyed'
    BY <1>1, TypesStep, RowsStep, RowsKept
  <2> QED
    BY <1>1, <2>1, <2>2, ChargesStep, CallsStep, NewStep, AnswersStep, FindingsStep,
     SettlersStep DEF IInv, Shape
<1> QED
  BY <1>1, Starts, PTL DEF Spec

-----------------------------------------------------------------------------
(* What follows                                                            *)

(* Every state of the page and every row of the office keeps its type.     *)
THEOREM WellTyped == Spec => []TypeOK
BY Inductive, PTL DEF IInv

(* Approved, declined, canceled: what the page says of the reservation is  *)
(* so at the API, whatever answers were lost and whatever the API served   *)
(* late.  Expired: so it is, or else a call that the browser gave up has   *)
(* settled the reservation.                                                *)
THEOREM PageTellsTheTruth == Spec => []ShownIsTrue
BY Inductive, PTL DEF IInv

(* The availability that is shown counts the places held once.             *)
THEOREM StockIsShownOnce == Spec => []ShownStock
BY Inductive, PTL DEF IInv

(* Attempts to pay again, under the key and for the result of the first,   *)
(* are never refused for their key.  Sent when no call that was given up   *)
(* is under way, they are told not payable only if canceled and expired    *)
(* only if expired; otherwise they may also meet the reservation as that   *)
(* call settled it.                                                        *)
THEOREM RetriesRecover == Spec => []PaymentsRecover
BY Inductive, PTL DEF IInv
=============================================================================
