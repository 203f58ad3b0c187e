----------------------------- MODULE MCProgramme -----------------------------
(* Small instances of Programme for TLC. *)
EXTENDS Programme, TLC

CONSTANTS p1, p2, p3, u1, u2, e1, e2, e3, d0, d1

(* A draft of u1 that starts at 5 and ends at 7, and room for two drafts  *)
Draft == [owner |-> u1, startsAt |-> 5, endsAt |-> 7, details |-> d0,
          capacity |-> 1, available |-> 1, status |-> "DRAFT"]
OneDraft == (e1 :> Draft) @@ (e2 :> None) @@ (e3 :> None)

Req(op) == [op |-> op, user |-> u1, event |-> e1, startsAt |-> None, endsAt |-> None,
            zone |-> TRUE, details |-> None, capacity |-> None, quantity |-> 1]
Publish == Req("publish")
Book    == [Req("reserve") EXCEPT !.user = u2]
Edit(starts, ends, n) ==
    [Req("edit") EXCEPT !.startsAt = starts, !.endsAt = ends, !.capacity = n]
Create(starts) ==
    [Req("create") EXCEPT !.startsAt = starts, !.endsAt = 7, !.details = d1, !.capacity = 2]
By(u, r) == [r EXCEPT !.user = u]

Three(a, b, c) == (p1 :> a) @@ (p2 :> b) @@ (p3 :> c)

(* Edits, publications and bookings of one draft; films searched and       *)
(* drafts made                                                             *)
Programmed ==
    {Three(a, b, Book) : a \in {Publish, Edit(None, 3, 3)},
                         b \in {Publish, Edit(6, None, 2), By(u2, Publish)}}
    \cup {Three(Edit(2, None, None), Publish, c) :
              c \in {[Edit(2, 3, 3) EXCEPT !.details = d1], Edit(None, None, 2)}}
    \cup {Three(Edit(6, None, None), b, Edit(None, 6, None)) :
              b \in {By(u2, Edit(6, None, 2)), [Publish EXCEPT !.event = e2],
                     [Edit(6, None, None) EXCEPT !.zone = FALSE]}}
    \cup {Three(a, b, Req("search")) : a \in {Req("search"), Create(3)},
              b \in {Create(3), Create(0), [Create(3) EXCEPT !.zone = FALSE]}}

LateEdit == {Three(Edit(2, None, None), Publish, Book)}
TwoEdits == {Three(Edit(6, None, None), Edit(None, 6, None), Publish)}
=============================================================================
