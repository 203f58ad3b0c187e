----------------------------- MODULE MCAdmission -----------------------------
(* Small instances of Admission for TLC. *)
EXTENDS Admission, TLC

CONSTANTS p1, p2, p3, t1, t2, c1, c2, g1, g2, e1, e2, k0, k1, k2, k3, k4

(* An unused field of a request keeps a value that its operation ignores   *)
Req(op) == [op |-> op, user |-> c1, ticket |-> t1, token |-> k0, event |-> e1]
Scan(g, t, e) == [Req("validate") EXCEPT !.user = g, !.ticket = t, !.event = e]
AsUser(c, op) == [Req(op) EXCEPT !.user = c]

(* Codes expire at tick 3, which is in the second that begins at tick 2    *)
MCEndsAt  == (e1 :> 2) @@ (e2 :> 1)
MCEventOf == [t \in Tickets |-> e1]
MCOwnerOf == [t \in Tickets |-> c1]
MCShared  == [t \in Tickets |-> IF t = t1 THEN k0 ELSE k4]
NoLink    == [t \in Tickets |-> None]

Three(a, b, c) == (p1 :> a) @@ (p2 :> b) @@ (p3 :> c)

(* Two gates and a visitor, with a ticket whose code is about; or with one *)
(* whose first code is issued twice                                        *)
FirstQr == [Req("qr") EXCEPT !.ticket = t2]

Crowded ==
    {Three(Scan(g1, t1, e1), b, c) :
        b \in {Scan(g2, t1, e1), Scan(g2, t1, e2), Scan(g2, None, e1)},
        c \in {Req("qr"), AsUser(c2, "qr"), Req("shared"), Scan(g1, t1, e1)}}
    \cup {Three(Scan(g1, t2, e1), FirstQr, c) :
              c \in {FirstQr, Scan(g2, t2, e1), [Req("shared") EXCEPT !.token = k4]}}

(* A link is replaced, revoked and opened at once, or tried by a stranger  *)
Replaced ==
    {Three(Req("share"), b, c) :
        b \in {Req("share"), Req("revoke")}, c \in {Req("share"), Req("revoke"), Req("shared")}}
    \cup {Three(Req("share"), Req("revoke"), c) :
              c \in {AsUser(c2, "share"), AsUser(c2, "revoke"),
                     [Req("shared") EXCEPT !.token = None], [Req("shared") EXCEPT !.token = k1]}}

Admitting == Crowded \cup Replaced
=============================================================================
