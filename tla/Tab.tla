--------------------------------- MODULE Tab ---------------------------------
(***************************************************************************)
(* What the pages of the web application have in common: the tab shows one *)
(* of them, whose React state and refs are the record `page`, and the      *)
(* calls it has in flight are answered in any order.  A page that is left  *)
(* takes its calls with it: their continuations set the state of nothing.  *)
(***************************************************************************)
EXTENDS Integers, FiniteSets

CONSTANTS
    Events,
    None,
    Failed,       \* the answer of a call that is refused or lost
    MaxCalls      \* bound: how many calls a page has in flight at once

VARIABLES
    page,         \* the state of the page that the tab shows
    calls         \* its calls in flight

Empty == ""    \* the string of a state that is about nothing

Elsewhere == [name |-> "elsewhere"]
On(name) == page.name = name

(* apiRequest: a call about something, told apart from those in flight     *)
(* about the same                                                          *)
CanCall == Cardinality(calls) < MaxCalls
Number(about) ==
    CHOOSE n \in 0..MaxCalls :
        /\ \A c \in calls : c.about = about => c.n # n
        /\ \A m \in 0..n - 1 : \E c \in calls : c.about = about /\ c.n = m
Call(op, about) == [n |-> Number(about), op |-> op, about |-> about, answer |-> None]

ASSUME CallsAreBounded == MaxCalls \in Nat \ {0}
ASSUME AnswersApart ==
    /\ None # Failed
    /\ {None, Failed} \cap (Events \cup {"OK", "REVOKED"}) = {}
=============================================================================
