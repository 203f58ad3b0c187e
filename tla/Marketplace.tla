----------------------------- MODULE Marketplace -----------------------------
(***************************************************************************)
(* Marketplace, the page of the published events: its searches and pages,  *)
(* whose answers may overtake each other.                                  *)
(***************************************************************************)
EXTENDS Tab

CONSTANTS
    Texts,          \* what may be searched for: "" and texts of 2 characters on
    TotalPages,     \* how many pages of events a text has
    MaxAsked        \* bound: how many lists a visit asks for

MarketPage == [name : {"market"}, status : {"loading", "ready", "error"},
               activeSearch : Texts,
               requestSequence : Nat,
               shown : (Texts \X Nat) \cup {None},    \* which list `events` is
               metaPage : Nat,
               asked : Texts \X Nat]    \* what loadEvents was last called with

(* loadEvents, up to its call                                              *)
LoadList(p, query, n) ==
    /\ p.requestSequence < MaxAsked /\ CanCall
    /\ page' = [p EXCEPT !.requestSequence = @ + 1, !.status = "loading", !.asked = <<query, n>>]
    /\ calls' = calls \cup
         {Call("list", [sequence |-> p.requestSequence + 1, query |-> query, page |-> n])}

MarketMounted ==
    [name |-> "market", status |-> "loading", activeSearch |-> Empty, requestSequence |-> 0,
     shown |-> None, metaPage |-> 1, asked |-> <<Empty, 1>>]

OpenMarket == page = Elsewhere /\ LoadList(MarketMounted, Empty, 1)

LeaveMarket == On("market") /\ page' = Elsewhere /\ calls' = {}

(* Mutant of ListAnswered: whichever answer comes                          *)
AnyListAnswered(c) ==
    /\ On("market") /\ c.op = "list" /\ calls' = calls \ {c}
    /\ page' \in {[page EXCEPT !.status = "ready", !.metaPage = c.about.page,
                              !.shown = <<c.about.query, c.about.page>>],
                  [page EXCEPT !.status = "error", !.shown = None]}

(* Only the answer to the last call is taken, or its failure.              *)
ListAnswered(c) ==
    /\ On("market") /\ c.op = "list" /\ calls' = calls \ {c}
    /\ page' \in IF c.about.sequence # page.requestSequence THEN {page}
                 ELSE {[page EXCEPT !.status = "ready", !.metaPage = c.about.page,
                                   !.shown = <<c.about.query, c.about.page>>],
                       [page EXCEPT !.status = "error", !.shown = None]}

Search(text) == On("market") /\ LoadList([page EXCEPT !.activeSearch = text], text, 1)

(* A text of one character is refused; a call in flight goes on.           *)
SearchRefused ==
    /\ On("market")
    /\ page' = [page EXCEPT !.status = "error"] /\ UNCHANGED calls

ClearSearch ==
    /\ On("market") /\ page.activeSearch # Empty
    /\ LoadList([page EXCEPT !.activeSearch = Empty], Empty, 1)

(* The buttons below a list that has events                                *)
Offers(n) ==
    LET total == TotalPages[page.shown[1]] IN
    page.metaPage <= total /\ n \in {page.metaPage - 1, page.metaPage + 1} \cap 1..total

ChangePage(n) ==
    /\ On("market") /\ page.status = "ready" /\ Offers(n)
    /\ LoadList(page, page.activeSearch, n)

(* The button of the error, for the page number of the last list           *)
Retry ==
    /\ On("market") /\ page.status = "error"
    /\ LoadList(page, page.activeSearch, page.metaPage)

Visitor ==
    \/ OpenMarket \/ LeaveMarket \/ SearchRefused \/ ClearSearch \/ Retry
    \/ (\E text \in Texts : Search(text)) \/ (On("market") /\ \E n \in 1..page.metaPage + 1 : ChangePage(n))

MarketNext == Visitor \/ \E c \in calls : ListAnswered(c)

-----------------------------------------------------------------------------
(* Answers that overtake each other show nothing wrong: the list on the    *)
(* screen is the one last asked for, under the text that its heading says. *)
ShownIsAsked ==
    On("market") /\ page.status = "ready" =>
        /\ page.shown = page.asked
        /\ page.shown[1] = page.activeSearch /\ page.shown[2] = page.metaPage

-----------------------------------------------------------------------------
(* Why this holds: the call that was made last is the one for what was     *)
(* asked last, under the search that is active.                            *)
MarketFits ==
    On("market") =>
        /\ page \in MarketPage
        /\ page.asked[1] = page.activeSearch
        /\ page.status = "ready" => page.shown = page.asked /\ page.metaPage = page.asked[2]
        /\ \A c \in calls :
             /\ c.op = "list" /\ c.about.query \in Texts /\ c.about.page \in Nat
             /\ c.about.sequence \in 1..page.requestSequence
             /\ c.about.sequence = page.requestSequence =>
                  page.asked = <<c.about.query, c.about.page>>

ASSUME EverythingMayBeSearched == Empty \in Texts /\ None \notin Texts \X Nat
=============================================================================
