------------------------------- MODULE Browser -------------------------------
(***************************************************************************)
(* A tab of the web application in which one person opens, uses and leaves *)
(* the pages in any order: the marketplace, the wallet, the page of a      *)
(* ticket, the studio of the organizer and the console of the gate.  What  *)
(* outlives a visit is the camera that was still starting when it ended.   *)
(***************************************************************************)
EXTENDS GateConsole, Marketplace, Wallet, TicketPage, OrganizerStudio

vars == <<page, calls, cameras, shares, ownEvents>>

Init ==
    /\ page = Elsewhere /\ calls = {} /\ cameras = {}
    /\ shares = NoTicket /\ ownEvents = NoEvents

(* The other pages are opened once no camera is left (a bound): cameras    *)
(* set the state of the gate's page only.                                  *)
AtGate == GateNext /\ UNCHANGED <<shares, ownEvents>>
AtMarket == cameras = {} /\ MarketNext /\ UNCHANGED <<cameras, shares, ownEvents>>
AtWallet == cameras = {} /\ WalletNext /\ UNCHANGED <<cameras, shares, ownEvents>>
AtTicket == cameras = {} /\ TicketNext /\ UNCHANGED <<cameras, ownEvents>>
AtStudio == cameras = {} /\ StudioNext /\ UNCHANGED <<cameras, shares>>

Next == AtGate \/ AtMarket \/ AtWallet \/ AtTicket \/ AtStudio
Spec == Init /\ [][Next]_vars

(* Timers fire, a stream that was attached plays or is refused, and a call *)
(* for a list of the studio is answered or fails; nothing else has to      *)
(* happen, and people least of all.                                        *)
TimeoutOf(n) == (\E c \in cameras : c.n = n /\ TimesOut(c)) /\ UNCHANGED <<shares, ownEvents>>
PlaybackOf(n) ==
    /\ \E c \in cameras : c.n = n /\ c.phase = "attached" /\ (Returned(c) \/ Refused(c))
    /\ UNCHANGED <<shares, ownEvents>>
StudioList ==
    /\ \E c \in calls : c.op = "list" /\ StudioAnswer(c)
    /\ UNCHANGED <<cameras, shares>>

FairSpec ==
    /\ Spec
    /\ \A n \in 1..MaxStarts : WF_vars(TimeoutOf(n)) /\ WF_vars(PlaybackOf(n))
    /\ WF_vars(StudioList)

-----------------------------------------------------------------------------
(* Every page has its state, and what is left of none is not kept.         *)
TypeOK ==
    /\ page \in {Elsewhere} \cup GatePage \cup MarketPage \cup WalletPage
                \cup TicketPages \cup StudioPage
    /\ Cardinality(calls) <= 2 * MaxCalls    \* a handler may wait for two
    /\ On("ticket") => Cardinality(calls) <= 1
    /\ cameras \subseteq Camera
    /\ shares \in Shares
    /\ ownEvents \in [Events -> Stored \cup {None}]

-----------------------------------------------------------------------------
(* Why the promises of the pages hold: each page fits its calls while it   *)
(* is shown, and leaves nothing to the next.                               *)
OnOne(names) == \E name \in names : On(name)

PagesApart ==
    /\ page = Elsewhere => calls = {}
    /\ page = Elsewhere \/ OnOne({"gate", "market", "wallet", "ticket", "studio"})
    /\ OnOne({"market", "wallet", "ticket", "studio"}) => cameras = {}

(* A call of a handler that goes on with two counts for both.              *)
Double(c) == c.op \in {"save", "publish"}
Weight(cs) == Cardinality(cs) + Cardinality({c \in cs : Double(c)})

Bounded ==
    /\ IsFiniteSet(calls) /\ Weight(calls) <= 2 * MaxCalls
    /\ shares \in Shares /\ ownEvents \in [Events -> Stored \cup {None}]

IInv ==
    /\ PagesApart /\ GateFits /\ MarketFits /\ WalletFits /\ TicketFits /\ StudioFits
    /\ WalletIsOwn /\ PanelIsTrue /\ FormsStayWithEvents /\ Bounded
=============================================================================
