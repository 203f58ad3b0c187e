---------------------------- MODULE BrowserProofs ----------------------------
(***************************************************************************)
(* Proofs about module Browser, for any events, texts and customers and    *)
(* any bounds: that each page fits the calls that it has in flight (IInv), *)
(* and that the pages therefore keep what they promise (ShownIsAsked,      *)
(* WalletIsOwn, PanelIsTrue, FormsStayWithEvents, NoticeIsTrue and         *)
(* ScansStayInEvent) and their types.  A step is taken on one page, and    *)
(* leaves it or not: there is a section for each page, one for the number  *)
(* of calls, and one for the tab.                                          *)
(***************************************************************************)
EXTENDS Browser, FiniteSetTheorems, TLAPS

(* A page that is left takes its calls with it.                            *)
Left == page' = Elsewhere /\ calls' = {}

-----------------------------------------------------------------------------
(* The marketplace                                                         *)

(* What a list asked for leaves behind: its call is the last one.          *)
LEMMA ListAsked ==
    ASSUME NEW p \in MarketPage, NEW query \in Texts, NEW n \in Nat,
           p.activeSearch = query,
           \A c \in calls :
             /\ c.op = "list" /\ c.about.query \in Texts /\ c.about.page \in Nat
             /\ c.about.sequence \in 1..p.requestSequence,
           LoadList(p, query, n)
    PROVE  On("market")' /\ MarketFits'
<1> DEFINE k == p.requestSequence + 1
           l == <<query, n>>
           q == [p EXCEPT !.requestSequence = k, !.status = "loading", !.asked = l]
           d == Call("list", [sequence |-> p.requestSequence + 1, query |-> query, page |-> n])
<1>0. k \in Nat /\ l \in Texts \X Nat
  BY DEF MarketPage
<1>1. /\ q \in MarketPage /\ q.status = "loading" /\ q.asked = l
      /\ q.activeSearch = query /\ q.requestSequence = k /\ q.name = "market"
  <2> HIDE DEF k, l
  <2> QED  BY <1>0 DEF MarketPage
<1>2. /\ d.op = "list" /\ d.about.query = query /\ d.about.page = n
      /\ d.about.sequence = p.requestSequence + 1
  BY DEF Call
<1>3. p.requestSequence \in Nat
  BY DEF MarketPage
<1>4. page' = q /\ calls' = calls \cup {d}
  BY DEF LoadList
<1> HIDE DEF q, d
<1> QED
  BY <1>1, <1>2, <1>3, <1>4 DEF MarketFits, On

LEMMA MarketStep ==
    ASSUME IInv, AtMarket
    PROVE  MarketFits' /\ (Left \/ On("market")')
<1>1. CASE OpenMarket
  <2>1. calls = {} /\ LoadList(MarketMounted, Empty, 1)
    BY <1>1 DEF OpenMarket, IInv, PagesApart
  <2>2. MarketMounted \in MarketPage /\ MarketMounted.activeSearch = Empty
    BY EverythingMayBeSearched DEF MarketMounted, MarketPage
  <2> QED
    BY <2>1, <2>2, ListAsked, EverythingMayBeSearched
<1>2. CASE LeaveMarket
  BY <1>2 DEF LeaveMarket, Left, MarketFits, On, Elsewhere
<1>3. ASSUME On("market") PROVE /\ page \in MarketPage /\ MarketFits
                                /\ \A c \in calls :
                                     /\ c.op = "list" /\ c.about.query \in Texts /\ c.about.page \in Nat
                                     /\ c.about.sequence \in 1..page.requestSequence
  BY <1>3 DEF IInv, MarketFits
<1>4. CASE SearchRefused
  <2> DEFINE q == [page EXCEPT !.status = "error"]
  <2>1. q \in MarketPage /\ q.name = "market" /\ q.asked = page.asked
        /\ q.activeSearch = page.activeSearch /\ q.status = "error"
        /\ q.requestSequence = page.requestSequence
    BY <1>3, <1>4 DEF MarketPage, SearchRefused
  <2>2. page' = q /\ calls' = calls
    BY <1>4 DEF SearchRefused
  <2> HIDE DEF q
  <2> QED
    BY <1>3, <1>4, <2>1, <2>2 DEF MarketFits, On, SearchRefused
<1>5. CASE \E text \in Texts : Search(text)
  <2>1. PICK text \in Texts : Search(text)
    BY <1>5
  <2> DEFINE p == [page EXCEPT !.activeSearch = text]
  <2>2. On("market") /\ LoadList(p, text, 1)
    BY <2>1 DEF Search
  <2>3. p \in MarketPage /\ p.activeSearch = text /\ p.requestSequence = page.requestSequence
    BY <1>3, <2>2 DEF MarketPage
  <2> HIDE DEF p
  <2> QED
    BY <1>3, <2>2, <2>3, ListAsked
<1>6. CASE ClearSearch
  <2> DEFINE p == [page EXCEPT !.activeSearch = Empty]
  <2>2. On("market") /\ LoadList(p, Empty, 1)
    BY <1>6 DEF ClearSearch
  <2>3. p \in MarketPage /\ p.activeSearch = Empty /\ p.requestSequence = page.requestSequence
    BY <1>3, <2>2, EverythingMayBeSearched DEF MarketPage
  <2> HIDE DEF p
  <2> QED
    BY <1>3, <2>2, <2>3, ListAsked, EverythingMayBeSearched
<1>7. CASE Retry
  <2>1. On("market") /\ LoadList(page, page.activeSearch, page.metaPage)
    BY <1>7 DEF Retry
  <2>2. page.activeSearch \in Texts /\ page.metaPage \in Nat
    BY <1>3, <2>1 DEF MarketPage
  <2> QED
    BY <1>3, <2>1, <2>2, ListAsked
<1>8. CASE On("market") /\ \E n \in 1..page.metaPage + 1 : ChangePage(n)
  <2>1. PICK n \in 1..page.metaPage + 1 : ChangePage(n)
    BY <1>8
  <2>2. page.activeSearch \in Texts /\ n \in Nat
    BY <1>3, <1>8 DEF MarketPage
  <2>3. LoadList(page, page.activeSearch, n)
    BY <2>1 DEF ChangePage
  <2> QED
    BY <1>3, <1>8, <2>2, <2>3, ListAsked
<1>9. ASSUME NEW c \in calls, ListAnswered(c) PROVE MarketFits' /\ On("market")'
  <2>1. On("market") /\ calls' = calls \ {c}
    BY <1>9 DEF ListAnswered
  <2> DEFINE l == <<c.about.query, c.about.page>>
             r == [page EXCEPT !.status = "ready", !.metaPage = c.about.page, !.shown = l]
             e == [page EXCEPT !.status = "error", !.shown = None]
  <2>2. c.about.query \in Texts /\ c.about.page \in Nat /\ l \in Texts \X Nat
    BY <1>3, <2>1
  <2>3. /\ r \in MarketPage /\ r.name = "market" /\ r.asked = page.asked
        /\ r.activeSearch = page.activeSearch /\ r.requestSequence = page.requestSequence
        /\ r.shown = l /\ r.metaPage = c.about.page
    <3> HIDE DEF l
    <3> QED  BY <1>3, <2>1, <2>2 DEF MarketPage
  <2>4. /\ e \in MarketPage /\ e.name = "market" /\ e.asked = page.asked
        /\ e.activeSearch = page.activeSearch /\ e.requestSequence = page.requestSequence
        /\ e.status = "error"
    BY <1>3, <2>1 DEF MarketPage
  <2>5. CASE c.about.sequence # page.requestSequence
    <3>1. page' = page
      BY <1>9, <2>5 DEF ListAnswered
    <3> QED
      BY <1>3, <2>1, <3>1 DEF MarketFits, On
  <2>6. CASE c.about.sequence = page.requestSequence
    <3>1. page' \in {r, e}
      BY <1>9, <2>6 DEF ListAnswered
    <3>2. page.asked = l
      BY <1>3, <2>1, <2>6 DEF MarketFits
    <3>3. l[2] = c.about.page
      OBVIOUS
    <3> HIDE DEF r, e, l
    <3> QED
      BY <1>3, <2>1, <2>3, <2>4, <3>1, <3>2, <3>3 DEF MarketFits, On
  <2> QED
    BY <2>5, <2>6
<1> QED
  BY <1>1, <1>2, <1>4, <1>5, <1>6, <1>7, <1>8, <1>9 DEF AtMarket, MarketNext, Visitor

-----------------------------------------------------------------------------
(* The wallet                                                              *)

(* A list is asked for when nothing else is under way.                     *)
LEMMA TicketsAsked ==
    ASSUME NEW p \in WalletPage, NEW customer \in Customers, p.token = customer,
           LoadTickets(p, customer, {})
    PROVE  On("wallet")' /\ WalletFits' /\ WalletIsOwn'
<1> DEFINE q == [p EXCEPT !.busy = TRUE, !.error = FALSE]
           d == Call("tickets", customer)
<1>1. q \in WalletPage /\ q.name = "wallet" /\ q.busy = TRUE /\ q.error = FALSE /\ q.token = customer
  BY DEF WalletPage
<1>2. d.op = "tickets" /\ d.about = customer
  BY DEF Call
<1>3. page' = q /\ calls' = {d}
  BY DEF LoadTickets
<1> HIDE DEF q, d
<1> QED
  BY <1>1, <1>2, <1>3 DEF WalletFits, WalletIsOwn, On

(* A call is answered, and was the only one.                               *)
LEMMA WalletAnswered ==
    ASSUME On("wallet"), WalletFits, NEW c \in calls, TicketsAnswered(c) \/ SignInAnswered(c)
    PROVE  On("wallet")' /\ WalletFits' /\ WalletIsOwn'
<1>1. page \in WalletPage /\ calls \ {c} = {}
  BY DEF WalletFits
<1>2. CASE TicketsAnswered(c)
  <2> DEFINE a == [page EXCEPT !.tickets = c.about]
             b == [page EXCEPT !.token = None, !.tickets = None, !.error = TRUE]
             e == [page EXCEPT !.error = TRUE]
  <2>1. c.op = "tickets" /\ c.about \in Customers /\ page.token \in {c.about, None}
    BY <1>2 DEF TicketsAnswered, WalletFits
  <2>2. PICK p \in {a, b, e} : page' = [p EXCEPT !.busy = FALSE]
    BY <1>2 DEF TicketsAnswered
  <2>3. /\ p \in WalletPage
        /\ p.error = TRUE \/ p.token = None \/ p.tickets = p.token
    BY <1>1, <2>1 DEF WalletPage
  <2> HIDE DEF a, b, e
  <2> DEFINE q == [p EXCEPT !.busy = FALSE]
  <2>4. /\ q \in WalletPage /\ q.name = "wallet" /\ q.busy = FALSE
        /\ q.error = TRUE \/ q.token = None \/ q.tickets = q.token
    BY <2>3 DEF WalletPage
  <2>5. page' = q /\ calls' = {}
    BY <1>1, <1>2, <2>2 DEF TicketsAnswered
  <2> HIDE DEF q
  <2> QED
    BY <2>4, <2>5 DEF WalletFits, WalletIsOwn, On
<1>3. CASE SignInAnswered(c)
  <2>1. CASE \E customer \in Customers :
               LoadTickets([page EXCEPT !.token = customer], customer, calls \ {c})
    <3>1. PICK customer \in Customers :
            LoadTickets([page EXCEPT !.token = customer], customer, calls \ {c})
      BY <2>1
    <3> DEFINE p == [page EXCEPT !.token = customer]
    <3>2. p \in WalletPage /\ p.token = customer
      BY <1>1 DEF WalletPage
    <3>3. LoadTickets(p, customer, {})
      BY <1>1, <3>1
    <3> HIDE DEF p
    <3> QED
      BY <3>2, <3>3, TicketsAsked
  <2>2. CASE page' = [page EXCEPT !.error = TRUE, !.busy = FALSE] /\ calls' = calls \ {c}
    <3> DEFINE q == [page EXCEPT !.error = TRUE, !.busy = FALSE]
    <3>1. q \in WalletPage /\ q.name = "wallet" /\ q.error = TRUE /\ q.busy = FALSE
      BY <1>1 DEF WalletPage
    <3> HIDE DEF q
    <3>2. page' = q /\ calls' = {}
      BY <1>1, <2>2 DEF q
    <3> QED
      BY <3>1, <3>2 DEF WalletFits, WalletIsOwn, On
  <2> QED
    BY <1>3, <2>1, <2>2 DEF SignInAnswered
<1> QED
  BY <1>2, <1>3

LEMMA WalletStep ==
    ASSUME IInv, AtWallet
    PROVE  WalletFits' /\ WalletIsOwn' /\ (Left \/ On("wallet")')
<1>0. WalletMounted \in WalletPage /\ WalletMounted.token = None
      /\ WalletMounted.busy = FALSE /\ WalletMounted.error = FALSE
  BY DEF WalletMounted, WalletPage
<1>1. ASSUME On("wallet") PROVE page \in WalletPage /\ WalletFits
  BY <1>1 DEF IInv, WalletFits
<1>2. CASE OpenWallet
  <2>1. CASE page' = WalletMounted /\ calls' = {}
    BY <1>0, <2>1 DEF WalletFits, WalletIsOwn, On, WalletMounted
  <2>2. CASE \E stored \in Customers : LoadTickets([WalletMounted EXCEPT !.token = stored], stored, {})
    <3>1. PICK stored \in Customers : LoadTickets([WalletMounted EXCEPT !.token = stored], stored, {})
      BY <2>2
    <3> DEFINE p == [WalletMounted EXCEPT !.token = stored]
    <3>2. p \in WalletPage /\ p.token = stored
      BY <1>0 DEF WalletPage
    <3> QED
      BY <3>1, <3>2, TicketsAsked
  <2> QED
    BY <1>2, <2>1, <2>2 DEF OpenWallet
<1>3. CASE LeaveWallet
  BY <1>3 DEF LeaveWallet, Left, WalletFits, WalletIsOwn, On, Elsewhere
<1>4. CASE SignIn
  <2> DEFINE q == [page EXCEPT !.busy = TRUE, !.error = FALSE]
             d == Call("signIn", None)
  <2>1. On("wallet") /\ page.token = None /\ calls = {}
    BY <1>1, <1>4 DEF SignIn, WalletFits
  <2>2. q \in WalletPage /\ q.name = "wallet" /\ q.token = None /\ q.busy = TRUE /\ q.error = FALSE
    BY <1>1, <2>1 DEF WalletPage
  <2>3. d.op = "signIn"
    BY DEF Call
  <2>4. page' = q /\ calls' = {d}
    BY <1>4, <2>1 DEF SignIn
  <2> HIDE DEF q, d
  <2> QED
    BY <2>2, <2>3, <2>4 DEF WalletFits, WalletIsOwn, On
<1>5. CASE SignOut
  <2> DEFINE q == [page EXCEPT !.token = None, !.tickets = None, !.error = FALSE]
  <2>1. /\ q \in WalletPage /\ q.name = "wallet" /\ q.token = None
        /\ q.busy = page.busy /\ q.error = FALSE
    BY <1>1, <1>5 DEF SignOut, WalletPage
  <2>2. page' = q /\ calls' = calls
    BY <1>5 DEF SignOut
  <2> HIDE DEF q
  <2> QED
    BY <1>1, <1>5, <2>1, <2>2 DEF SignOut, WalletFits, WalletIsOwn, On
<1>6. CASE RetryTickets
  <2>1. /\ page \in WalletPage /\ page.token \in Customers
        /\ LoadTickets(page, page.token, calls)
    BY <1>1, <1>6 DEF RetryTickets, WalletPage
  <2>2. calls = {}
    BY <1>1, <1>6 DEF RetryTickets, WalletFits
  <2> QED
    BY <2>1, <2>2, TicketsAsked
<1>7. CASE \E c \in calls : On("wallet") /\ (TicketsAnswered(c) \/ SignInAnswered(c))
  BY <1>1, <1>7, WalletAnswered
<1> QED
  BY <1>2, <1>3, <1>4, <1>5, <1>6, <1>7 DEF AtWallet, WalletNext

-----------------------------------------------------------------------------
(* The page of a ticket                                                    *)

(* The names of what keeps a page busy are not that of nothing.            *)
LEMMA BusyWords == Empty \notin {"load", "share", "revoke"}
  BY DEF Empty

(* The link is the one that opens the ticket, unless overtaken.            *)
LinkHeld(link) == shares.overtaken \/ link = 0 \/ link = shares.active

(* A handler that ends leaves a page that says what is so, or an error.    *)
LEMMA TicketEnded ==
    ASSUME NEW p \in TicketPages, NEW failed \in BOOLEAN,
           Ends(p, failed), calls' = {}, shares' = shares, shares \in Shares,
           p.error \/ failed \/ p.ticket = None
             \/ (LinkHeld(p.share) /\ LinkKnown(p.ticket))
    PROVE  On("ticket")' /\ TicketFits' /\ PanelIsTrue'
<1> DEFINE e == p.error \/ failed
           q == [p EXCEPT !.busy = Empty, !.error = e]
<1>1. e \in BOOLEAN
  BY DEF TicketPages
<1>2. /\ q \in TicketPages /\ q.name = "ticket" /\ q.busy = Empty /\ q.error = e
      /\ q.ticket = p.ticket /\ q.share = p.share
  <2> HIDE DEF e
  <2> QED  BY <1>1 DEF TicketPages
<1>3. page' = q
  BY DEF Ends
<1>4. e \/ q.ticket = None \/ (LinkHeld(q.share) /\ LinkKnown(q.ticket))
  BY <1>2
<1> HIDE DEF q, e
<1> QED
  BY <1>2, <1>3, <1>4, BusyWords DEF TicketFits, PanelIsTrue, LinkKnown, LinkHeld, On

(* A link is asked for, or its revocation, when nothing is under way.      *)
LEMMA TicketAsked ==
    ASSUME page \in TicketPages, shares \in Shares, page.ticket # None,
           NEW op \in {"share", "revoke"}, Asks(op)
    PROVE  On("ticket")' /\ TicketFits' /\ PanelIsTrue'
<1> DEFINE q == [page EXCEPT !.busy = op, !.error = FALSE]
           d == Call(op, None)
<1>1. /\ q \in TicketPages /\ q.name = "ticket" /\ q.busy = op /\ q.error = FALSE
      /\ q.ticket = page.ticket
  BY DEF TicketPages
<1>2. d = [n |-> d.n, op |-> d.op, about |-> None, answer |-> d.answer]
      /\ d.op = op /\ d.answer = None
  BY DEF Call
<1>3. page' = q /\ calls' = {d} /\ shares' = shares
  BY DEF Asks
<1> HIDE DEF q, d
<1>4. op # Empty
  BY BusyWords
<1>5. None \notin 1..MaxLinks /\ None # "REVOKED"
  BY LinksAreNumbered, AnswersApart
<1> QED
  BY <1>1, <1>2, <1>3, <1>4, <1>5, BusyWords DEF TicketFits, PanelIsTrue, On

(* The link and the ticket after a link is made or revoked                 *)
Linked(p, link) == [p EXCEPT !.share = link, !.ticket.hasActiveShareLink = (link # 0)]

LEMMA LinkShown ==
    ASSUME NEW p \in TicketPages, p.ticket # None, NEW link \in 0..MaxLinks
    PROVE  /\ Linked(p, link) \in TicketPages /\ Linked(p, link).share = link
           /\ Linked(p, link).ticket.hasActiveShareLink <=> link # 0
<1> DEFINE t == [p.ticket EXCEPT !.hasActiveShareLink = (link # 0)]
<1>1. p.ticket \in Detail
  BY DEF TicketPages
<1>2. t \in Detail /\ (t.hasActiveShareLink <=> link # 0)
  BY <1>1 DEF Detail
<1>3. t # None
  BY <1>2, LinksAreNumbered
<1> DEFINE q == [p EXCEPT !.share = link, !.ticket = t]
<1>4. Linked(p, link) = q
  BY DEF TicketPages, Linked
<1>5. q \in TicketPages /\ q.share = link /\ q.ticket = t
  <2> HIDE DEF t
  <2> QED  BY <1>2, <1>3 DEF TicketPages
<1> HIDE DEF t, q
<1> QED
  BY <1>2, <1>4, <1>5

LEMMA TicketAnswered ==
    ASSUME On("ticket"), TicketFits, UNCHANGED shares, NEW c \in calls,
           DetailAnswered(c) \/ QrAnswered(c) \/ ShareCreated(c) \/ ShareRevoked(c)
    PROVE  On("ticket")' /\ TicketFits' /\ PanelIsTrue'
<1>0. page \in TicketPages /\ shares \in Shares /\ shares' = shares
  BY DEF TicketFits
<1>1. ASSUME calls' = {}, Ends(page, TRUE) PROVE On("ticket")' /\ TicketFits' /\ PanelIsTrue'
  BY <1>0, <1>1, TicketEnded
<1>2. ASSUME calls' = {}, Unloaded PROVE On("ticket")' /\ TicketFits' /\ PanelIsTrue'
  <2> DEFINE p == [page EXCEPT !.token = FALSE]
  <2>1. p \in TicketPages
    BY <1>0 DEF TicketPages
  <2>2. Ends(page, TRUE) \/ Ends(p, TRUE)
    BY <1>2 DEF Unloaded
  <2> HIDE DEF p
  <2> QED
    BY <1>0, <1>2, <2>1, <2>2, TicketEnded
<1>3. CASE DetailAnswered(c)
  <2>1. /\ c.op = "detail" /\ page.busy = "load" /\ page.share = 0
        /\ c.answer \in Detail => LinkKnown(c.answer)
    BY <1>3 DEF DetailAnswered, TicketFits
  <2> DEFINE p == [page EXCEPT !.ticket = c.answer]
             d == Call("qr", None)
  <2>2. ASSUME c.answer \in Detail
        PROVE  /\ p \in TicketPages /\ p.name = "ticket" /\ p.ticket = c.answer
               /\ p.share = 0 /\ p.busy = "load" /\ p.ticket # None
    BY <1>0, <2>1, <2>2, LinksAreNumbered DEF TicketPages
  <2>3. d = [n |-> d.n, op |-> d.op, about |-> None, answer |-> d.answer] /\ d.op = "qr"
    BY DEF Call
  <2> HIDE DEF p, d
  <2>4. CASE c.answer \in Detail /\ page' = p /\ calls' = {d}
    BY <1>0, <2>1, <2>2, <2>3, <2>4, BusyWords DEF TicketFits, PanelIsTrue, LinkKnown, On
  <2>5. CASE c.answer \in Detail /\ Ends(p, FALSE) /\ calls' = {}
    <3>1. LinkKnown(p.ticket) /\ LinkHeld(p.share)
      BY <2>1, <2>2, <2>5 DEF LinkHeld
    <3> QED
      BY <1>0, <2>2, <2>5, <3>1, TicketEnded
  <2>6. CASE Unloaded /\ calls' = {}
    BY <1>2, <2>6
  <2> QED
    BY <1>3, <2>4, <2>5, <2>6 DEF DetailAnswered, p, d
<1>4. CASE QrAnswered(c)
  <2>1. /\ c.op = "qr" /\ page.busy = "load" /\ page.share = 0 /\ calls' = {}
        /\ LinkKnown(page.ticket)
    BY <1>4 DEF QrAnswered, TicketFits
  <2> DEFINE qr == (c.answer = "QR")
             p == [page EXCEPT !.qr = qr]
  <2>2. p \in TicketPages /\ p.ticket = page.ticket /\ p.share = 0
    <3>1. qr \in BOOLEAN
      OBVIOUS
    <3> HIDE DEF qr
    <3> QED  BY <1>0, <2>1, <3>1 DEF TicketPages
  <2> HIDE DEF p
  <2>3. CASE Ends(p, FALSE)
    <3>1. LinkKnown(p.ticket) /\ LinkHeld(p.share)
      BY <2>1, <2>2 DEF LinkHeld
    <3> QED
      BY <1>0, <2>1, <2>2, <2>3, <3>1, TicketEnded
  <2> QED
    BY <1>2, <1>4, <2>1, <2>3 DEF QrAnswered, p
<1>5. CASE ShareCreated(c)
  <2>1. c.op = "share" /\ calls' = {} /\ page.ticket # None
        /\ (c.answer \in 1..MaxLinks => shares.overtaken \/ c.answer = shares.active)
    BY <1>5 DEF ShareCreated, TicketFits
  <2> DEFINE p == [page EXCEPT !.share = c.answer, !.ticket.hasActiveShareLink = TRUE]
  <2>2. CASE c.answer \in 1..MaxLinks /\ Ends(p, FALSE)
    <3>1. c.answer \in 0..MaxLinks /\ c.answer # 0 /\ (c.answer # 0) = TRUE
      BY <2>2, LinksAreNumbered
    <3>2. p = Linked(page, c.answer)
      BY <3>1 DEF Linked
    <3> HIDE DEF p
    <3>3. /\ p \in TicketPages /\ p.share = c.answer
          /\ p.ticket.hasActiveShareLink <=> c.answer # 0
      BY <1>0, <2>1, <3>1, <3>2, LinkShown
    <3>4. LinkKnown(p.ticket) /\ LinkHeld(p.share)
      BY <2>1, <2>2, <3>1, <3>3 DEF LinkKnown, LinkHeld
    <3> QED
      BY <1>0, <2>1, <2>2, <3>3, <3>4, TicketEnded
  <2> QED
    BY <1>1, <1>5, <2>1, <2>2 DEF ShareCreated
<1>6. CASE ShareRevoked(c)
  <2>1. c.op = "revoke" /\ calls' = {} /\ page.ticket # None
        /\ (c.answer = "REVOKED" => shares.overtaken \/ shares.active = 0)
    BY <1>6 DEF ShareRevoked, TicketFits
  <2> DEFINE p == [page EXCEPT !.share = 0, !.ticket.hasActiveShareLink = FALSE]
  <2>2. CASE c.answer = "REVOKED" /\ Ends(p, FALSE)
    <3>1. 0 \in 0..MaxLinks /\ (0 # 0) = FALSE
      BY LinksAreNumbered
    <3>2. p = Linked(page, 0)
      BY <3>1 DEF Linked
    <3> HIDE DEF p
    <3>3. /\ p \in TicketPages /\ p.share = 0
          /\ p.ticket.hasActiveShareLink <=> 0 # 0
      BY <1>0, <2>1, <3>1, <3>2, LinkShown
    <3>4. LinkKnown(p.ticket) /\ LinkHeld(p.share)
      BY <2>1, <2>2, <3>3 DEF LinkKnown, LinkHeld
    <3> QED
      BY <1>0, <2>1, <2>2, <3>3, <3>4, TicketEnded
  <2> QED
    BY <1>1, <1>6, <2>1, <2>2 DEF ShareRevoked
<1> QED
  BY <1>3, <1>4, <1>5, <1>6

(* What the API says of the link is so when it says it.                    *)
TicketAnswer(op, s) ==
    /\ s[1] \in Shares
    /\ op = "detail" /\ s[2] \in Detail => (s[2].hasActiveShareLink <=> s[1].active # 0)
    /\ op = "qr" => s[1] = shares
    /\ op = "share" /\ s[2] \in 1..MaxLinks => s[2] = s[1].active
    /\ op = "revoke" /\ s[2] = "REVOKED" => s[1].active = 0

LEMMA TicketServes ==
    ASSUME shares \in Shares, NEW op \in {"detail", "qr", "share", "revoke"},
           NEW s \in TicketServed(op)
    PROVE  TicketAnswer(op, s)
<1> DEFINE asOf == [shares EXCEPT !.overtaken = FALSE]
<1>1. asOf \in Shares /\ asOf.active = shares.active
  BY DEF Shares
<1>2. CASE op = "detail"
  <2>1. s = <<asOf, [valid |-> shares.valid, hasActiveShareLink |-> shares.active # 0]>>
    BY <1>2 DEF TicketServed
  <2> HIDE DEF asOf
  <2> QED
    BY <1>1, <1>2, <2>1 DEF TicketAnswer
<1>3. CASE op = "qr"
  <2>1. s[1] = shares
    BY <1>3 DEF TicketServed
  <2> QED
    BY <1>3, <2>1 DEF TicketAnswer
<1>4. CASE op = "share"
  <2>1. PICK m \in 1..MaxLinks : s = <<[asOf EXCEPT !.made = m, !.active = m], m>>
    BY <1>4 DEF TicketServed
  <2> HIDE DEF asOf
  <2> DEFINE served == [asOf EXCEPT !.made = m, !.active = m]
  <2>2. m \in 0..MaxLinks
    BY LinksAreNumbered
  <2>3. served \in Shares /\ served.active = m
    BY <1>1, <2>2 DEF Shares
  <2>4. s = <<served, m>>
    BY <2>1
  <2> HIDE DEF served
  <2> QED
    BY <1>4, <2>3, <2>4 DEF TicketAnswer
<1>5. CASE op = "revoke"
  <2> HIDE DEF asOf
  <2> DEFINE served == [asOf EXCEPT !.active = 0]
  <2>1. s = <<served, "REVOKED">>
    BY <1>5 DEF TicketServed, asOf
  <2>2. served \in Shares /\ served.active = 0
    BY <1>1, LinksAreNumbered DEF Shares
  <2> HIDE DEF served
  <2> QED
    BY <1>5, <2>1, <2>2 DEF TicketAnswer
<1> QED
  BY <1>2, <1>3, <1>4, <1>5

LEMMA TicketStep ==
    ASSUME IInv, AtTicket
    PROVE  TicketFits' /\ PanelIsTrue' /\ ((Left /\ shares' = NoTicket) \/ On("ticket")')
<1>1. ASSUME On("ticket")
      PROVE  TicketFits /\ page \in TicketPages /\ shares \in Shares /\ page.name = "ticket"
  BY <1>1 DEF IInv, TicketFits, On
<1>2. CASE OpenTicket
  <2>1. PICK token \in BOOLEAN, valid \in BOOLEAN, active \in {0, 1}, late \in SUBSET Changes :
          /\ page' = TicketMounted(token)
          /\ calls' = IF token THEN {Call("detail", None)} ELSE {}
          /\ shares' = [valid |-> valid, made |-> 1, active |-> active, late |-> late,
                        overtaken |-> FALSE]
    BY <1>2 DEF OpenTicket
  <2> DEFINE d == Call("detail", None)
  <2>2. shares' \in Shares
    BY <2>1, LinksAreNumbered DEF Shares
  <2>3. /\ page' \in TicketPages /\ page'.name = "ticket" /\ page'.ticket = None /\ page'.share = 0
        /\ page'.busy = IF token THEN "load" ELSE Empty
    BY <2>1, LinksAreNumbered DEF TicketMounted, TicketPages
  <2>4. d = [n |-> d.n, op |-> d.op, about |-> None, answer |-> d.answer]
        /\ d.op = "detail" /\ d.answer = None
    BY DEF Call
  <2>5. calls' = IF token THEN {d} ELSE {}
    BY <2>1
  <2>6. None \notin Detail
    BY LinksAreNumbered
  <2> HIDE DEF d
  <2> QED
    BY <2>2, <2>3, <2>4, <2>5, <2>6, BusyWords DEF TicketFits, PanelIsTrue, On
<1>3. CASE LeaveTicket
  BY <1>3 DEF LeaveTicket, Left, TicketFits, PanelIsTrue, On, Elsewhere
<1>4. CASE CreateShare
  BY <1>1, <1>4, TicketAsked DEF CreateShare
<1>5. CASE RevokeShare
  BY <1>1, <1>5, TicketAsked DEF RevokeShare
<1>6. CASE CopyFails
  <2> DEFINE q == [page EXCEPT !.error = TRUE]
  <2>1. /\ q \in TicketPages /\ q.name = "ticket" /\ q.busy = page.busy /\ q.share = page.share
        /\ q.ticket = page.ticket /\ q.error = TRUE
    BY <1>1, <1>6 DEF CopyFails, TicketPages
  <2>2. page' = q /\ calls' = calls /\ shares' = shares
    BY <1>6 DEF CopyFails
  <2>3. On("ticket")
    BY <1>6 DEF CopyFails
  <2> HIDE DEF q
  <2>4. TicketFits'
    BY <1>1, <2>1, <2>2, <2>3 DEF TicketFits, LinkKnown, On
  <2>5. On("ticket")' /\ PanelIsTrue'
    BY <2>1, <2>2 DEF PanelIsTrue, On
  <2> QED
    BY <2>4, <2>5
<1>7. CASE TicketAnswers
  BY <1>1, <1>7, TicketAnswered DEF TicketAnswers
<1>8. CASE Admitted
  <2>1. /\ page' = page /\ calls' = calls /\ On("ticket")
        /\ shares' \in Shares /\ shares'.active = shares.active
        /\ shares'.overtaken = shares.overtaken
    BY <1>1, <1>8 DEF Admitted, Shares
  <2> QED
    BY <1>1, <2>1 DEF TicketFits, PanelIsTrue, LinkKnown, On, IInv
<1>9. ASSUME NEW c \in calls, ServeTicket(c) PROVE TicketFits' /\ PanelIsTrue' /\ On("ticket")'
  <2>1. On("ticket") /\ page' = page /\ page.name = "ticket"
    BY <1>9 DEF ServeTicket, On
  <2>2. /\ c = [n |-> c.n, op |-> c.op, about |-> None, answer |-> c.answer]
        /\ c.op \in {"detail", "qr", "share", "revoke"}
        /\ page.busy = IF c.op \in {"detail", "qr"} THEN "load" ELSE c.op
        /\ page.busy # Empty
    BY <1>1, <2>1, BusyWords DEF TicketFits
  <2>3. PICK a :
          /\ calls' = {[c EXCEPT !.answer = a]} /\ shares' \in Shares
          /\ c.op = "detail" /\ a \in Detail => (a.hasActiveShareLink <=> shares'.active # 0)
          /\ c.op = "qr" => shares' = shares
          /\ c.op = "share" /\ a \in 1..MaxLinks => a = shares'.active
          /\ c.op = "revoke" /\ a = "REVOKED" => shares'.active = 0
    <3>1. CASE Fails(c)
      <4>1. shares' \in Shares /\ (c.op = "qr" => shares' = shares)
        <5>1. CASE c.op \in Changes /\ shares' = [shares EXCEPT !.late = @ \cup {c.op}]
          <6>1. shares.late \cup {c.op} \in SUBSET Changes
            BY <1>1, <2>1, <5>1 DEF Shares
          <6> QED
            BY <1>1, <2>1, <5>1, <6>1 DEF Shares, Changes
        <5> QED
          BY <1>1, <2>1, <3>1, <5>1 DEF Fails
      <4> QED
        BY <3>1, <4>1, LinksAreNumbered, AnswersApart DEF Fails
    <3>2. CASE Served(c)
      <4>1. PICK s \in TicketServed(c.op) :
              shares' = s[1] /\ calls' = {[c EXCEPT !.answer = s[2]]}
        BY <3>2 DEF Served
      <4>2. TicketAnswer(c.op, s)
        BY <1>1, <2>1, <2>2, TicketServes
      <4> QED
        BY <4>1, <4>2, LinksAreNumbered DEF TicketAnswer
    <3> QED
      BY <1>9, <3>1, <3>2 DEF ServeTicket
  <2> DEFINE d == [c EXCEPT !.answer = a]
  <2>4. d = [n |-> d.n, op |-> d.op, about |-> None, answer |-> d.answer]
        /\ d.op = c.op /\ d.answer = a
    BY <2>2
  <2>5. c.op # "detail" => page.ticket # None
    BY <1>1, <2>1 DEF TicketFits
  <2>6. c.op = "qr" => LinkKnown(page.ticket)
    BY <1>1, <2>1 DEF TicketFits
  <2>7. page.busy = "load" => page.share = 0
    BY <1>1, <2>1 DEF TicketFits
  <2> HIDE DEF d
  <2>8. calls' = {d}
    BY <2>3 DEF d
  <2> QED
    BY <1>1, <2>1, <2>2, <2>3, <2>4, <2>5, <2>6, <2>7, <2>8 DEF TicketFits, PanelIsTrue, LinkKnown, On
<1>10. CASE ServeTicketLate
  <2>1. PICK op \in shares.late :
          \E s \in TicketServed(op), left \in {shares.late, shares.late \ {op}} :
             shares' = [s[1] EXCEPT !.late = left, !.overtaken = TRUE]
    BY <1>10 DEF ServeTicketLate
  <2>2. PICK s \in TicketServed(op), left \in {shares.late, shares.late \ {op}} :
          shares' = [s[1] EXCEPT !.late = left, !.overtaken = TRUE]
    BY <2>1
  <2>3. On("ticket") /\ page' = page /\ calls' = calls
    BY <1>10 DEF ServeTicketLate
  <2>4. op \in Changes /\ left \in SUBSET Changes
    BY <1>1, <2>1, <2>2, <2>3 DEF Shares
  <2>5. s[1] \in Shares
    BY <1>1, <2>2, <2>3, <2>4, TicketServes DEF TicketAnswer, Changes
  <2>6. shares' \in Shares /\ shares'.overtaken = TRUE
    BY <2>2, <2>4, <2>5 DEF Shares
  <2> QED
    BY <1>1, <2>3, <2>6 DEF TicketFits, PanelIsTrue, LinkKnown, On
<1> QED
  BY <1>2, <1>3, <1>4, <1>5, <1>6, <1>7, <1>8, <1>9, <1>10 DEF AtTicket, TicketNext

-----------------------------------------------------------------------------
(* The console of the gate                                                 *)

LEMMA CameraNumbers ==
    0 \in 0..MaxStarts /\ \A n \in 1..MaxStarts : n \in 0..MaxStarts /\ n # 0
  BY BoundsOfTheGate

Apart(cams) == cams \subseteq Camera /\ \A c, d \in cams : c.n = d.n => c = d

(* Attempts that are among those there were, for the same events           *)
Follows(cams) ==
    Apart(cams) /\ \A c \in cams : \E d \in cameras : c.n = d.n /\ c.event = d.event

GateCalls(cs) ==
    \A c \in cs : c.op \in {"login", "events", "validate"} /\ (c.op = "validate" => c.about \in Events)

LEMMA FollowsItself == ASSUME GateFits PROVE Follows(cameras)
  BY DEF Follows, Apart, GateFits

LEMMA FollowsOff ==
    ASSUME NEW ns, NEW cams, Follows(cams)
    PROVE  Follows(Off(ns, cams))
<1> DEFINE off(c) == [c EXCEPT !.live = @ /\ c.n \notin ns]
<1>1. ASSUME NEW c \in Camera PROVE off(c) \in Camera /\ off(c).n = c.n /\ off(c).event = c.event
  <2> DEFINE live == c.live /\ c.n \notin ns
  <2>1. live \in BOOLEAN
    BY DEF Camera
  <2>2. off(c) = [c EXCEPT !.live = live]
    BY DEF Camera
  <2> HIDE DEF live
  <2> QED  BY <2>1, <2>2 DEF Camera
<1>2. Off(ns, cams) = {off(c) : c \in cams}
  BY DEF Off
<1> HIDE DEF off
<1> QED
  BY <1>1, <1>2 DEF Follows, Apart

(* One attempt goes on, as itself.                                         *)
LEMMA FollowsChange ==
    ASSUME GateFits, NEW c \in cameras, NEW d \in Camera, d.n = c.n, d.event = c.event
    PROVE  Follows((cameras \ {c}) \cup {d})
  BY DEF Follows, Apart, GateFits

LEMMA FollowsBecomes ==
    ASSUME GateFits, NEW c \in cameras, NEW live \in BOOLEAN,
           NEW phase \in {"asking", "attached", "returned", "failed"}
    PROVE  Follows(Becomes(c, phase, live))
<1> DEFINE d == [c EXCEPT !.phase = phase, !.live = live]
<1>1. d \in Camera /\ d.n = c.n /\ d.event = c.event
  BY DEF Camera, GateFits
<1>2. Becomes(c, phase, live) = (cameras \ {c}) \cup {d}
  BY DEF Becomes
<1> HIDE DEF d
<1> QED
  BY <1>1, <1>2, FollowsChange

LEMMA FollowsLate ==
    ASSUME GateFits, NEW c \in cameras
    PROVE  Follows((cameras \ {c}) \cup {[c EXCEPT !.late = TRUE]})
<1> DEFINE d == [c EXCEPT !.late = TRUE]
<1>1. d \in Camera /\ d.n = c.n /\ d.event = c.event
  BY DEF Camera, GateFits
<1> HIDE DEF d
<1>2. Follows((cameras \ {c}) \cup {d})
  BY <1>1, FollowsChange
<1> QED
  BY <1>2 DEF d

(* What is rendered has the attempts that it was given, fewer perhaps.     *)
LEMMA CamerasRendered ==
    ASSUME NEW p, NEW cams, Apart(cams), Render(p, cams)
    PROVE  /\ Apart(cameras')
           /\ \A c \in cameras' : \E d \in cams : c.n = d.n /\ c.event = d.event
           /\ ~ShowsVideo(p) => \A c \in cameras' : ~c.here
<1> DEFINE seen(c) == [c EXCEPT !.here = @ /\ ShowsVideo(p)]
<1>1. PICK kept \in SUBSET cams : cameras' = {seen(c) : c \in kept}
  BY DEF Render
<1>2. ASSUME NEW c \in Camera
      PROVE  /\ seen(c) \in Camera /\ seen(c).n = c.n /\ seen(c).event = c.event
             /\ ~ShowsVideo(p) => ~seen(c).here
  <2> DEFINE here == c.here /\ ShowsVideo(p)
  <2>1. here \in BOOLEAN /\ (~ShowsVideo(p) => here = FALSE)
    BY DEF Camera, ShowsVideo
  <2>2. seen(c) = [c EXCEPT !.here = here]
    BY DEF Camera
  <2> HIDE DEF here
  <2> QED  BY <2>1, <2>2 DEF Camera
<1> HIDE DEF seen
<1> QED
  BY <1>1, <1>2 DEF Apart

LEMMA GateRendered ==
    ASSUME NEW p \in GatePage, NEW cams, Apart(cams), Render(p, cams), GateCalls(calls'),
           \A c \in cams : c.n = p.attempt => p.selectedEvent \in {c.event, None}
    PROVE  On("gate")' /\ GateFits'
<1> DEFINE dark == [p EXCEPT !.video = 0]
<1>1. p.name = "gate"
  BY DEF GatePage
<1>2. page' = p \/ page' = dark
  BY DEF Render
<1>3. /\ dark \in GatePage /\ dark.name = "gate" /\ dark.attempt = p.attempt
      /\ dark.selectedEvent = p.selectedEvent
  BY CameraNumbers DEF GatePage
<1> HIDE DEF dark
<1>4. /\ page' \in GatePage /\ page'.name = "gate" /\ page'.attempt = p.attempt
      /\ page'.selectedEvent = p.selectedEvent
  BY <1>1, <1>2, <1>3
<1> QED
  BY <1>4, CamerasRendered DEF GateFits, Apart, GateCalls, On

(* The page stays with the attempt that is current, or with none.          *)
LEMMA GateStays ==
    ASSUME On("gate"), GateFits, NEW p \in GatePage, NEW cams, Follows(cams), Render(p, cams),
           GateCalls(calls'),
           \/ p.attempt = 0
           \/ p.attempt = page.attempt /\ p.selectedEvent \in {page.selectedEvent, None}
    PROVE  On("gate")' /\ GateFits'
<1>1. ASSUME NEW c \in cams, c.n = p.attempt PROVE p.selectedEvent \in {c.event, None}
  <2>1. PICK d \in cameras : c.n = d.n /\ c.event = d.event
    BY DEF Follows
  <2>2. d.n # 0
    BY CameraNumbers DEF GateFits, Camera
  <2> QED
    BY <1>1, <2>1, <2>2 DEF GateFits
<1> QED
  BY <1>1, GateRendered DEF Follows

(* On no page, the attempts go on unseen.                                  *)
LEMMA NothingRendered ==
    ASSUME NEW cams, Follows(cams), Render(Elsewhere, cams)
    PROVE  page' = Elsewhere /\ GateFits'
<1>1. page' = Elsewhere /\ ~ShowsVideo(Elsewhere) /\ Elsewhere.name # "gate"
  BY DEF Render, Elsewhere, ShowsVideo
<1> QED
  BY <1>1, CamerasRendered DEF GateFits, On, Follows, Apart

LEMMA CallAdded ==
    ASSUME GateCalls(calls), NEW op \in {"login", "events", "validate"}, NEW about,
           op = "validate" => about \in Events
    PROVE  /\ GateCalls(calls \cup {Call(op, about)})
           /\ Call(op, about).op = op /\ Call(op, about).about = about
  BY DEF GateCalls, Call

LEMMA StoppedPage ==
    ASSUME page \in GatePage
    PROVE  /\ Stopped \in GatePage /\ Stopped.attempt = 0
           /\ Stopped.selectedEvent = page.selectedEvent
  BY CameraNumbers DEF Stopped, GatePage

LEMMA StoppedCameras == ASSUME GateFits PROVE Follows(CamerasStopped)
  BY FollowsItself, FollowsOff DEF CamerasStopped

(* A scan that is sent is for the event selected, while there is one.      *)
Scans == \A c \in calls' \ calls : c.op = "validate" => page.selectedEvent \in {c.about, None}

LEMMA CameraStep ==
    ASSUME IInv, On("gate") \/ page = Elsewhere, NEW c \in cameras,
           Granted(c) \/ Refused(c) \/ TimesOut(c) \/ Returned(c) \/ Decoded(c)
    PROVE  /\ GateFits' /\ Scans
           /\ On("gate")' \/ (page = Elsewhere /\ page' = Elsewhere /\ calls' = calls)
<1>0. /\ GateFits /\ c \in Camera /\ c.n \in 0..MaxStarts /\ c.n # 0 /\ c.event \in Events
  BY CameraNumbers DEF IInv, GateFits, Camera
<1>1. CASE page = Elsewhere
  <2>1. ~On("gate") /\ ~c.here
    BY <1>0, <1>1 DEF On, Elsewhere, GateFits
  <2>2. ASSUME NEW cams, Follows(cams), Render(page, cams), UNCHANGED calls
        PROVE  GateFits' /\ Scans /\ page' = Elsewhere /\ calls' = calls
    BY <1>1, <2>2, NothingRendered DEF Scans
  <2>3. CASE Granted(c)
    <3>1. Render(page, Becomes(c, "attached", TRUE)) /\ UNCHANGED calls
      BY <2>1, <2>3 DEF Granted
    <3> QED
      BY <1>1, <1>0, <2>2, <3>1, FollowsBecomes
  <2>4. CASE Refused(c)
    <3>1. /\ UNCHANGED calls
          /\ \/ Render(page, Becomes(c, "failed", FALSE))
             \/ Render(page, Off(1..MaxStarts, Becomes(c, "failed", FALSE)))
      BY <2>1, <2>4 DEF Refused, GiveUp
    <3>2. Follows(Becomes(c, "failed", FALSE))
      BY <1>0, FollowsBecomes
    <3> QED
      BY <1>1, <2>2, <3>1, <3>2, FollowsOff
  <2>5. CASE TimesOut(c)
    <3>1. /\ UNCHANGED calls
          /\ Render(page, Off(1..MaxStarts, (cameras \ {c}) \cup {[c EXCEPT !.late = TRUE]}))
      BY <2>1, <2>5 DEF TimesOut, GiveUp
    <3> QED
      BY <1>1, <1>0, <2>2, <3>1, FollowsLate, FollowsOff
  <2>6. CASE Returned(c)
    <3>1. PICK live \in BOOLEAN : Render(page, Becomes(c, "returned", live)) /\ UNCHANGED calls
      BY <1>0, <2>1, <2>6 DEF Returned, Camera
    <3> QED
      BY <1>1, <1>0, <2>2, <3>1, FollowsBecomes
  <2>7. ~Decoded(c)
    BY <2>1 DEF Decoded
  <2> QED
    BY <2>3, <2>4, <2>5, <2>6, <2>7
<1>2. CASE On("gate")
  <2>0. page \in GatePage /\ GateCalls(calls)
    BY <1>0, <1>2 DEF GateFits, GateCalls
  <2>1. ASSUME NEW p \in GatePage, NEW cams, Follows(cams), Render(p, cams), UNCHANGED calls,
               \/ p.attempt = 0
               \/ p.attempt = page.attempt /\ p.selectedEvent = page.selectedEvent
        PROVE  On("gate")' /\ GateFits' /\ Scans
    <3>1. GateCalls(calls') /\ Scans
      BY <2>0, <2>1 DEF Scans
    <3> QED
      BY <1>0, <1>2, <2>1, <3>1, GateStays
  <2>2. ASSUME NEW cams, Follows(cams), GiveUp(cams), UNCHANGED calls
        PROVE  On("gate")' /\ GateFits' /\ Scans
    <3> DEFINE p == [page EXCEPT !.attempt = 0, !.camera = "error"]
    <3>1. p \in GatePage /\ p.attempt = 0
      BY <2>0, CameraNumbers DEF GatePage
    <3> HIDE DEF p
    <3>2. Render(p, Off(1..MaxStarts, cams))
      BY <1>2, <2>2 DEF GiveUp, p
    <3> QED
      BY <2>1, <2>2, <3>1, <3>2, FollowsOff
  <2>3. CASE Granted(c)
    <3> DEFINE q == [page EXCEPT !.video = c.n]
               p == IF c.here THEN q ELSE page
    <3>1. q \in GatePage /\ q.attempt = page.attempt /\ q.selectedEvent = page.selectedEvent
      BY <1>0, <2>0 DEF GatePage
    <3>2. Render(p, Becomes(c, "attached", TRUE)) /\ UNCHANGED calls
      BY <2>3 DEF Granted
    <3>3. p \in GatePage /\ p.attempt = page.attempt /\ p.selectedEvent = page.selectedEvent
      <4> HIDE DEF q
      <4> QED  BY <2>0, <3>1
    <3> HIDE DEF p
    <3> QED
      BY <1>0, <2>1, <3>2, <3>3, FollowsBecomes
  <2>4. CASE Refused(c)
    <3>1. Follows(Becomes(c, "failed", FALSE))
      BY <1>0, FollowsBecomes
    <3> QED
      BY <2>0, <2>1, <2>2, <2>4, <3>1 DEF Refused
  <2>5. CASE TimesOut(c)
    BY <1>0, <2>2, <2>5, FollowsLate DEF TimesOut
  <2>6. CASE Returned(c)
    <3> DEFINE current == On("gate") /\ page.attempt = c.n
               stops == ~current \/ (~c.late /\ page.scanLocked)
               live == c.live /\ ~stops
               p == IF stops /\ c.here THEN [page EXCEPT !.video = 0] ELSE page
               q == [p EXCEPT !.controls = c.n]
               r == [p EXCEPT !.controls = c.n, !.camera = "scanning"]
    <3>1. p \in GatePage /\ p.attempt = page.attempt /\ p.selectedEvent = page.selectedEvent
      BY <2>0, CameraNumbers DEF GatePage
    <3>2. live \in BOOLEAN
      BY <1>0 DEF Camera
    <3>3. PICK s \in {p, q, r} : Render(s, Becomes(c, "returned", live)) /\ UNCHANGED calls
      <4> HIDE DEF live
      <4>1. \/ Render(p, Becomes(c, "returned", live))
            \/ Render(q, Becomes(c, "returned", live))
            \/ Render(r, Becomes(c, "returned", live))
        <5> HIDE DEF p, q, r, stops, current
        <5> QED  BY <2>6 DEF Returned, p, q, r, live, stops, current
      <4> QED
        BY <2>6, <4>1 DEF Returned
    <3> HIDE DEF p, stops, current, live
    <3>4. /\ q \in GatePage /\ q.attempt = page.attempt /\ q.selectedEvent = page.selectedEvent
          /\ r \in GatePage /\ r.attempt = page.attempt /\ r.selectedEvent = page.selectedEvent
      BY <1>0, <3>1 DEF GatePage
    <3> HIDE DEF q, r
    <3>5. s \in GatePage /\ s.attempt = page.attempt /\ s.selectedEvent = page.selectedEvent
      BY <3>1, <3>3, <3>4
    <3> QED
      BY <1>0, <2>1, <3>2, <3>3, <3>5, FollowsBecomes
  <2>7. CASE Decoded(c)
    <3>1. page.attempt = c.n
      BY <2>7 DEF Decoded
    <3>2. CASE Render([page EXCEPT !.scanLocked = TRUE, !.video = VideoAfter(page.controls)],
                      Off({page.controls}, cameras)) /\ UNCHANGED calls
      <4> DEFINE v == VideoAfter(page.controls)
                 p == [page EXCEPT !.scanLocked = TRUE, !.video = v]
      <4>1. v \in 0..MaxStarts
        BY <2>0, CameraNumbers DEF VideoAfter, GatePage
      <4>2. p \in GatePage /\ p.attempt = page.attempt /\ p.selectedEvent = page.selectedEvent
        <5> HIDE DEF v
        <5> QED  BY <2>0, <4>1 DEF GatePage
      <4>3. Follows(Off({page.controls}, cameras))
        BY <1>0, FollowsItself, FollowsOff
      <4>4. Render(p, Off({page.controls}, cameras))
        BY <3>2
      <4> HIDE DEF p
      <4> QED
        BY <2>1, <3>2, <4>2, <4>3, <4>4
    <3>3. CASE /\ Render([Stopped EXCEPT !.scanLocked = TRUE, !.busy = "validate"], CamerasStopped)
               /\ Sent(c.event)
      <4> DEFINE p == [Stopped EXCEPT !.scanLocked = TRUE, !.busy = "validate"]
      <4>1. p \in GatePage /\ p.attempt = 0
        <5>1. Stopped \in GatePage /\ Stopped.attempt = 0
          BY <2>0, StoppedPage
        <5> QED  BY <5>1 DEF GatePage
      <4>2. Render(p, CamerasStopped)
        BY <3>3
      <4> HIDE DEF p
      <4>3. /\ calls' = calls \cup {Call("validate", c.event)} /\ GateCalls(calls')
            /\ Call("validate", c.event).about = c.event
        BY <1>0, <2>0, <3>3, CallAdded DEF Sent
      <4>4. Scans
        BY <1>0, <1>2, <3>1, <4>3 DEF Scans, GateFits
      <4> QED
        BY <1>0, <1>2, <4>1, <4>2, <4>3, <4>4, StoppedCameras, GateStays
    <3> QED
      BY <2>7, <3>2, <3>3 DEF Decoded
  <2> QED
    BY <2>3, <2>4, <2>5, <2>6, <2>7
<1> QED
  BY <1>1, <1>2

(* A step that touches no camera                                           *)
LEMMA CamerasAlone ==
    ASSUME On("gate"), GateFits, NEW p \in GatePage, page' = p, UNCHANGED cameras, GateCalls(calls'),
           p.attempt = page.attempt, p.selectedEvent = page.selectedEvent
    PROVE  On("gate")' /\ GateFits'
<1>1. p.name = "gate"
  BY DEF GatePage
<1> QED
  BY <1>1 DEF On, GateFits, GateCalls

LEMMA OperatorStep ==
    ASSUME IInv, On("gate"), Operator
    PROVE  GateFits' /\ Scans /\ (Left \/ On("gate")')
<1>0. /\ GateFits /\ page \in GatePage /\ GateCalls(calls)
      /\ Follows(CamerasStopped) /\ Stopped \in GatePage /\ Stopped.attempt = 0
      /\ Stopped.selectedEvent = page.selectedEvent
  BY StoppedPage, StoppedCameras DEF IInv, GateFits, GateCalls
<1>1. ASSUME UNCHANGED calls PROVE GateCalls(calls') /\ Scans
  BY <1>0, <1>1 DEF Scans
<1>2. ~OpenGate
  BY DEF OpenGate, On, Elsewhere
<1>3. CASE LeaveGate
  <2>1. /\ Render(Elsewhere, Off({page.controls}, cameras)) /\ calls' = {}
        /\ Follows(Off({page.controls}, cameras))
    BY <1>0, <1>3, FollowsItself, FollowsOff DEF LeaveGate
  <2> QED
    BY <2>1, NothingRendered DEF Scans, Left
<1>4. CASE SubmitGateLogin \/ SearchEvents
  <2>1. PICK op \in {"login", "events"} :
          /\ page' = [page EXCEPT !.busy = op] /\ UNCHANGED cameras
          /\ calls' = calls \cup {Call(op, None)}
    BY <1>4 DEF SubmitGateLogin, SearchEvents
  <2> DEFINE p == [page EXCEPT !.busy = op]
  <2>2. p \in GatePage /\ p.attempt = page.attempt /\ p.selectedEvent = page.selectedEvent
    BY <1>0 DEF GatePage
  <2>3. GateCalls(calls') /\ Scans
    BY <1>0, <2>1, CallAdded DEF Scans
  <2> HIDE DEF p
  <2>4. page' = p
    BY <2>1 DEF p
  <2> QED
    BY <1>0, <2>1, <2>2, <2>3, <2>4, CamerasAlone
<1>5. CASE \E event \in Events : SelectEvent(event)
  <2>1. PICK event \in Events : SelectEvent(event)
    BY <1>5
  <2> DEFINE p == [Stopped EXCEPT !.selectedEvent = event, !.result = None]
  <2>2. p \in GatePage /\ p.attempt = 0
    BY <1>0 DEF GatePage
  <2>3. Render(p, CamerasStopped) /\ UNCHANGED calls
    BY <2>1 DEF SelectEvent
  <2> HIDE DEF p
  <2> QED
    BY <1>0, <1>1, <2>2, <2>3, GateStays
<1>6. CASE StartCamera
  <2> DEFINE deaf == (page.busy = "validate")
             alone == \A c \in cameras : c.phase \in {"returned", "failed"}
  <2>1. PICK n \in 1..MaxStarts :
          /\ \A c \in cameras : c.n # n
          /\ Render([page EXCEPT !.camera = "starting", !.scanLocked = FALSE, !.attempt = n],
                    cameras \cup
                      {[n |-> n, phase |-> "asking", event |-> page.selectedEvent,
                        deaf |-> deaf, here |-> TRUE, live |-> FALSE,
                        late |-> FALSE, alone |-> alone]})
    BY <1>6 DEF StartCamera
  <2>2. deaf \in BOOLEAN /\ alone \in BOOLEAN
    OBVIOUS
  <2>3. page.selectedEvent \in Events
    BY <1>0, <1>6 DEF StartCamera, ShowsVideo, GatePage
  <2> HIDE DEF deaf, alone
  <2> DEFINE p == [page EXCEPT !.camera = "starting", !.scanLocked = FALSE, !.attempt = n]
             d == [n |-> n, phase |-> "asking", event |-> page.selectedEvent,
                   deaf |-> deaf, here |-> TRUE, live |-> FALSE, late |-> FALSE, alone |-> alone]
  <2>4. d \in Camera /\ d.n = n /\ d.event = page.selectedEvent
    BY <2>2, <2>3 DEF Camera
  <2>5. p \in GatePage /\ p.attempt = n /\ p.selectedEvent = page.selectedEvent
    BY <1>0, CameraNumbers DEF GatePage
  <2>6. Render(p, cameras \cup {d}) /\ UNCHANGED calls
    BY <1>6, <2>1 DEF StartCamera
  <2> HIDE DEF p, d
  <2>7. /\ Apart(cameras \cup {d})
        /\ \A c \in cameras \cup {d} : c.n = p.attempt => p.selectedEvent \in {c.event, None}
    BY <1>0, <2>1, <2>4, <2>5 DEF Apart, GateFits
  <2> QED
    BY <1>1, <2>5, <2>6, <2>7, GateRendered
<1>7. CASE StopCamera
  BY <1>0, <1>1, <1>7, GateStays DEF StopCamera
<1>8. CASE SubmitCode
  <2> DEFINE p == [Stopped EXCEPT !.busy = "validate"]
  <2>1. p \in GatePage /\ p.attempt = 0
    BY <1>0 DEF GatePage
  <2>2. Render(p, CamerasStopped)
    BY <1>8 DEF SubmitCode
  <2> HIDE DEF p
  <2>3. page.selectedEvent \in Events
    BY <1>0, <1>8 DEF SubmitCode, ShowsVideo, GatePage
  <2>4. /\ calls' = calls \cup {Call("validate", page.selectedEvent)} /\ GateCalls(calls')
        /\ Call("validate", page.selectedEvent).about = page.selectedEvent
    BY <1>0, <1>8, <2>3, CallAdded DEF SubmitCode, Sent
  <2>5. Scans
    BY <2>4 DEF Scans
  <2> QED
    BY <1>0, <2>1, <2>2, <2>4, <2>5, GateStays
<1>9. CASE NextValidation
  <2> DEFINE p == [page EXCEPT !.result = None, !.scanLocked = FALSE]
  <2>1. p \in GatePage /\ p.attempt = page.attempt /\ p.selectedEvent = page.selectedEvent
    BY <1>0 DEF GatePage
  <2>2. Render(p, cameras) /\ UNCHANGED calls
    BY <1>9 DEF NextValidation
  <2> HIDE DEF p
  <2> QED
    BY <1>0, <1>1, <2>1, <2>2, FollowsItself, GateStays
<1>10. CASE ChangeEvent
  <2> DEFINE p == [Stopped EXCEPT !.selectedEvent = None, !.result = None]
  <2>1. p \in GatePage /\ p.attempt = 0
    BY <1>0 DEF GatePage
  <2>2. Render(p, CamerasStopped) /\ UNCHANGED calls
    BY <1>10 DEF ChangeEvent
  <2> HIDE DEF p
  <2> QED
    BY <1>0, <1>1, <2>1, <2>2, GateStays
<1>11. CASE GateLogout
  <2> DEFINE q == SessionOver(Stopped)
             p == [q EXCEPT !.events = {}, !.result = None]
  <2>1. q \in GatePage /\ q.attempt = 0
    BY <1>0 DEF GatePage, SessionOver
  <2>2. p \in GatePage /\ p.attempt = 0
    <3> HIDE DEF q
    <3> QED  BY <2>1 DEF GatePage
  <2>3. Render(p, CamerasStopped) /\ UNCHANGED calls
    BY <1>11 DEF GateLogout
  <2> HIDE DEF p
  <2> QED
    BY <1>0, <1>1, <2>2, <2>3, GateStays
<1> QED
  BY <1>2, <1>3, <1>4, <1>5, <1>6, <1>7, <1>8, <1>9, <1>10, <1>11 DEF Operator

(* The three outcomes of a call about the session, and what is set besides *)
LEMMA SessionFits ==
    ASSUME On("gate"), GateFits, GateCalls(calls'),
           NEW p, p = SessionOver(page) \/ (p \in GatePage /\ p.attempt = page.attempt
                                           /\ p.selectedEvent = page.selectedEvent),
           \/ Render([p EXCEPT !.busy = Empty], cameras)
           \/ Render([p EXCEPT !.busy = Empty, !.scanLocked = FALSE], cameras)
    PROVE  On("gate")' /\ GateFits'
<1> DEFINE q == [p EXCEPT !.busy = Empty]
           r == [p EXCEPT !.busy = Empty, !.scanLocked = FALSE]
           o == SessionOver(page)
<1>1. page \in GatePage
  BY DEF GateFits
<1>2. o \in GatePage /\ o.attempt = page.attempt /\ o.selectedEvent = None
  BY <1>1 DEF GatePage, SessionOver
<1> HIDE DEF o
<1>3. /\ p \in GatePage /\ p.attempt = page.attempt
      /\ p.selectedEvent \in {page.selectedEvent, None}
  BY <1>2 DEF o
<1>4. /\ q \in GatePage /\ q.attempt = p.attempt /\ q.selectedEvent = p.selectedEvent
      /\ r \in GatePage /\ r.attempt = p.attempt /\ r.selectedEvent = p.selectedEvent
  BY <1>3 DEF GatePage
<1>5. PICK s \in {q, r} : Render(s, cameras)
  OBVIOUS
<1> HIDE DEF q, r
<1>6. /\ s \in GatePage /\ s.attempt = page.attempt
      /\ s.selectedEvent \in {page.selectedEvent, None}
  BY <1>3, <1>4, <1>5
<1> QED
  BY <1>5, <1>6, FollowsItself, GateStays

LEMMA GateStep ==
    ASSUME IInv, AtGate
    PROVE  GateFits' /\ Scans /\ (Left \/ On("gate")')
<1>0. GateFits /\ (On("gate") => page \in GatePage /\ GateCalls(calls))
  BY DEF IInv, GateFits, GateCalls
<1>1. CASE OpenGate
  <2>1. PICK token \in BOOLEAN :
          /\ page' = GateMounted(token)
          /\ calls' = IF token THEN {Call("events", None)} ELSE {}
    BY <1>1 DEF OpenGate
  <2>2. GateMounted(token) \in GatePage
    BY CameraNumbers DEF GateMounted, GatePage
  <2>3. GateMounted(token).name = "gate"
    BY DEF GateMounted
  <2>4. Call("events", None).op = "events"
    BY DEF Call
  <2>5. GateCalls(calls') /\ Scans
    BY <2>1, <2>4 DEF GateCalls, Scans
  <2>6. cameras' = {}
    BY <1>1 DEF OpenGate
  <2> QED
    BY <2>1, <2>2, <2>3, <2>5, <2>6 DEF GateFits, GateCalls, On
<1>2. CASE On("gate") /\ Operator
  BY <1>2, OperatorStep
<1>3. CASE Operator /\ ~On("gate") /\ ~OpenGate
  BY <1>3 DEF Operator, LeaveGate, SubmitGateLogin, SearchEvents, SelectEvent, StartCamera,
              StopCamera, SubmitCode, NextValidation, ChangeEvent, GateLogout
<1>4. ASSUME NEW c \in calls, On("gate"),
             GateLoginAnswered(c) \/ EventsAnswered(c) \/ ValidationAnswered(c)
      PROVE  GateFits' /\ Scans /\ On("gate")'
  <2>1. ASSUME calls' = calls \ {c} PROVE GateCalls(calls') /\ Scans
    BY <1>0, <1>4, <2>1 DEF GateCalls, Scans
  <2>2. CASE GateLoginAnswered(c)
    <3>1. CASE /\ Render([page EXCEPT !.token = TRUE, !.busy = "events"], cameras)
               /\ calls' = (calls \ {c}) \cup {Call("events", None)}
      <4> DEFINE p == [page EXCEPT !.token = TRUE, !.busy = "events"]
      <4>1. p \in GatePage /\ p.attempt = page.attempt /\ p.selectedEvent = page.selectedEvent
        BY <1>0, <1>4 DEF GatePage
      <4>2. Render(p, cameras)
        BY <3>1
      <4> HIDE DEF p
      <4>3. Call("events", None).op = "events"
        BY DEF Call
      <4>4. GateCalls(calls') /\ Scans
        BY <1>0, <1>4, <3>1, <4>3 DEF GateCalls, Scans
      <4> QED
        BY <1>0, <1>4, <4>1, <4>2, <4>4, FollowsItself, GateStays
    <3>2. CASE page' = [page EXCEPT !.busy = Empty] /\ calls' = calls \ {c} /\ UNCHANGED cameras
      <4> DEFINE p == [page EXCEPT !.busy = Empty]
      <4>1. p \in GatePage /\ p.attempt = page.attempt /\ p.selectedEvent = page.selectedEvent
        BY <1>0, <1>4 DEF GatePage
      <4> HIDE DEF p
      <4>2. page' = p
        BY <3>2 DEF p
      <4> QED
        BY <1>0, <1>4, <2>1, <3>2, <4>1, <4>2, CamerasAlone
    <3> QED
      BY <2>2, <3>1, <3>2 DEF GateLoginAnswered
  <2>3. CASE EventsAnswered(c)
    <3> DEFINE found == [page EXCEPT !.events = Events]
    <3>1. found \in GatePage /\ found.attempt = page.attempt /\ found.selectedEvent = page.selectedEvent
      BY <1>0, <1>4 DEF GatePage
    <3>2. PICK p \in {found, SessionOver(page), page} : Render([p EXCEPT !.busy = Empty], cameras)
      BY <2>3 DEF EventsAnswered
    <3> HIDE DEF found
    <3>3. calls' = calls \ {c}
      BY <2>3 DEF EventsAnswered
    <3> QED
      BY <1>0, <1>4, <2>1, <3>1, <3>2, <3>3, SessionFits
  <2>4. CASE ValidationAnswered(c)
    <3> DEFINE shown == [page EXCEPT !.result = c.about]
    <3>1. c.about \in Events /\ calls' = calls \ {c}
      BY <1>0, <1>4, <2>4 DEF ValidationAnswered, GateCalls
    <3>2. shown \in GatePage /\ shown.attempt = page.attempt /\ shown.selectedEvent = page.selectedEvent
      BY <1>0, <1>4, <3>1 DEF GatePage
    <3>3. PICK p \in {shown, SessionOver(page), page} :
            Render([p EXCEPT !.busy = Empty, !.scanLocked = FALSE], cameras)
      BY <2>4 DEF ValidationAnswered
    <3> HIDE DEF shown
    <3> QED
      BY <1>0, <1>4, <2>1, <3>1, <3>2, <3>3, SessionFits
  <2> QED
    BY <1>4, <2>2, <2>3, <2>4
<1>5. ASSUME NEW c \in cameras,
             Granted(c) \/ Refused(c) \/ TimesOut(c) \/ Returned(c) \/ Decoded(c)
      PROVE  GateFits' /\ Scans /\ (Left \/ On("gate")')
  <2>1. On("gate") \/ (page = Elsewhere /\ calls = {})
    BY <1>5 DEF IInv, PagesApart, OnOne
  <2> QED
    BY <1>5, <2>1, CameraStep DEF Left, On, Elsewhere
<1> QED
  BY <1>1, <1>2, <1>3, <1>4, <1>5 DEF AtGate, GateNext, GateAnswers

-----------------------------------------------------------------------------
(* The studio of the organizer                                             *)

LEMMA ForNothing == Empty \notin {"login", "create", "save", "publish", "filter"}
  BY DEF Empty

OwnEvents == [Events -> Stored \cup {None}]

(* Events are made and published, not unmade.                              *)
Grows ==
    /\ \A e : Exists(e) => e \in Events /\ ownEvents'[e] # None
    /\ \A e : IsPublished(e) => ownEvents'[e].status = "PUBLISHED"

LEMMA EventsStay ==
    ASSUME Grows
    PROVE  /\ \A e : Exists(e) => Exists(e)'
           /\ \A e : IsPublished(e) => IsPublished(e)'
  BY DEF Grows, Exists, IsPublished

LEMMA CallStays ==
    ASSUME Grows, NEW c, StudioCall(c)
    PROVE  StudioCall(c)'
  BY EventsStay DEF StudioCall, About

LEMMA PageStays ==
    ASSUME Grows, NEW p, PageOfStudio(p)
    PROVE  PageOfStudio(p)'
  BY EventsStay DEF PageOfStudio

LEMMA SameGrows == ASSUME UNCHANGED ownEvents PROVE Grows
  BY DEF Grows, Exists, IsPublished

(* The page goes on, over the same events.                                 *)
LEMMA StudioGoesOn ==
    ASSUME ownEvents \in OwnEvents, FormsStayWithEvents, UNCHANGED ownEvents,
           NEW p, PageOfStudio(p), page' = p, \A c \in calls' : StudioCall(c)
    PROVE  On("studio")' /\ StudioFits' /\ FormsStayWithEvents'
<1>1. /\ page'.name = "studio" /\ FormsStayWithEvents'
      /\ PageOfStudio(p)' /\ \A c \in calls' : StudioCall(c)'
  BY SameGrows, CallStays, PageStays DEF PageOfStudio, StudioPage, FormsStayWithEvents
<1>2. PageOfStudio(page)'
  BY <1>1 DEF PageOfStudio, Exists, IsPublished
<1>3. (\A c \in calls : StudioCall(c))'
  BY <1>1 DEF StudioCall, Exists, IsPublished
<1> QED
  BY <1>1, <1>2, <1>3 DEF On, StudioFits, OwnEvents

(* What is done with a page changes none of what it is about.              *)
LEMMA SamePage ==
    ASSUME NEW p, PageOfStudio(p), NEW q \in StudioPage,
           \/ q.selectedEvent = None
           \/ q.selectedEvent = p.selectedEvent /\ q.editForm = p.editForm,
           q.published \in {p.published, None}
    PROVE  PageOfStudio(q)
  BY DEF PageOfStudio

LEMMA IsDone ==
    ASSUME NEW p, PageOfStudio(p), NEW c, StudioCall(c), c.op \in {"list", "detail"}
    PROVE  PageOfStudio(Done(p, c))
<1> DEFINE x == IF c.about.for = "publish" THEN c.about.event ELSE None
           q == [p EXCEPT !.busy = Empty, !.published = x]
<1>1. x = None \/ IsPublished(x)
  BY DEF StudioCall
<1>2. x \in Events \cup {None}
  BY <1>1 DEF IsPublished, Exists
<1> HIDE DEF x
<1>3. q \in StudioPage /\ q.selectedEvent = p.selectedEvent /\ q.editForm = p.editForm /\ q.published = x
  BY <1>2 DEF PageOfStudio, StudioPage
<1> HIDE DEF q
<1>4. PageOfStudio(q)
  BY <1>1, <1>3 DEF PageOfStudio
<1>5. Done(p, c) = q \/ Done(p, c) = p
  BY DEF Done, q, x
<1> QED
  BY <1>4, <1>5

LEMMA IsOpening ==
    ASSUME NEW p, PageOfStudio(p)
    PROVE  PageOfStudio(Opening(p))
<1>1. /\ Opening(p) \in StudioPage /\ Opening(p).selectedEvent = p.selectedEvent
      /\ Opening(p).editForm = p.editForm /\ Opening(p).published = None
  BY DEF PageOfStudio, StudioPage, Opening
<1> QED
  BY <1>1, SamePage

(* A call that begins: it is about an event that is there, and a form is   *)
(* saved where it was opened.                                              *)
LEMMA CallBegins ==
    ASSUME NEW op \in {"boot", "login", "list", "catalog", "create", "detail", "save", "publish"},
           NEW e, NEW for, NEW form,
           op \in {"login", "create", "save", "publish"} => for = op,
           for = "publish" => op = "publish",
           op \in {"detail", "save", "publish"} => Exists(e),
           op = "save" => form = e,
           op = "list" => for # "create"
    PROVE  StudioCall(Call(op, About(e, for, form)))
<1> DEFINE a == About(e, for, form)
           c == Call(op, a)
<1>1. a.event = e /\ a.for = for /\ a.form = form
  BY DEF About
<1>2. c.op = op /\ c.about = a /\ c.answer = None /\ c = [n |-> c.n, op |-> op, about |-> a, answer |-> None]
  BY DEF Call
<1>3. a = About(a.event, a.for, a.form)
  BY <1>1
<1> HIDE DEF a, c
<1>4. None \notin Events /\ None # "OK"
  BY AnswersApart
<1>5. StudioCall(c)
  BY <1>1, <1>2, <1>3, <1>4 DEF StudioCall
<1> QED
  BY <1>5 DEF c, a

StudioHere ==
    /\ On("studio") /\ PageOfStudio(page) /\ page \in StudioPage /\ ownEvents \in OwnEvents
    /\ FormsStayWithEvents /\ \A c \in calls : StudioCall(c)

(* What the API does with a call, and what it answers                      *)
LEMMA ServedFits ==
    ASSUME StudioHere, NEW c, StudioCall(c), c.answer = None,
           c.op \in {"detail", "create", "save", "publish"},
           NEW s \in StudioServed(c), ownEvents' = s[1],
           NEW d, d = [c EXCEPT !.answer = s[2]]
    PROVE  ownEvents' \in OwnEvents /\ Grows /\ FormsStayWithEvents' /\ StudioCall(d)'
<1> DEFINE e == c.about.event
<1>0. /\ c = [n |-> c.n, op |-> c.op, about |-> About(e, c.about.for, c.about.form),
              answer |-> c.answer]
      /\ ownEvents \in OwnEvents /\ FormsStayWithEvents
      /\ None \notin Stored
  BY NoneIsNoEvent DEF StudioCall, StudioHere
<1>1. /\ d.op = c.op /\ d.about = c.about /\ d.answer = s[2]
      /\ d = [n |-> d.n, op |-> d.op, about |-> About(d.about.event, d.about.for, d.about.form),
              answer |-> d.answer]
  BY <1>0 DEF About
<1>2. CASE c.op = "detail"
  <2>1. s = <<ownEvents, [id |-> e, status |-> ownEvents[e].status]>>
    BY <1>2 DEF StudioServed
  <2>2. Exists(e) /\ ownEvents[e] \in Stored
    BY <1>0, <1>2 DEF StudioCall, Exists, OwnEvents
  <2>3. s[1] = ownEvents /\ s[2] \in Opened /\ s[2].id = e
    BY <2>1, <2>2 DEF Opened, Stored, Exists
  <2>4. Grows /\ ownEvents' \in OwnEvents /\ FormsStayWithEvents'
    BY <1>0, <2>3, SameGrows DEF FormsStayWithEvents
  <2>5. StudioCall(d)
    BY <1>1, <1>2, <2>2, <2>3 DEF StudioCall
  <2> QED
    BY <2>4, <2>5, CallStays
<1>3. CASE c.op = "create"
  <2>1. PICK f \in Events :
          /\ ownEvents[f] = None
          /\ s = <<[ownEvents EXCEPT ![f] = [status |-> "DRAFT", filledFrom |-> f]], f>>
    BY <1>3 DEF StudioServed
  <2> DEFINE new == [status |-> "DRAFT", filledFrom |-> f]
  <2>2. new \in Stored /\ new.filledFrom = f
    BY DEF Stored
  <2> HIDE DEF new
  <2>3. ownEvents' = [ownEvents EXCEPT ![f] = new] /\ s[2] = f
    BY <2>1 DEF new
  <2>4. ownEvents' \in OwnEvents
    BY <1>0, <2>2, <2>3 DEF OwnEvents
  <2>5. Grows
    BY <1>0, <2>1, <2>3 DEF OwnEvents, Grows, Exists, IsPublished
  <2>6. FormsStayWithEvents'
    BY <1>0, <2>2, <2>3 DEF OwnEvents, FormsStayWithEvents
  <2>7. Exists(f)'
    BY <1>0, <2>2, <2>3 DEF OwnEvents, Exists
  <2>8. StudioCall(c)'
    BY <2>5, CallStays
  <2> QED
    BY <1>1, <1>3, <2>3, <2>4, <2>5, <2>6, <2>7, <2>8 DEF StudioCall
<1>4. CASE c.op = "save"
  <2>1. /\ Exists(e) /\ c.about.form = e
        /\ s = <<[ownEvents EXCEPT ![e].filledFrom = c.about.form], "OK">>
    BY <1>4 DEF StudioServed, StudioCall
  <2> DEFINE new == [ownEvents[e] EXCEPT !.filledFrom = e]
  <2>2. ownEvents[e] \in Stored /\ e \in Events
    BY <1>0, <2>1 DEF OwnEvents, Exists
  <2>3. new \in Stored /\ new.filledFrom = e /\ new.status = ownEvents[e].status
    BY <2>2 DEF Stored
  <2>4. ownEvents' = [ownEvents EXCEPT ![e] = new] /\ s[2] = "OK"
    BY <1>0, <2>1, <2>2 DEF OwnEvents
  <2> HIDE DEF new
  <2>5. ownEvents' \in OwnEvents
    BY <1>0, <2>3, <2>4 DEF OwnEvents
  <2>6. Grows
    BY <1>0, <2>2, <2>3, <2>4 DEF OwnEvents, Grows, Exists, IsPublished
  <2>7. FormsStayWithEvents'
    BY <1>0, <2>2, <2>3, <2>4 DEF OwnEvents, FormsStayWithEvents
  <2>8. StudioCall(c)'
    BY <2>6, CallStays
  <2> QED
    BY <1>1, <1>4, <2>4, <2>5, <2>6, <2>7, <2>8 DEF StudioCall
<1>5. CASE c.op = "publish"
  <2>1. Exists(e) /\ s = <<[ownEvents EXCEPT ![e].status = "PUBLISHED"], "OK">>
    BY <1>5 DEF StudioServed, StudioCall
  <2> DEFINE new == [ownEvents[e] EXCEPT !.status = "PUBLISHED"]
  <2>2. ownEvents[e] \in Stored /\ e \in Events
    BY <1>0, <2>1 DEF OwnEvents, Exists
  <2>3. new \in Stored /\ new.status = "PUBLISHED" /\ new.filledFrom = ownEvents[e].filledFrom
    BY <2>2 DEF Stored
  <2>4. ownEvents' = [ownEvents EXCEPT ![e] = new] /\ s[2] = "OK"
    BY <1>0, <2>1, <2>2 DEF OwnEvents
  <2> HIDE DEF new
  <2>5. ownEvents' \in OwnEvents
    BY <1>0, <2>3, <2>4 DEF OwnEvents
  <2>6. Grows
    BY <1>0, <2>2, <2>3, <2>4 DEF OwnEvents, Grows, Exists, IsPublished
  <2>7. FormsStayWithEvents'
    BY <1>0, <2>1, <2>2, <2>3, <2>4 DEF OwnEvents, FormsStayWithEvents, Exists
  <2>8. StudioCall(c)' /\ IsPublished(e)'
    BY <1>0, <2>2, <2>3, <2>4, <2>6, CallStays DEF OwnEvents, Exists, IsPublished
  <2> QED
    BY <1>1, <1>5, <2>4, <2>5, <2>6, <2>7, <2>8 DEF StudioCall
<1> QED
  BY <1>2, <1>3, <1>4, <1>5

(* An answer that says no, or is lost                                      *)
LEMMA FailedFits ==
    ASSUME NEW c, StudioCall(c), c.op \in {"detail", "create", "save", "publish"},
           NEW d, d = [c EXCEPT !.answer = Failed]
    PROVE  StudioCall(d)
<1>1. /\ d.op = c.op /\ d.about = c.about /\ d.answer = Failed
      /\ d = [n |-> d.n, op |-> d.op, about |-> About(d.about.event, d.about.for, d.about.form),
              answer |-> d.answer]
  BY DEF StudioCall
<1>2. Failed \notin Events /\ Failed # "OK"
  BY AnswersApart
<1> QED
  BY <1>1, <1>2 DEF StudioCall

LEMMA StudioServes ==
    ASSUME StudioHere, NEW c \in calls, ServeStudio(c)
    PROVE  On("studio")' /\ StudioFits' /\ FormsStayWithEvents'
<1>1. /\ StudioCall(c) /\ c.answer = None /\ page' = page
      /\ c.op \in {"detail", "create", "save", "publish"}
  BY DEF ServeStudio, StudioHere
<1> DEFINE lost == [c EXCEPT !.answer = Failed]
<1>2. StudioCall(lost)
  BY <1>1, FailedFits
<1> HIDE DEF lost
<1>3. PICK d : /\ calls' = (calls \ {c}) \cup {d}
               /\ ownEvents' \in OwnEvents /\ Grows /\ FormsStayWithEvents' /\ StudioCall(d)'
  <2>1. CASE \E s \in StudioServed(c) : ownEvents' = s[1] /\ (Answered(c, s[2]) \/ Answered(c, Failed))
    <3>1. PICK s \in StudioServed(c) : ownEvents' = s[1] /\ (Answered(c, s[2]) \/ Answered(c, Failed))
      BY <2>1
    <3> DEFINE d == [c EXCEPT !.answer = s[2]]
    <3>2. ownEvents' \in OwnEvents /\ Grows /\ FormsStayWithEvents' /\ StudioCall(d)'
      BY <1>1, <3>1, ServedFits
    <3>3. StudioCall(lost)'
      BY <1>2, <3>2, CallStays
    <3> HIDE DEF d
    <3>4. calls' = (calls \ {c}) \cup {d} \/ calls' = (calls \ {c}) \cup {lost}
      BY <3>1 DEF Answered, d, lost
    <3> QED
      BY <3>2, <3>3, <3>4
  <2>2. CASE UNCHANGED ownEvents /\ Answered(c, Failed)
    <3>1. Grows /\ ownEvents' \in OwnEvents /\ FormsStayWithEvents'
      BY <2>2, SameGrows DEF StudioHere, FormsStayWithEvents
    <3>2. StudioCall(lost)'
      BY <1>2, <3>1, CallStays
    <3> QED
      BY <2>2, <3>1, <3>2 DEF Answered, lost
  <2> QED
    BY <2>1, <2>2 DEF ServeStudio
<1>4. /\ PageOfStudio(page)' /\ page'.name = "studio"
      /\ \A b \in calls' : StudioCall(b)'
  <2>1. PageOfStudio(page) /\ Grows
    BY <1>3 DEF StudioHere
  <2>2. \A p : p = page => PageOfStudio(p)'
    BY <2>1, PageStays
  <2>3. PageOfStudio(page)'
    BY <1>1, <2>2 DEF PageOfStudio, Exists, IsPublished
  <2>4. \A b \in calls : StudioCall(b)'
    BY <1>3, CallStays DEF StudioHere
  <2> QED
    BY <1>1, <1>3, <2>3, <2>4 DEF StudioHere, On
<1>5. (\A b \in calls : StudioCall(b))'
  BY <1>4 DEF StudioCall, Exists, IsPublished
<1> QED
  BY <1>3, <1>4, <1>5 DEF StudioFits, On, OwnEvents

(* The same page but for what the promises do not speak of                 *)
LEMMA OnlyBusy ==
    ASSUME NEW p, PageOfStudio(p),
           NEW b \in {Empty, "login", "catalog", "create", "event", "save", "publish"},
           NEW t \in BOOLEAN
    PROVE  /\ PageOfStudio([p EXCEPT !.busy = b])
           /\ PageOfStudio([p EXCEPT !.busy = b, !.published = None])
           /\ PageOfStudio([p EXCEPT !.eventsLoading = t])
           /\ PageOfStudio([p EXCEPT !.selectedMovie = t])
<1> DEFINE q1 == [p EXCEPT !.busy = b]
           q2 == [p EXCEPT !.busy = b, !.published = None]
           q3 == [p EXCEPT !.eventsLoading = t]
           q4 == [p EXCEPT !.selectedMovie = t]
<1>1. p \in StudioPage
  BY DEF PageOfStudio
<1>2. ASSUME NEW q \in {q1, q2, q3, q4}
      PROVE  /\ q \in StudioPage /\ q.selectedEvent = p.selectedEvent /\ q.editForm = p.editForm
             /\ q.published \in {p.published, None}
  BY <1>1, <1>2 DEF StudioPage
<1>3. ASSUME NEW q \in {q1, q2, q3, q4} PROVE PageOfStudio(q)
  BY <1>2, SamePage
<1> QED
  BY <1>3

(* What follows a call that is answered is about the same event.           *)
LEMMA Followed ==
    ASSUME NEW c, StudioCall(c), NEW op \in {"list", "detail"},
           op = "detail" => Exists(c.about.event),
           op = "list" => c.about.for # "create",
           c.about.for = "publish" => IsPublished(c.about.event),
           NEW d, d = [c EXCEPT !.op = op, !.answer = None]
    PROVE  StudioCall(d)
<1>0. /\ c = [n |-> c.n, op |-> c.op, about |-> c.about, answer |-> c.answer]
      /\ c.about = About(c.about.event, c.about.for, c.about.form)
  BY DEF StudioCall
<1>1. /\ d.op = op /\ d.about = c.about /\ d.answer = None
      /\ d = [n |-> d.n, op |-> d.op, about |-> d.about, answer |-> d.answer]
      /\ d.about = About(d.about.event, d.about.for, d.about.form)
  BY <1>0
<1> QED
  BY <1>1 DEF StudioCall

LEMMA SessionAnswered ==
    ASSUME StudioHere, UNCHANGED ownEvents, NEW c \in calls,
           Booted(c) \/ StudioLoginAnswered(c) \/ CatalogAnswered(c)
    PROVE  On("studio")' /\ StudioFits' /\ FormsStayWithEvents'
<1>1. /\ StudioCall(c) /\ PageOfStudio(page) /\ page \in StudioPage
      /\ ownEvents \in OwnEvents /\ FormsStayWithEvents /\ \A b \in calls : StudioCall(b)
  BY DEF StudioHere
<1>2. CASE Booted(c)
  <2>1. PICK organizer \in BOOLEAN : page' = [page EXCEPT !.booting = FALSE, !.token = organizer]
    BY <1>2 DEF Booted
  <2> DEFINE p == [page EXCEPT !.booting = FALSE, !.token = organizer]
  <2>2. /\ p \in StudioPage /\ p.selectedEvent = page.selectedEvent /\ p.editForm = page.editForm
        /\ p.published = page.published
    BY <1>1 DEF StudioPage
  <2>3. page' = p /\ calls' = calls \ {c}
    BY <1>2, <2>1 DEF Booted
  <2> HIDE DEF p
  <2>4. PageOfStudio(p)
    BY <1>1, <2>2, SamePage
  <2> QED
    BY <1>1, <2>3, <2>4, StudioGoesOn
<1>3. CASE CatalogAnswered(c)
  <2> DEFINE p == [page EXCEPT !.busy = Empty]
  <2>1. PageOfStudio(p)
    BY <1>1, OnlyBusy
  <2>2. page' = p /\ calls' = calls \ {c}
    BY <1>3 DEF CatalogAnswered
  <2> HIDE DEF p
  <2> QED
    BY <1>1, <2>1, <2>2, StudioGoesOn
<1>4. CASE StudioLoginAnswered(c)
  <2>1. CASE /\ page' = [page EXCEPT !.token = TRUE, !.eventsLoading = TRUE]
             /\ calls' = (calls \ {c}) \cup {Refresh(c)}
    <3> DEFINE p == [page EXCEPT !.token = TRUE, !.eventsLoading = TRUE]
               d == Refresh(c)
    <3>1. /\ p \in StudioPage /\ p.selectedEvent = page.selectedEvent /\ p.editForm = page.editForm
          /\ p.published = page.published
      BY <1>1 DEF StudioPage
    <3>2. c.about.for = "login"
      BY <1>1, <1>4 DEF StudioLoginAnswered, StudioCall
    <3>3. StudioCall(d)
      BY <1>1, <3>2, Followed DEF Refresh
    <3>4. page' = p /\ calls' = (calls \ {c}) \cup {d}
      BY <2>1
    <3> HIDE DEF p, d
    <3>5. PageOfStudio(p)
      BY <1>1, <3>1, SamePage
    <3> QED
      BY <1>1, <3>3, <3>4, <3>5, StudioGoesOn
  <2>2. CASE page' = [page EXCEPT !.busy = Empty] /\ calls' = calls \ {c}
    <3> DEFINE p == [page EXCEPT !.busy = Empty]
    <3>1. PageOfStudio(p)
      BY <1>1, OnlyBusy
    <3>2. page' = p
      BY <2>2
    <3> HIDE DEF p
    <3> QED
      BY <1>1, <2>2, <3>1, <3>2, StudioGoesOn
  <2> QED
    BY <1>4, <2>1, <2>2 DEF StudioLoginAnswered
<1> QED
  BY <1>2, <1>3, <1>4

LEMMA Refreshed ==
    ASSUME NEW n, NEW op, NEW about, NEW answer
    PROVE  Refresh([n |-> n, op |-> op, about |-> about, answer |-> answer])
             = [n |-> n, op |-> "list", about |-> about, answer |-> None]
<1> DEFINE c == [n |-> n, op |-> op, about |-> about, answer |-> answer]
           d == [c EXCEPT !.op = "list"]
<1>1. d = [n |-> n, op |-> "list", about |-> about, answer |-> answer]
  OBVIOUS
<1>2. Refresh(c) = [d EXCEPT !.answer = None]
  <2> HIDE DEF c
  <2> QED  BY DEF Refresh
<1> HIDE DEF d
<1> QED
  BY <1>1, <1>2

LEMMA HandlerAnswered ==
    ASSUME StudioHere, UNCHANGED ownEvents, NEW c \in calls, Created(c) \/ Submitted(c)
    PROVE  On("studio")' /\ StudioFits' /\ FormsStayWithEvents'
<1>1. /\ StudioCall(c) /\ PageOfStudio(page) /\ page \in StudioPage
      /\ ownEvents \in OwnEvents /\ FormsStayWithEvents /\ \A b \in calls : StudioCall(b)
  BY DEF StudioHere
<1>2. CASE page' = [page EXCEPT !.busy = Empty] /\ calls' = calls \ {c}
  <2> DEFINE p == [page EXCEPT !.busy = Empty]
  <2>1. PageOfStudio(p)
    BY <1>1, OnlyBusy
  <2>2. page' = p
    BY <1>2
  <2> HIDE DEF p
  <2> QED
    BY <1>1, <1>2, <2>1, <2>2, StudioGoesOn
<1>3. CASE /\ c.op = "create" /\ c.answer \in Events
           /\ page' = [page EXCEPT !.eventsLoading = TRUE]
           /\ calls' = (calls \ {c}) \cup {[Refresh(c) EXCEPT !.about.event = c.answer]}
  <2> DEFINE p == [page EXCEPT !.eventsLoading = TRUE]
             a == About(c.answer, "create", c.about.form)
             d == [n |-> c.n, op |-> "list", about |-> a, answer |-> None]
  <2>1. PageOfStudio(p)
    BY <1>1, OnlyBusy
  <2>2. [Refresh(c) EXCEPT !.about.event = c.answer] = d
    <3>1. /\ c = [n |-> c.n, op |-> c.op, about |-> c.about, answer |-> c.answer]
          /\ c.about.for = "create" /\ c.about = About(c.about.event, "create", c.about.form)
      BY <1>1, <1>3 DEF StudioCall
    <3>2. Refresh(c) = [n |-> c.n, op |-> "list", about |-> c.about, answer |-> None]
      <4>1. PICK n, op, about, answer : c = [n |-> n, op |-> op, about |-> about, answer |-> answer]
        BY <3>1
      <4>2. c.n = n /\ c.about = about /\ c.answer = answer
        BY <4>1
      <4>3. Refresh(c) = [n |-> n, op |-> "list", about |-> about, answer |-> None]
        BY <4>1, Refreshed
      <4> QED  BY <4>2, <4>3
    <3>3. [c.about EXCEPT !.event = c.answer] = a
      BY <3>1 DEF About
    <3> QED
      BY <3>2, <3>3
  <2>3. Exists(c.answer)
    BY <1>1, <1>3 DEF StudioCall
  <2>4. StudioCall(d)
    BY <2>3 DEF StudioCall, About
  <2>5. page' = p /\ calls' = (calls \ {c}) \cup {d}
    BY <1>3, <2>2
  <2> HIDE DEF p, d
  <2> QED
    BY <1>1, <2>1, <2>4, <2>5, StudioGoesOn
<1>4. CASE /\ c.op \in {"save", "publish"} /\ c.answer = "OK"
           /\ page' = [Opening(page) EXCEPT !.eventsLoading = TRUE]
           /\ calls' = (calls \ {c}) \cup {Refresh(c), [c EXCEPT !.op = "detail", !.answer = None]}
  <2> DEFINE p == [Opening(page) EXCEPT !.eventsLoading = TRUE]
             d == Refresh(c)
             e == [c EXCEPT !.op = "detail", !.answer = None]
  <2>1. PageOfStudio(p)
    BY <1>1, IsOpening, OnlyBusy
  <2>2. /\ Exists(c.about.event) /\ c.about.for # "create"
        /\ c.about.for = "publish" => IsPublished(c.about.event)
    BY <1>1, <1>4 DEF StudioCall
  <2>3. StudioCall(d) /\ StudioCall(e)
    BY <1>1, <2>2, Followed DEF Refresh
  <2>4. page' = p /\ calls' = (calls \ {c}) \cup {d, e}
    BY <1>4
  <2> HIDE DEF p, d, e
  <2> QED
    BY <1>1, <2>1, <2>3, <2>4, StudioGoesOn
<1> QED
  BY <1>2, <1>3, <1>4 DEF Created, Submitted

LEMMA ListsAnswered ==
    ASSUME StudioHere, UNCHANGED ownEvents, NEW c \in calls, OpenedAnswered(c) \/ ListRefreshed(c)
    PROVE  On("studio")' /\ StudioFits' /\ FormsStayWithEvents'
<1>1. /\ StudioCall(c) /\ PageOfStudio(page) /\ page \in StudioPage
      /\ ownEvents \in OwnEvents /\ FormsStayWithEvents /\ \A b \in calls : StudioCall(b)
  BY DEF StudioHere
<1>2. CASE OpenedAnswered(c)
  <2> DEFINE p == [page EXCEPT !.busy = Empty]
             q == [p EXCEPT !.selectedEvent = c.answer, !.editForm = c.answer.id]
             r == IF c.answer = Failed THEN p ELSE q
  <2>1. c.op = "detail" /\ calls' = calls \ {c} /\ page' = Done(r, c)
    BY <1>2 DEF OpenedAnswered
  <2>2. PageOfStudio(p)
    BY <1>1, OnlyBusy
  <2>3. ASSUME c.answer # Failed PROVE PageOfStudio(q)
    <3>1. c.answer \in Opened /\ Exists(c.answer.id)
      BY <1>1, <1>2, <2>1, <2>3 DEF StudioCall, OpenedAnswered
    <3>2. c.answer.id \in Events
      BY <3>1 DEF Opened
    <3>3. /\ q \in StudioPage /\ q.selectedEvent = c.answer /\ q.editForm = c.answer.id
          /\ q.published = p.published
      <4>1. p \in StudioPage
        BY <2>2 DEF PageOfStudio
      <4> HIDE DEF p
      <4> QED  BY <3>1, <3>2, <4>1 DEF StudioPage
    <3> HIDE DEF p, q
    <3> QED
      BY <2>2, <3>1, <3>3 DEF PageOfStudio
  <2> HIDE DEF p, q
  <2>4. PageOfStudio(r)
    BY <2>2, <2>3
  <2> HIDE DEF r
  <2>5. PageOfStudio(Done(r, c))
    BY <1>1, <2>1, <2>4, IsDone
  <2> QED
    BY <1>1, <2>1, <2>5, StudioGoesOn
<1>3. CASE ListRefreshed(c)
  <2> DEFINE p == [page EXCEPT !.eventsLoading = FALSE]
             rest == calls \ {c}
             alone(d) == [Call("detail", [d.about EXCEPT !.for = Empty]) EXCEPT !.answer = d.answer]
             b == IF c.about.for = "filter" THEN p.busy ELSE Empty
  <2>1. c.op = "list" /\ PageOfStudio(p) /\ p \in StudioPage
    <3>1. c.op = "list"
      BY <1>3 DEF ListRefreshed
    <3>2. PageOfStudio(p)
      BY <1>1, OnlyBusy
    <3> QED
      BY <3>1, <3>2 DEF PageOfStudio
  <2>2. CASE /\ page' = [p EXCEPT !.busy = b]
             /\ calls' = {IF Pair(c, d) THEN alone(d) ELSE d : d \in rest}
    <3>1. b \in {Empty, "login", "catalog", "create", "event", "save", "publish"}
      <4> HIDE DEF p
      <4> QED  BY <2>1 DEF StudioPage
    <3> HIDE DEF b, p
    <3> DEFINE q == [p EXCEPT !.busy = b]
    <3>2. PageOfStudio(q)
      BY <2>1, <3>1, OnlyBusy
    <3>3. ASSUME NEW d \in rest, Pair(c, d) PROVE StudioCall(alone(d))
      <4>1. d.op = "detail" /\ StudioCall(d)
        BY <1>1, <2>1, <3>3 DEF Pair
      <4> DEFINE a == About(d.about.event, Empty, d.about.form)
                 f == Call("detail", a)
                 g == [f EXCEPT !.answer = d.answer]
      <4>2. [d.about EXCEPT !.for = Empty] = a
        <5>1. d.about = About(d.about.event, d.about.for, d.about.form)
          BY <4>1 DEF StudioCall
        <5> QED  BY <5>1 DEF About
      <4>3. /\ a.event = d.about.event /\ a.for = Empty
            /\ a = About(a.event, a.for, a.form)
        BY DEF About
      <4> HIDE DEF a
      <4>4. /\ g = [n |-> g.n, op |-> g.op, about |-> g.about, answer |-> g.answer]
            /\ g.op = "detail" /\ g.about = a /\ g.answer = d.answer
        BY DEF Call
      <4> HIDE DEF g
      <4>5. StudioCall(g)
        BY <4>1, <4>3, <4>4, ForNothing DEF StudioCall
      <4> QED
        BY <4>2, <4>5 DEF g
    <3> HIDE DEF alone
    <3>4. \A d \in calls' : StudioCall(d)
      BY <1>1, <2>2, <3>3
    <3> HIDE DEF q
    <3>5. page' = q
      BY <2>2 DEF q
    <3> QED
      BY <1>1, <3>2, <3>4, <3>5, StudioGoesOn
  <2>3. CASE /\ c.about.for = "create" /\ page' = Opening([p EXCEPT !.selectedMovie = FALSE])
             /\ calls' = rest \cup {[c EXCEPT !.op = "detail"]}
    <3> DEFINE q == [p EXCEPT !.selectedMovie = FALSE]
               d == [c EXCEPT !.op = "detail"]
    <3>1. PageOfStudio(q)
      <4> HIDE DEF p
      <4> QED  BY <2>1, OnlyBusy
    <3>2. PageOfStudio(Opening(q))
      <4> HIDE DEF q
      <4> QED  BY <3>1, IsOpening
    <3>3. Exists(c.about.event) /\ c.answer = None
      BY <1>1, <2>1, <2>3 DEF StudioCall
    <3>4. d = [c EXCEPT !.op = "detail", !.answer = None]
      BY <1>1, <3>3 DEF StudioCall
    <3>5. StudioCall(d)
      <4> HIDE DEF d
      <4> QED  BY <1>1, <2>3, <3>3, <3>4, Followed
    <3>6. page' = Opening(q) /\ calls' = rest \cup {d}
      BY <2>3
    <3> HIDE DEF p, q, d
    <3> QED
      BY <1>1, <3>2, <3>5, <3>6, StudioGoesOn
  <2>4. CASE page' = [p EXCEPT !.busy = Empty] /\ calls' = rest
    <3> DEFINE q == [p EXCEPT !.busy = Empty]
    <3>1. PageOfStudio(q)
      <4> HIDE DEF p
      <4> QED  BY <2>1, OnlyBusy
    <3>2. page' = q /\ calls' = rest
      BY <2>4
    <3> HIDE DEF p, q
    <3> QED
      BY <1>1, <3>1, <3>2, StudioGoesOn
  <2>5. CASE page' = Done(p, c) /\ calls' = rest
    <3> HIDE DEF p
    <3>1. PageOfStudio(Done(p, c))
      BY <1>1, <2>1, IsDone
    <3> QED
      BY <1>1, <2>5, <3>1, StudioGoesOn
  <2> QED
    BY <1>3, <2>2, <2>3, <2>4, <2>5 DEF ListRefreshed
<1> QED
  BY <1>2, <1>3

(* A handler begins with its call.                                         *)
LEMMA StudioBegins ==
    ASSUME StudioHere, NEW p, PageOfStudio(p), NEW c, StudioCall(c), Begins(p, c)
    PROVE  On("studio")' /\ StudioFits' /\ FormsStayWithEvents'
  BY StudioGoesOn DEF StudioHere, Begins

LEMMA OrganizerStep ==
    ASSUME StudioHere,
           \/ SubmitStudioLogin \/ StudioLogout \/ NewSession \/ LoadCatalog \/ ChooseMovie
           \/ CreateDraft \/ FilterEvents \/ (\E e \in Events : OpenEvent(e))
           \/ \E op \in {"save", "publish"} : Submit(op)
    PROVE  On("studio")' /\ StudioFits' /\ FormsStayWithEvents'
<1>1. PageOfStudio(page) /\ page \in StudioPage
  BY DEF StudioHere
<1>2. ASSUME NEW p, PageOfStudio(p), Shows(p) PROVE On("studio")' /\ StudioFits' /\ FormsStayWithEvents'
  BY <1>2, StudioGoesOn DEF StudioHere, Shows
<1>3. CASE SubmitStudioLogin
  <2> DEFINE p == [page EXCEPT !.busy = "login"]
             c == Call("login", About(None, "login", None))
  <2>1. PageOfStudio(p) /\ StudioCall(c)
    BY <1>1, OnlyBusy, CallBegins
  <2>2. Begins(p, c)
    BY <1>3 DEF SubmitStudioLogin
  <2> HIDE DEF p, c
  <2> QED
    BY <2>1, <2>2, StudioBegins
<1>4. CASE StudioLogout
  <2> DEFINE p == [page EXCEPT !.token = FALSE, !.selectedEvent = None,
                               !.selectedMovie = FALSE, !.published = None]
  <2>1. p \in StudioPage /\ p.selectedEvent = None /\ p.published = None
    BY <1>1 DEF StudioPage
  <2>2. Shows(p)
    BY <1>4 DEF StudioLogout
  <2> HIDE DEF p
  <2> QED
    BY <1>1, <1>2, <2>1, <2>2, SamePage
<1>5. CASE NewSession
  <2> DEFINE p == [page EXCEPT !.workspaceMode = "catalog", !.selectedEvent = None,
                               !.selectedMovie = FALSE, !.published = None]
  <2>1. p \in StudioPage /\ p.selectedEvent = None /\ p.published = None
    BY <1>1 DEF StudioPage
  <2>2. Shows(p)
    BY <1>5 DEF NewSession
  <2> HIDE DEF p
  <2> QED
    BY <1>1, <1>2, <2>1, <2>2, SamePage
<1>6. CASE LoadCatalog
  <2> DEFINE p == [page EXCEPT !.busy = "catalog", !.published = None, !.selectedMovie = FALSE]
             c == Call("catalog", About(None, Empty, None))
  <2>1. /\ p \in StudioPage /\ p.published = None
        /\ p.selectedEvent = page.selectedEvent /\ p.editForm = page.editForm
    BY <1>1 DEF StudioPage
  <2>2. StudioCall(c)
    BY CallBegins, ForNothing
  <2>3. Begins(p, c)
    BY <1>6 DEF LoadCatalog
  <2> HIDE DEF p, c
  <2>4. PageOfStudio(p)
    BY <1>1, <2>1, SamePage
  <2> QED
    BY <2>2, <2>3, <2>4, StudioBegins
<1>7. CASE ChooseMovie
  <2> DEFINE p == [page EXCEPT !.selectedMovie = TRUE, !.published = None]
  <2>1. /\ p \in StudioPage /\ p.published = None
        /\ p.selectedEvent = page.selectedEvent /\ p.editForm = page.editForm
    BY <1>1 DEF StudioPage
  <2>2. Shows(p)
    BY <1>7 DEF ChooseMovie
  <2> HIDE DEF p
  <2> QED
    BY <1>1, <1>2, <2>1, <2>2, SamePage
<1>8. CASE CreateDraft
  <2> DEFINE p == [page EXCEPT !.busy = "create", !.published = None]
             c == Call("create", About(None, "create", None))
  <2>1. PageOfStudio(p) /\ StudioCall(c)
    BY <1>1, OnlyBusy, CallBegins
  <2>2. Begins(p, c)
    BY <1>8 DEF CreateDraft
  <2> HIDE DEF p, c
  <2> QED
    BY <2>1, <2>2, StudioBegins
<1>9. CASE FilterEvents
  <2> DEFINE p == [page EXCEPT !.eventsLoading = TRUE]
             c == Call("list", About(None, "filter", None))
  <2>1. PageOfStudio(p) /\ StudioCall(c)
    BY <1>1, OnlyBusy, CallBegins
  <2>2. Begins(p, c)
    BY <1>9 DEF FilterEvents
  <2> HIDE DEF p, c
  <2> QED
    BY <2>1, <2>2, StudioBegins
<1>10. CASE \E e \in Events : OpenEvent(e)
  <2>1. PICK e \in Events : OpenEvent(e)
    BY <1>10
  <2> DEFINE c == Call("detail", About(e, Empty, None))
  <2>2. Begins(Opening(page), c) /\ Exists(e)
    BY <2>1 DEF OpenEvent, Exists
  <2>3. PageOfStudio(Opening(page)) /\ StudioCall(c)
    BY <1>1, <2>2, IsOpening, CallBegins, ForNothing
  <2> HIDE DEF c
  <2> QED
    BY <2>2, <2>3, StudioBegins
<1>11. CASE \E op \in {"save", "publish"} : Submit(op)
  <2>1. PICK op \in {"save", "publish"} : Submit(op)
    BY <1>11
  <2> DEFINE p == [page EXCEPT !.busy = op, !.published = None]
             e == page.selectedEvent.id
             form == IF op = "save" THEN page.editForm ELSE None
             c == Call(op, About(e, op, form))
  <2>2. Begins(p, c) /\ page.selectedEvent # None
    BY <2>1 DEF Submit, Editable
  <2>3. Exists(e) /\ (op = "save" => form = e)
    BY <1>1, <2>2 DEF PageOfStudio
  <2> HIDE DEF e, form
  <2>4. PageOfStudio(p) /\ StudioCall(c)
    BY <1>1, <2>3, OnlyBusy, CallBegins
  <2> HIDE DEF p, c
  <2> QED
    BY <2>2, <2>4, StudioBegins
<1> QED
  BY <1>3, <1>4, <1>5, <1>6, <1>7, <1>8, <1>9, <1>10, <1>11

LEMMA StudioStep ==
    ASSUME IInv, AtStudio
    PROVE  StudioFits' /\ FormsStayWithEvents' /\ ((Left /\ ownEvents' = NoEvents) \/ On("studio")')
<1>1. ASSUME On("studio") PROVE StudioHere
  BY <1>1 DEF IInv, StudioFits, StudioHere, PageOfStudio, OwnEvents
<1>2. CASE OpenStudio
  <2>1. PICK token \in BOOLEAN, own \in SUBSET Events :
          /\ page' = StudioMounted(token)
          /\ calls' = IF token THEN {Call("boot", About(None, Empty, None))} ELSE {}
          /\ ownEvents' = [e \in Events |-> IF e \in own THEN [status |-> "DRAFT", filledFrom |-> e] ELSE None]
    BY <1>2 DEF OpenStudio
  <2> DEFINE p == StudioMounted(token)
  <2>0. PICK c : c = Call("boot", About(None, Empty, None))
    OBVIOUS
  <2>2. ownEvents' \in OwnEvents /\ FormsStayWithEvents'
    BY <2>1 DEF OwnEvents, Stored, FormsStayWithEvents
  <2>3. /\ c = [n |-> c.n, op |-> c.op, about |-> c.about, answer |-> c.answer]
        /\ c.op = "boot" /\ c.about = About(None, Empty, None)
    BY <2>0 DEF Call
  <2>4. c.about.for = Empty /\ c.about = About(c.about.event, c.about.for, c.about.form)
    BY <2>3 DEF About
  <2>5. StudioCall(c)'
    BY <2>3, <2>4, ForNothing DEF StudioCall
  <2>6. p \in StudioPage /\ p.name = "studio" /\ p.selectedEvent = None /\ p.published = None
    BY <2>1 DEF StudioMounted, StudioPage
  <2> HIDE DEF p
  <2>7. page' = p /\ calls' \subseteq {c}
    BY <2>0, <2>1 DEF p
  <2>8. PageOfStudio(page)'
    BY <2>6, <2>7 DEF PageOfStudio
  <2>9. (\A b \in calls : StudioCall(b))'
    BY <2>5, <2>7 DEF StudioCall, Exists, IsPublished
  <2> QED
    BY <2>2, <2>6, <2>7, <2>8, <2>9 DEF StudioFits, On, OwnEvents
<1>3. CASE LeaveStudio
  BY <1>3 DEF LeaveStudio, Left, StudioFits, FormsStayWithEvents, NoEvents, On, Elsewhere
<1>4. ASSUME NEW c \in calls, ServeStudio(c) PROVE StudioFits' /\ FormsStayWithEvents' /\ On("studio")'
  BY <1>1, <1>4, StudioServes DEF ServeStudio
<1>5. ASSUME NEW c \in calls, StudioAnswer(c) PROVE StudioFits' /\ FormsStayWithEvents' /\ On("studio")'
  <2>1. StudioHere /\ UNCHANGED ownEvents
    BY <1>1, <1>5 DEF StudioAnswer
  <2>2. \/ Booted(c) \/ StudioLoginAnswered(c) \/ CatalogAnswered(c)
        \/ Created(c) \/ Submitted(c) \/ OpenedAnswered(c) \/ ListRefreshed(c)
    BY <1>5 DEF StudioAnswer
  <2> QED
    BY <2>1, <2>2, SessionAnswered, HandlerAnswered, ListsAnswered
<1>6. ASSUME \/ SubmitStudioLogin \/ StudioLogout \/ NewSession \/ LoadCatalog \/ ChooseMovie
             \/ CreateDraft \/ FilterEvents \/ (\E e \in Events : OpenEvent(e))
             \/ \E op \in {"save", "publish"} : Submit(op)
      PROVE  StudioFits' /\ FormsStayWithEvents' /\ On("studio")'
  <2>1. On("studio")
    BY <1>6 DEF SubmitStudioLogin, StudioLogout, NewSession, LoadCatalog, ChooseMovie,
                CreateDraft, InCatalog, FilterEvents, OpenEvent, Submit, Editable
  <2> QED
    BY <1>1, <1>6, <2>1, OrganizerStep
<1> QED
  BY <1>2, <1>3, <1>4, <1>5, <1>6 DEF AtStudio, StudioNext

-----------------------------------------------------------------------------
(* The calls in flight                                                     *)

Heavy(cs) == {c \in cs : Double(c)}

LEMMA Weighs ==
    ASSUME NEW cs, IsFiniteSet(cs)
    PROVE  /\ IsFiniteSet(Heavy(cs)) /\ Cardinality(cs) \in Nat /\ Cardinality(Heavy(cs)) \in Nat
           /\ Cardinality(Heavy(cs)) <= Cardinality(cs)
           /\ Weight(cs) = Cardinality(cs) + Cardinality(Heavy(cs))
<1>1. Heavy(cs) \in SUBSET cs
  BY DEF Heavy
<1> QED
  BY <1>1, FS_Subset, FS_CardinalityType DEF Weight, Heavy

LEMMA WeightOfFewer ==
    ASSUME NEW cs, IsFiniteSet(cs), NEW ds \in SUBSET cs
    PROVE  IsFiniteSet(ds) /\ Weight(ds) <= Weight(cs)
<1>1. IsFiniteSet(ds) /\ Cardinality(ds) <= Cardinality(cs)
  BY FS_Subset
<1>2. Heavy(ds) \in SUBSET Heavy(cs)
  BY DEF Heavy
<1>3. Cardinality(Heavy(ds)) <= Cardinality(Heavy(cs))
  BY <1>2, Weighs, FS_Subset
<1> QED
  BY <1>1, <1>3, Weighs

LEMMA WeightOfMore ==
    ASSUME NEW cs, IsFiniteSet(cs), NEW d
    PROVE  /\ IsFiniteSet(cs \cup {d})
           /\ Weight(cs \cup {d}) <= Weight(cs) + (IF Double(d) THEN 2 ELSE 1)
<1>1. IsFiniteSet(cs \cup {d}) /\ Cardinality(cs \cup {d}) <= Cardinality(cs) + 1
  BY FS_AddElement, Weighs
<1>2. Heavy(cs \cup {d}) = IF Double(d) THEN Heavy(cs) \cup {d} ELSE Heavy(cs)
  BY DEF Heavy
<1>3. Cardinality(Heavy(cs \cup {d})) <= Cardinality(Heavy(cs)) + (IF Double(d) THEN 1 ELSE 0)
  <2>1. IsFiniteSet(Heavy(cs)) /\ Cardinality(Heavy(cs)) \in Nat
    BY Weighs
  <2>2. CASE Double(d)
    <3>1. Cardinality(Heavy(cs) \cup {d}) <= Cardinality(Heavy(cs)) + 1
      BY <2>1, FS_AddElement
    <3> QED  BY <1>2, <2>2, <3>1
  <2>3. CASE ~Double(d)
    BY <1>2, <2>1, <2>3
  <2> QED
    BY <2>2, <2>3
<1> QED
  BY <1>1, <1>3, Weighs

LEMMA WeightOfRest ==
    ASSUME NEW cs, IsFiniteSet(cs), NEW c \in cs
    PROVE  /\ IsFiniteSet(cs \ {c})
           /\ Weight(cs \ {c}) = Weight(cs) - (IF Double(c) THEN 2 ELSE 1)
<1>1. IsFiniteSet(cs \ {c}) /\ Cardinality(cs \ {c}) = Cardinality(cs) - 1
  BY FS_RemoveElement
<1>2. Heavy(cs \ {c}) = IF Double(c) THEN Heavy(cs) \ {c} ELSE Heavy(cs)
  BY DEF Heavy
<1>3. Double(c) => c \in Heavy(cs)
  BY DEF Heavy
<1>4. Cardinality(Heavy(cs \ {c})) = Cardinality(Heavy(cs)) - (IF Double(c) THEN 1 ELSE 0)
  BY <1>2, <1>3, FS_RemoveElement, Weighs
<1> QED
  BY <1>1, <1>4, Weighs

(* Calls that are renamed, the double ones excepted                        *)
LEMMA WeightOfImage ==
    ASSUME NEW cs, IsFiniteSet(cs), NEW f, f \in [cs -> {f[c] : c \in cs}],
           \A c \in cs : f[c] = c \/ ~Double(f[c])
    PROVE  IsFiniteSet({f[c] : c \in cs}) /\ Weight({f[c] : c \in cs}) <= Weight(cs)
<1> DEFINE ds == {f[c] : c \in cs}
<1>1. f \in Surjection(cs, ds)
  BY DEF Surjection
<1>2. IsFiniteSet(ds) /\ Cardinality(ds) <= Cardinality(cs)
  BY <1>1, FS_Surjection
<1>3. Heavy(ds) \in SUBSET Heavy(cs)
  BY DEF Heavy
<1>4. Cardinality(Heavy(ds)) <= Cardinality(Heavy(cs))
  BY <1>3, Weighs, FS_Subset
<1> QED
  BY <1>2, <1>4, Weighs

(* How the calls change                                                    *)
Replaced == \E c \in calls : \E d : calls' = (calls \ {c}) \cup {d} /\ (Double(d) => Double(c))
Parted ==
    \E c \in calls : \E d, e :
        calls' = (calls \ {c}) \cup {d, e} /\ Double(c) /\ ~Double(d) /\ ~Double(e)
Renamed ==
    \E f :
        /\ f \in [DOMAIN f -> {f[c] : c \in DOMAIN f}] /\ DOMAIN f \subseteq calls
        /\ calls' = {f[c] : c \in DOMAIN f}
        /\ \A c \in DOMAIN f : f[c] = c \/ ~Double(f[c])

CallsMove ==
    \/ calls' \subseteq calls
    \/ \E d : calls' = {d}
    \/ CanCall /\ \E d : calls' = calls \cup {d}
    \/ Replaced \/ Parted \/ Renamed

LEMMA CallsStayBounded ==
    ASSUME IsFiniteSet(calls), Weight(calls) <= 2 * MaxCalls, CallsMove
    PROVE  IsFiniteSet(calls') /\ Weight(calls') <= 2 * MaxCalls
<1>0. MaxCalls \in Nat /\ MaxCalls >= 1 /\ Weight(calls) \in Nat
  BY Weighs, CallsAreBounded
<1>1. CASE calls' \subseteq calls
  <2>1. IsFiniteSet(calls') /\ Weight(calls') <= Weight(calls)
    BY <1>1, WeightOfFewer
  <2>2. Weight(calls') \in Nat
    BY <2>1, Weighs
  <2> QED
    BY <1>0, <2>1, <2>2
<1>2. CASE \E d : calls' = {d}
  <2>1. PICK d : calls' = {} \cup {d}
    BY <1>2
  <2>2. Weight({}) = 0 /\ IsFiniteSet({})
    <3>1. Heavy({}) = {}
      BY DEF Heavy
    <3> QED  BY <3>1, FS_EmptySet, Weighs
  <2>3. IsFiniteSet(calls') /\ Weight(calls') <= 0 + (IF Double(d) THEN 2 ELSE 1)
    BY <2>1, <2>2, WeightOfMore
  <2>4. Weight(calls') \in Nat
    BY <2>3, Weighs
  <2> QED
    BY <1>0, <2>3, <2>4
<1>3. CASE CanCall /\ \E d : calls' = calls \cup {d}
  <2>1. PICK d : calls' = calls \cup {d}
    BY <1>3
  <2>2. IsFiniteSet(calls') /\ Weight(calls') <= Weight(calls) + (IF Double(d) THEN 2 ELSE 1)
    BY <2>1, WeightOfMore
  <2>3. Weight(calls) <= 2 * MaxCalls - 2
    BY <1>0, <1>3, Weighs DEF CanCall
  <2>4. Weight(calls') \in Nat
    BY <2>2, Weighs
  <2> QED
    BY <1>0, <2>2, <2>3, <2>4
<1>4. CASE Replaced
  <2>0. PICK c \in calls : \E d : calls' = (calls \ {c}) \cup {d} /\ (Double(d) => Double(c))
    BY <1>4 DEF Replaced
  <2>1. PICK d : calls' = (calls \ {c}) \cup {d} /\ (Double(d) => Double(c))
    BY <2>0
  <2> DEFINE rest == calls \ {c}
  <2>2. IsFiniteSet(rest) /\ Weight(rest) = Weight(calls) - (IF Double(c) THEN 2 ELSE 1)
    BY WeightOfRest
  <2> HIDE DEF rest
  <2>3. calls' = rest \cup {d}
    BY <2>1 DEF rest
  <2>4. IsFiniteSet(calls') /\ Weight(calls') <= Weight(rest) + (IF Double(d) THEN 2 ELSE 1)
    BY <2>2, <2>3, WeightOfMore
  <2>5. Weight(calls') \in Nat /\ Weight(rest) \in Nat
    BY <2>2, <2>4, Weighs
  <2> QED
    BY <1>0, <2>1, <2>2, <2>4, <2>5
<1>5. CASE Parted
  <2>0. PICK c \in calls : \E d, e :
          calls' = (calls \ {c}) \cup {d, e} /\ Double(c) /\ ~Double(d) /\ ~Double(e)
    BY <1>5 DEF Parted
  <2>1. PICK d, e : calls' = (calls \ {c}) \cup {d, e} /\ Double(c) /\ ~Double(d) /\ ~Double(e)
    BY <2>0
  <2> DEFINE rest == calls \ {c}
             more == rest \cup {d}
  <2>2. IsFiniteSet(rest) /\ Weight(rest) = Weight(calls) - 2
    BY <2>1, WeightOfRest
  <2> HIDE DEF rest
  <2>3. IsFiniteSet(more) /\ Weight(more) <= Weight(rest) + 1
    BY <2>1, <2>2, WeightOfMore
  <2>4. calls' = more \cup {e}
    BY <2>1 DEF rest
  <2> HIDE DEF more
  <2>5. IsFiniteSet(calls') /\ Weight(calls') <= Weight(more) + 1
    BY <2>1, <2>3, <2>4, WeightOfMore
  <2>6. Weight(calls') \in Nat /\ Weight(more) \in Nat /\ Weight(rest) \in Nat
    BY <2>2, <2>3, <2>5, Weighs
  <2> QED
    BY <1>0, <2>2, <2>3, <2>5, <2>6
<1>6. CASE Renamed
  <2>1. PICK f :
          /\ f \in [DOMAIN f -> {f[c] : c \in DOMAIN f}] /\ DOMAIN f \subseteq calls
          /\ calls' = {f[c] : c \in DOMAIN f}
          /\ \A c \in DOMAIN f : f[c] = c \/ ~Double(f[c])
    BY <1>6 DEF Renamed
  <2>2. IsFiniteSet(DOMAIN f) /\ Weight(DOMAIN f) <= Weight(calls)
    BY <2>1, WeightOfFewer
  <2>3. IsFiniteSet(calls') /\ Weight(calls') <= Weight(DOMAIN f)
    BY <2>1, <2>2, WeightOfImage
  <2>4. Weight(calls') \in Nat /\ Weight(DOMAIN f) \in Nat
    BY <2>2, <2>3, Weighs
  <2> QED
    BY <1>0, <2>2, <2>3, <2>4
<1> QED
  BY <1>1, <1>2, <1>3, <1>4, <1>5, <1>6 DEF CallsMove

LEMMA GateCallsMove ==
    ASSUME AtGate
    PROVE  CallsMove
<1>1. CASE OpenGate
  BY <1>1 DEF OpenGate, CallsMove
<1>2. CASE UNCHANGED calls \/ calls' = {}
  BY <1>2 DEF CallsMove
<1>3. CASE \E op, about : CanCall /\ calls' = calls \cup {Call(op, about)}
  BY <1>3 DEF CallsMove
<1>4. ASSUME NEW c \in calls, GateLoginAnswered(c) \/ EventsAnswered(c) \/ ValidationAnswered(c)
      PROVE  CallsMove
  <2>1. CASE calls' = calls \ {c}
    BY <2>1 DEF CallsMove
  <2>2. CASE calls' = (calls \ {c}) \cup {Call("events", None)}
    <3>1. ~Double(Call("events", None))
      BY DEF Double, Call
    <3> QED
      BY <2>2, <3>1 DEF CallsMove, Replaced
  <2> QED
    BY <1>4, <2>1, <2>2 DEF GateLoginAnswered, EventsAnswered, ValidationAnswered
<1>5. CASE Operator /\ ~OpenGate
  <2>1. \/ UNCHANGED calls \/ calls' = {}
        \/ \E op, about : CanCall /\ calls' = calls \cup {Call(op, about)}
    BY <1>5 DEF Operator, LeaveGate, SubmitGateLogin, SearchEvents, SelectEvent, StartCamera,
                StopCamera, SubmitCode, Sent, NextValidation, ChangeEvent, GateLogout, CanAsk
  <2> QED
    BY <1>2, <1>3, <2>1
<1>6. ASSUME NEW c \in cameras,
             Granted(c) \/ Refused(c) \/ TimesOut(c) \/ Returned(c) \/ Decoded(c)
      PROVE  CallsMove
  <2>1. \/ UNCHANGED calls
        \/ \E op, about : CanCall /\ calls' = calls \cup {Call(op, about)}
    BY <1>6 DEF Granted, Refused, TimesOut, Returned, Decoded, Sent
  <2> QED
    BY <1>2, <1>3, <2>1
<1> QED
  BY <1>1, <1>4, <1>5, <1>6 DEF AtGate, GateNext, GateAnswers

LEMMA MarketCallsMove ==
    ASSUME AtMarket
    PROVE  CallsMove
<1>1. ASSUME NEW p, NEW query, NEW n, LoadList(p, query, n) PROVE CallsMove
  BY <1>1 DEF LoadList, CallsMove
<1>2. CASE LeaveMarket \/ SearchRefused
  BY <1>2 DEF LeaveMarket, SearchRefused, CallsMove
<1>3. ASSUME NEW c \in calls, ListAnswered(c) PROVE CallsMove
  BY <1>3 DEF ListAnswered, CallsMove
<1> QED
  BY <1>1, <1>2, <1>3 DEF AtMarket, MarketNext, Visitor, OpenMarket, Search, ClearSearch, Retry, ChangePage

LEMMA StudioCallsMove ==
    ASSUME IInv, AtStudio
    PROVE  CallsMove
<1>1. ASSUME NEW c \in calls, NEW a, Answered(c, a) PROVE CallsMove
  <2>1. StudioCall(c) \/ ~On("studio")
    BY DEF IInv, StudioFits
  <2> DEFINE d == [c EXCEPT !.answer = a]
  <2>2. Double(d) => Double(c)
    BY DEF Double
  <2>3. calls' = (calls \ {c}) \cup {d}
    BY <1>1 DEF Answered
  <2> HIDE DEF d
  <2> QED
    BY <2>2, <2>3 DEF CallsMove, Replaced
<1>2. CASE OpenStudio
  BY <1>2 DEF OpenStudio, CallsMove
<1>3. CASE LeaveStudio \/ StudioLogout \/ NewSession \/ ChooseMovie
  BY <1>3 DEF LeaveStudio, StudioLogout, NewSession, ChooseMovie, Shows, CallsMove
<1>4. CASE \/ SubmitStudioLogin \/ LoadCatalog \/ CreateDraft \/ FilterEvents
           \/ (\E e \in Events : OpenEvent(e)) \/ \E op \in {"save", "publish"} : Submit(op)
  BY <1>4 DEF SubmitStudioLogin, LoadCatalog, CreateDraft, FilterEvents, OpenEvent, Submit,
              Begins, CallsMove
<1>5. ASSUME NEW c \in calls, ServeStudio(c) PROVE CallsMove
  BY <1>1, <1>5 DEF ServeStudio
<1>6. ASSUME NEW c \in calls, StudioAnswer(c) PROVE CallsMove
  <2>1. StudioCall(c)
    BY <1>6 DEF StudioAnswer, IInv, StudioFits
  <2>2. ~Double(Refresh(c))
    <3>1. Refresh(c).op = "list"
      BY <2>1 DEF Refresh, StudioCall
    <3> QED  BY <3>1 DEF Double
  <2>3. CASE calls' = calls \ {c}
    BY <2>3 DEF CallsMove
  <2>4. CASE StudioLoginAnswered(c)
    BY <2>2, <2>3, <2>4 DEF StudioLoginAnswered, CallsMove, Replaced
  <2>5. CASE Created(c)
    <3> DEFINE d == [Refresh(c) EXCEPT !.about.event = c.answer]
    <3>1. d.op = "list"
      BY <2>1 DEF Refresh, StudioCall
    <3>2. calls' = calls \ {c} \/ calls' = (calls \ {c}) \cup {d}
      BY <2>5 DEF Created
    <3> HIDE DEF d
    <3>3. ~Double(d)
      BY <3>1 DEF Double
    <3> QED
      BY <2>3, <3>2, <3>3 DEF CallsMove, Replaced
  <2>6. CASE Submitted(c)
    <3> DEFINE d == Refresh(c)
               e == [c EXCEPT !.op = "detail", !.answer = None]
    <3>1. e.op = "detail"
      BY <2>1 DEF StudioCall
    <3>2. Double(c) /\ (calls' = calls \ {c} \/ calls' = (calls \ {c}) \cup {d, e})
      BY <2>6 DEF Submitted, Double
    <3> HIDE DEF d, e
    <3>3. ~Double(d) /\ ~Double(e)
      BY <2>2, <3>1 DEF Double, d
    <3> QED
      BY <2>3, <3>2, <3>3 DEF CallsMove, Parted
  <2>7. CASE ListRefreshed(c)
    <3> DEFINE rest == calls \ {c}
               alone(d) == [Call("detail", [d.about EXCEPT !.for = Empty]) EXCEPT !.answer = d.answer]
               f == [d \in rest |-> IF Pair(c, d) THEN alone(d) ELSE d]
               e == [c EXCEPT !.op = "detail"]
    <3>1. \/ calls' = rest \/ calls' = rest \cup {e}
          \/ calls' = {IF Pair(c, d) THEN alone(d) ELSE d : d \in rest}
      BY <2>7 DEF ListRefreshed
    <3>2. e.op = "detail"
      BY <2>1 DEF StudioCall
    <3>3. \A d : ~Double(alone(d))
      BY DEF Double, Call
    <3> HIDE DEF alone
    <3>4. CASE calls' = {IF Pair(c, d) THEN alone(d) ELSE d : d \in rest}
      <4>1. calls' = {f[d] : d \in rest} /\ DOMAIN f = rest
        BY <3>4
      <4>2. f \in [rest -> {f[d] : d \in rest}]
        OBVIOUS
      <4>3. \A d \in rest : f[d] = d \/ ~Double(f[d])
        BY <3>3
      <4> HIDE DEF f
      <4>4. rest \subseteq calls
        OBVIOUS
      <4> HIDE DEF rest
      <4> QED
        BY <4>1, <4>2, <4>3, <4>4 DEF CallsMove, Renamed
    <3>5. CASE calls' = rest \cup {e}
      <4> HIDE DEF e
      <4> QED  BY <3>2, <3>5 DEF CallsMove, Replaced, Double
    <3> QED
      BY <2>3, <3>1, <3>4, <3>5
  <2>8. CASE Booted(c) \/ CatalogAnswered(c) \/ OpenedAnswered(c)
    BY <2>3, <2>8 DEF Booted, CatalogAnswered, OpenedAnswered
  <2> QED
    BY <1>6, <2>4, <2>5, <2>6, <2>7, <2>8 DEF StudioAnswer
<1> QED
  BY <1>2, <1>3, <1>4, <1>5, <1>6 DEF AtStudio, StudioNext

LEMMA BoundedStep ==
    ASSUME IInv, [Next]_vars
    PROVE  Bounded'
<1>0. IsFiniteSet(calls) /\ Weight(calls) <= 2 * MaxCalls /\ shares \in Shares
      /\ ownEvents \in [Events -> Stored \cup {None}]
  BY DEF IInv, Bounded
<1>1. NoTicket \in Shares /\ NoEvents \in [Events -> Stored \cup {None}]
  BY LinksAreNumbered DEF NoTicket, Shares, NoEvents
<1>2. CallsMove /\ shares' \in Shares /\ ownEvents' \in [Events -> Stored \cup {None}]
  <2>1. CASE AtGate
    BY <1>0, <2>1, GateCallsMove DEF AtGate
  <2>2. CASE AtMarket
    BY <1>0, <2>2, MarketCallsMove DEF AtMarket
  <2>3. CASE AtWallet
    <3>1. WalletFits' /\ (Left \/ On("wallet")')
      BY <2>3, WalletStep
    <3>2. calls' = {} \/ \E d : calls' = {d}
      BY <3>1 DEF Left, WalletFits
    <3> QED
      BY <1>0, <2>3, <3>2 DEF AtWallet, CallsMove
  <2>4. CASE AtTicket
    <3>1. TicketFits' /\ ((Left /\ shares' = NoTicket) \/ On("ticket")')
      BY <2>4, TicketStep
    <3>2. calls' = {} \/ \E d : calls' = {d}
      <4>1. \A c, d \in calls' : c = d
        BY <3>1 DEF Left, TicketFits
      <4> QED  BY <4>1
    <3>3. shares' \in Shares
      BY <1>1, <3>1 DEF TicketFits
    <3> QED
      BY <1>0, <2>4, <3>2, <3>3 DEF AtTicket, CallsMove
  <2>5. CASE AtStudio
    <3>1. StudioFits' /\ ((Left /\ ownEvents' = NoEvents) \/ On("studio")')
      BY <2>5, StudioStep
    <3>2. ownEvents' \in [Events -> Stored \cup {None}]
      BY <1>1, <3>1 DEF StudioFits
    <3> QED
      BY <1>0, <2>5, <3>2, StudioCallsMove DEF AtStudio
  <2>6. CASE UNCHANGED vars
    BY <1>0, <2>6 DEF vars, CallsMove
  <2> QED
    BY <2>1, <2>2, <2>3, <2>4, <2>5, <2>6 DEF Next
<1>3. IsFiniteSet(calls') /\ Weight(calls') <= 2 * MaxCalls
  BY <1>0, <1>2, CallsStayBounded
<1> QED
  BY <1>2, <1>3 DEF Bounded, Weight, Double

-----------------------------------------------------------------------------
(* The tab                                                                 *)

(* A tab that has left every page, or shows one, keeps what every page     *)
(* promises.                                                               *)
LEMMA OthersFit ==
    ASSUME NEW name \in {"gate", "market", "wallet", "ticket", "studio"},
           Left \/ On(name)', name # "gate" => cameras' = {}
    PROVE  /\ PagesApart'
           /\ name # "market" => MarketFits'
           /\ name # "wallet" => WalletFits' /\ WalletIsOwn'
           /\ name # "ticket" => TicketFits' /\ PanelIsTrue'
           /\ name # "studio" => StudioFits'
<1>1. \/ page'.name = "elsewhere" /\ page' = Elsewhere /\ calls' = {}
      \/ page'.name = name /\ page' # Elsewhere
  BY DEF Left, On, Elsewhere
<1>2. PagesApart'
  BY <1>1 DEF PagesApart, OnOne, On
<1> QED
  BY <1>1, <1>2 DEF MarketFits, WalletFits, WalletIsOwn, TicketFits, PanelIsTrue, StudioFits, On

(* Without cameras, and off the gate, the gate has nothing to fit.         *)
LEMMA GateShut ==
    ASSUME cameras' = {}, page'.name # "gate"
    PROVE  GateFits'
  BY DEF GateFits, On

LEMMA Starts == Init => IInv
<1> SUFFICES ASSUME Init PROVE IInv
  OBVIOUS
<1>1. page = Elsewhere /\ page.name = "elsewhere" /\ calls = {} /\ cameras = {} /\ ownEvents = NoEvents
  BY DEF Init, Elsewhere
<1>2. FormsStayWithEvents
  BY <1>1 DEF FormsStayWithEvents, NoEvents
<1>3. Bounded
  <2>1. IsFiniteSet(calls) /\ Heavy(calls) = {} /\ Cardinality(calls) = 0
    BY <1>1, FS_EmptySet DEF Heavy
  <2>2. Weight(calls) = 0
    BY <2>1, Weighs, FS_EmptySet
  <2>3. shares \in Shares /\ ownEvents \in [Events -> Stored \cup {None}]
    BY <1>1, LinksAreNumbered DEF Init, NoTicket, Shares, NoEvents
  <2> QED
    BY <2>1, <2>2, <2>3, CallsAreBounded DEF Bounded
<1> QED
  BY <1>1, <1>2, <1>3 DEF IInv, PagesApart, OnOne, On, GateFits, MarketFits, WalletFits, TicketFits, StudioFits,
                    WalletIsOwn, PanelIsTrue

(* What any step of the tab keeps                                          *)
LEMMA TabStep ==
    ASSUME IInv, [Next]_vars
    PROVE  IInv'
<1>0. Bounded'
  BY BoundedStep
<1>1. CASE AtGate
  <2>1. GateFits' /\ (Left \/ On("gate")') /\ UNCHANGED ownEvents
    BY <1>1, GateStep DEF AtGate
  <2>2. FormsStayWithEvents'
    BY <2>1 DEF IInv, FormsStayWithEvents
  <2> QED
    BY <1>0, <2>1, <2>2, OthersFit DEF IInv
<1>2. ASSUME AtMarket \/ AtWallet \/ AtTicket \/ AtStudio,
             NEW name \in {"market", "wallet", "ticket", "studio"}, Left \/ On(name)'
      PROVE  GateFits' /\ cameras' = {}
  <2>1. cameras' = {}
    BY <1>2 DEF AtMarket, AtWallet, AtTicket, AtStudio
  <2>2. page'.name # "gate"
    BY <1>2 DEF Left, On, Elsewhere
  <2> QED
    BY <2>1, <2>2, GateShut
<1>3. CASE AtMarket
  <2>1. MarketFits' /\ (Left \/ On("market")') /\ UNCHANGED ownEvents
    BY <1>3, MarketStep DEF AtMarket
  <2>2. FormsStayWithEvents'
    BY <2>1 DEF IInv, FormsStayWithEvents
  <2> QED
    BY <1>0, <1>2, <1>3, <2>1, <2>2, OthersFit DEF IInv
<1>4. CASE AtWallet
  <2>1. WalletFits' /\ WalletIsOwn' /\ (Left \/ On("wallet")') /\ UNCHANGED ownEvents
    BY <1>4, WalletStep DEF AtWallet
  <2>2. FormsStayWithEvents'
    BY <2>1 DEF IInv, FormsStayWithEvents
  <2> QED
    BY <1>0, <1>2, <1>4, <2>1, <2>2, OthersFit DEF IInv
<1>5. CASE AtTicket
  <2>1. TicketFits' /\ PanelIsTrue' /\ ((Left /\ shares' = NoTicket) \/ On("ticket")') /\ UNCHANGED ownEvents
    BY <1>5, TicketStep DEF AtTicket
  <2>2. FormsStayWithEvents'
    BY <2>1 DEF IInv, FormsStayWithEvents
  <2> QED
    BY <1>0, <1>2, <1>5, <2>1, <2>2, OthersFit DEF IInv
<1>6. CASE AtStudio
  <2>1. StudioFits' /\ FormsStayWithEvents' /\ (Left \/ On("studio")')
    BY <1>6, StudioStep
  <2> QED
    BY <1>0, <1>2, <1>6, <2>1, OthersFit DEF IInv
<1>7. CASE UNCHANGED vars
  BY <1>0, <1>7 DEF vars, IInv, PagesApart, OnOne, On, GateFits, MarketFits, WalletFits, TicketFits, LinkKnown,
              StudioFits, PageOfStudio, StudioCall, Exists, IsPublished, WalletIsOwn, PanelIsTrue,
              FormsStayWithEvents
<1> QED
  BY <1>1, <1>3, <1>4, <1>5, <1>6, <1>7 DEF Next

(* The pages fit their calls in every state that is reached.               *)
THEOREM Inductive == Spec => []IInv
  BY Starts, TabStep, PTL DEF Spec

(* Every page has its state, and no visit more calls than its handlers     *)
(* make: a handler that waits for two replaces one call by them.           *)
THEOREM WellTyped == Spec => []TypeOK
<1>1. IInv => TypeOK
  <2> SUFFICES ASSUME IInv PROVE TypeOK
    OBVIOUS
  <2>1. page \in {Elsewhere} \cup GatePage \cup MarketPage \cup WalletPage \cup TicketPages \cup StudioPage
    BY DEF IInv, PagesApart, OnOne, GateFits, MarketFits, WalletFits, TicketFits, StudioFits, PageOfStudio
  <2>2. Cardinality(calls) <= 2 * MaxCalls
    BY Weighs, CallsAreBounded DEF IInv, Bounded
  <2>3. On("ticket") => Cardinality(calls) <= 1
    <3>1. On("ticket") => (calls = {} \/ (\E c : calls = {c}))
      <4>1. On("ticket") => \A c, d \in calls : c = d
        BY DEF IInv, TicketFits
      <4> QED
        BY <4>1
    <3>2. CASE calls = {}
      <4>1. Cardinality(calls) = 0
        BY <3>2, FS_EmptySet
      <4> QED  BY <4>1
    <3>3. ASSUME NEW c, calls = {c} PROVE Cardinality(calls) <= 1
      <4>1. Cardinality(calls) = 1
        BY <3>3, FS_Singleton
      <4> QED  BY <4>1
    <3> QED  BY <3>1, <3>2, <3>3
  <2> QED
    BY <2>1, <2>2, <2>3 DEF TypeOK, IInv, Bounded, GateFits
<1> QED
  BY <1>1, Inductive, PTL

(* ShownIsAsked (loadEvents in marketplace.tsx): the list on the screen is *)
(* the one asked for last, however the answers overtake each other.        *)
THEOREM ListsAreAsked == Spec => []ShownIsAsked
<1>1. IInv => ShownIsAsked
  BY DEF IInv, MarketFits, ShownIsAsked
<1> QED
  BY <1>1, Inductive, PTL

(* WalletIsOwn (loadTickets in ticket-wallet.tsx): once nothing is under   *)
(* way, the tickets shown are those of the customer who is signed in.      *)
THEOREM WalletsAreOwn == Spec => []WalletIsOwn
<1>1. IInv => WalletIsOwn
  BY DEF IInv
<1> QED
  BY <1>1, Inductive, PTL

(* PanelIsTrue (ticket-detail.tsx): with no error shown, the link that the *)
(* panel offers is the one that opens the ticket, and it says that there   *)
(* is one just when there is, until a change that nobody waits for any     *)
(* more takes effect after the page was last answered.                     *)
THEOREM PanelsAreTrue == Spec => []PanelIsTrue
<1>1. IInv => PanelIsTrue
  BY DEF IInv
<1> QED
  BY <1>1, Inductive, PTL

(* FormsStayWithEvents (saveDraft in organizer-studio.tsx): an event is    *)
(* only saved with the values of its own form.                             *)
THEOREM FormsStay == Spec => []FormsStayWithEvents
<1>1. IInv => FormsStayWithEvents
  BY DEF IInv
<1> QED
  BY <1>1, Inductive, PTL

(* NoticeIsTrue (publishEvent in organizer-studio.tsx): who reads that an  *)
(* event was published finds it so.                                        *)
THEOREM NoticesAreTrue == Spec => []NoticeIsTrue
<1>1. IInv => NoticeIsTrue
  BY DEF IInv, StudioFits, PageOfStudio, IsPublished, NoticeIsTrue
<1> QED
  BY <1>1, Inductive, PTL

(* ScansStayInEvent (startCamera and validateCode in gate-console.tsx): a  *)
(* scan is sent for the event fixed when the camera was started, and no    *)
(* other is fixed when it is sent; what other pages call is no scan.       *)
LEMMA ScansStep ==
    ASSUME IInv, [Next]_vars
    PROVE  Scans
<1>1. CASE AtGate
  BY <1>1, GateStep
<1>2. CASE AtMarket
  BY <1>2, MarketStep DEF Left, MarketFits, Scans
<1>3. CASE AtWallet
  BY <1>3, WalletStep DEF Left, WalletFits, Scans
<1>4. CASE AtTicket
  BY <1>4, TicketStep DEF Left, TicketFits, Scans
<1>5. CASE AtStudio
  BY <1>5, StudioStep DEF Left, StudioFits, StudioCall, Scans
<1>6. CASE UNCHANGED vars
  BY <1>6 DEF vars, Scans
<1> QED
  BY <1>1, <1>2, <1>3, <1>4, <1>5, <1>6 DEF Next

THEOREM ScansStay == Spec => ScansStayInEvent
<1>1. IInv /\ [Next]_vars => [Scans]_<<page, calls>>
  BY ScansStep
<1> QED
  BY <1>1, Inductive, PTL DEF Spec, ScansStayInEvent, Scans
=============================================================================
