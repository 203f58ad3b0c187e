------------------------------- MODULE Wallet -------------------------------
(***************************************************************************)
(* TicketWallet, the page of a customer's tickets: whose session it is,    *)
(* whose tickets it shows, and `busy`, the flag that keeps a second        *)
(* customer from signing in before the list of the first has come.         *)
(***************************************************************************)
EXTENDS Tab

CONSTANT Customers

WalletPage == [name : {"wallet"}, token : Customers \cup {None},
               tickets : Customers \cup {None},    \* whose the list is
               busy : BOOLEAN, error : BOOLEAN]

(* loadTickets, up to its call                                             *)
LoadTickets(p, customer, others) ==
    /\ page' = [p EXCEPT !.busy = TRUE, !.error = FALSE]
    /\ calls' = others \cup {Call("tickets", customer)}

WalletMounted == [name |-> "wallet", token |-> None, tickets |-> None, busy |-> FALSE, error |-> FALSE]

OpenWallet ==
    /\ page = Elsewhere
    /\ \/ page' = WalletMounted /\ calls' = {}
       \/ \E stored \in Customers : LoadTickets([WalletMounted EXCEPT !.token = stored], stored, {})

LeaveWallet == On("wallet") /\ page' = Elsewhere /\ calls' = {}

(* The list, a 401, which ends whatever session there is, or another error *)
TicketsAnswered(c) ==
    /\ c.op = "tickets" /\ calls' = calls \ {c}
    /\ \E p \in {[page EXCEPT !.tickets = c.about],
                 [page EXCEPT !.token = None, !.tickets = None, !.error = TRUE],
                 [page EXCEPT !.error = TRUE]} :
         page' = [p EXCEPT !.busy = FALSE]

(* Mutant of SignIn: the button is not disabled                            *)
SignInAnytime ==
    /\ On("wallet") /\ page.token = None /\ CanCall
    /\ page' = [page EXCEPT !.busy = TRUE, !.error = FALSE]
    /\ calls' = calls \cup {Call("signIn", None)}

SignIn ==
    /\ On("wallet") /\ page.token = None /\ ~page.busy /\ CanCall
    /\ page' = [page EXCEPT !.busy = TRUE, !.error = FALSE]
    /\ calls' = calls \cup {Call("signIn", None)}

SignInAnswered(c) ==
    /\ c.op = "signIn"
    /\ \/ \E customer \in Customers : LoadTickets([page EXCEPT !.token = customer], customer, calls \ {c})
       \/ page' = [page EXCEPT !.error = TRUE, !.busy = FALSE] /\ calls' = calls \ {c}

SignOut ==
    /\ On("wallet") /\ page.token # None
    /\ page' = [page EXCEPT !.token = None, !.tickets = None, !.error = FALSE]
    /\ UNCHANGED calls

RetryTickets ==
    /\ On("wallet") /\ page.error /\ page.token # None /\ CanCall
    /\ LoadTickets(page, page.token, calls)

WalletNext ==
    \/ OpenWallet \/ LeaveWallet \/ SignIn \/ SignOut \/ RetryTickets
    \/ \E c \in calls : On("wallet") /\ (TicketsAnswered(c) \/ SignInAnswered(c))

-----------------------------------------------------------------------------
(* A list that comes late, after its customer signed out, does not stay    *)
(* for the next: once nothing is under way, and no error is shown, the     *)
(* tickets in the wallet are those of the customer who is signed in.       *)
WalletIsOwn ==
    On("wallet") /\ page.token # None /\ ~page.busy /\ ~page.error =>
        page.tickets = page.token

-----------------------------------------------------------------------------
(* Why this holds: `busy` is up just while there is a call, of which there *)
(* is then one, made for who is signed in, if still anybody is.            *)
WalletFits ==
    On("wallet") =>
        /\ page \in WalletPage
        /\ page.busy <=> calls # {}
        /\ \A c, d \in calls : c = d
        /\ \A c \in calls :
             \/ c.op = "tickets" /\ c.about \in Customers /\ page.token \in {c.about, None}
             \/ c.op = "signIn" /\ page.token = None
        /\ page.error => ~page.busy

ASSUME NoneIsNobody == None \notin Customers
=============================================================================
