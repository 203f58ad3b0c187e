# Verification of the event platform

TLA+ modules, TLC configurations and TLAPS proofs for the event ticketing
platform of this repository: a NestJS API over PostgreSQL (`apps/api`) and a
Next.js client (`apps/web`).  Line references are to files of the repository.

## 1. The system

| Component | State it keeps | Operations | Talks to |
|---|---|---|---|
| `ReservationsService` (`reservations/`) | rows of `reservations`, `events.available_quantity` | create, get, cancel, expire (timer and in front of every request) | PostgreSQL, through Prisma |
| `PaymentsService` (`payments/`) | rows of `payments` and `tickets`, and the two above | simulate | PostgreSQL |
| `TicketsService`, `TicketTokenService` (`tickets/`) | `tickets.qr_nonce_hash`, rows of `share_links` | list, get, QR, create/revoke/open a share link | PostgreSQL; HMAC codes |
| `GateService` (`gate/`) | `tickets.status/used_at/validated_by_id`, rows of `ticket_validations` | list events, validate | PostgreSQL; `TicketTokenService.verify` |
| `EventsService` (`events/`) | rows of `events` | create draft, update, publish, list, get | PostgreSQL, the catalog |
| `CatalogService`, TMDB adapter (`catalog/`) | none | search, details, with a timeout | TMDB over HTTP |
| Auth, guards, filter, health (`auth/`, `common/`, `health/`) | none (JWT) | log in, check a role, shape an error | PostgreSQL |
| Web pages (`apps/web`) | what each page has fetched, a countdown, an Idempotency-Key, a camera | log in, list, reserve, pay, cancel, scan, edit, share | the API over HTTP |

Several instances of the API may run: everything they share is in PostgreSQL,
everything else is the local variables of an `async` handler.  Two handlers
interleave at every `await`; two statements of different transactions
interleave as READ COMMITTED lets them.  Every instance runs a timer that
expires pending reservations each minute and swallows its errors.

What is hard: a pending reservation may be paid, declined, canceled and expired
by different handlers at once; each of them first reads, then writes by a
conditional UPDATE, and all return or keep the same places; a payment may be
repeated while the original is in flight; statements wait for row locks and
re-check their WHERE; any statement may fail; time passes between a decision
and the statement that acts on it.  `PROJECT.json` lists every such hazard at
its line with the properties that watch it.

Correctness, per component:

- reservations and payments: no place is sold twice, lost or returned twice; a
  reservation is settled once and for good; its payment and its tickets always
  agree with it; a key buys one thing; no answer claims what is not so; locks
  are taken in one order; what expires is returned without anybody asking;
- tickets and gate: one admission per ticket, one active link per ticket, a
  revoked link opens nothing, answers agree with the rows;
- events: the row of a published event changes only in its stock, no edit
  undoes another;
- web: the marketplace shows the list asked for last; the wallet, once nothing
  is under way and no error is shown, the tickets of who is signed in; what the
  checkout and the ticket's panel say of the reservation and of the link is so,
  with the exceptions of section 4; a payment is not repeated under two keys, a
  form is submitted to the event it was filled from, a notice of publication is
  true, a scan is of the event the operator chose, and a camera nobody wants
  goes off.

## 2. The plan

| # | Modules | What they are | State |
|---|---|---|---|
| 1 | `Database`, `Handlers`, `Reservations`, `Payments`, composed by `Checkout`; abstract `TicketOffice` | the places of an event: reserved, paid, declined, canceled, expired | done |
| 2 | `CheckoutProofs` | type correctness, conservation of stock, agreement of reservation, payment and tickets | done |
| 3 | `Entry`, `Tickets`, `Gate`, composed by `Admission`; abstract `Turnstile` | QR codes, share links, validation at the gate | done |
| 4 | `Catalog`, `Organizer`, composed by `Programme` | films, drafts, edits, publication, the first bookings | done |
| 5 | `CheckoutPage`, over an office that serves read by read and write by write | what the customer sees and repeats | done |
| 6 | `Tab`, `GateConsole`, `Marketplace`, `Wallet`, `TicketPage`, `OrganizerStudio`, composed by `Browser` | the other pages: late and lost answers, handlers that overlap, the camera's start against its timeout and its stop | done |
| 7 | `Checkout` with a COMMIT that is done and not acknowledged (`CommitUnheard`), and its proofs | a payment recorded and answered 500, then repeated | done |
| 8 | `OfficeProofs`, `AnswerProofs` | `SettledIsFinal`, `IsTicketOffice`, `NoDeadlock`; what responses claim | done |
| 9 | `AdmissionProofs` | every safety property of `Admission`, and `IsTurnstile` | done |
| 10 | `ProgrammeProofs`, `CheckoutPageProofs`, `BrowserProofs` | every safety property of the organizer's side and of the pages | done |

The order is that of what costs most when it goes wrong: stock and payments
first, admission second, the organizer's side third, the browser last.

What a module takes from another: `Checkout` takes the row of a published event
for constants, which `Programme` justifies (`PublishedFrozen`); `Admission`
takes tickets as they are after payment, which `Checkout` justifies
(`PaymentsMatch`, `SettledIsFinal`).  `CheckoutPage` has an office of its own,
coarser than `Checkout` but not atomic: what a request is *told* depends on what
it read before others settled the reservation (section 7), so a payment is four
steps (the key looked up; the reservation read; the time; the conditional
UPDATE through its COMMIT) and a cancellation three, and those of a call that
the browser has given up interleave with those of the next.  One customer's
reservations, keys and rows are left of the tables; that an UPDATE with what
follows it is one step is `IsTicketOffice`.  `TicketPage` serves a call in one
step (`IsTurnstile`), at any time after it was sent, also when nobody waits for
it any more.  `OrganizerStudio` serves a call in one step while the page waits
for it: of an event it keeps only what one conditional UPDATE moves
(`PublishedFrozen`, `NoEditIsUndone`).

## 3. Modules and code

### The database (`Database`, and the first half of `Entry`)

Committed tables are functions from row identifiers to records or `None`; what
an open transaction has written is `tx[p]` until `Commit` moves it into the
tables or `Rollback` forgets it.  A row lock is the presence of the row in
somebody's `tx`.  A statement is one action:

- a `SELECT` reads the committed tables (no handler reads back a row that its
  own transaction has written, except to shape the answer);
- `updateMany({ where })` and `update` are one `UPDATE ... WHERE`: a row whose
  committed version fails the `WHERE` is skipped without waiting; one that
  satisfies it is waited for while locked, and tested again: the action is
  enabled when the row is free, and its `WHERE` is evaluated then;
- `INSERT` under a unique key waits for an uncommitted duplicate
  (`KeyFree`, `Undecided`) and fails on a committed one, which ends the
  transaction (Prisma's P2002);
- statements outside `$transaction` commit by themselves.

An `include` is a further `SELECT` (`GetTickets`, `PayCheck`): Prisma issues
one query per relation, and another transaction may commit in between.
`sha256`, HMAC and `randomBytes` are taken to be injective and fresh: a hash is
represented by what it is the hash of, a token by an identity not used before.

### Handlers (`Handlers`, `Catalog`)

`pc[p]` names the statement that process `p` is about to run; the local
variables that survive an `await` are variables of the model (`now`, `seen`,
`todo`, `cur`; `mark`, `coded`, `verdict`, `retried`; `changed`, `timer`).
Between two labels every other process may run and the clock may advance.  A
run's `Scripts` is the set of requests that its processes may turn out to
serve.  `Fail` lets any statement fail: the transaction is rolled back, a request is
answered 500 and the timer swallows the error.  A COMMIT may also be done and
its acknowledgement be lost, and the handler throws all the same
(`CommitUnheard` in `Handlers`, `Deliver` in `Entry` and `Catalog`).

| Module | Code | Actions |
|---|---|---|
| `Reservations` | `reservations.service.ts` | `TimerFires`, `FindExpired`, `ExpireRead`, `ExpireUpdate`, `ExpireIncrement`, `ExpireCommit`, `LoopEnds` (the loop in front of `create`, `get`, `cancel` and in the timer); `CreateBegins`, `TakeStock`, `Insert`; `ExpiresFirst`, `GetRead`, `GetTickets`; `CancelRead`, `CancelUpdate`, `Increment` |
| `Payments` | `payments.service.ts` | `SimulateBegins`, `FindReplay` (before the transaction and in it), `PayRead`, `PayCheck`, `PayRelease`, `PayUpdate`, `PayReread`, `PayInsert`, `PayTickets`, `PayCatch` |
| `Tickets` | `tickets.service.ts` | `QrRead`, `SharedBegins`, `ReadLink`, `ReadShared`, `Issue`, `WriteNonce`; `ShareBegins`, `ShareRead`, `Mark`, `InsertLink`, `ShareCommit`; `RevokeBegins`, `Revoke` |
| `Gate` | `gate.service.ts`, `ticket-token.service.ts` | `ValidateBegins`, `Verify`, `GateRead`, `Consume`, `GateReread`, `Record` |
| `Catalog` | `tmdb-catalog.adapter.ts` | `CallTmdb`, `Response`, `Body`, `TimerFires`, `FetchAborted`, `BodyAborted`, `SearchBegins` |
| `Organizer` | `events.service.ts` | `CreateBegins`, `Insert`; `EditBegins`, `EditRead`, `EditWrite`, `EditReread`; `PublishBegins`, `PublishRead`, `PublishWrite`, `PublishReread`; `Reserve` (a booking in one step) |
| `GateConsole` | `gate-console.tsx` | the session and the codes (`SubmitGateLogin`, `GateLoginAnswered`, `SearchEvents`, `EventsAnswered`, `SelectEvent`, `SubmitCode`, `ValidationAnswered`, `NextValidation`, `ChangeEvent`, `GateLogout`), the page's camera (`StartCamera`, `StopCamera`, `TimesOut`, `Returned`, `Decoded`, `LeaveGate`) and the library's (`Granted`, `Refused`) |
| `Marketplace` | `marketplace.tsx` | `Search`, `SearchRefused`, `ClearSearch`, `ChangePage`, `Retry`, `ListAnswered` |
| `Wallet` | `ticket-wallet.tsx` | `SignIn`, `SignInAnswered`, `SignOut`, `RetryTickets`, `TicketsAnswered` |
| `TicketPage` | `ticket-detail.tsx` | `DetailAnswered`, `QrAnswered`, `CreateShare`, `ShareCreated`, `RevokeShare`, `ShareRevoked`, `CopyFails`; the API (`ServeTicket`, `ServeTicketLate`, `Admitted`) |
| `OrganizerStudio` | `organizer-studio.tsx` | `Booted`, `SubmitStudioLogin`, `StudioLoginAnswered`, `StudioLogout`, `FilterEvents`, `NewSession`, `LoadCatalog`, `CatalogAnswered`, `ChooseMovie`, `CreateDraft`, `Created`, `OpenEvent`, `Submit`, `Submitted`, `OpenedAnswered`, `ListRefreshed`; the API (`ServeStudio`) |
| `CheckoutPage` | `event-checkout.tsx`, `event-detail.tsx`, `lib/api.ts` | the buttons (`ChangeQuantity`, `Continue`, `Back`, `SubmitLogin`, `Pay`, `Cancel`, `StartAgain`), the continuations (`LoggedIn`, `Reserved`, `PaymentAnswered`, `CancelAnswered`, `Reconciled`), the interval (`IntervalFires`), and the office (`Serve`, the next step for the call in flight; `GiveUp`; `ServeLate`, the next step for one given up; `Expire`; `LookServed`); the steps of `payments.service.ts` and `reservations.service.ts` are `LookedUp`, `PayRead`, `PayDecided`, `PayWritten` and `CancelRead`, `CancelDecided`, `CancelWritten` |

`Checkout`, `Admission` and `Programme` put the processes, the clock and the
failures together and state the properties.  `TicketOffice` (a sale is made,
then settled once, each in one step that moves free places, sale and tickets
together) and `Turnstile` (a ticket goes through once; one link opens it; a
link taken back never opens again) are the abstract specifications;
`IsTicketOffice` and `IsTurnstile` are the refinements.

`Browser` is one tab: `page` holds the React state and the refs of the page it
shows (`Tab`), `calls` the calls of `apiRequest` in flight, which are answered in any
order, late or never.  A continuation after an `await` is an action; what a
handler keeps across it (the closure's event, the filter, the form) is in the
call's `about`.  A page that is left forgets its calls, since their
continuations set the state of nothing; what does outlive it is a camera that
was still starting.  The calls it had sent are not aborted, and the API may still
serve them.  For the ticket's page, where that shows, `shares.late` holds what
kinds of change are on their way, any number of each: a creation or a
revocation that failed for the page joins them, `ServeTicketLate` lets one take
effect, and `OpenTicket` begins with any, left by earlier visits.  An attempt to
start the camera is a record of `cameras`:
asking for permission, attached to the video element it was given, returned
(its controls are handed over) or failed; whether its stream is `live`,
whether the 8 s of its race are over (`late`), and what its closure holds
(`event`, `deaf`: the `busy` of its render).

Definitions whose comment begins "Mutant of" are plausible slips in the code.
Each is named in `PROJECT.json` beside a property that TLC finds violated when
the slip replaces the original: evidence that the property sees the code.

Simplifications.  A clock tick stands for a second in `Checkout` and
`Programme`, for part of a second in `Admission` (`TicksPerSecond`), where
codes are cut to whole seconds.  `new Date()` and the statement that follows it
are one action where nothing else is read between them and the time is only
used by that statement; everywhere else the time is a local (`now`).  Prisma's
5 s transaction timeout is one of the ways of `Fail`.  The two fallbacks of
`simulate` that no execution reaches while the reservation's row and payment
commit together (`payments.service.ts` 219-230 and 242-254) are represented by
their answer only.  No operation writes the statuses `CANCELED` of a ticket or
of an event, so neither is there.  A code scanned before the API issued it is
one that `verify` refuses.

Of the pages, more is left open than decided, so that what holds does so
whatever the data: which events the organizer's filter shows and which films
the catalog finds (any event the API has may be opened once the list is not
loading); the gate's search finds every event (one it does not find could not
be chosen).  A form is the event whose values filled it.  The gate's camera
state `denied` is `error` with another text.  A link does not expire while its
ticket's page is open.  A creation of a link may take effect though the ticket
was used since it was read, as in `Turnstile`.  The studio's API does not serve
late: a late save stores the event's own form and a late publication publishes,
neither of which its properties could notice.  Refusals by the API and lost
answers are one failure where the handler treats them alike (all `catch` blocks but those for a 401).

## 4. What is checked

Instances are small on purpose; the table says why what is interesting happens
in them.  `MaxClock`, `MaxFailures`, `MaxLost`, the pools of identifiers
(`ReservationIds`, `Requests`, `Tokens`, `Events`, `Ids`) and `BatchSize` are
the bounds, and `MaxCalls`, `MaxAsked`, `MaxLinks`, `MaxStarts` and
`MaxUnderWay` in `Browser`.  Each request of a model is served once.

| Run | Instance | Shows |
|---|---|---|
| `contended` | three requests and a timer; 3 places; a hold of 2 that expires at 1 and one of 1 that expires at 3; clock to 1; one failure, or one COMMIT done but not acknowledged. Scripts: pay twice with one or two keys, pay and decline, pay and cancel, each with a booking or a `get`; and two customers under one key | `TypeOK`; `StockConserved`; `PaymentsMatch`; `OneOutcomePerKey`; `RepliesAreTrue`; `NoDeadlock`; `SettledIsFinal`; `IsTicketOffice` |
| `timers` | two timers, two holds that expire together, one of them paid and canceled, or a booking refused for its quantity or because the event begins, and a payment without key; one failure; batches of one, so that the loop runs dry and comes back | `ExpiredStockReturns` and `RequestsAnswered` under fairness, when two instances expire the same rows |
| `repeated_payment`, `repeated_cancel` | two equal requests | disagreements with the documents, section 7 |
| `reused_key` | a reservation paid under one key, then under a second, and another under the second | disagreement, section 7 |
| `admitting` | three requests about one ticket whose code is about, or whose first code is issued twice, scanned at the gates of two events while the code expires within a second; or that replace, revoke or open its link, of the owner, a stranger and a visitor; one failure | `TypeOK`, `OneAdmission`, `GateAnswersHold`, `CodesAreGood`, `CodesHandedOutAreStored`, `OldLinksRevoked`, `DeadLinksStayShut`, `LinksAreReplaced`, `IsTurnstile`, `RequestsAnswered` |
| `publishing` | one draft edited, published and booked, or films searched and drafts made; two requests at a time race, the third makes the result matter; one failure | `TypeOK`, `StockIsWhole`, `NoEditIsUndone`, `PublishedFrozen`, `RequestsAnswered` |
| `late_edit`, `two_edits` | an edit against a publication; two edits | disagreements, section 7 |
| `checkout_page` | two reservations one after the other, a browser clock one tick fast, a hold of one tick, clock to 1, one call given up, at any step of the office's, and served on or not | `ShownIsTrue`, `ShownStock`, `PaymentsRecover`, `TypeOK`, `ExpiryIsShown` |
| `browser` | two events, two customers, one text to search for, two pages of events; two calls in flight (a handler may turn one into two), two attempts to start the camera; four lists and three links in a visit | `TypeOK`, `ShownIsAsked`, `PanelIsTrue`, `WalletIsOwn`, `FormsStayWithEvents`, `NoticeIsTrue`, `ScansStayInEvent`, `StartupEnds`, `CameraGoesOff`, `ListComesBack` |
| `wrong_event` | the same | disagreement, section 7 |

Why the bounds are enough.  What goes wrong in these handlers goes wrong
between two statements of at most three actors: the one that decides, the one
that overtakes it, and the one to whom the difference shows (a customer who
wants the place, a gate that scans the code).  Each script has these three.
Two values of the clock separate before an expiry from after it (every
comparison with `expiresAt` is strict on one side), and what expired is booked
again at the second.  One failure is placed by
TLC at any statement; a second one would end another handler in the same way,
without anything shared between the two but the tables.  In `browser` every
number that is not a bound of the code's own is the smallest that lets two of a kind overlap: a second call overtakes
the first, a second camera is started while the first is asked for, a second
event is chosen, a second customer signs in.  The other pages open only when
no camera is left, since an attempt sets the state of the gate's page alone.
In `checkout_page` one tick separates before from after the hold of either
reservation, whichever the office is serving; the second is reserved after the
first was declined or canceled at 0, or expired at 1, when its own hold outlasts
the run.  One call given up is enough for a retry beside it.
Section 6 proves every safety property of these runs, and both
refinements, for any number of requests, timers, rows, places, keys, calls,
cameras and failures; the bounds matter to the liveness properties, to the
counterexamples of section 7, and to the evidence that what is proved can be
broken (the mutants).

`CHECK_DEADLOCK FALSE` is given where the system really stops: when every request
of the model has been answered (`Admission`, `Programme`) or the person does
nothing more (`CheckoutPage`, `Browser`).  In `Checkout` a timer always
may fire, and TLC's deadlock check stays on.

Some claims are weaker than one might like, because the code does not do more.

- `ShownIsTrue` and `PaymentsRecover`: nothing aborts a `fetch`, so the office
  may still be at work on a call that failed for the page when it sends the
  next.  A payment repeated around the expiry is then told
  `RESERVATION_EXPIRED`, and shown so, over a reservation that the first goes on
  to settle; a refusal repeated beside the first is told
  `RESERVATION_NOT_PAYABLE` over a reservation that the first has declined under
  the same key (`payments.service.ts:110-117`; `89-107` and `142-171`).  Both properties
  except exactly this: a call about the reservation that was given up, and has
  settled it (`SettledLate`) or was under way when the attempt was sent
  (`overlaps`).
- `PanelIsTrue`: a creation or a revocation that nobody waits for may take
  effect after the page's last answer, and no error tells (`overtaken`).  With
  the page's next answer about the link the claim holds again.
- `CameraGoesOff` is about attempts that no earlier one was still under way at:
  an attempt that returns after it was given up stores its controls over those
  of the next (`gate-console.tsx:193`), whose camera the page then cannot stop.
- `StartupEnds` leaves out a camera started while a code is being validated: its
  decode callback keeps that render's `busy`, locks at the first frame and never
  unlocks (`gate-console.tsx:175`).  A frame that comes before the start has
  returned leaves the page at `starting`, without the button to stop, until
  a code is submitted by hand, the event changed or the session ended.

## 5. Fairness

- `Checkout`: weak fairness of the clock and of each process's step.  Node's
  event loop runs the continuation of every `await` whose statement has ended,
  PostgreSQL ends a statement whose lock is free, and `setInterval` fires.  A
  process whose row is locked is not enabled, so fairness does not presume the
  lock: that it is released follows from the fairness of its holder and
  `NoDeadlock`.  Nothing obliges `Fail`.
- `Admission`: the same for requests; the clock need not advance.
- `Programme`: the same, and the timer of a call to TMDB fires; TMDB owes
  nobody an answer, so `Tmdb` has no fairness.
- `CheckoutPage`: the interval fires, the reconciliation is answered (perhaps
  by a failure, if one is left) and its continuation runs.  The customer need
  not do anything and no other call need be answered.

- `Browser`: each attempt's 8 s pass; a stream that was attached plays or is
  refused (the library waits for the video element); and a list the studio
  asked for is answered or fails, as `fetch` does in the end.  The browser owes nobody
  a permission (`Granted` has no fairness), the API no other answer, and
  people nothing.

`ExpiryIsShown` excepts a page whose one reconciliation failed: the code
swallows that error and does not ask again (`event-checkout.tsx:93`), so the
page stays at 00:00 until the customer does something.

## 6. What is proved

TLAPS checks the following for every value of the constants that meets the
named assumptions of the modules (finite sets of places and rows, `None` apart
from data, the types of the initial tables, and what is listed below).  Each
invariant is shown by an inductive one, which TLC first checked on the runs'
instances, and each theorem's comment says which code it is about.

| Module | Theorems (property) |
|---|---|
| `CheckoutProofs` | `TypeCorrect` (`TypeOK`), `Conservation` (`StockConserved`), `Agreement` (`PaymentsMatch`) |
| `OfficeProofs` | `SettledForGood` (`SettledIsFinal`), `CheckoutIsTicketOffice` (`IsTicketOffice`), `DeadlockFree` (`NoDeadlock`) |
| `AnswerProofs` | `KeysBuyOnce` (`OneOutcomePerKey`), `AnswersHold` (`RepliesAreTrue`) |
| `AdmissionProofs` | `WellTyped` (`TypeOK`), `AdmittedOnce` (`OneAdmission`), `GateTellsTheTruth` (`GateAnswersHold`), `CodesAreStored` (`CodesHandedOutAreStored`), `CodesStayGood` (`CodesAreGood`), `RevocationIsReal` (`OldLinksRevoked`), `DeadLinksShut` (`DeadLinksStayShut`), `ReplacedNotLost` (`LinksAreReplaced`), `EntryIsTurnstile` (`IsTurnstile`) |
| `ProgrammeProofs` | `WellTyped` (`TypeOK`), `StockStaysWhole` (`StockIsWhole`), `PublishedStays` (`PublishedFrozen`), `EditsStay` (`NoEditIsUndone`) |
| `CheckoutPageProofs` | `WellTyped` (`TypeOK`), `PageTellsTheTruth` (`ShownIsTrue`), `StockIsShownOnce` (`ShownStock`), `RetriesRecover` (`PaymentsRecover`) |
| `BrowserProofs` | `WellTyped` (`TypeOK`), `ListsAreAsked` (`ShownIsAsked`), `WalletsAreOwn` (`WalletIsOwn`), `PanelsAreTrue` (`PanelIsTrue`), `FormsStay` (`FormsStayWithEvents`), `NoticesAreTrue` (`NoticeIsTrue`), `ScansStay` (`ScansStayInEvent`) |

That is every invariant and every action property that a passing run checks,
and both refinements.

### The checkout

Stock is conserved by the commit of a transaction
only if what it carries, a row, a delta, a payment and tickets, is one whole of
those that leave the balance; and that is so only because of the statements it
came through and because no other transaction settled the same row meanwhile.
`IInv` (in `Checkout`) says so: `Written(p)` tells, from the statement that `p`
is at, what its transaction has written; `Settling` that the row it settles is
still pending in the committed table, which `LocksExclusive` preserves when
others commit; `KeysUnique` that the unique index holds over committed and
uncommitted payments; `ControlOK` what a handler knows where.

- *Types, stock, agreement* (`CheckoutProofs`).  `InitInv` is the initial
  states; `TypeStep`, `ControlStep` and `DataStep` each step, one lemma per
  group of actions.  `QuietStep` disposes of the actions that write nothing,
  `WritingStep` of those that write in their own transaction only,
  `SettlingBegins` and `StockReturns` of the two statements that settle a row
  and move stock, `RollbackStep` of every failure, and `CommitStep` also of a
  COMMIT that is not acknowledged.  `Committing` splits the commit into a
  booking, a giving back and a sale, for which `CommitConserves` and
  `CommitMatches` count: `PlacesGained`, `PlacesLost` and `PlacesKept` say what
  changing one row does to the places that reservations hold, as the
  cardinality of a set of pairs.
- *Finality and refinement* (`OfficeProofs`).  `TablesStep`: only a COMMIT
  changes a committed table; `CommitRow`: what it does to the one row it is
  about.  A settled row is therefore settled for good, and a COMMIT is one step
  of `TicketOffice`, a sale, a settlement or a return, while every other
  statement stutters (`CommitIsOffice`).
- *No deadlock.*  `WaitsOn` and `HoldersAre` say from the labels who waits
  for which lock, and what the holder of a lock no longer waits for: of a
  reservation's row, for another row; of an event, for rows and events; of a
  key, for anything.  So in every set of processes there is one that waits for
  none of the others (`LocksAreOrdered`).
- *Answers* (`AnswerProofs`).  A second invariant, `AnswersInv`: `Known(p)` is
  what a handler has established on its way to an answer, `Justified` what the
  tables say of an answer once given.  `JustifiedStays` and `KnownStays` carry
  both over the steps of others, by `SettledIsFinal`.

Assumed besides: initial reservations are pending and within capacity
(`InitialRowsArePending`), requests and timers are different processes.

### Tickets and gate

`IInv` (in `Admission`) is about each request and each ticket.  `Holds`: what a
transaction has locked is what it read, unchanged; `Passed`: a used ticket was
approved by exactly one recorded validation, whose time and gate it shows;
`Records` and `Finds`: what a gate is about to record, and what a code proves
about the stored nonce; `Remembers`: which of the links there were when a
request began are revoked or about to be by that request; `OneLink`: one active
link per ticket.  `TablesLast` is what everything rests on: no step takes back
a nonce, a use, a validation or a revocation.  `HoldsStep` is the hard one: it
needs the partial unique index as `InsertLink` sees it, over committed and
uncommitted links (`Rivals`).  `TurnstileStep` maps the commit of `Record`, of a
replacement and of a revocation to one step of `Turnstile`.

Assumed besides: only a gate's user validates, as the guard of `GateController`
sees to (`GatesValidate`); no two tickets share a link (`SharedOnce`).

### The organizer's side

`StockIsWhole` alone is not inductive: an edit rewrites `available` of a draft,
which is right only if nothing was booked.  `BookedIfPublished` adds that.
`NoEditIsUndone` needs `Keeps`: a field that an accepted edit gave has its value
already when the edit has only been written and not yet answered.
Assumed: events exist with their whole stock (`StockOfInitialEvents`), and a
request to create one names every field, as its DTO requires
(`CreatesAreComplete`).

### The page of the checkout

A reservation is known by its key in up to three places, calls in flight or
given up, the page, and the rows; `Charges` collects them as (reservation, key,
outcome) and `OneKeyEach` says that they agree.  The set only shrinks, except
when the customer pays (`FewerCharges`), for which `FreshUnpaid` has the new
key's reservation charged nowhere.  `Serving` and `ServingLate` say what a step
of the office for one call does: it leaves the same call, touches no reservation
but that call's, and only a pending one (`Does`, `RowsStep`).

What an attempt has read is still so when the office writes, as long as it
overlaps with no other call: `FindingsHold`.  For that, the page's call and those
given up must be the only ones about its reservation (`NewUntouched`: nobody has
asked anything about one just made).  `SettlersKnown` is the heart of `ShownIsTrue`: what is
settled and not yet shown was settled by the page's own call, whose answer
says so (`AnswersTrue`), or by one given up, which stays on record
(`SettledLateStays`).  `PageFits`, `ReservationFits` and `QuantitiesFit` tie the
page to its call, and no arithmetic on the stock is ever cut at zero.  Assumed:
an id is no error code and no status (`NumbersOfThePage`).

### The other pages

A page is right as long as it fits its calls: `MarketFits` (the call with the
latest number asks for the list that the page waits for), `WalletFits` (the one
call is of the customer signed in, or about to be), `TicketFits` (the one call,
and what the API has stored of the links; `LinkKnown` which link the page may
offer, unless overtaken), `GateFits` (the event of the camera that was started
last is the one selected, if any is), and `StudioFits` (the form is that of the event opened,
the events of page and calls exist, and what was answered is so).  `PagesApart`
has a page that is left take its calls with it, so a step is proved on one page
and `OthersFit` disposes of the rest.  `TypeOK`
counts calls: a save or a publication goes on with two refreshes, so it weighs
two (`Weight`), and no step makes the calls weigh more than twice `MaxCalls`
(`CallsStayBounded`).  Assumed: answers are told apart (`AnswersApart`,
`NoneIsNoEvent`, `NoneIsNobody`, `LinksAreNumbered`), one may search for nothing
(`EverythingMayBeSearched`), and the bounds are positive (`CallsAreBounded`,
`BoundsOfTheGate`).

### Only model-checked

Liveness, which needs fairness and ENABLED, beyond the prover: `ExpiredStockReturns`,
`RequestsAnswered` (of each composition), `ExpiryIsShown`, `StartupEnds`,
`CameraGoesOff`, `ListComesBack`.  And that the claims of section 7 are violated.

## 7. Where the code and its documents differ

Six runs end in a violation, each of a sentence of the documents; the entry
in `PROJECT.json` quotes it.

- `repeated_payment`: a payment repeated while the original is in flight and
  the hold expires is answered `RESERVATION_EXPIRED`, though the original was
  answered `PAID`.  The tables are right (`SettledIsFinal` holds).
- `repeated_cancel`: of two overlapping cancellations one is answered 409,
  though the reservation is canceled.
- `reused_key`: a second approval, under its own key, of a reservation that is
  paid already is answered with that payment, and its key is stored nowhere; the
  same key then pays another reservation, where a conflict is promised.
- `late_edit`: an event is published that has begun, when an edit lands between
  the check of a publication and its update.
- `two_edits`: two edits of one end of the schedule each, both good for the row
  they read, end in 500 from the table's CHECK.
- `wrong_event`: the answer to a scan that comes after the operator changed the
  event is shown as the result of the new one.

Noticed while reading, without a run: the unique `idempotency_key` is over all
customers, where `docs/DATABASE_MODEL.md:77` has it per customer (two customers
under one key are in `contended`); an abort during the body of a TMDB answer is
told as `CATALOG_UNAVAILABLE`; opening the link of a ticket used meanwhile
answers 409; of
three overlapping requests for a share link one may be answered 500, since the
retry after a P2002 is not itself retried (`tickets.service.ts:107`); the
failure of a first camera start can end a second one; a search that fails is
retried with the page number of the list before it (`marketplace.tsx:169`); an
organizer who submits a draft again after a lost answer has two
(`organizer-studio.tsx:345`).  Since no `fetch` is aborted (`lib/api.ts:29`): the
checkout may show "expired" over a reservation that a payment given up goes on to
pay, the browser's side of `repeated_payment`; an attempt repeated beside a
refusal may be told not payable; and a share link made or revoked late can leave
the panel of a ticket false with no error shown.

## 8. What is not modelled

`PROJECT.json` lists every component with its state.  Left out for good: login,
roles and rate limit (sequential checks in front of each handler), routing and
validation of DTOs (declarative), the shape of errors, health, seed, the
contracts package (types), and every listing that only reads.  The figures
`reserved` and `sold` that an organizer sees come from two queries and may
disagree for an instant; no document promises otherwise.  Of the web, the page
of a shared ticket and the image of the QR code are one effect each, with
nothing that could overlap it; `CheckoutPage` leaves out its unmounting and its
first fetch.
