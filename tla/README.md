# AgendaSalon in TLA+

AgendaSalon is a Django application that keeps the agendas of hair salons: professionals
book from a panel, clients book on the web, the BOE's national holidays close days, and an
outbox sends mails. PostgreSQL is the shared state; there is no other process memory that
matters. This directory holds models of the parts where the order of things matters, the
TLC runs that check them, and TLAPS proofs about them. Paths below are relative to
`src/apps/`.

## 1. Inventory

| Part | State | Operations | Meets | Hard because |
|---|---|---|---|---|
| Slot engine (`booking/slot_engine.py`) | none | free slots of a day, suggestions, public short list | read by every booking | interval arithmetic, clipping, midnight |
| Booking core (`booking/services.py`, `calendar_locking.py`, `models.py`) | `Appointment`, `AppointmentService` | confirm, replay, cancel, complete, no-show, bulk close | calendar lock, slot engine, outbox | two channels race; what a form read is stale under the lock |
| Calendar panel (`booking/views.py`, `forms.py`) | `AvailabilityRule`, `BusinessClosure`, `WorkLine`, `BusinessCalendarSettings`, `Service` | create, edit, toggle each | guards read pending appointments | guards and bookings must exclude one another in both orders |
| Public flow (`booking/public_booking_drafts.py`, `views.py`) | browser session: draft, receipt | choose, confirm, expire | confirm_appointment, identity | repeated posts, lost session writes |
| Outbox (`notifications/services.py`) | `OutboundEmail` | queue, resend, cancel, claim, heartbeat, finish | SMTP, timer, bookings | leases, crashes, lost answers |
| Holidays (`holidays/`) | `OfficialHoliday`, runs, reviews | synchronise, acknowledge | every calendar | long download, table and row locks, interrupted runs |
| Clients (`customers/`) | cards, contacts, accounts, grants, invitations, browser sessions | register, verify, reset, invite, link, merge, purge, pause, book for another | bookings, outbox | many transactions on shared rows; links and sessions outlive what they stand for |
| Legal (`legal/`) | documents, events, acceptances, evidence | show, accept, inform, acknowledge | registration, verification, booking, merge | a page stays open while documents, identity or card change |
| Accounts, memberships (`accounts/`, `businesses/`) | users, memberships | create, activate, verify, change address | outbox, notices | links and whole-row saves come late |
| Business and its notices (`businesses/`, `notifications/forms.py`) | business row: switches, address of the notices | toggle, edit, settings, verify | accounts, outbox | rows read earlier are saved whole |
| Security throttle (`core/security_throttle.py`) | counters by scope and key | reserve, settle, look, record | logins, claims | several rows at once, settled out of order |
| Demo regeneration (`core/demo_refresh_requests.py`, `core/demo_integrity.py`, `ops/`) | requests, receipts, media, durable state, tokens, units | ask, claim, orchestrate, reconcile, finalise | systemd, backups, every writer | killed anywhere; answer of the commit lost |
| Backups (`ops/backup_restore.py`, `dashboards/`) | files, run row | create, verify, restore, retain | the regeneration | file I/O |
| Activity log, read models, pages, demo data | log rows | none that decide | none | nothing to order |

How they interact: every view is a request handler in its own process; they meet only in the
database (READ COMMITTED). Bookings, outcomes, calendar configuration and the BOE's
reconciliation serialise on `lock_business_calendar`; the outbox serialises on row locks with
compare-and-set updates; the clients' transactions lock the business row first, but the panel's
switches and forms read and save without a lock. Mails are queued in or after a transaction and
sent after it commits, by the request itself or by a timer. The regeneration of the demo runs
outside Django, as root, and stops every process before it touches the database.

What makes each part correct:
- slot engine: it offers exactly the starts that fit, and the short list loses none;
- booking core: no two confirmed appointments overlap on a line, one draft is one
  appointment, the answer is what was asked, an outcome is final;
- calendar panel: a change never strands a pending appointment;
- outbox: no attempt is spent twice, *sent* means taken, a cancellation sticks, everything
  comes to a verdict;
- holidays: a synchronisation counts or precedes every booking, live runs are not declared
  dead, calendars do not deadlock, an acknowledgement lasts;
- clients: an account is verified by its own mailbox, a session ends with the password or the
  address it was opened for, what is used, revoked, merged or purged stays so, and a booking is
  for a card that was offered;
- legal: what is recorded is what the page showed, once, and nobody loses it by another step;
- accounts and notices: no address counts as verified, nor receives a notice, unless somebody
  proved to read it;
- throttle: what no success may take back stays in its counter, nothing is counted twice, no
  counter passes its limit; that a success leaves every later failure is refuted (section 4);
- demo: no writer runs over half a regeneration, the media of the database are never lost, a
  request is never repeated and always closed.

PROJECT.json lists every hazard with its line and the properties that look at it.

## 2. Modules

| Module | Models | Uses |
|---|---|---|
| `SlotRules` | one calendar day: intervals, the grid, what it means to be offered or covered | |
| `SlotEngine` | `slot_engine.py` as an algorithm over sequences | `SlotRules` |
| `Bookings` | what the agenda promises: an abstract ledger of reservations | |
| `Agenda` | one business: calendar, clients, appointments, drafts, requests | `SlotRules`, `Bookings` (refinement) |
| `Delivery` | what the outbox promises: hand-overs and verdicts | |
| `Outbox` | `OutboundEmail` rows, requests and workers | `Delivery` (refinement) |
| `ClientAccounts` | cards, accounts, invitations, their mails and browser sessions | |
| `ClientGrants` | authorized contacts, grants, booking for another card | `ClientAccounts` (composed: each of its steps, with what it does to the grants) |
| `HolidaySync` | the BOE's synchronisations with their locks, and the reviews | |
| `DemoRefresh` | requests, dispatcher, orchestrator, guard and units of the demo | |
| `SecurityThrottle` | counters of attempts | |
| `LegalEvidence` | documents, signed pages, acceptances and evidence | |
| `Mailboxes` | the staff's accounts, the address of the notices, the links that verify them | |
| `MCSlotEngine`, `MCAgenda`, `MCOutbox`, `MCClients`, `MCHolidays`, `MCPlatform` | small instances for TLC | |
| `MCBooking` | questions to the engine beside one agenda | `MCAgenda`, `MCSlotEngine` |
| `Agenda_proofs`, `Outbox_proofs`, `Clients_proofs`, `HolidaySync_proofs`, `DemoRefresh_proofs`, `SecurityThrottle_proofs`, `Platform_proofs`, `SlotEngine_proofs` | theorems | the module they are about |

A definition named *Variant* in a comment is not part of a model: it is the same piece of
code with a plausible mistake, and each property of a run is known to fail when its variant
is put in place.

### SlotRules and SlotEngine

`Offered` says declaratively which starts are free; `SlotEngine.LineSlots` computes them the
way the code does (trim, merge, subtract, step), and is proved to agree with it, which is why
`Agenda` may book by `Offered`. The short list of the web is `GetPublicBookingOptions`:
`Finding` adds day after day until there is enough, `CollapsePublicSlots` keeps the best slot of
each start. Every loop of the code is a recursive function over the number of rounds done;
`sorted()`, which is stable, is insertion by a set of ordered pairs. Minutes are counted in
days of `DayLen` minutes with a grid of `Step`; wall-clock jumps (daylight saving) are not
modelled.

### Agenda

State and code: `rules`, `closures`, `lines`, `holidays`, `applyHolidays` are the calendar
rows; `services` keeps the two fields that decide a booking; `appts` is the appointment table
with the snapshot of services in `items`; `drafts` are the browser drafts by their
confirmation reference; `request` and `answer` are one form in flight per browser session;
`bulk` is the selection of a bulk close between its query and its transaction; `pausing` are
the client cards between the guard and the save of their pause.

Actions and code: whatever runs under `lock_business_calendar` is one action, its guard
evaluated on the state under the lock. What a request reads before is a separate, earlier
action: `SubmitPublic`, `SubmitProfessional` (the form), `ChooseSlot` (the draft),
`BeginBulkClose`, `BeginPauseClient`. `Book`, `Replay` and `Refuse` are the three ways
`confirm_appointment` ends; `Refuse` is enabled exactly when the other two are not.
Where the code takes no lock (services, business switches, client cards) the model changes
the state at any time. Clearing the draft happens after the commit, so `Conclude` may leave it.

Abstracted: the privacy information of a confirmation (in `LegalEvidence`) and the requesting
account of a draft (in `ClientGrants`), which only refuse more here; texts, prices, channels,
notifications. Services last a multiple of the grid and the grid is
not changed (the panel offers no way to). A line created between the row locks and the lock of
the business makes the code refuse a booking the model accepts.

### Outbox

Each database statement of a worker is a step: `pc` names the next one. `claim` is the
worker's `_EmailClaim` in memory, `row` the table, `handed` a history of what the mail service
took. Leases are abstract: live or expired, and a live lease may expire at any moment (so every
choice of timeouts is covered). `standing` stands for `_is_still_valid`: it may lapse and come
back at any time, except that a cancelled appointment stays cancelled. A crash may come between
any two statements and loses the claim, never the row. Queueing again without resend changes
texts only. The dispatcher is taken to be enabled: when it is blocked nothing is sent at all.

### ClientAccounts and ClientGrants

A transaction that locks the business row first (registration, purge, resend, verification,
reset, edition, merge, the activation of an invitation) is one action. The panel's switches and
the contact forms read a row and save it later without a lock, so what they read waits in
`staff` and `desk`; a login reads the account before the browser has a session (`entering`); a
booking page keeps the account its request read (`page`) until the booking locks and reads it
again. A password is the fingerprint of its hash, and a link or a session carries the one it was
made with. `OfAccounts` and `SelfGrants` say what each step of `ClientAccounts` does to contacts
and grants. The abstract promise of a booking, `BookedOnlyWhatIsOffered`, is an action property:
whatever was read earlier, the account and its grant hold in the state that commits.

Abstracted: cards without a phone, texts of the forms, the limit of mails to one address; who a
person is, is one normalised name and phone. The switch of a card saves its whole row, so it also
writes back the name and phone it read; `SaveCardToggle` keeps the switch only, as `EditCard`
reaches those values. Pages that only search are left out.

### HolidaySync

`held` and `wants` are PostgreSQL's locks, taken in the order of the code: the advisory lock of
the year, the BOE's own lock, the table in SHARE or ROW EXCLUSIVE mode, then lines and business
of each calendar. `Take` gives a free lock, `Victim` is PostgreSQL's deadlock detector. A
synchronisation downloads, locks, counts, publishes; it may lose its connection (and with it the
year's lock), die, or commit without hearing of it. Panel requests book, cancel, keep, switch
and bulk-close; `Owners` are the paths that reuse a verified address. What the BOE's HTML says
is a set of days.

### DemoRefresh

`orch` is the program counter of `run_demo_refresh.sh`, with the variables its cleanup reads;
`disk` is what survives a reboot (media root, media aside, durable state, failure marker),
`tokens` what lives under `/run/lock`, `lock` the flock, `units` what systemd runs. Generations
number the database and the media that belong to it. Any command may fail, a signal runs the
trap, a kill does not, a reboot takes everything but the disk and the database, and the answer of
the destructive transaction may be lost whether it committed or not.

Abstracted: a unit that is being started counts as active; the query for a receipt waits for
the refresh's exclusive locks, so that no commit comes after it; the manual's canonical backup
and the review that clears a marker are an operator's acts, not modelled. An orchestrator killed
after its wait for a copy ran out leaves a guard that lets the application start beside the copy;
`CopiesAreTakenCold` says what holds nevertheless. `Recoverable` leaves out what
`runtime_is_recoverable` also asks of units and settings outside the model (PostgreSQL, nginx, the
socket and its answer, settings of the mail, failed one-shot units); without one of them a
recovery ends as failed, which the model reaches for the other reasons.

### SecurityThrottle

`tries` are the attempts with what each reserved, `rows` the counters. A window and a block end
by `WindowPasses` and `BlockPasses`. The number of the attempt that opens a window stands for
`window_started_at`, against which a settlement compares. A success takes from the counter of its
subject the number that counter had when it reserved. When two successes overlap, the second
takes away again what the first had taken, in attempts that came later. So `CountsWhatStands`
puts the counter between two sets: the attempts no success may have taken back (`Unforgiven`) and
those none reserved later took back (`Remembered`). They are the same for addresses, for claims,
and for a subject whose successes do not overlap. `LaterFailuresStay` is what the docstring of
`settle_successful_throttle` promises, and is violated (section 4). The sign-up page of a business reserves inside the transaction it may roll
back, and its reservation with it; that page is not modelled.

### LegalEvidence

A page is shown once and signed (`pages`); a receipt is an index of it. Recording it compares the
page with what it would say now (`Resolves`), and looks for the event of the same receipt.
Submissions hold the business row or the document rows, so each is one step. Abstracted: the
three documents of a professional are one kind; an acknowledgement's acceptance event and privacy
event are one event; the clients' `LegalAcceptance` rows mirror the evidence rows; the platform's
identity is constant; a page older than 30 minutes is one that is never submitted.

### Mailboxes

`panel` is a request with the row it read; `BeginX` reads, `EndX` saves what the code saves: all
of the row for `superadmin_business_edit`, `account_security` and `professional_activate`, the
address fields for the address form and the notices' settings. `nonces` counts the verification
nonces; creating the first professional proposes an address *without* a new one. `reuse` is the
verification that is taken over after the commit that verified the account. `proved` is the
history of the mailboxes that brought back a link.

Abstracted: the password and the age in a link, which only refuse more; the pause of a business;
a notice is queued from the row as it is (the caller's may be older, delivery looks again); the
link is made of the row that was just looked at. The platform's own channel is not modelled: it
reads its row again while it renders, so that three overlapping changes may mail a link of
another address. Rows that an administrator edits in the Django site, and the seeded accounts of
the demo, are outside the property.

## 3. Runs

| Run | Instance | Shows |
|---|---|---|
| `booking` | days of 6 minutes, grid 2, durations of 1 and 2 steps. Questions: up to 2 openings and 2 busy intervals off the grid, every clock; 3 options out of 3 lines over 2 days for the short list. Bookings: 2 sessions, 2 rows, 1 draft reference, 2 lines, 2 clients | engine, rule chain and short list mean what they should; no overlap, one appointment per draft, answer as asked, duration explained |
| `agenda_calendar` | 2 days of 4 minutes, 2 rows, 2 rules out of 4, 1 closure, 2 lines | configuration keeps pending appointments; refinement of `Bookings` |
| `agenda_past` | one day, last slot interval | **violation**: hours already past are booked |
| `agenda_pause` | one client | **violation**: a card with a pending appointment is paused |
| `outbox` | 2 workers on one mail at a time, or 1 worker on 2 mails; 2 attempts, 2 references | leases, attempts, cancellation; refinement of `Delivery`; every mail comes to a verdict |
| `clients_accounts` | 3 cards, 2 accounts, 2 invitations, 2 browsers, 2 addresses, 2 contacts, 4 passwords | verification, sessions, what is over, bookings; a pending registration comes to an end |
| `clients_grants` | two cards of one person and a contact | **violation**: a merged card is offered after the person's contact is switched off |
| `holidays` | 2 years (of 2 and 1 days), 2 businesses, 2 synchronisations, 2 panels, 1 owner, 2 appointments, 2 runs | nothing slips past a synchronisation, live runs are not interrupted, calendars do not deadlock, reviews last |
| `holidays_deadlock` | the same, without outcomes | **violation**: reusing a verified address deadlocks with a synchronisation |
| `platform` | 1 request, 1 night, 2 faults; 1 subject, 4 attempts, limits 2 and 3; 2 professionals, 2 cards, 2 profiles, 2 versions, 3 pages; 2 accounts, 2 addresses, 2 panels, 2 nonces, 2 mails in the queue | the demo, the counters, the legal evidence and the mailboxes keep their promises |
| `platform_legal` | two professionals onboard | **violation**: repeating a receipt is not idempotent |
| `platform_throttle` | 1 subject, 3 attempts, limits 3 | **violation**: overlapping successes erase a later failure |

Instances by *focus*. All actions of a module at once multiply every switch by every pair of
requests. Each MC module therefore gives a behaviour a `focus`, fixed from the start, that keeps
the actions one question is about, each of them whole; the state space is then a sum. Dropping
actions can only drop behaviours: what a focus leaves out is not checked there, and each focus
keeps every action that can change what its properties read. In `MCPlatform` four components are
side by side because no property relates two of them; in `MCBooking` the questions to the engine,
the focus *questions*, are beside one agenda at rest, which they do not read. The proofs cover the unrestricted `Next`.

Bounds, why they are enough for the cases to happen:
- slot engine: two openings adjoin or leave a hole, two busy intervals overlap, contain or follow
  one another (`MaxRules`, `MaxBusy`); with `Limit` 3 the search stops at nine raw slots, which
  the three lines of the first day have or have not, so that it ends early and goes on to the
  second day (`DaysAhead` 1);
- agenda: overlaps, replays and stale guards need two sessions, two appointments and one line in
  common; two days the midnight turn and the weekday of rules; four minutes two adjoining rules
  with an appointment across them. In the focus *race* everybody wants the same line for the same
  client, which is when they can hurt one another;
- outbox: a lease is lost to one other worker at a time; two attempts let a row be recovered,
  retried and exhausted, two references let a resend overtake a worker. Mails interact only
  through workers;
- clients: five questions (registration, sessions, invitations, permissions, a new card with its
  authorized person). Two registrations are what the purge chooses among; a session and a link
  in another browser need two browsers; two invitations supersede one another; a merge needs a
  panel card and an online card with one identity, and a third card for the contact. In *sessions*
  one mail is open at a time; `fresh <= 3` in *registration* lets an address be verified, changed
  and verified again;
- holidays: two synchronisations of one year interrupt one another and of two years meet in the
  locks; a circle of calendars needs two businesses and two panels; three days tell a withdrawn
  holiday from a kept one and from one of another year;
- demo: a kill or a reboot during the recovery from another one needs two faults, a manual and a
  nightly run meet in the flock;
- throttle: four attempts let a success settle between two failures of the same and of a new
  window, with the address blocked before and after the subject; three are
  two that overlap and one that fails after them;
- legal: three pages let one be shown before and two after a change; a card that is merged after
  its page was shown needs one card of each origin. Two pages for the clients, whose rules may
  change as well;
- mailboxes: two panels both find no address and propose theirs under one nonce; the address goes
  and comes back with two nonces; one mail may overtake another.

`BeginX` and `EndX` pairs, histories (`handed`, `proven`, `proved`, `booked`) and bounds
(`MaxRefs`, `MaxPassword`, `MaxRuns`, `MaxFaults`, `MaxTries`, `MaxVersion`, `MaxPages`,
`MaxNonce`) are the model's. Symmetry is used in safety runs only.

Fairness, and why the code justifies it:
- `Outbox!Fairness`: the timer fires every five minutes (`ops/systemd/agendasalon-email.timer`),
  so a claimable mail is eventually picked, in order of its due time; a hung SMTP call ends
  (`EMAIL_TIMEOUT`), so a living worker goes on; time passes, so a retry becomes due and a lease
  that nobody renews expires. A living worker's lease need not expire, crashes may come for ever,
  and nothing is assumed of requests;
- `ClientAccounts!Fairness`: the purge's timer fires every 15 minutes, a queued mail is picked,
  the term of a registration passes, and a worker does not die at every attempt, so that a leased
  mail is settled some day (strong fairness of `Settle`: its owner may ask for the mail again and
  again). The run keeps the same fairness for the steps of its focus;
- `MCPlatform!FairSpec`: the dispatcher's timer fires every minute, each step of the orchestrator
  has a timeout of systemd or of the script, a copy ends, a request in course becomes stale.
  Nothing is assumed of faults (which are bounded), of requests or of the night.
Deadlock is not checked in these runs: bounded instances stop when their rows are used up.

## 4. What the six violations are

`agenda_past`: `get_day_availability` trims today's openings only while the rounded threshold
has today's date (`booking/slot_engine.py:118`). In the last slot interval of the day the
threshold is tomorrow 00:00, nothing is trimmed, and confirm_appointment, which asks the same
engine, books hours that have passed.

`agenda_pause`: `set_professional_client_active` (`customers/services.py:1289`) looks for pending
appointments without a lock that the confirmation also takes, and the professional confirmation
does not look at the client again. Either may come first.

`clients_grants`: `merge_client_records` (`customers/services.py:440`) switches on a grant the
kept card already had but leaves it with its old contact, although the permission came from the
other card's contact. Switching the person's contact off then stops nothing.

`holidays_deadlock`: `mark_operational_email_verified_from_account`
(`notifications/services.py:624`) locks business rows before the table's mode, against the order
that `booking/calendar_locking.py:27` sets for everybody. The caller swallows the error, or the
synchronisation fails and is tried again.

`platform_legal`: `accept_professional_legal_documents` (`legal/services.py:425`) saves the posted
identity before it looks for the receipt's event, so posting an old receipt again after a
colleague's submission puts the old identity back and leaves the business pending.

`platform_throttle`: `settle_successful_throttle` promises to take back its own reservation
"sin borrar fallos posteriores" (`core/security_throttle.py:194`), but for the subject it
subtracts the number the counter had when the attempt was reserved (lines 210-214), whatever was
subtracted since. Three attempts are reserved and the third fails: the counter is 3. Settling the
first leaves 2, settling the second subtracts its 2 and the row is deleted: the failure is lost.
It takes two right passwords under way at once; attempts reserved after both ended are never lost.

Seen while reading, not modelled: the review of a sign-up request saves the whole row it read
(`businesses/views.py:399`) and may reopen a converted request; a booking looks at
`public_booking_enabled` before the calendar lock only (`booking/views.py:1267`); the form of a
service saves every field (`booking/views.py:731`).

## 5. Proofs

All theorems hold for every value of the constants under assumptions that the modules name
(`DayAssumption`, `AgendaAssumption`, `FreeRowAssumption`, `OutboxAssumption`,
`MailboxAssumption`, `ClientAssumption`, `ContactAssumption`, `HolidayAssumption`,
`MarkAssumption`, `RunAssumption`, `LegalAssumption`, `ThrottleAssumption`, `NoRowAssumption`,
`LengthAssumption`, `SizeAssumption`, `StepAssumption`, `PlatformAssumption`). They say that
bounds are numbers, that sets which stand for different kinds of row or process do not overlap,
that a year is made of days, that a day is longer than a step of the grid and durations lie on
it, and that the mark of a free variable is no record. The runs evaluate them.

**Slot engine** (`SlotEngine_proofs`). What a loop computes is proved by induction over its
rounds. The library's induction theorems take an operator and cannot be instantiated, so the
induction is derived from the least element that well-foundedness gives a set of numbers
(`NumbersByCounting`, `RoundByRound`), and so is the existence of the recursive functions
(`LoopExists`). `FlattenKeeps`, `FlattenOrdered` and `SortedIsSorted` are about the sequences all
of it is made of. Then each piece has a lemma that says what it means: merging keeps what meets a
busy interval (`MergeMeans`), subtracting leaves what fits in an opening and meets nothing busy
(`SubtractBusyMeans`, from the cursor's invariant `FreeSoFar`), the grid steps through each gap
once (`GapSlots`); `LineSlotsAreOffered` puts them together. The guard of the rules has the
invariant `ChainSoFar`: while the walk goes on every minute before the cursor is covered, and when
it stops no rule holds the minute at the cursor (`ChainMeansCovered`). `EngineSound` is that.

`PublicSearchSound` says that the bounded search loses nothing. `SuggestMeans`: what the search
returns are the *first* slots of the whole horizon in the order of suggestions, because days are
added in order and the order looks at the day first; and it returns all of them or at least
`PublicSearchLimit`. Whatever is left out comes after everything found, so a start whose best slot
is found keeps it, and the short list made of what was found is how the short list of everything
begins (`FirstOnesFirst`: two strictly ordered sequences, one of which has the first elements of
the other). It is long enough because at most three slots share a start, one for each line
(`ThreePerStart`, by an injection into three times the number of starts): the factor 3 of
`get_booking_options` is the number of lines a business can have.

**Agenda** (`Agenda_proofs`). `TypeOK` is inductive part by
part: `MomentTyped`, `CalendarTyped`, `BusinessTyped`, `WebTyped`, `BulkTyped`, and `ApptsTyped`
given the others (a booked row is typed because the opening it fits in ends within the day).
Two frame lemmas carry the rest:
- `StepKinds`: a step leaves the appointments alone, books one free row, or settles statuses.
  `SettleShrinks` and `StatusKeepsTheRow` say settling only takes rows out of `Confirmed` and
  changes nothing but the status;
- `CalendarKinds`: a step books, or configures with time and appointments still, or leaves the
  calendar alone while the pending appointments recede (time passes, outcomes come).

| Theorem | Inductive invariant | The step that matters |
|---|---|---|
| `NeverDoubleBooked` | `TypeOK /\ Apart`; `Apart` says it with `Overlaps` | `Book`: clear of `TakenOn` under the lock |
| `OnePerDraft` | with `TypeOK`, inductive as it stands | `Book` looks at every row of the reference, cancelled ones too |
| `AnsweredAsAsked` | the same | `Replay` compares the row; later steps keep all but its status |
| `DurationIsExplained` | the same | `Book` sums the snapshot it saves |
| `ImplementsTheLedger` | `TypeOK` | each step is a step of the ledger or a stutter, `Book` is `Reserve` |
| `PendingStaysInside` | with `TypeOK`, inductive as it stands | a rule that was idle closes nothing when replaced; one in force is checked |
| `PendingStaysOpen` | the same, read with `ClearOf` | `SavedClosureIsClear`, `ChangeLine` |
| `HolidaysArriveBySync` | an action property from `TypeOK` | `HasSlot` and `KeepsHolidaysClear` |

**Outbox** (`Outbox_proofs`). `TypeOK` is strengthened by the shape of
what a worker holds (`WorkersTyped`, `RowsTyped`: a worker off `idle` has a claim).
`EveryAttemptIsFresh` needs the order of copies, `FreshInv`: nothing handed over and no claim,
however stale, lies beyond the row's (reference, attempt) (`HandedReached`, `ClaimsReached`,
`NoRewind`), a claim on its way to SMTP carries a copy not yet handed over (`CopiesUnspent`),
and no two workers carry the same one (`ClaimsDiffer`). `SentMeansHandedOver` needs `OwnersCurrent` (a worker whose token is on the row claims its
current attempt) and `AcceptedHanded`. `CancellationSticks` needs `CancelInv`, that a cancelled
mail's row is closed or marked to be cancelled. `LeasesAreRespected` follows from the types. `OutboxKeepsThePromise`
shows each step to be a step of `Delivery` or a stutter, on those invariants.

**Mailboxes** (`Platform_proofs`). `MailboxTypes` says among others that a request which saves
an account late saves one that exists. `OnlyProvedMailboxesCount` is `MailboxesAreProved`, which is
not inductive: a request may hold a row nobody can see in the tables and save all of it later.
`ProvedInv` adds `HeldRowsAreProved`: a row that was read as verified, an account about to be
activated, and an address about to be reused for the channel were proved when they were read; and
as proved addresses stay proved, the late save does no harm. `SaveSettings` is the step that
matters: a verification kept through the form is that of the same address, in the row read.

**Clients** (`Clients_proofs`, about every step of `ClientGrants`, so of `ClientAccounts` too).
`Typed` holds the types of accounts, letters, browsers and of what a member of staff holds.
`AccountStep` says what a step may do to an account that is still there after it (`MovesAccount`):
make it or change its address, unverified and with a new password, or leave its address and verify
it only by a letter that came there. As letters are never lost from `inbox`,
`VerifiedByTheMailboxItHas` follows. `SessionsBelongToTheAddress` needs `SessionInv`: a password is
given out once (`PasswordsAreSpent`), and what a browser remembers of an account, in a session or
in one still being opened, has a spent password, which if it is still the account's comes with the
account's address. The step that matters is a change of address: it gives a new password, so no
session that was opened before can match. `OverForGood` needs `Archive`, inductive with the types
(`ArchiveStep`, a case per action): an archived card is idle and has no open invitation
(`ArchivedIdle`); every account has a card of its own that is not archived (`Homes`); a card with
an invitation exists and is nobody's pending registration, so no purge takes it from under the
invitation (`InvitedCards`); and accounts once verified exist and are not pending (`ProvenStay`).
The steps that matter are `Merge` and what the panel saves late (`SaveCardToggle`, `SaveContact`).
`BooksWhatIsOffered` follows from what `LockedIdentity` reads again under the locks.
`ContactsFitTogether` (`GTypeOK`) adds the constraints on contacts: the card's own person is never
its contact, a person is linked to a card once, and one active contact of a card at most is the
primary one. The contacts suit one another pairwise (`SuitAll`), and the cards a contact names are
in use (`ContactsHold`), so that no purge leaves it pointing at nothing; what a request of the
panel holds is a contact's row (`DeskTyped`); grants are typed; a verified account is not pending
(`VerifiedIsDone`). The steps that matter are `SaveContact`, which saves what a form read earlier
and puts the other primary contact aside, and `Merge`, which moves contacts between two cards and
keeps the constraints because `Mergeable` refuses what would collide (`MergedContacts`).

**Holidays** (`HolidaySync_proofs`, about `HolidaySpec`). `HInv` has the types, that no two
processes hold locks that conflict (`Exclusive`), and the *shape* of every process (`Shapes`): what
it holds is the first k of its list of locks and what it wants is the rest. From the shape alone
`NoCalendarDeadlock` follows: the lists go up in `Rank` (BOE's lock, table, lines and row of the
first calendar, of the second...), so that in a circle the process that waits for the highest lock
would have to wait for a higher one; the table itself is taken in two modes, and whoever waits for
it holds nothing that a panel wants (`NoCircle`). `LiveRuns` needs `RunInv`: a session that may
publish holds its year's advisory lock, its run is open and its own. `NoBookingSlipsPast` is
inductive only with what was found under the locks: `VerdictInv`, a granted request still stands
when it acts, and `CountInv`, the impact a synchronisation counted misses nothing until it
publishes. In both the steps of others are excluded by `Exclusive`: a synchronisation that has
counted holds every calendar, and a panel that has decided holds the table's mode and its own
calendar. `KnownRows` keeps keys and businesses of requests valid. `Kept` and `Acknowledged` are
action properties from the same invariant.

**The demo's regeneration** (`DemoRefresh_proofs`, about `DSpec`). What a run may find on the disk
depends on where earlier ones were cut off, so `DInv` says two things of a state. `MediaInv`, with
no orchestrator in it: database and media are of one generation, or the durable state names a run,
and whether that run has a receipt says which of the two directories belongs to the database. And
`Window`, of the orchestrator that holds the flock (exactly one, `Flock`): for each phase what it
has done so far to disk, units and tokens, and what it believes of its transaction. `Fresh` and
`Identities` say that no run is confirmed before its transaction and no two runs are one.
`OneGeneration` and `ColdCopies` are then about the phases in which units start; `MediaSurvive`
follows from `MediaInv` (the step that matters is the deletion after a lost answer, which waits
for the receipt); `ClosedRequests` from `Identities`, as a request that is closed as interrupted
has no orchestrator left.

**Legal evidence** (`Platform_proofs`, about `LSpec`). `LInv` says that a receipt has at most
one event and the event says what the page said (`EventsInv`, which also counts the receipts, so
that there is always room for one more instant), that each row the panels read is an event with
its instant (`RowsInv`), and that only the card of an account is merged, into one that is not
(`CardsInv`). `LegalSteps` sorts the steps into five kinds: one that informs a client, the
professionals' acceptance, a page shown, a merge, and what changes the rules or the lists.
`EvidenceTells` is read off the invariant. `StaysInformed` needs a case per kind: an
acknowledgement that replaces a row writes one of the same card and version under the identity in
force (`Acknowledges`); a merge keeps every card's related ones, because the card that goes has
absorbed none (`MergingRelates`); and the newest acceptance has the latest instant
(`AcceptingComplies`).

**Security throttle** (`SecurityThrottle_proofs`, about `TSpec`, in which sign-ins and claims
interleave freely; the run takes them apart). `WhatStandsIsCounted` is `CountsWhatStands` (the
types are `CountersStayTyped`); no order of successes is excluded. It compares rows with attempts,
and is not inductive: a success subtracts the number its request read when it reserved, which is
in the attempt and not in the row. `ThrottleInv` therefore bounds the row by that number, of every
attempt still under way (`EntriesCount`): as long as no success was reserved after it, the row has
at most that number and what came later; as long as none also ended after it was reserved, at
least. `RowsCount` is the bracket itself for every window, and that a window without its row is
over or has nothing left to remember; windows are opened by attempts made, and those of claims by
claims that failed (`RowsOpened`, `EntriesOpened`, `ClaimsEnterLate`), so that a new window has
nothing to remember; and no counter passes its limit (`Bounded`). The steps that matter are a
sign-in let in, which enters several rows at once (`AcceptedStep`), a claim that fails in the
window there is by then (`RecordedStep`), and a success (`SucceededStep`). `Settling` says what a
success does to the two sets, and `Discount` what its subtraction does to the row: if no success
was reserved after it, at most what came later is left; if it also overlaps none, all of that is
left; and if it does overlap one, the lower set only has attempts reserved after both had ended,
so there were none of them yet when it ends.

**The platform** (`Platform_proofs`). The runs of the platform put the four components above side
by side and narrow their actions by focus. `PlatformFollowsItsComponents` says that every behaviour
of that composition is one of each component, so that what is proved of one holds there, for any
number of rows; `PlatformTypes` is the first use of it.

Only model-checked: liveness (`ComesToAVerdict`, `PendingComesToAnEnd`,
`ProcessingComesToAnEnd`), as fairness and ENABLED are beyond the prover. Every other property of a
passing run is stated by a theorem. The violations are TLC counterexamples.

## 6. Not modelled, and the plan

Next, in this order: the platform's own notices, the hourly and daily limits of notices, and the
sign-up requests of new businesses.

Not modelled, and why: pages, dashboards and read models (they decide nothing); the activity log
(append-only, nothing reads it to decide); the fixture of the demo; images and visual settings;
the requests about personal data (one row, one form); off-site backups and restores (file I/O run
by an operator); token formats and hashes; the Django administration site; web server settings
and release scripts; wall-clock jumps.
