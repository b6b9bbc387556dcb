# JobAct in TLA+

JobAct turns a technician's visit (notes or a recording, photos before and
after) into a signed service report with a PDF.  The backend is a modular
monolith in Python: an API process, a worker process and a speech-to-text
worker process share one Postgres database and one Redis.  The long-running
part, from evidence to a drafted, confirmed, signed and delivered report, is a
durable workflow driven by a transactional outbox and Redis Streams.

This directory holds TLA+ models of that system, TLC configurations that check
them on small instances, and proofs checked by TLAPS for every size.

Source paths below are relative to `src/backend/src/jobact/` unless they begin
with `src/`.

## 1. Inventory

| Component | State it keeps | Operations | Talks to |
|---|---|---|---|
| Workflow run (`workflows/report_fulfillment/run.py`, `states.py`, `repository.py`) | `workflow.workflow_runs`: state, attempt, next retry, claim, `state_version`, input data | start, claim, transition, resume, fail, step success/failure, dispatch; save is a compare-and-swap on the version | every handler and worker below |
| Report (`contexts/reports/domain/report.py`, `infrastructure/report_repository.py`) | `reports`, one revision with materials, signatures | create, apply AI result, edit, confirm, freeze, sign, complete; saved whole with **no** version | API handlers, both workers |
| Report API handlers (`contexts/reports/application/report_handlers.py`) | none | create, edit, confirm, ready for signature, sign, retry, manual transcription | the two rows above, in one transaction each, plus an outbox event |
| Report analysis (`activities/run_report_analysis.py`) | none | claim the run, call the AI providers outside any transaction, persist the outcome or a fallback | run, report, audits, visit, media |
| PDF (`activities/generate_pdf.py`) | `media_assets` row, object in S3 | render, upload, complete; any failure parks the run | run, report, object storage |
| Transcription (`activities/transcribe_audio.py`, `transcription_store.py`) | lease in `claimed_at` | claim, heartbeat, complete, fail with up to three attempts | run, visit |
| Outbox, streams, inbox (`shared/infrastructure/postgres/uow.py`, `outbox_publisher.py`, `redis/streams.py`, `apps/worker`, `apps/stt_worker`) | `platform.outbox`, the streams and their pending lists, `platform.inbox` | commit events, publish and stamp, deliver, retry, record, acknowledge, reclaim stale messages | all of the above |
| Idempotency middleware (`apps/api/middleware/idempotency.py`) | `platform.idempotency_keys` | claim a key, run the request, complete or release, wait and replay | every mutating request |
| Sessions (`apps/api/deps.py`, `redis/client.py`, `contexts/identity`) | sessions table, session cache, OAuth states, rate counters | resolve a cookie, fill the cache, expire, sign out | every request |
| Accounts (`apps/api/routers/auth.py`, `contexts/identity`) | users, identities, credentials, memberships | register, sign in with a password or Google, link, set password, locale, currency | sessions |
| Visits and media (`contexts/visits`, `contexts/media`) | visits, media assets | start a visit, patch location and notes, request upload, attach | report creation, analysis |
| Capture screens of the web app (`src/frontend/components/jobact/screens/flow.tsx`, `lib/jobact/store.tsx`, `media.ts`) | navigation stack, draft, calls under way | choose or add a customer, start, locate, photograph, describe, request the report | visits, media, reports |
| Report screens and polling (`flow.tsx`, `lib/jobact/polling.ts`, `analysis-run.ts`) | the same, one effect or wait per screen | post, poll, retry, edit, confirm, sign, wait for the PDF | reports |
| Visual audits (`contexts/visual_audits`, `workflows/visual_audit`) | one audit per report revision | stored complete with the analysis | analysis |
| Pricing and exchange rates (`contexts/reports/domain/pricing.py`, `shared/application/fx.py`) | none | suggest an amount, convert it | analysis, API |
| Customers, organizations | single rows | insert, read | capture, registration |
| Adapters: AI providers, S3, Whisper, PDF renderer, Google | none | calls | activities |

What is hard here, and what each component must guarantee:

* **Interleavings of transactions.**  Postgres runs them at READ COMMITTED, so
  a handler can read a row, do something slow, and write back what is no
  longer there.  The run is protected by its version, the report is not.
  Correct means: no update of the run is lost, the report and the run agree on
  the stage, a revision frozen for signature is the one that was confirmed,
  one signature, one PDF.
* **At-least-once delivery.**  Dispatches come twice, late, out of order, and
  after the state they were meant for.  Correct means that a duplicate does
  nothing and that no event is lost between its commit and its handler.
* **Crashes.**  A worker can die between any two transactions, holding a claim.
  Correct means that the run goes on or is parked for a human.
* **Retries by people and by timers.**  Retrying must go back to the right
  stage, and the lease of a dead worker must end.
* **A cache, a key and a row in different stores.**  The session cache is
  Redis, the sessions are Postgres; the idempotency row is committed apart from what it
  protects.  Correct means that a logout is final, one key has one acknowledged effect, and every
  answer that is replayed is true.
* **Rows saved whole.**  A sign-in writes back every setting of the user it read.  Correct
  means that nobody enters an account that is not theirs and a saved setting survives.
* **Calls that outlive their screen.**  The app is one thread, but an upload or a
  poll ends when it ends, with the values it started with.  Correct means that a report gets
  the evidence of its own visit and a screen makes one report.
* **Progress.**  A run that waits for a worker does not wait for ever; a request is
  answered; a loading screen is left.

`PROJECT.json` lists each hazard at its line with the properties that cover it.

## 2. Modules

```
WorkflowRun   ReportRecord          data types and methods of the two aggregates
      \          /
   ReportFulfillment  ----------->  ReportLifecycle   (abstract specification)
      /          \        refines
MCReportFulfillment  ReportFulfillmentProofs  <-- ReportLifecycleProofs
   (TLC)               (TLAPS)                     (TLAPS; extends the former, proves the refinement)

   OutboxDelivery  ---------------->  DispatchChannel   (abstract specification)
      /          \        refines
MCOutboxDelivery     OutboxDeliveryProofs

   TranscriptionLease          ApiRequests             ReportScreens               Accounts
      /          \              /       \               /        \                /      \
MCTranscriptionLease |   MCApiRequests   |     MCReportScreens   |       MCAccounts      |
        TranscriptionLeaseProofs   ApiRequestsProofs     ReportScreensProofs      AccountsProofs

         VisitCapture
          /        \
MCVisitCapture  VisitCaptureProofs
```

`VisitCapture` ends where `ReportScreens` begins (the request for a report), and
`ReportScreens` uses as single steps what `ReportFulfillment` takes apart.  `Accounts` opens the
sessions that `ApiRequests` resolves, and `ApiRequests` stands around every handler of the
others.  Each boundary is one call, so the modules share it as an assumption rather
than as variables.

### WorkflowRun, ReportRecord

One operator per method of the aggregates `WorkflowRun` (`run.py`) and
`Report` (`report.py`).  An operator takes the record a transaction has read
and returns the record it will write; a method that raises is a guard
(`MayTransition`, `Editable`, `MaySign`, ...).  Work text, materials and amount are
one `content` value, because the properties ask only whether the content that
is signed is the one a person vouched for.  Two fields are not the program's: `vouched`, the
content that the last confirmation was applied to, and `reviewed`, whether it was
given while the run was in review and no edit has taken it back.

### ReportFulfillment

One report and its run, with the API requests, the workers and the
speech-to-text workers as processes.  A process is at a label `pc[p]`; between
steps it keeps the report it will write (`rep[p]`), the run row it read
(`wr[p]`) and the message it handles (`job[p]`).  How the model follows the code:

* Each handler is a transaction, split where it reads: `UpdateRead` reads and
  edits the report, `UpdateSave` flushes the report's UPDATE and reads the run,
  `UpdateCommit` writes both.  Nothing a transaction wrote is seen before its
  commit, and a transaction that has updated the report row holds the row lock
  (`ReportLocked`) until it ends.
* Saving the run is a compare-and-swap (`SaveRun`), saving the report is a
  plain overwrite (`report' = rep[c]`), as in the two repositories.
* The analysis takes its claim in one transaction (`AnalysisLoad`,
  `AnalysisClaim`), is at `analyse` while it calls the providers, and persists
  in another (`PersistRead` ... `PersistCommit`).  Which provider and which model
  answered is one choice between a draft and the fallback template.
* The outbox, the streams and the inbox are the set `pending` of dispatches.  Any
  worker may take any of them, in any order, also several workers the same one.
  `Acknowledge` ends a handler: the message goes, or, at the cost of one fault, it stays although
  the effect has committed (a crash before the acknowledgement, or a second publication).
* `Crash` ends a worker anywhere; its message stays pending.
* `SttLoad` may follow an earlier claim, since a lease can run out; `SttHeartbeat`
  renews whatever claim the row holds, as the code does, which does not
  record an owner.

### ReportLifecycle

What the customer and the technician are promised: edited while a draft, frozen once,
signed once, delivered once, and no change behind a signature.
`ReportFulfillment` implements it (`LifecycleHolds`) under
`status <- report.status, text <- report.content, documents <- pdfs`.

### OutboxDelivery

What `pending` stands for in `ReportFulfillment`: one stream, from the transaction
that writes an outbox row to the handler behind the consumer group.

* Publisher (`Select`, `Publish`, `Stamp`): selects the unpublished rows, then appends and
  stamps one row after the other.  Appending and stamping are separate steps, and
  several workers publish the same table without a lock.
* Consumer: the loop of `consume` takes turns between `Reclaim` (XAUTOCLAIM) and
  `Read` (XREADGROUP `>`).  Entries are numbered; `pending` is the
  group's pending entries list and has no owners, since every worker uses the
  same consumer name.  What was fetched is dispatched entry by entry.
* Dispatch: `Begin` or `SkipDuplicate` (the inbox lookup), `HandlerSucceeds`, `TryAgain` or `GiveUp`, then
  `RecordProcessed` and `Ack`, each a step of its own, as each is a transaction or a call of its own.
* `GrowStale` lets any pending entry be idle for too long at any time, also while a slow
  handler is still at it.  `Crash` takes the memory of a worker with it.

### DispatchChannel

The promise: a committed event is open until its handler has succeeded at
least once, only open events are handed to a handler, and what is settled never comes back.
`OutboxDelivery` implements it (`ChannelHolds`); an event in a worker's hands counts as
open even if another worker recorded it meanwhile.

### TranscriptionLease

`ReportFulfillment` lets a lease run out whenever it likes.  This module puts the lease, the
heartbeats and the redelivery of messages on one clock, for one recording, to see how their
lengths fit together.  A tick is `CLAIM_HEARTBEAT_SECONDS` (30 s), so the lease and
`_STALE_PENDING_MS` (120 s each) are 4 ticks.

* `Claim`, `ClaimRefused`, `ClaimInvalid`, `Heartbeat`, `Complete`, `FailAgain`, `FailForGood`,
  `FailTooLate` are the transactions of `PostgresTranscriptionStore`, each in one step: their races are
  modelled in `ReportFulfillment`.
* `Fetch` is XREADGROUP or XAUTOCLAIM, for one message at a time; a handler that returns records and acknowledges its
  message (`Return`).  `Outage` is a claim or a failure report that raises: the dispatch loop
  runs the handler from its start again, at most `MaxTries` times, then leaves the message pending.
* `Tick` passes time for everybody; it waits for workers that are about to do
  something that takes none (`Busy`).  Download and inspection take up to `MaxPrepare` ticks
  without a heartbeat, as in the code; `late` remembers that they took so long that the first heartbeat could not come before
  the lease had run out.

### ApiRequests

What stands around a route: who is calling, and was this call made before?  A request is a
process; each step is one Redis call or one transaction.

* `Lookup`, `Load`, `Fill` are `try_resolve_principal`: the cache, the table, the cache
  again.  A mutating request goes through them twice, in the middleware for the scope of its key and in
  the route.
* `Claim` is the insert that does nothing on a conflict; who lost replays a stored
  `Answer`, is refused for another body, or polls (`Poll`, `GiveUp`) the row that is in progress.
* `Commit`, `Refuse`, `Raise`, `Respond` are a route's ways through; `Complete` stores the answer, also a refusal;
  `Release` deletes the row after an exception, also one raised behind the commit.
* `Revoke`, `Purge`, `PurgeFails` are a logout: the row, then the cache.  `purged` remembers
  whether a fill of the session was under way when the cache was purged.
* `Die` ends the process anywhere and leaves the row as it is: nothing reads `expires_at`.

### Accounts

Every request that changes an account, with each transaction split at its read and its commit.
`requests[r].row` is the user row a request will write back whole (`SaveRow`); the
unique constraints of e-mail address, subject and credential act at the commit (`Collides`, `Collision`).

* `Count`, `OpenWindow`, `WindowEnds`: INCR, then EXPIRE, then its end.  `CountFails`, `OpenWindowFails`: Redis raises, before or
  after the call had its effect, and the caller is told 503.  `opener` remembers who was to set the end.
* `RegisterRead`/`Commit`, `LoginRead`/`Commit`, `PasswordRead`, `PasswordReread`,
  `PasswordCommit`, `SettingRead`/`Commit`: the handlers; hashing is between two steps.
* `GoogleStart`, `AttemptExpires`, `Pop`: the one-time state in Redis (GETDEL); `GoogleRead`, then
  `GoogleRegisterCommit` or `GoogleSignInCommit`, or `LinkRead`, `LinkCommit` if the state was made for linking.
* `Establish`, `EstablishFails`: the session enters the cache and the cookie goes out, or Redis fails behind the commit.
* Histories: `known` (every password a user has had) and `settled` (a setting that was saved while
  nobody else held a copy of the row).

### VisitCapture

The app's screens up to the request for a report, with the endpoints they call.  A call is a
task; what the code does after an `await` is a step of its own, in whatever state the app is in by
then, with the values of the closure it was started in (`t.before`, `t.visit`, ...).

* The screens: `Back`, `Leave`, `SelectCustomer`, `SaveCustomer`, `StartVisit`, `ConfirmLocation`,
  `AddFiles`, `RemoveAt`, `Continue`, `RecordVoice`, `SaveNotes`, `CreateReport`, ...  A screen that
  is shown anew has new component state; going to the same component keeps it (`Component`).
* The calls: `CustomerSaved`, `VisitStarted`, `PatchRead` and `PatchSaved` (the visit is written back
  whole), `Ask`, `Attach`, `Listed` (request an upload, attach it, list it in the draft, file
  by file), `CallFails`, `AnswerLost`.  The answer of a lost PATCH is not a case of its own: it is replayed by its key.
* The server: `Ready` is `evidence_readiness`, `Attached` the photos it counts, `Analyse` what the
  analysis reads when it is picked up: the Nth photo before with the Nth after, in capture order (`Place`, `Paired`).
* `haste` counts what a patient technician does not do; it separates what the code
  guarantees to everybody from what it guarantees to who waits.

### ReportScreens

The app from the request for a report to its PDF.  The analysis screen's effect and the wait
for the PDF are calls; `Effect` is what `analysis-run.ts` decides to do first (post, retry,
poll).  `pollUntil` is `ReadReport`, `ReadRun`, `ReadPdf` (the three transactions of one GET) and
then `Settled`, `Failed` or `NotYet`; an aborted call finishes the fetch it is in, and still
writes its view into the draft, as the code does.  `Show` is React: a screen that
goes away aborts its effect, a new analysis screen gets a new key, and a draft that
changed its notes runs the effect again.  `Work` is any worker, in any order.

## 3. Runs

| Run | Question | Result |
|---|---|---|
| `one_technician` | With one request at a time, two workers, one speech-to-text worker and one fault: do the report and the run agree, is there one analysis at a time, is the lifecycle kept, and does what was confirmed in review stay, also after early confirmations and edits? | `TypeOK`, `StageAgreement`, `AnalysisExclusive`, `ReviewIsBinding`, `LifecycleHolds` hold |
| `racing_requests` | Two API requests at once: is the version check enough for the run? | `FreshIfUnmodified`, `OnePdf`, `RunMovesLegally` hold |
| `takeover` | Two speech-to-text workers on one recording, after the lease of the first has run out: does what the late one completes, fails or loses disturb the analysis that comes next? | `AnalysisExclusive` holds |
| `progress` | With one worker and a crash or a duplicate: does every undisturbed wait of a draft for its analysis end, and does the PDF stage of a signed report end with the PDF or a human's attention, also after a retry? | `UndisturbedDraftingEnds`, `PdfStageEnds` hold |
| `outbox` | One worker with its publisher, two events, a crash, failing handlers: is the outbox an at-least-once channel, how often can a handler succeed, is every event processed in the end? | `TypeOK`, `NothingLost`, `EffectsBounded`, `ChannelHolds`, `EveryEventProcessed` hold |
| `lease` | Two speech-to-text workers on a clock, a crash, an outage: one transcription at a time, and does it end? | `TypeOK`, `OneTranscriber`, `TranscriptionEnds` hold |
| `api_requests` | Three requests with one key and one session, one perhaps a logout, and a fault: who runs the route, what does everybody hear, is a logout final, is everybody answered? | `TypeOK`, `OneHolder`, `AcknowledgedOnce`, `CreatedIsReal`, `CleanLogoutHolds`, `StoredAnswerStays`, `EveryRequestEnds` hold |
| `accounts` | Two of all account requests race, with a fault: does everybody get into their own account, and what survives? | `TypeOK`, `SessionIsProven`, `SettingSticks`, `ThrottleExpires`, `SubjectKeepsUser` hold |
| `capture` | Up to two visits, one hasty step: is what the draft lists real, does a report have evidence of its own visit, is who waits ever refused? | `TypeOK`, `ListedIsAttached`, `ReportHasEvidence`, `PatienceSuffices`, `AnalysedAsShown` hold |
| `screens` | One visit through every button of the report screens, with a fault: one report per analysis screen, a PDF behind every completed view, and is loading always left? | `TypeOK`, `OneReportPerScreen`, `CompletedHasPdf`, `LoadingEnds` hold |
| `v_transcription_stuck` | A worker dies between two heartbeats | `Attended` is violated |
| `v_signed_unconfirmed` | A technician confirms before the AI result is in | `SignedAsConfirmed` is violated |

**Bounds.**  `MaxVersion` bounds how many commits the run goes through: nobody
starts another attempt (an edit, a retry, a transcription, a heartbeat) beyond it.  A whole life of a
voice report takes the run through seven versions, so 8 and 9
leave room for a failure and a retry on the way; the racing run stops at 5, enough
for an analysis to race with an edit, a confirmation, a freeze and a retry.  `MaxFaults` bounds crashes
and duplicated deliveries.  One draft and one edit tell apart what the AI
wrote from what a person wrote.  Every run of `ReportFulfillment` has all the requests of the API (`ClientOps`).  The transcription gives up after three attempts,
as in the code.
`takeover` has two speech-to-text workers, whose races the other runs leave out, one worker and no faults; 6 versions are
claim, takeover, heartbeat or failure, completion and the analysis behind it.
In `progress` 8 versions let a parked PDF be retried; there is one worker, since the races of
several are the subject of the safety runs.
In `outbox`, two events show that one does not hold up or replace the other, and
two tries per delivery, two failures and a crash let a delivery be given up, left stale and redelivered; that several
workers share the stream is covered by the proofs.
In `lease`, two workers are enough for a takeover, `MaxPrepare = 3` lets preparation come one tick too
late for the lease, two attempts let a failure be final or not.
In `api_requests`, three requests are a holder, a waiter and a logout, or a holder that fails, the
one that claims after it and one that waits for either; one key and one session make them meet, and a body
and a logout are two calls that differ.  More keys only keep requests apart; the proofs are for any number.
In `accounts`, every race is between two requests, and two users, addresses and subjects tell the
owner from somebody else; a limit of 1 lets one request through and throttles the next.  Longer histories
than two requests start from `Init`: there is no account yet, or one with a password, with Google identities or with both, and a session.
In `capture`, two visits are one and the next, or one that is started twice; two before photos have an order, four
assets are two of each phase, or three photos and a recording; two calls under way at a time are a late one and one of the screen.  One hasty
step is enough for each of the ways in which a late call lands in the wrong place.
In `screens`, two analysis screens are the first and the one after a retry, three polls are one that is
not yet decided, one that changes the notes and the last; two calls are a live and an aborted one, or an
aborted one and the wait for the PDF.
The runs of `ReportFulfillment` do not check for deadlock, since a report whose bounds are spent and whose work is done rightly stops;
nor do those of requests and screens, which stop when every request has been sent or nobody presses anything. `outbox` and `lease` do: worker loops go on for ever.

**Fairness.**  A request that has been accepted ends, in a commit or in the
rollback of `Abort`; worker loops never stop by themselves, so each has weak
fairness on its next step.  `PersistSave` has strong fairness: it waits for the
lock of a row, and Postgres grants row locks in the order in which they are
asked for, so a stream of edits cannot overtake it for ever.  Nothing obliges a
client to send a request, a heartbeat to be sent or a process to crash.
In `OutboxDelivery` each publisher and each consumer loop has weak fairness, an entry that stays pending grows
stale, and a crashed worker starts over; crashes and failures are bounded, since a handler that always fails is never done.
In `TranscriptionLease` time passes, workers go on and are started again, and each download, inspection and
transcription comes to an outcome, be it an error: they are calls with an end.
In `ApiRequests` the event loop runs each accepted request (`WF_vars(Proceed(r))`); `GiveUp` is enabled as
long as a request waits, since the wait is bounded by a clock, and nobody has to arrive, fail or die.
In `ReportScreens` the browser runs the effect on display and every fetch is answered or fails
(`LiveEffectStep`); `apiFetch` sets no time limit of its own, so that is an assumption on the
network.  Nothing is assumed of the technician, of the workers or of aborted effects: `LoadingEnds` must hold
because polls are counted, not because runs end.
`Accounts` and `VisitCapture` state no liveness and need none.

## 4. Proofs

`ReportFulfillmentProofs` proves for any sets of clients, workers and contents
and any bounds, from `ClientsAssumption` alone:

* `TypeCorrect`: `Spec => []TypeOK`;
* `Invariant`: `Spec => []IInv`, and from it
* `LockingSound` (`FreshIfUnmodified`), `ReadsLicensed`
  (`ReadsLicenseWrites`, a part of `IInv` that no run checks by itself), `AnalysisIsExclusive`, `ExactlyOnePdf` and
  `MovesAreLegal` (`RunMovesLegally`, an action property).

The argument.  None of the safety properties is inductive alone.  `OnePdf` says that
a PDF exists exactly when the run is completed; the step that attaches it
writes a run it read earlier, so it is safe only because (1) a compare-and-swap
that passes has read the row as it is now (`FreshIfUnmodified`: an equal version
means an equal row, which holds because each method moves the version), and (2) what was
read then had the state the step serves (`ReadsLicenseWrites`).  The same two
facts exclude that anybody moves the run away from under an analysis
(`AnalysisExclusive`), except the analysing worker itself; and since only its claim could be
written again, a second claim needs a row that is not claimed.  `IInv` is the conjunction.

The proofs go by groups of actions: the requests, the worker and the
speech-to-text worker each have a lemma per conjunct, with one step for each action;
`CommittedRuns` collects what every method does to the version and the state.

`ReportLifecycleProofs` goes on from there with one request at a time.  `OneTechnician`
(`\A c, d \in Clients : c = d`) is an assumption of its theorems, and the restriction of the run
`one_technician`; workers of both kinds are any number, and so are faults.  It is needed: two
requests at once can break each of these properties (section 5).

* `StoryHolds`: `Spec => []Story`, the inductive invariant on top of `IInv`;
* `StagesAgree` (`StageAgreement`) and `LifecycleImplemented` (`LifecycleHolds`, the refinement of `ReportLifecycle`);
* `ReviewBinds` (`ReviewIsBinding`): content that was confirmed in review stays what the report says until an edit takes
  the confirmation back, whatever requests, workers and redeliveries come in between.  Of a confirmation that was given
  earlier it is false, which the run `v_signed_unconfirmed` shows.  What the client had on display when it confirmed is not modelled:
  the confirmed content is that of the row the confirmation was applied to.

The report and the run are two rows, written by different handlers; the report is written back whole, from a copy that may be old.
`Story` therefore says three things: which states of the run go with each status of the report (`Stage`), that the
report is still where the technician's request found it (`AsFound`), and that what a worker is about to write still fits
(`StillGood`).  A step does one of a few things to the report: it opens, revises, freezes, signs or delivers it.
Whoever does not move sees only those (`ClientFrame`, `WorkerFrame`), and a worker that lost the race to another is stopped by
the run's version, as `IInv` says.  The same classes are the steps of the abstract specification (`LifecycleMove`).
Freezing is the one to argue about: an analysis under way would thaw the report, and there is none, because freezing needs a
run in review.  `Vouching` adds what is confirmed.  A report confirmed in review is still there while it is a draft (`Vouched`), no request
under way loses that (`WillVouch`), and so no analysis, which needs a run in drafting, has a copy of it to save (`WritesUnreviewed`).

`OutboxDeliveryProofs` proves from `DeliveryAssumption`, for any events, workers and bounds:

* `DeliveryTypeCorrect`, `DeliveryInvariant` (`Spec => []IInv`);
* `NothingIsLost`: `Spec => []NothingLost`;
* `DeliveryImplementsChannel`: `Spec => ChannelHolds`, the refinement;
* `EffectsPerWorker`: with finitely many workers, a handler succeeds for an event at most once per worker and once more
  per crash, whatever is published, delivered, claimed and retried; `EffectsAreBounded` (`EffectsBounded`) is the case of one worker.

`NothingLost` is not inductive, as it does not say why an entry may leave the pending
list.  `IInv` adds the chain behind it: a stamped row has an entry (`Copied`), an
acknowledged entry is recorded (`Recorded`), and a recorded event was handled (`Performed`); each
link is the order of two steps of the code.  The refinement then goes by what
a step does to the worker's event: it emits, performs, settles or leaves alone
(`ChannelStep`); `LetGoStep` treats the five ways in which a worker lets an event go, a crash among them.
`EffectsPerWorker` counts (`EffectsOf`): until an event is recorded, each success belongs to a worker that is about to record it or to a crash;
once it is, the lookup in the inbox lets nobody in, and those who hold the event in their hands are no more than the workers.

`TranscriptionLeaseProofs` proves from `LeaseAssumption` (a lease of two ticks or more), for any
number of workers and any redelivery time, with crashes and outages:

* `LeaseTypeCorrect`, `LeaseInvariant` (`Spec => []IInv`);
* `WorkersTakeTurns`: `Spec => []OneTranscriber`.

That one worker transcribes at a time follows from a stronger fact, `Alone`: whoever holds the claim
holds a live one, and the time left on it and the time since his last heartbeat add up to what he
needs to send the next (`Live`).  A second worker could claim only what is unclaimed or has run
out, so there is none; `AloneKept` has one step per action, and `Tick` is where the arithmetic is.
Preparation is the exception that `late` marks: it renews nothing.

`ApiRequestsProofs` proves from `RequestsAssumption`, for any requests, sessions, organizations, keys and bodies:

* `RequestsTyped`, `RequestsInvariant` (`Spec => []IInv`);
* `OneRequestHoldsTheRow`, `KeyAcknowledgedOnce`, `CreatedIsMade`, `LogoutIsFinal` and
  `StoredAnswerIsFinal`: all the safety properties of the run.

None of them is inductive.  `OneHolder` needs `RowsHeld`: who holds a row finds in it the call it claimed it with and no answer, so
that a second `Claim` finds the row taken.  `AcknowledgedOnce` needs to know
what protects an effect that is acknowledged (`EffectsKnown`): its request still is on the way to store the answer, or its row is
`Blocked`, neither free nor in anybody's hands.  From the same facts every stored
answer is true (`AnswersTrue`, `Made`), and a replay repeats it.
Logouts are apart from that (`LogoutsFinal`): once a session is revoked no new read of it
can be followed by a fill, so a purge that met no fill under way meets none later.
The proofs turn on one observation: almost every step moves one request and leaves the
tables alone (`QuietKeeps`); the five steps that write a row have lemmas of their own.

`ReportScreensProofs` proves from `ScreensAssumption`, for any number of screens, polls, calls and faults:

* `ScreensTyped`, `ScreensInvariant` (`Spec => []IInv`);
* `OneReport` (`OneReportPerScreen`) and `CompletedReportHasPdf` (`CompletedHasPdf`).

`CompletedHasPdf` compares two reads of different moments.  It holds because the order of the reads is
the order of the truth: a PDF is attached in the step that completes the run and is never taken
away, so a view that read COMPLETED must find the PDF when it reads it later; the invariant says so of each call at each
of its three reads.  `OneReportPerScreen` is kept by `Create`, which finds a report of its key by key; the
invariant ties the keys in flight to the screens opened so far.  It is about the app, which must not take a new key for a new try;
that the server keeps the key of a report it has made is assumed (an exception behind the commit releases it, section 5).

`AccountsProofs` proves from `AccountsAssumption`, for any requests, users, addresses, subjects, passwords and faults:

* `AccountsTyped`, `AccountsInvariant` (`Spec => []IInv`);
* `SessionsAreProven` (`SessionIsProven`), `SettingsStick` (`SettingSticks`), `ThrottlesExpire`
  (`ThrottleExpires`) and `SubjectsKeepUsers` (`SubjectKeepsUser`): all the properties of the run.

A request commits on what it read in another step, possibly of another transaction.  `Licensed` says what of that is
still true then: the user is registered, the password is one he has had, the subject is his, the session of a link
stands.  It stays true because the tables only grow (`Grows`, `StillLicensed`): no row of a user, an identity or a
session is ever taken away, and a changed password remains in `known`.  That is also what the theorem leaves open: a
sign-in that verified the old password may commit after the change, and opens its session all the same.
`SettingSticks` needs that whoever holds a copy of a row will write a settled setting back as it is (`KeepsSettled`), which a
setting that settles gets from `HeldByOthers`.  `QuietKeeps` treats the steps that write no table, `ProvisionKeeps` and
`SaveKeeps` the commits, `CountersAlone` everything that is not between INCR and EXPIRE.

`VisitCaptureProofs` proves from `CaptureAssumption`, for any customers, visits, photos, calls under way and hasty steps:

* `CaptureTyped`, `CaptureInvariant` (`Spec => []IInv`);
* `ListsAreReal` (`ListedIsAttached`) and `ReportsHaveEvidence` (`ReportHasEvidence`);
* `PatienceInvariant` (`Spec => [](Patient /\ Shown)`), `PatienceIsEnough` (`PatienceSuffices`) and `AnalysisIsAsShown` (`AnalysedAsShown`).

A photo enters the draft by a call that was started several steps, and possibly a visit, earlier.
`TaskOk` says what such a call carries: a list whose photos are attached, and an asset of its own
visit that is attached once the answer is on its way.  It stays true because assets only come
and get attached (`Extends`, `StillAttached`): the server takes no photo away.  For the same reason the evidence
that `Ready` found stays there; the pairs need not, and `late` marks the reports a photo was attached to later.

The last three are about a technician who waits for every screen (`haste = 0`).  `PatienceSuffices` says that the server never refuses him a
report for the location or the photos, so the screens must imply what `evidence_readiness` checks.  It says nothing of the recording:
one carried over from the last customer enables Continue, and the server refuses it (section 5).  `AnalysedAsShown` says that the
analysis compares the pairs he saw.  Both compare the draft with the server's photos, and they agree only while every call still is where, and about what, it
was started.  That is `Patient` (`InOrder`): each screen on the stack was reached the way to it (`Way`), everything there is belongs to a
visit (`Owned`), the draft lists the attached photos of its visit in order, all but the one whose answer is under way (`InList`), and each call
belongs to the screen on display, with no other of its kind (`InPlace`).  `Shown` keeps of each report what `Patient` gave it when it was made.
The server numbers its photos by counting earlier ones (`Place`), the app by position in a list; `RisingCount` shows by a
bijection that in a rising list these are the same, and with it `AnalysisShows` that the two pairings agree.

**Only model-checked**: the liveness properties, `UndisturbedDraftingEnds`, `PdfStageEnds`, `EveryEventProcessed`,
`TranscriptionEnds`, `EveryRequestEnds` and `LoadingEnds`.  They need fairness and `ENABLED`, which is out of the prover's reach.
Every other property of a passing run is a theorem.

## 5. What the model says about the code

Two runs end in a counterexample; each is an entry of `findings` in
`PROJECT.json`, with the sentence of the documentation it disagrees with:

1. A confirmation survives a later AI result (`report.py:141`).  The app reaches this without haste: after a poll that timed out
   or failed, "Write manually" (`flow.tsx:890-894`) opens the edit screen, whose save (`flow.tsx:1287-1312`) edits and confirms
   the report while the analysis may still be under way (`WriteManually`, `SaveEdit` of `ReportScreens`).
2. The lease of a transcription outlives the redelivery of its message: heartbeats move the lease on, not the
   120 seconds of the stream.  If the worker dies after a heartbeat, the redelivered message is
   refused, recorded and acknowledged, and the run waits for ever in `TRANSCRIPTION_PENDING`
   (`transcription_store.py:53`).  An outage while a failure is recorded ends the same way
   (`transcribe_audio.py:226`).

The following are behaviours of the same models without a run of their own.  They explain why
the properties are stated as they are.

Reports and workers:

* A report saved without a version check can move backwards: a confirmation that had read the draft and
  commits after a concurrent ready-for-signature sets `pending_signature` back to `draft` and clears
  `frozen_at` (`report_repository.py:85`; `src/docs/architecture/erd.md:100-103` says the status only moves on
  and freezing is one-way).  Hence `StageAgreement` and `LifecycleHolds` are for one request at a time.
* The analysis claim has no lease: a worker that dies behind it strands the run in `DRAFTING_PENDING`, where no
  endpoint accepts it (`run_report_analysis.py:177`; `src/docs/adr/0005-outbox-saga-idempotency.md:47-49` says
  never a stuck report).  Hence `UndisturbedDraftingEnds`.
* Manual transcription accepts a signed report whose PDF was parked and sends it back to drafting
  (`report_handlers.py:452`; its docstring, line 435, speaks of a parked voice attempt).  The analysis is claimed, refuses a report that is
  no draft, and every redelivery is dropped because the run is claimed (`run_report_analysis.py:177`): the run waits for ever in
  `DRAFTING_PENDING`, without a fault, although the same sentence of adr/0005 promises a human's attention.  Hence the words
  `report.status = "draft"` in `UndisturbedDraftingEnds`.
* After an AI failure the run is `FAILED`, and an edit by hand does not take it out of there
  (`report_handlers.py:269`; `src/docs/architecture/ai.md:86-93` says the run is parked for a human to finish by PATCH and confirm).
* Retrying a draft with a recording transcribes it again, over notes that were
  typed by hand (`report_handlers.py:416`).
* A message that used up its tries is not left to a human, as the comment says: the same worker
  claims it again once it is stale (`apps/worker/__main__.py:152`).

Requests and accounts:

* A session that was read from the table before a logout and put into the cache after it makes the
  cache answer for a revoked session until the entry runs out (`deps.py:56-58` says a hit is safe to trust because logout
  deletes the entry).  Hence the word "clean" in `CleanLogoutHolds`.
* A process that dies behind its claim leaves the key in progress for ever: `expires_at` is written and never read.
  An exception behind the handler's commit releases the key, and a retry makes a second effect; `AcknowledgedOnce` therefore speaks of what was acknowledged.
  Refusals are stored and replayed like any answer.
* Two changes of a password with the same old password both succeed (`set_or_change_password.py:50`).
* A sign-in that read the user before a setting was saved writes the old setting back (`sign_in_with_password.py:58`).  Hence "settled".
* If the cache fails behind the commit of a registration, the client is told 500, and 409 when it tries again.
* A process that dies between INCR and EXPIRE leaves a counter without an end (`redis/client.py:108`), and so does a Redis
  error there, which is answered 503 (`auth.py:111-121`).  Once that counter is over the limit, every client of the address is
  throttled, and told to come back after one second, for ever (`redis/client.py:113-114`).

The app:

* Going back and starting the visit again gives a new visit id but keeps the photos of the earlier one in the draft; the
  server has none of them and refuses the report (`flow.tsx:186`; `store.tsx:83-84` calls the lists what readiness is derived from).
* A photo that was taken off the screen stays attached; the counts or the pairs then differ from what is shown, and
  with different counts the analysis compares no pairs (`flow.tsx:479`).
* A late upload, recording, save or navigation lands in the draft and on the screen of the next customer (`flow.tsx:461`, `:603`).
  The recording's id is carried to the next customer in any case, so that Continue is enabled without one; the server refuses it.
* The flags `parked` and `manual` travel through `replace("analysisProcessing", frame.params)` and back: after a parked run was resumed, "Edit" on the draft opens the edit screen
  for a parked run, whose save is refused with 409 (`flow.tsx:1274`, `report_handlers.py:454`).
* Retrying from the edit screen opens a new analysis screen with a new key and so makes a second report of the visit
  (`flow.tsx:1252`); `OneReportPerScreen` says what does hold.
* A read of a report may see the report before and the run after the worker's commit: a draft up for review
  that is still empty, and can be confirmed as such (`routers/reports.py:169`).
* An aborted poll still hands on the value of its last fetch (`polling.ts:29`), perhaps into the next customer's draft.
* A screen's key is used again after a failure, also when the signature was drawn anew: 409 (`flow.tsx:1470`).
* If the answer to a retry is lost, "try again" sends the retry again, which is refused because the run has moved.

## 6. Not modelled

* Tenancy filters, role checks, the origin check: each is a comparison at the head of a handler.
* Visual audits as a workflow.  The analysis stores a finished audit with the draft and drains the event that would
  start one (`run_report_analysis.py:445`), so the audit worker is never reached and its attempts, late results and supersession cannot happen.
* The step runner: the analysis and the PDF step do not go through it.
* Pricing and exchange rates: one multiplication and one rounding, without state.
* Step records, correlation ids, display codes of errors: written, never read by the workflow.
* The providers, Whisper, the renderer, the object store, Google: only their outcomes.
* Screens that only display (lists, settings, onboarding); signature images and downloads.
* Migrations; the revocation of a membership, which nothing calls.
* Requests without an idempotency key: the middleware steps aside.

Within what is modelled, these steps are coarser than the code:

* `AddReport` (`VisitCapture`) reads the visit, the photos of each phase and the recording at one moment; in the code they are statements
  at READ COMMITTED (`report_handlers.py:83-131`), so a photo attached between the two lists counts in one and not the other.
* `Analyse` has no cap of six pairs (`run_report_analysis.py:258-260`), which the app's limit of photos (`MaxBefore`) never exceeds.
* `RecordVoice` may start another recording whenever one is under way, as a hasty step; the button allows it while the browser asks for permission and,
  once typing was chosen in between, during an upload.
* `Stay` (`ReportScreens`) runs the effect again for changed notes; its key also names the recording and the numbers of photos (`flow.tsx:768-774`), which
  only a call that outlived the capture could change.
* `Create` (`ReportScreens`) never loses the key of a report it has made, and the server's refusals of it are among `CallFails`.
* More than the code does: `Sign` may follow although the screen was left before the picture was drawn, and `Die` (`ApiRequests`) ends one request
  of a process and spares the others.

## 7. What could follow

1. Runs for the hazards that `PROJECT.json` lists without a property: the recovery from a parked PDF and from an AI
   failure, the retry that transcribes again, and the flag that opens the edit screen for a parked run.
   Each is at present a behaviour that differs from the documentation (section 5), so it would end in a counterexample.
2. `OneTechnician` weakened to what the API would guarantee if it saved the report with a version check.
