-------------------------- MODULE ReportFulfillment --------------------------
(***************************************************************************)
(* One report and its workflow run, changed concurrently by API requests,  *)
(* by the worker (AI analysis, PDF) and by the speech-to-text worker.      *)
(*                                                                         *)
(* Every handler is a Postgres transaction at READ COMMITTED that reads    *)
(* the report row, reads the run row, and writes one or both back.  The    *)
(* model keeps the reads apart from the commit, in the order of the code:  *)
(*   - "rep[p]" is the report as p read it, with the domain method already *)
(*     applied, that p will write back whole (reports carry no version);   *)
(*   - "wr[p]" is the run row as p read it; writing it back is a           *)
(*     compare-and-swap on its version.                                    *)
(* Statements between the last read and the commit are one step: nothing   *)
(* they wrote is visible before the commit, and a lost compare-and-swap    *)
(* rolls all of them back.  A process that reads again after it has        *)
(* updated the report row holds that row's lock across the step.           *)
(*                                                                         *)
(* The outbox, the streams and the inbox are reduced to "pending": the     *)
(* dispatches committed and not yet acknowledged, each of which may be     *)
(* handed to any worker, more than once, in any order.                     *)
(***************************************************************************)
EXTENDS WorkflowRun, ReportRecord, FiniteSets

CONSTANTS
  Clients,       \* API requests that may be in progress at the same time
  Workers,       \* consumers of outbox.WorkflowRun
  SttWorkers,    \* consumers of outbox.Transcription
  ClientOps,     \* the requests the clients make
  MaxVersion,    \* bound: nobody starts another attempt beyond this version
  MaxFaults      \* bound: worker crashes and unexpected errors

AllClientOps == {"update", "confirm", "ready", "sign", "retry", "manual"}

ASSUME ClientsAssumption ==
  /\ ClientOps \subseteq AllClientOps
  /\ MaxVersion \in Nat
  /\ MaxFaults \in Nat

VARIABLES
  report,     \* the reports row and its revision
  signatures, \* number of rows in signatures for the report
  pdfs,       \* number of attached PDF media assets of the report
  run,        \* the workflow_runs row
  pending,    \* dispatches delivered or deliverable, not acknowledged
  pc, rep, wr, job,  \* per process: where it is, what it read, its message
  faults      \* faults so far

db    == <<report, signatures, pdfs, run, pending>>
procs == <<pc, rep, wr, job>>
vars  == <<report, signatures, pdfs, run, pending, pc, rep, wr, job, faults>>

Procs == Clients \union Workers \union SttWorkers

NoJob == [kind |-> "none", ver |-> 0]

ClientLabel == {"update", "update_saved", "confirm", "ready", "ready_loaded",
                "sign", "sign_saved", "retry", "retry_loaded", "manual_loaded"}
WorkerLabel == {"claim", "analyse", "persist", "persist_saved",
                "render", "render_loaded", "park", "park_loaded"}
SttLabel    == {"stt_claim", "transcribe", "stt_complete", "stt_fail",
                "stt_fail_loaded"}
Label       == {"idle"} \union ClientLabel \union WorkerLabel \union SttLabel

Init ==
  /\ report = NoReport
  /\ signatures = 0
  /\ pdfs = 0
  /\ run = NoRun
  /\ pending = {}
  /\ pc = [p \in Procs |-> "idle"]
  /\ rep = [p \in Procs |-> NoReport]
  /\ wr = [p \in Procs |-> NoRun]
  /\ job = [p \in Procs |-> NoJob]
  /\ faults = 0

-----------------------------------------------------------------------------
(* Transactions *)

Goto(p, label)   == pc' = [pc EXCEPT ![p] = label]
HoldReport(p, r) == rep' = [rep EXCEPT ![p] = r]
ReadRun(p)       == wr' = [wr EXCEPT ![p] = run]

\* The transaction is over and the process forgets what it had read.
Finish(p) ==
  /\ pc' = [pc EXCEPT ![p] = "idle"]
  /\ rep' = [rep EXCEPT ![p] = NoReport]
  /\ wr' = [wr EXCEPT ![p] = NoRun]
  /\ job' = [job EXCEPT ![p] = NoJob]

\* Processes between their UPDATE of the report row and their commit.
ReportLocked == \E p \in Procs : pc[p] \in {"update_saved", "sign_saved", "persist_saved"}

\* Mutant: the update does not compare versions.
SaveRunBlindly(p, r) == run' = r

\* UPDATE workflow_runs ... WHERE state_version = expected_version.
SaveRun(p, r) ==
  /\ run.version = wr[p].version
  /\ run' = r

Emit(r) == pending' = pending \union {Dispatch(r)}

-----------------------------------------------------------------------------
(* API requests *)

Requests(c, op) == op \in ClientOps /\ pc[c] = "idle" /\ report.status # "absent"

\* POST /reports: the report, its run and the first dispatch commit together.
CreateReport(c, voice) ==
  /\ pc[c] = "idle"
  /\ report.status = "absent"
  /\ report' = CreateDraft
  /\ run' = Start(voice)
  /\ Emit(Start(voice))
  /\ UNCHANGED <<signatures, pdfs, procs, faults>>

\* PATCH revision: the report is read, edited and written before the run is
\* read at all.
UpdateRead(c, text) ==
  /\ Requests(c, "update")
  /\ run.version < MaxVersion
  /\ Editable(report)
  /\ HoldReport(c, UpdateRevision(report, text))
  /\ Goto(c, "update")
  /\ UNCHANGED <<db, wr, job, faults>>

UpdateSave(c) ==
  /\ pc[c] = "update"
  /\ ~ReportLocked
  /\ ReadRun(c)
  /\ Goto(c, "update_saved")
  /\ UNCHANGED <<db, rep, job, faults>>

UpdateCommit(c) ==
  /\ pc[c] = "update_saved"
  /\ report' = rep[c]
  /\ \/ wr[c].state # "MANUAL_INPUT_REQUIRED" /\ UNCHANGED run
     \/ /\ wr[c].state = "MANUAL_INPUT_REQUIRED"
        /\ SaveRun(c, ResumeTo(wr[c], "REVIEW_PENDING"))
  /\ Finish(c)
  /\ UNCHANGED <<signatures, pdfs, pending, faults>>

\* POST confirm: reads and writes the report only; where the run is makes no
\* difference to it, and is noted for ReviewIsBinding.
ConfirmRead(c) ==
  /\ Requests(c, "confirm")
  /\ Editable(report)
  /\ HoldReport(c, Confirm(report, run.state = "REVIEW_PENDING"))
  /\ Goto(c, "confirm")
  /\ UNCHANGED <<db, wr, job, faults>>

ConfirmCommit(c) ==
  /\ pc[c] = "confirm"
  /\ ~ReportLocked
  /\ report' = rep[c]
  /\ Finish(c)
  /\ UNCHANGED <<signatures, pdfs, run, pending, faults>>

\* POST ready-for-signature: freezes the revision that was read.
ReadyRead(c) ==
  /\ Requests(c, "ready")
  /\ MayMarkReady(report)
  /\ HoldReport(c, MarkReadyForSignature(report))
  /\ Goto(c, "ready")
  /\ UNCHANGED <<db, wr, job, faults>>

ReadyReadRun(c) ==
  /\ pc[c] = "ready"
  /\ ReadRun(c)
  /\ Goto(c, "ready_loaded")
  /\ UNCHANGED <<db, rep, job, faults>>

ReadyCommit(c) ==
  /\ pc[c] = "ready_loaded"
  /\ ~ReportLocked
  /\ MayTransition(wr[c], "SIGNATURE_PENDING")
  /\ report' = rep[c]
  /\ SaveRun(c, TransitionTo(wr[c], "SIGNATURE_PENDING"))
  /\ Finish(c)
  /\ UNCHANGED <<signatures, pdfs, pending, faults>>

\* POST sign: writes the signed report, then reads the run and moves it
\* through FINALIZATION_PENDING to PDF_PENDING.
SignRead(c) ==
  /\ Requests(c, "sign")
  /\ MaySign(report)
  /\ HoldReport(c, Sign(report))
  /\ Goto(c, "sign")
  /\ UNCHANGED <<db, wr, job, faults>>

SignSave(c) ==
  /\ pc[c] = "sign"
  /\ ~ReportLocked
  /\ ReadRun(c)
  /\ Goto(c, "sign_saved")
  /\ UNCHANGED <<db, rep, job, faults>>

SignCommit(c) ==
  LET final == TransitionTo(wr[c], "FINALIZATION_PENDING")
      toPdf == TransitionTo(final, "PDF_PENDING")
  IN
  /\ pc[c] = "sign_saved"
  /\ MayTransition(wr[c], "FINALIZATION_PENDING")
  /\ MayTransition(final, "PDF_PENDING")
  /\ report' = rep[c]
  /\ signatures' = signatures + 1
  /\ SaveRun(c, toPdf)
  /\ Emit(toPdf)
  /\ Finish(c)
  /\ UNCHANGED <<pdfs, faults>>

\* Mutant: a signed report resumes one stage too early.
RetryTargetFinalization(status, r) ==
  IF status = "signed" THEN "FINALIZATION_PENDING"
  ELSE IF r.voice THEN "TRANSCRIPTION_PENDING" ELSE "DRAFTING_PENDING"

\* Mutant: the retry does not look at how far the report has come.
RetryTargetFromScratch(status, r) ==
  IF r.voice THEN "TRANSCRIPTION_PENDING" ELSE "DRAFTING_PENDING"

\* POST retry: the report's status, as read, picks the stage to run again.
RetryTarget(status, r) ==
  IF status = "signed" THEN "PDF_PENDING"
  ELSE IF r.voice THEN "TRANSCRIPTION_PENDING" ELSE "DRAFTING_PENDING"

RetryRead(c) ==
  /\ Requests(c, "retry")
  /\ run.version < MaxVersion
  /\ report.status \in {"draft", "signed"}
  /\ HoldReport(c, report)
  /\ Goto(c, "retry")
  /\ UNCHANGED <<db, wr, job, faults>>

RetryReadRun(c) ==
  /\ pc[c] = "retry"
  /\ MayResume(run)
  /\ ReadRun(c)
  /\ Goto(c, "retry_loaded")
  /\ UNCHANGED <<db, rep, job, faults>>

\* Mutant: the run is resumed but nobody is told.
RetryCommitSilently(c) ==
  /\ pc[c] = "retry_loaded"
  /\ SaveRun(c, ResumeTo(wr[c], RetryTarget(rep[c].status, wr[c])))
  /\ Finish(c)
  /\ UNCHANGED <<report, signatures, pdfs, pending, faults>>

RetryCommit(c) ==
  LET resumed == ResumeTo(wr[c], RetryTarget(rep[c].status, wr[c])) IN
  /\ pc[c] = "retry_loaded"
  /\ SaveRun(c, resumed)
  /\ Emit(resumed)
  /\ Finish(c)
  /\ UNCHANGED <<report, signatures, pdfs, faults>>

\* POST transcription/manual: any parked run takes typed notes and drafts.
ManualRead(c) ==
  /\ Requests(c, "manual")
  /\ run.version < MaxVersion
  /\ run.state = "MANUAL_INPUT_REQUIRED"
  /\ ReadRun(c)
  /\ Goto(c, "manual_loaded")
  /\ UNCHANGED <<db, rep, job, faults>>

ManualCommit(c) ==
  LET resumed == ResumeTo([wr[c] EXCEPT !.notes = "typed"], "DRAFTING_PENDING") IN
  /\ pc[c] = "manual_loaded"
  /\ SaveRun(c, resumed)
  /\ Emit(resumed)
  /\ Finish(c)
  /\ UNCHANGED <<report, signatures, pdfs, faults>>

\* A raised error, a lost compare-and-swap, an API restart: all roll back.
Abort(c) ==
  /\ pc[c] # "idle"
  /\ Finish(c)
  /\ UNCHANGED <<db, faults>>

ClientNext(c) ==
  \/ \E voice \in BOOLEAN : CreateReport(c, voice)
  \/ \E text \in Edits : UpdateRead(c, text)
  \/ UpdateSave(c) \/ UpdateCommit(c)
  \/ ConfirmRead(c) \/ ConfirmCommit(c)
  \/ ReadyRead(c) \/ ReadyReadRun(c) \/ ReadyCommit(c)
  \/ SignRead(c) \/ SignSave(c) \/ SignCommit(c)
  \/ RetryRead(c) \/ RetryReadRun(c) \/ RetryCommit(c)
  \/ ManualRead(c) \/ ManualCommit(c)
  \/ Abort(c)

-----------------------------------------------------------------------------
(* Worker: handlers of WorkflowStepDispatchRequested *)

Receives(w, m) == pc[w] = "idle" /\ m \in pending

\* The handler returned and perhaps asked for another dispatch: the event is
\* recorded in the inbox and acknowledged, unless the worker dies just before
\* that, or the publisher before it could note that the event is out; then
\* the event comes again.
Acknowledge(w, emitted) ==
  /\ \/ pending' = (pending \ {job[w]}) \union emitted /\ UNCHANGED faults
     \/ /\ faults < MaxFaults
        /\ faults' = faults + 1
        /\ pending' = pending \union emitted
  /\ Finish(w)

Ack(w) == Acknowledge(w, {})

\* The handler raised: the message stays pending and will be handled again.
Raise(w) == UNCHANGED pending /\ Finish(w)

Take(w, m, label) ==
  /\ job' = [job EXCEPT ![w] = m]
  /\ Goto(w, label)

\* The run is not where the event says: nothing to do.
DropDispatch(w, m) ==
  /\ Receives(w, m)
  /\ \/ /\ m.kind = "DRAFTING_PENDING"
        /\ run.state # "DRAFTING_PENDING" \/ run.claimed
     \/ m.kind = "PDF_PENDING" /\ run.state # "PDF_PENDING"
  /\ pending' = pending \ {m}
  /\ UNCHANGED <<report, signatures, pdfs, run, procs, faults>>

\* Mutant: a claimed run is analysed again.
AnalysisLoadClaimed(w, m) ==
  /\ Receives(w, m)
  /\ m.kind = "DRAFTING_PENDING"
  /\ run.state = "DRAFTING_PENDING"
  /\ ReadRun(w)
  /\ Take(w, m, "claim")
  /\ UNCHANGED <<db, rep, faults>>

\* Analysis: claim the run before paying for the AI calls.
AnalysisLoad(w, m) ==
  /\ Receives(w, m)
  /\ m.kind = "DRAFTING_PENDING"
  /\ run.state = "DRAFTING_PENDING"
  /\ ~run.claimed
  /\ ReadRun(w)
  /\ Take(w, m, "claim")
  /\ UNCHANGED <<db, rep, faults>>

AnalysisClaim(w) ==
  /\ pc[w] = "claim"
  /\ SaveRun(w, ClaimAttempt(wr[w]))
  /\ wr' = [wr EXCEPT ![w] = NoRun]
  /\ Goto(w, "analyse")
  /\ UNCHANGED <<report, signatures, pdfs, pending, rep, job, faults>>

AnalysisClaimLost(w) ==
  /\ pc[w] = "claim"
  /\ run.version # wr[w].version
  /\ Ack(w)
  /\ UNCHANGED <<report, signatures, pdfs, run>>

\* Some provider drafted and compared the photos, or none did and the
\* template stands in; the report is read again to apply the outcome.
PersistRead(w, outcome) ==
  /\ pc[w] = "analyse"
  /\ Editable(report)
  /\ HoldReport(w, ApplyAiUnifiedResult(report, outcome))
  /\ Goto(w, "persist")
  /\ UNCHANGED <<db, wr, job, faults>>

PersistRefused(w) ==
  /\ pc[w] = "analyse"
  /\ ~Editable(report)
  /\ Raise(w)
  /\ UNCHANGED <<report, signatures, pdfs, run, faults>>

PersistSave(w) ==
  /\ pc[w] = "persist"
  /\ ~ReportLocked
  /\ ReadRun(w)
  /\ Goto(w, "persist_saved")
  /\ UNCHANGED <<db, rep, job, faults>>

\* Success moves the run to review, fallback fails it, in the transaction
\* that writes the report.  Its transition and its version check cannot fail:
\* nobody else moves a claimed run (AnalysisExclusive).
Outcome(r, content) ==
  IF content = Template THEN Fail(r)
  ELSE TransitionTo(RecordStepSuccess(r), "REVIEW_PENDING")

PersistCommit(w) ==
  /\ pc[w] = "persist_saved"
  /\ rep[w].content = Template \/ MayTransition(wr[w], "REVIEW_PENDING")
  /\ report' = rep[w]
  /\ SaveRun(w, Outcome(wr[w], rep[w].content))
  /\ Ack(w)
  /\ UNCHANGED <<signatures, pdfs>>

\* PDF: no claim; the report and the run are read, the document is rendered
\* and uploaded, and all is written at the end.  (The dispatchers look at the
\* run once more before the activity does; that look only saves work.)
PdfReadReport(w, m) ==
  /\ Receives(w, m)
  /\ m.kind = "PDF_PENDING"
  /\ run.state = "PDF_PENDING"
  /\ HoldReport(w, report)
  /\ Take(w, m, "render")
  /\ UNCHANGED <<db, wr, faults>>

PdfReadRun(w) ==
  /\ pc[w] = "render"
  /\ MayComplete(rep[w]) /\ signatures > 0
  /\ run.state = "PDF_PENDING"
  /\ ReadRun(w)
  /\ HoldReport(w, Complete(rep[w]))
  /\ Goto(w, "render_loaded")
  /\ UNCHANGED <<db, job, faults>>

PdfCommit(w) ==
  /\ pc[w] = "render_loaded"
  /\ ~ReportLocked
  /\ pdfs' = pdfs + 1
  /\ report' = rep[w]
  /\ SaveRun(w, TransitionTo(RecordStepSuccess(wr[w]), "COMPLETED"))
  /\ Ack(w)
  /\ UNCHANGED signatures

\* Any exception on the way, a lost compare-and-swap included.
PdfRaised(w) ==
  /\ pc[w] \in {"render", "render_loaded"}
  /\ wr' = [wr EXCEPT ![w] = NoRun]
  /\ HoldReport(w, NoReport)
  /\ Goto(w, "park")
  /\ UNCHANGED <<db, job, faults>>

\* _park: one attempt is the limit, so a failed PDF parks the run at once.
ParkRead(w) ==
  /\ pc[w] = "park"
  /\ run.state = "PDF_PENDING"
  /\ ReadRun(w)
  /\ Goto(w, "park_loaded")
  /\ UNCHANGED <<db, rep, job, faults>>

ParkSkip(w) ==
  /\ pc[w] = "park"
  /\ run.state # "PDF_PENDING"
  /\ Ack(w)
  /\ UNCHANGED <<report, signatures, pdfs, run>>

ParkCommit(w) ==
  /\ pc[w] = "park_loaded"
  /\ SaveRun(w, RecordFailure(wr[w], 1))
  /\ Ack(w)
  /\ UNCHANGED <<report, signatures, pdfs>>

ParkConflict(w) ==
  /\ pc[w] = "park_loaded"
  /\ run.version # wr[w].version
  /\ Raise(w)
  /\ UNCHANGED <<report, signatures, pdfs, run, faults>>

WorkerNext(w) ==
  \/ \E m \in pending : DropDispatch(w, m) \/ AnalysisLoad(w, m) \/ PdfReadReport(w, m)
  \/ AnalysisClaim(w) \/ AnalysisClaimLost(w)
  \/ \E outcome \in Drafts \union {Template} : PersistRead(w, outcome)
  \/ PersistRefused(w) \/ PersistSave(w) \/ PersistCommit(w)
  \/ PdfReadRun(w) \/ PdfCommit(w) \/ PdfRaised(w)
  \/ ParkRead(w) \/ ParkSkip(w) \/ ParkCommit(w) \/ ParkConflict(w)

-----------------------------------------------------------------------------
(* Speech-to-text worker: the handler of TranscriptionDispatchRequested *)

MaxSttAttempts == 3

\* The run is elsewhere, a retry is not due, or somebody holds a live claim.
SttDrop(s, m) ==
  /\ Receives(s, m)
  /\ m.kind = "TRANSCRIPTION_PENDING"
  /\ run.state # "TRANSCRIPTION_PENDING" \/ run.backoff \/ run.claimed
  /\ pending' = pending \ {m}
  /\ UNCHANGED <<report, signatures, pdfs, run, procs, faults>>

\* An earlier claim does not stop this one once its lease has run out, which
\* can be at any time after it was taken.
SttLoad(s, m) ==
  /\ Receives(s, m)
  /\ m.kind = "TRANSCRIPTION_PENDING"
  /\ run.state = "TRANSCRIPTION_PENDING"
  /\ run.version < MaxVersion
  /\ ReadRun(s)
  /\ Take(s, m, "stt_claim")
  /\ UNCHANGED <<db, rep, faults>>

SttClaim(s) ==
  /\ pc[s] = "stt_claim"
  /\ SaveRun(s, ClaimAttempt(wr[s]))
  /\ wr' = [wr EXCEPT ![s] = NoRun]
  /\ Goto(s, "transcribe")
  /\ UNCHANGED <<report, signatures, pdfs, pending, rep, job, faults>>

SttClaimLost(s) ==
  /\ pc[s] = "stt_claim"
  /\ run.version # wr[s].version
  /\ Ack(s)
  /\ UNCHANGED <<report, signatures, pdfs, run>>

\* AudioInvalidError out of the claim's transaction takes the claim with it.
SttClaimInvalid(s) ==
  /\ pc[s] = "stt_claim"
  /\ wr' = [wr EXCEPT ![s] = NoRun]
  /\ Goto(s, "stt_fail")
  /\ UNCHANGED <<db, rep, job, faults>>

\* Every 30 seconds of transcription, whoever's claim it is by then.
SttHeartbeat(s) ==
  /\ pc[s] = "transcribe"
  /\ run.state = "TRANSCRIPTION_PENDING" /\ run.claimed
  /\ run.version < MaxVersion
  /\ run' = RenewClaim(run)
  /\ UNCHANGED <<report, signatures, pdfs, pending, procs, faults>>

SttCompleteRead(s) ==
  /\ pc[s] = "transcribe"
  /\ run.state = "TRANSCRIPTION_PENDING" /\ run.claimed
  /\ ReadRun(s)
  /\ Goto(s, "stt_complete")
  /\ UNCHANGED <<db, rep, job, faults>>

\* Mutant: the transcript is stored but no draft is asked for.
SttCompleteSilently(s) ==
  /\ pc[s] = "stt_complete"
  /\ SaveRun(s, TransitionTo(RecordStepSuccess(wr[s]), "DRAFTING_PENDING"))
  /\ Ack(s)
  /\ UNCHANGED <<report, signatures, pdfs>>

SttCompleteCommit(s) ==
  LET done  == RecordStepSuccess([wr[s] EXCEPT !.notes = "transcript"])
      draft == TransitionTo(done, "DRAFTING_PENDING")
  IN
  /\ pc[s] = "stt_complete"
  /\ SaveRun(s, draft)
  /\ Acknowledge(s, {Dispatch(draft)})
  /\ UNCHANGED <<report, signatures, pdfs>>

\* Bad audio, an empty transcript, an outage, a run that moved away, a lost
\* compare-and-swap: every error ends in fail_transcription.
SttRaised(s) ==
  /\ pc[s] \in {"transcribe", "stt_complete"}
  /\ wr' = [wr EXCEPT ![s] = NoRun]
  /\ Goto(s, "stt_fail")
  /\ UNCHANGED <<db, rep, job, faults>>

\* Mutant: a failure is recorded whatever has become of the run.
SttFailReadAnyRun(s) ==
  /\ pc[s] = "stt_fail"
  /\ ReadRun(s)
  /\ Goto(s, "stt_fail_loaded")
  /\ UNCHANGED <<db, rep, job, faults>>

SttFailRead(s) ==
  /\ pc[s] = "stt_fail"
  /\ run.state = "TRANSCRIPTION_PENDING"
  /\ ReadRun(s)
  /\ Goto(s, "stt_fail_loaded")
  /\ UNCHANGED <<db, rep, job, faults>>

SttFailSkip(s) ==
  /\ pc[s] = "stt_fail"
  /\ run.state # "TRANSCRIPTION_PENDING"
  /\ Ack(s)
  /\ UNCHANGED <<report, signatures, pdfs, run>>

SttFailCommit(s) ==
  LET failed == RecordFailure(wr[s], MaxSttAttempts) IN
  /\ pc[s] = "stt_fail_loaded"
  /\ SaveRun(s, failed)
  /\ Acknowledge(s, IF failed.state = "TRANSCRIPTION_PENDING" THEN {Dispatch(failed)} ELSE {})
  /\ UNCHANGED <<report, signatures, pdfs>>

SttFailConflict(s) ==
  /\ pc[s] = "stt_fail_loaded"
  /\ run.version # wr[s].version
  /\ Raise(s)
  /\ UNCHANGED <<report, signatures, pdfs, run, faults>>

SttNext(s) ==
  \/ \E m \in pending : SttDrop(s, m) \/ SttLoad(s, m)
  \/ SttClaim(s) \/ SttClaimLost(s) \/ SttClaimInvalid(s)
  \/ SttCompleteRead(s) \/ SttCompleteCommit(s) \/ SttRaised(s)
  \/ SttFailRead(s) \/ SttFailSkip(s) \/ SttFailCommit(s) \/ SttFailConflict(s)

-----------------------------------------------------------------------------
\* A worker dies, or meets an error its handler does not catch (a database
\* or storage call in the middle of a step): the transaction is rolled back
\* and the message stays pending.
Crash(w) ==
  /\ pc[w] # "idle"
  /\ faults < MaxFaults
  /\ faults' = faults + 1
  /\ Raise(w)
  /\ UNCHANGED <<report, signatures, pdfs, run>>

Next ==
  \/ \E c \in Clients : ClientNext(c)
  \/ \E w \in Workers : WorkerNext(w) \/ Crash(w)
  \/ \E s \in SttWorkers : SttNext(s) \/ SttHeartbeat(s) \/ Crash(s)

Spec == Init /\ [][Next]_vars

\* The worker loops never stop by themselves and a request that was accepted
\* ends, in a commit or a rollback.  Postgres grants a row lock in the order
\* of the queue for it, so edits cannot overtake a waiting analysis for ever.
\* Nothing obliges a client to send a request, a transcription to send
\* heartbeats or a process to crash.
Fairness ==
  /\ \A c \in Clients : WF_vars(pc[c] # "idle" /\ ClientNext(c))
  /\ \A w \in Workers : WF_vars(WorkerNext(w)) /\ SF_vars(PersistSave(w))
  /\ \A s \in SttWorkers : WF_vars(SttNext(s))

FairSpec == Spec /\ Fairness

-----------------------------------------------------------------------------
TypeOK ==
  /\ report \in Report
  /\ signatures \in Nat
  /\ pdfs \in Nat
  /\ run \in Run
  /\ pending \subseteq Dispatches
  /\ pc \in [Procs -> Label]
  /\ rep \in [Procs -> Report]
  /\ wr \in [Procs -> Run]
  /\ job \in [Procs -> Dispatches \union {NoJob}]
  /\ faults \in Nat

-----------------------------------------------------------------------------
(* Safety *)

\* Optimistic locking is sound: a process whose version check would pass has
\* read the run row as it is now, so its write undoes nobody's.  Every write
\* of the run must move state_version for this (run.py, repository.save).
FreshIfUnmodified ==
  \A p \in Procs :
    wr[p].state # NoState =>
      /\ wr[p].version <= run.version
      /\ wr[p].version = run.version => wr[p] = run

\* The run only ever moves along ALLOWED_TRANSITIONS, by the two of them that
\* signing takes in one commit, or out of a parked state by an explicit
\* resume; a completed run never moves again.  Holds for racing requests,
\* duplicated dispatches and stale workers (states.py, run.py).
LegalMove(from, to) ==
  \/ from = to
  \/ <<from, to>> \in AllowedTransitions
  \/ from = NoState /\ to \in {"TRANSCRIPTION_PENDING", "DRAFTING_PENDING"}
  \/ from = "SIGNATURE_PENDING" /\ to = "PDF_PENDING"
  \/ /\ from \in {"MANUAL_INPUT_REQUIRED", "FAILED"}
     /\ to \in {"TRANSCRIPTION_PENDING", "DRAFTING_PENDING", "REVIEW_PENDING", "PDF_PENDING"}

RunMovesLegally == [][LegalMove(run.state, run'.state)]_vars

\* At most one worker pays for the AI calls of a run, and while it does the
\* run waits for it: no request and no other worker moves it away
\* (run_report_analysis.py, the claim).
Analysing == {w \in Workers : pc[w] \in {"analyse", "persist", "persist_saved"}}

AnalysisExclusive ==
  /\ \A v, w \in Analysing : v = w
  /\ Analysing # {} => run.state = "DRAFTING_PENDING" /\ run.claimed

\* However often the PDF step is delivered, retried or raced, one PDF is
\* attached to the report, and only to a completed one (generate_pdf.py).
OnePdf == pdfs = IF run.state = "COMPLETED" THEN 1 ELSE 0

NothingBeforeCreation ==
  report.status = "absent" =>
    run = NoRun /\ pending = {} /\ \A p \in Procs : pc[p] = "idle"

HoldsReport == {"update", "update_saved", "confirm", "ready", "ready_loaded",
                "sign", "sign_saved", "persist", "persist_saved", "render",
                "render_loaded"}

Licensed(p) ==
  /\ pc[p] \in HoldsReport => rep[p].status # "absent"
  /\ pc[p] = "retry_loaded" => MayResume(wr[p])
  /\ pc[p] = "manual_loaded" => wr[p].state = "MANUAL_INPUT_REQUIRED"
  /\ pc[p] = "claim" => wr[p].state = "DRAFTING_PENDING" /\ ~wr[p].claimed
  /\ pc[p] = "persist_saved" => wr[p].state = "DRAFTING_PENDING"
  /\ pc[p] \in {"render_loaded", "park_loaded"} => wr[p].state = "PDF_PENDING"
  /\ pc[p] \in {"stt_claim", "stt_complete", "stt_fail_loaded"}
       => wr[p].state = "TRANSCRIPTION_PENDING"

\* What a process has read licenses what it is about to write: until its
\* transaction ends, it holds a report that exists and a run it read in a
\* state that its step serves; and there is neither a run nor anything to do
\* before the report has been created.
ReadsLicenseWrites == NothingBeforeCreation /\ \A p \in Procs : Licensed(p)

\* Together these are inductive; each of them needs the others.
IInv ==
  /\ TypeOK
  /\ ReadsLicenseWrites
  /\ FreshIfUnmodified
  /\ AnalysisExclusive
  /\ OnePdf

\* The report and its run, two rows written by different handlers, tell the
\* same story, when the API serves one request at a time for the report.
StageAgreement ==
  /\ run.state = "SIGNATURE_PENDING" <=> report.status = "pending_signature"
  /\ run.state = "COMPLETED" <=> report.status = "completed"
  /\ run.state = "PDF_PENDING" => report.status = "signed"
  /\ run.state \in {"TRANSCRIPTION_PENDING", "REVIEW_PENDING"} => report.status = "draft"

\* The promise to the customer and the technician, implemented: one freeze,
\* one signature, one document, no change behind a signature.
Lifecycle ==
  INSTANCE ReportLifecycle WITH
    Text <- Content, status <- report.status, text <- report.content,
    documents <- pdfs

LifecycleHolds == Lifecycle!LifecycleSpec

\* A confirmation that is given while the report is up for review is binding:
\* whatever the technician, the workers and late or repeated dispatches do
\* after it, early confirmations and edits included, the revision keeps the
\* content that was confirmed until an edit takes the confirmation back
\* (report.py, apply_ai_unified_result and update_revision).  One request at
\* a time: racing requests write the report back over each other.
ReviewIsBinding == report.reviewed => report.vouched = report.content

\* "AI only proposes; the user confirms" (ai.md): what is frozen for signature
\* is the content that the last confirmation was applied to.  The code does
\* not keep this: see the run v_signed_unconfirmed.
SignedAsConfirmed ==
  report.status \in {"pending_signature", "signed", "completed"} =>
    report.vouched = report.content

-----------------------------------------------------------------------------
(* Liveness *)

\* A draft that waits for its analysis does not wait for ever, whatever the
\* technician asks for meanwhile, unless a worker dies on the way (its claim
\* has no lease) or a message is delivered twice (run_report_analysis.py).
\* For a signed report it is false: manual transcription sends one whose PDF was
\* parked back to drafting, the analysis refuses it behind its claim, and the run
\* waits for ever (report_handlers.py:452).
UndisturbedDraftingEnds ==
  run.state = "DRAFTING_PENDING" /\ report.status = "draft" /\ faults = 0
    ~> run.state # "DRAFTING_PENDING" \/ faults > 0

\* A signed report gets its PDF, or is parked for a human to retry, worker
\* crashes notwithstanding.
PdfStageEnds ==
  run.state = "PDF_PENDING" ~> run.state \in {"COMPLETED", "MANUAL_INPUT_REQUIRED"}
=============================================================================
