------------------------ MODULE ReportLifecycleProofs ------------------------
(***************************************************************************)
(* What ReportFulfillment promises when the API serves one request at a    *)
(* time for the report, whatever the workers do meanwhile: the report and  *)
(* its run tell the same story, together they implement ReportLifecycle,   *)
(* and what is confirmed in review is what is signed, unless it is edited  *)
(* again.  None of it holds for two requests at a time.                    *)
(***************************************************************************)
EXTENDS ReportFulfillmentProofs

-----------------------------------------------------------------------------
(* One technician: the report and its run tell the same story *)

\* The API serves one request at a time for the report.
OneTechnician == \A c, d \in Clients : c = d

\* The states of the run that go with each status of the report.  A signed
\* report may be back in drafting: a run parked by its PDF takes typed notes.
Stage ==
  /\ report.status = "absent" => report = NoReport /\ run.state = NoState
  /\ report.status = "draft" =>
       run.state \in {"TRANSCRIPTION_PENDING", "DRAFTING_PENDING", "REVIEW_PENDING",
                      "MANUAL_INPUT_REQUIRED", "FAILED"}
  /\ report.status = "pending_signature" => run.state = "SIGNATURE_PENDING"
  /\ report.status = "signed" =>
       run.state \in {"PDF_PENDING", "MANUAL_INPUT_REQUIRED", "DRAFTING_PENDING"}
  /\ report.status = "completed" => run.state = "COMPLETED"

\* The report is still where the technician's request found it: nobody else
\* freezes or signs it, and a worker changes only a draft, or completes it.
AsFound(c) ==
  /\ pc[c] \in {"update", "update_saved", "confirm"} =>
       report.status = "draft" /\ rep[c].status = "draft"
  /\ pc[c] \in {"ready", "ready_loaded"} =>
       report.status = "draft" /\ rep[c].status = "pending_signature"
  /\ pc[c] \in {"sign", "sign_saved"} =>
       report.status = "pending_signature" /\ rep[c] = Sign(report)
  /\ pc[c] \in {"retry", "retry_loaded"} =>
       /\ rep[c].status \in {"draft", "signed"}
       /\ \/ report.status = rep[c].status
          \/ rep[c].status = "signed" /\ report.status = "completed"

\* What a worker is about to write is a draft while the report is one, and
\* the completed form of a report that is signed or already completed.
StillGood(w) ==
  /\ pc[w] \in {"persist", "persist_saved"} =>
       report.status = "draft" /\ rep[w].status = "draft"
  /\ pc[w] \in {"render", "render_loaded"} =>
       /\ report.status \in {"signed", "completed"}
       /\ Complete(rep[w]) = Complete(report)
  /\ pc[w] = "render_loaded" => rep[w].status = "completed"

Story ==
  /\ Stage
  /\ \A c \in Clients : AsFound(c)
  /\ \A w \in Workers : StillGood(w)

-----------------------------------------------------------------------------
(* Who moves, and what the others see of it *)

\* Only p moves.
Alone(p) == \A q \in Procs \ {p} : pc'[q] = pc[q] /\ rep'[q] = rep[q]

\* Whether somebody ends a transaction or begins one, he alone moves.
LEMMA OneMoves ==
  ASSUME TypeOK, NEW p \in Procs
  PROVE  /\ Finish(p) => Alone(p) /\ pc'[p] = "idle"
         /\ UNCHANGED procs => Alone(p) /\ pc'[p] = pc[p] /\ rep'[p] = rep[p]
         /\ \A label, r : Goto(p, label) /\ (HoldReport(p, r) \/ UNCHANGED rep)
              => Alone(p) /\ pc'[p] = label
         /\ \A r : HoldReport(p, r) => rep'[p] = r
BY DEF TypeOK, Finish, Alone, Goto, HoldReport, procs

\* A request moves nobody but its client, who stays a client.
LEMMA ClientAlone ==
  ASSUME TypeOK, NEW c \in Clients, ClientNext(c)
  PROVE  Alone(c) /\ pc'[c] \in ClientLabel \union {"idle"}
<1>1. c \in Procs
      BY DEF Procs
<1>2. \/ Finish(c)
      \/ UNCHANGED procs /\ pc[c] = "idle"
      \/ \E label \in ClientLabel :
           Goto(c, label) /\ (UNCHANGED rep \/ \E r : HoldReport(c, r))
      BY DEF ClientNext, CreateReport, UpdateRead, UpdateSave, UpdateCommit, ConfirmRead,
             ConfirmCommit, ReadyRead, ReadyReadRun, ReadyCommit, SignRead, SignSave,
             SignCommit, RetryRead, RetryReadRun, RetryCommit, ManualRead, ManualCommit,
             Abort, ClientLabel
<1>. QED BY <1>1, <1>2, OneMoves

\* Nor does a worker, of either kind, or a crash.
LEMMA WorkerAlone ==
  ASSUME TypeOK, NEW w \in Procs,
         (w \in Workers /\ WorkerNext(w)) \/ (w \in SttWorkers /\ SttNext(w))
            \/ SttHeartbeat(w) \/ Crash(w)
  PROVE  /\ Alone(w)
         /\ pc'[w] \in WorkerLabel \union SttLabel \union {"idle"}
<1>1. CASE w \in Workers /\ WorkerNext(w)
  <2>1. \/ Finish(w)
        \/ UNCHANGED procs /\ pc[w] = "idle"
        \/ \E label \in WorkerLabel :
             Goto(w, label) /\ (UNCHANGED rep \/ \E r : HoldReport(w, r))
        BY <1>1 DEF WorkerNext, DropDispatch, AnalysisLoad, AnalysisClaim, AnalysisClaimLost,
               PersistRead, PersistRefused, PersistSave, PersistCommit, PdfReadReport,
               PdfReadRun, PdfCommit, PdfRaised, ParkRead, ParkSkip, ParkCommit, ParkConflict,
               Receives, Take, Ack, Acknowledge, Raise, WorkerLabel
  <2>. QED BY <2>1, OneMoves
<1>2. CASE w \in SttWorkers /\ SttNext(w)
  <2>1. \/ Finish(w)
        \/ UNCHANGED procs /\ pc[w] = "idle"
        \/ \E label \in SttLabel : Goto(w, label) /\ UNCHANGED rep
        BY <1>2 DEF SttNext, SttDrop, SttLoad, SttClaim, SttClaimLost, SttClaimInvalid,
               SttCompleteRead, SttCompleteCommit, SttRaised, SttFailRead, SttFailSkip,
               SttFailCommit, SttFailConflict, Receives, Take, Ack, Acknowledge, Raise, SttLabel
  <2>. QED BY <2>1, OneMoves
<1>3. CASE SttHeartbeat(w)
      BY <1>3, OneMoves DEF SttHeartbeat, SttLabel
<1>4. CASE Crash(w)
      BY <1>4, OneMoves DEF Crash, Raise
<1>. QED BY <1>1, <1>2, <1>3, <1>4

\* What becomes of the report in a step.
Opens    == report.status = "absent" /\ report'.status = "draft"
Revises  == report.status = "draft" /\ report'.status = "draft"
Freezes  == report.status = "draft" /\ report'.status = "pending_signature" /\ Analysing = {}
Signs    == report.status = "pending_signature" /\ report' = Sign(report)
Delivers == report.status = "signed" /\ report' = Complete(report)

\* Signing and completing change the status and nothing else.
LEMMA StatusMethods ==
  ASSUME NEW r \in Report
  PROVE  /\ \A text : ApplyAiUnifiedResult(r, text).status = r.status
         /\ \A text : UpdateRevision(r, text).status = r.status
         /\ \A inReview : Confirm(r, inReview).status = r.status
         /\ MarkReadyForSignature(r).status = "pending_signature"
         /\ Sign(r).status = "signed" /\ Sign(r).content = r.content
         /\ Complete(r).status = "completed" /\ Complete(r).content = r.content
         /\ Complete(Complete(r)) = Complete(r)
BY DEF Report, Status, ApplyAiUnifiedResult, UpdateRevision, Confirm,
       MarkReadyForSignature, Sign, Complete

\* A client who does not move finds the report as it was, but for what workers do to it.
LEMMA ClientFrame ==
  ASSUME TypeOK, NEW c \in Procs, AsFound(c), pc'[c] = pc[c], rep'[c] = rep[c],
         report' = report \/ Revises \/ Delivers
  PROVE  AsFound(c)'
<1>1. CASE report' = report
      BY <1>1 DEF AsFound
<1>2. CASE Revises
      BY <1>2 DEF AsFound, Revises
<1>3. CASE Delivers
      <2>1. report'.status = "completed"
            BY <1>3, StatusMethods DEF Delivers, TypeOK
      <2>. QED BY <1>3, <2>1 DEF AsFound, Delivers
<1>. QED BY <1>1, <1>2, <1>3

\* What a worker who does not move is about to write remains good, whatever happens to the report.
LEMMA WorkerFrame ==
  ASSUME TypeOK, NEW w \in Workers, StillGood(w), pc'[w] = pc[w], rep'[w] = rep[w],
         report' = report \/ Opens \/ Revises \/ Freezes \/ Signs \/ Delivers
  PROVE  StillGood(w)'
<1>1. CASE report' = report
      BY <1>1 DEF StillGood
<1>2. CASE Opens
      BY <1>2 DEF StillGood, Opens
<1>3. CASE Revises
      BY <1>3 DEF StillGood, Revises
<1>4. CASE Freezes
      BY <1>4 DEF StillGood, Freezes, Analysing
<1>5. CASE Signs
      BY <1>5 DEF StillGood, Signs
<1>6. CASE Delivers
      <2>1. report'.status = "completed" /\ Complete(report') = Complete(report)
            BY <1>6, StatusMethods DEF Delivers, TypeOK
      <2>. QED BY <1>6, <2>1 DEF StillGood, Delivers
<1>. QED BY <1>1, <1>2, <1>3, <1>4, <1>5, <1>6

\* Who is in none of these places has nothing to stand for.
LEMMA Elsewhere ==
  ASSUME NEW p
  PROVE  /\ pc'[p] \in WorkerLabel \union SttLabel \union {"idle"} => AsFound(p)'
         /\ pc'[p] \in ClientLabel \union {"idle"} => StillGood(p)'
BY DEF AsFound, StillGood, ClientLabel, WorkerLabel, SttLabel

-----------------------------------------------------------------------------
(* The requests *)

\* A request keeps the story if it changes the report in one of these ways
\* and is itself in order; there is no other one.
LEMMA ClientKeeps ==
  ASSUME OneTechnician, IInv, Story, NEW c \in Clients, ClientNext(c),
         Stage', AsFound(c)',
         report' = report \/ Opens \/ Revises \/ Freezes \/ Signs \/ Delivers
  PROVE  Story'
<1>1. TypeOK /\ c \in Procs
      BY DEF IInv, Procs
<1>2. Alone(c) /\ pc'[c] \in ClientLabel \union {"idle"}
      BY <1>1, ClientAlone
<1>3. ASSUME NEW d \in Clients PROVE AsFound(d)'
      <2>1. d = c
            BY DEF OneTechnician
      <2>. QED BY <2>1
<1>4. ASSUME NEW w \in Workers PROVE StillGood(w)'
  <2>1. CASE w = c
        BY <1>2, <2>1, Elsewhere
  <2>2. CASE w # c
    <3>1. w \in Procs /\ StillGood(w)
          BY DEF Procs, Story
    <3>. QED BY <1>1, <1>2, <2>2, <3>1, WorkerFrame DEF Alone
  <2>. QED BY <2>1, <2>2
<1>. QED BY <1>3, <1>4 DEF Story

\* What a request that read both rows knows when it commits the run.
LEMMA ClientCommits ==
  ASSUME IInv, NEW c \in Clients
  PROVE  /\ ReadyCommit(c) => wr[c] = run /\ run.state = "REVIEW_PENDING"
                              /\ run'.state = "SIGNATURE_PENDING"
         /\ SignCommit(c) => wr[c] = run /\ run.state = "SIGNATURE_PENDING"
                             /\ run'.state = "PDF_PENDING"
         /\ UpdateCommit(c) => run' = run \/ run'.state = "REVIEW_PENDING"
         /\ RetryCommit(c) => run.state \in {"MANUAL_INPUT_REQUIRED", "FAILED"}
                              /\ run'.state = RetryTarget(rep[c].status, wr[c])
         /\ ManualCommit(c) => run.state = "MANUAL_INPUT_REQUIRED"
                               /\ run'.state = "DRAFTING_PENDING"
<1>1. c \in Procs /\ FreshIfUnmodified /\ Licensed(c) /\ wr[c] \in Run
      BY DEF Procs, IInv, ReadsLicenseWrites, TypeOK
<1>. USE <1>1
<1>2. ASSUME ReadyCommit(c)
      PROVE  wr[c] = run /\ run.state = "REVIEW_PENDING" /\ run'.state = "SIGNATURE_PENDING"
  <2>1. wr[c].state = "REVIEW_PENDING"
        BY <1>2 DEF ReadyCommit, MayTransition, AllowedTransitions, ForwardTransitions
  <2>2. wr[c] = run /\ run' = TransitionTo(wr[c], "SIGNATURE_PENDING")
        BY <1>2, <2>1, WriterIsFresh DEF ReadyCommit, NoState
  <2>. QED BY <2>1, <2>2, RunMethods DEF WorkflowState
<1>3. ASSUME SignCommit(c)
      PROVE  wr[c] = run /\ run.state = "SIGNATURE_PENDING" /\ run'.state = "PDF_PENDING"
  <2>1. wr[c].state = "SIGNATURE_PENDING"
        BY <1>3 DEF SignCommit, MayTransition, AllowedTransitions, ForwardTransitions
  <2>2. /\ wr[c] = run
        /\ run' = TransitionTo(TransitionTo(wr[c], "FINALIZATION_PENDING"), "PDF_PENDING")
        BY <1>3, <2>1, WriterIsFresh DEF SignCommit, NoState
  <2>. QED BY <2>1, <2>2, CommittedRuns
<1>4. ASSUME UpdateCommit(c) PROVE run' = run \/ run'.state = "REVIEW_PENDING"
  <2>1. CASE wr[c].state = "MANUAL_INPUT_REQUIRED"
    <3>1. run' = ResumeTo(wr[c], "REVIEW_PENDING")
          BY <1>4, <2>1 DEF UpdateCommit, SaveRun
    <3>. QED BY <3>1, RunMethods DEF WorkflowState
  <2>. QED BY <1>4, <2>1 DEF UpdateCommit
<1>5. ASSUME RetryCommit(c)
      PROVE  run.state \in {"MANUAL_INPUT_REQUIRED", "FAILED"}
             /\ run'.state = RetryTarget(rep[c].status, wr[c])
  <2>1. wr[c].state \in {"MANUAL_INPUT_REQUIRED", "FAILED"}
        BY <1>5 DEF RetryCommit, Licensed, MayResume
  <2>2. wr[c] = run /\ run' = ResumeTo(wr[c], RetryTarget(rep[c].status, wr[c]))
        BY <1>5, <2>1, WriterIsFresh DEF RetryCommit, NoState
  <2>3. RetryTarget(rep[c].status, wr[c]) \in WorkflowState
        BY DEF RetryTarget, WorkflowState
  <2>. QED BY <2>1, <2>2, <2>3, RunMethods
<1>6. ASSUME ManualCommit(c)
      PROVE  run.state = "MANUAL_INPUT_REQUIRED" /\ run'.state = "DRAFTING_PENDING"
  <2>1. wr[c].state = "MANUAL_INPUT_REQUIRED"
        BY <1>6 DEF ManualCommit, Licensed
  <2>2. /\ wr[c] = run
        /\ run' = ResumeTo([wr[c] EXCEPT !.notes = "typed"], "DRAFTING_PENDING")
        BY <1>6, <2>1, WriterIsFresh DEF ManualCommit, NoState
  <2>. QED BY <2>1, <2>2, CommittedRuns
<1>. QED BY <1>2, <1>3, <1>4, <1>5, <1>6

\* Every request keeps the story.
LEMMA ClientStory ==
  ASSUME OneTechnician, IInv, Story, NEW c \in Clients, ClientNext(c)
  PROVE  Story'
<1>1. c \in Procs /\ TypeOK /\ AsFound(c) /\ Stage
      BY DEF Procs, IInv, Story
<1>2. report \in Report /\ rep[c] \in Report /\ pc \in [Procs -> Label] /\ rep \in [Procs -> Report]
      BY <1>1 DEF TypeOK
<1>. SUFFICES /\ Stage' /\ AsFound(c)'
              /\ report' = report \/ Opens \/ Revises \/ Freezes \/ Signs \/ Delivers
     BY ClientKeeps
<1>. USE <1>1, <1>2 DEF db, procs
<1>3. ASSUME NEW voice \in BOOLEAN, CreateReport(c, voice)
      PROVE  Stage' /\ AsFound(c)' /\ Opens
  <2>1. report' = CreateDraft /\ run' = Start(voice) /\ pc'[c] = "idle" /\ report.status = "absent"
        BY <1>3 DEF CreateReport
  <2>2. report'.status = "draft"
        BY <2>1 DEF CreateDraft, NoReport
  <2>3. run'.state \in {"TRANSCRIPTION_PENDING", "DRAFTING_PENDING"}
        BY <2>1 DEF Start
  <2>. QED BY <2>1, <2>2, <2>3 DEF Stage, AsFound, Opens
<1>4. ASSUME UNCHANGED <<report, run>> PROVE Stage'
      BY <1>4 DEF Stage
<1>5. ASSUME NEW text \in Edits, UpdateRead(c, text)
      PROVE  Stage' /\ AsFound(c)' /\ report' = report
  <2>1. pc'[c] = "update" /\ rep'[c] = UpdateRevision(report, text) /\ report.status = "draft"
        BY <1>5 DEF UpdateRead, Editable, Goto, HoldReport
  <2>. QED BY <1>4, <1>5, <2>1, StatusMethods DEF UpdateRead, AsFound
<1>6. CASE ConfirmRead(c)
  <2>1. pc'[c] = "confirm" /\ rep'[c] = Confirm(report, run.state = "REVIEW_PENDING") /\ report.status = "draft"
        BY <1>6 DEF ConfirmRead, Editable, Goto, HoldReport
  <2>. QED BY <1>4, <1>6, <2>1, StatusMethods DEF ConfirmRead, AsFound
<1>7. CASE ReadyRead(c)
  <2>1. pc'[c] = "ready" /\ rep'[c] = MarkReadyForSignature(report) /\ report.status = "draft"
        BY <1>7 DEF ReadyRead, MayMarkReady, Editable, Goto, HoldReport
  <2>. QED BY <1>4, <1>7, <2>1, StatusMethods DEF ReadyRead, AsFound
<1>8. CASE SignRead(c)
  <2>1. pc'[c] = "sign" /\ rep'[c] = Sign(report) /\ report.status = "pending_signature"
        BY <1>8 DEF SignRead, MaySign, Goto, HoldReport
  <2>. QED BY <1>4, <1>8, <2>1 DEF SignRead, AsFound
<1>9. CASE RetryRead(c)
  <2>1. pc'[c] = "retry" /\ rep'[c] = report /\ report.status \in {"draft", "signed"}
        BY <1>9 DEF RetryRead, Goto, HoldReport
  <2>. QED BY <1>4, <1>9, <2>1 DEF RetryRead, AsFound
<1>10. CASE UpdateSave(c) \/ ReadyReadRun(c) \/ SignSave(c) \/ RetryReadRun(c)
       BY <1>4, <1>10 DEF UpdateSave, ReadyReadRun, SignSave, RetryReadRun, Goto, AsFound
<1>11. CASE ManualRead(c) \/ Abort(c)
       BY <1>4, <1>11 DEF ManualRead, Abort, Goto, Finish, AsFound
<1>12. ASSUME \/ UpdateCommit(c) \/ ConfirmCommit(c) \/ ReadyCommit(c) \/ SignCommit(c)
              \/ RetryCommit(c) \/ ManualCommit(c)
       PROVE  AsFound(c)'
  <2>1. pc'[c] = "idle"
        BY <1>12 DEF UpdateCommit, ConfirmCommit, ReadyCommit, SignCommit, RetryCommit,
                     ManualCommit, Finish
  <2>. QED BY <2>1, Elsewhere
<1>13. CASE UpdateCommit(c) \/ ConfirmCommit(c)
  <2>1. report' = rep[c] /\ report.status = "draft" /\ rep[c].status = "draft"
        BY <1>13 DEF UpdateCommit, ConfirmCommit, AsFound
  <2>2. run' = run \/ run'.state = "REVIEW_PENDING"
        BY <1>13, ClientCommits DEF ConfirmCommit
  <2>. QED BY <1>12, <1>13, <2>1, <2>2 DEF Stage, Revises
<1>14. CASE ReadyCommit(c)
  <2>1. report' = rep[c] /\ report.status = "draft" /\ rep[c].status = "pending_signature"
        BY <1>14 DEF ReadyCommit, AsFound
  <2>2. run.state = "REVIEW_PENDING" /\ run'.state = "SIGNATURE_PENDING"
        BY <1>14, ClientCommits
  <2>3. Analysing = {}
        BY <2>2 DEF IInv, AnalysisExclusive
  <2>. QED BY <1>12, <1>14, <2>1, <2>2, <2>3 DEF Stage, Freezes
<1>15. CASE SignCommit(c)
  <2>1. report' = Sign(report) /\ report.status = "pending_signature"
        BY <1>15 DEF SignCommit, AsFound
  <2>2. run'.state = "PDF_PENDING"
        BY <1>15, ClientCommits
  <2>. QED BY <1>12, <1>15, <2>1, <2>2, StatusMethods DEF Stage, Signs
<1>16. CASE RetryCommit(c)
  <2>1. /\ run.state \in {"MANUAL_INPUT_REQUIRED", "FAILED"}
        /\ run'.state = RetryTarget(rep[c].status, wr[c]) /\ report' = report
        BY <1>16, ClientCommits DEF RetryCommit
  <2>2. report.status = rep[c].status /\ report.status \in {"draft", "signed"}
        BY <1>16, <2>1 DEF RetryCommit, AsFound, Stage
  <2>. QED BY <1>12, <1>16, <2>1, <2>2 DEF Stage, RetryTarget
<1>17. CASE ManualCommit(c)
  <2>1. /\ run.state = "MANUAL_INPUT_REQUIRED" /\ run'.state = "DRAFTING_PENDING"
        /\ report' = report
        BY <1>17, ClientCommits DEF ManualCommit
  <2>2. report.status \in {"draft", "signed"}
        BY <2>1 DEF Stage, TypeOK, Report, Status, NoState
  <2>. QED BY <1>12, <1>17, <2>1, <2>2 DEF Stage
<1>. QED BY <1>3, <1>5, <1>6, <1>7, <1>8, <1>9, <1>10, <1>11, <1>13, <1>14, <1>15,
            <1>16, <1>17 DEF ClientNext

-----------------------------------------------------------------------------
(* The workers *)

\* A step of a worker, of either kind, keeps the story if it changes the
\* report in one of these ways and what it goes on with is good.
LEMMA WorkerKeeps ==
  ASSUME IInv, Story, NEW p \in Procs, Alone(p),
         pc'[p] \in WorkerLabel \union SttLabel \union {"idle"},
         Stage', p \in Workers => StillGood(p)',
         report' = report \/ Revises \/ Delivers
  PROVE  Story'
<1>1. TypeOK
      BY DEF IInv
<1>2. ASSUME NEW c \in Clients PROVE AsFound(c)'
  <2>1. CASE c = p
        BY <2>1, Elsewhere
  <2>2. CASE c # p
    <3>1. c \in Procs /\ AsFound(c)
          BY DEF Procs, Story
    <3>. QED BY <1>1, <2>2, <3>1, ClientFrame DEF Alone
  <2>. QED BY <2>1, <2>2
<1>3. ASSUME NEW w \in Workers PROVE StillGood(w)'
  <2>1. CASE w = p
        BY <2>1
  <2>2. CASE w # p
    <3>1. w \in Procs /\ StillGood(w)
          BY DEF Procs, Story
    <3>. QED BY <1>1, <2>2, <3>1, WorkerFrame DEF Alone
  <2>. QED BY <2>1, <2>2
<1>. QED BY <1>2, <1>3 DEF Story

\* What a worker that read the run knows when it commits.
LEMMA WorkerCommits ==
  ASSUME IInv, NEW w \in Workers
  PROVE  /\ AnalysisClaim(w) => run'.state = run.state
         /\ PersistCommit(w) => run.state = "DRAFTING_PENDING"
                                /\ run'.state \in {"FAILED", "REVIEW_PENDING"}
         /\ PdfCommit(w) => run.state = "PDF_PENDING" /\ run'.state = "COMPLETED"
         /\ ParkCommit(w) => run.state = "PDF_PENDING"
                             /\ run'.state \in {"PDF_PENDING", "MANUAL_INPUT_REQUIRED"}
<1>1. w \in Procs /\ FreshIfUnmodified /\ Licensed(w) /\ wr[w] \in Run /\ rep[w] \in Report
      BY DEF Procs, IInv, ReadsLicenseWrites, TypeOK
<1>. USE <1>1
<1>2. ASSUME AnalysisClaim(w) PROVE run'.state = run.state
  <2>1. wr[w].state = "DRAFTING_PENDING"
        BY <1>2 DEF AnalysisClaim, Licensed
  <2>2. wr[w] = run /\ run' = ClaimAttempt(wr[w])
        BY <1>2, <2>1, WriterIsFresh DEF AnalysisClaim, NoState
  <2>. QED BY <2>2, RunMethods
<1>3. ASSUME PersistCommit(w)
      PROVE  run.state = "DRAFTING_PENDING" /\ run'.state \in {"FAILED", "REVIEW_PENDING"}
  <2>1. wr[w].state = "DRAFTING_PENDING"
        BY <1>3 DEF PersistCommit, Licensed
  <2>2. wr[w] = run /\ run' = Outcome(wr[w], rep[w].content)
        BY <1>3, <2>1, WriterIsFresh DEF PersistCommit, NoState
  <2>3. rep[w].content \in Content
        BY DEF Report
  <2>. QED BY <2>1, <2>2, <2>3, CommittedRuns
<1>4. ASSUME PdfCommit(w) PROVE run.state = "PDF_PENDING" /\ run'.state = "COMPLETED"
  <2>1. wr[w].state = "PDF_PENDING"
        BY <1>4 DEF PdfCommit, Licensed
  <2>2. wr[w] = run /\ run' = TransitionTo(RecordStepSuccess(wr[w]), "COMPLETED")
        BY <1>4, <2>1, WriterIsFresh DEF PdfCommit, NoState
  <2>. QED BY <2>1, <2>2, CommittedRuns
<1>5. ASSUME ParkCommit(w)
      PROVE  run.state = "PDF_PENDING" /\ run'.state \in {"PDF_PENDING", "MANUAL_INPUT_REQUIRED"}
  <2>1. wr[w].state = "PDF_PENDING"
        BY <1>5 DEF ParkCommit, Licensed
  <2>2. wr[w] = run /\ run' = RecordFailure(wr[w], 1)
        BY <1>5, <2>1, WriterIsFresh DEF ParkCommit, NoState
  <2>. QED BY <2>1, <2>2, RecordFailureTyped
<1>. QED BY <1>2, <1>3, <1>4, <1>5

\* Every step of a worker keeps the story.
LEMMA WorkerStory ==
  ASSUME IInv, Story, NEW w \in Workers, WorkerNext(w)
  PROVE  Story'
<1>1. w \in Procs /\ TypeOK /\ StillGood(w) /\ Stage
      BY DEF Procs, IInv, Story
<1>2. report \in Report /\ rep[w] \in Report /\ pc \in [Procs -> Label] /\ rep \in [Procs -> Report]
      BY <1>1 DEF TypeOK
<1>3. Alone(w) /\ pc'[w] \in WorkerLabel \union SttLabel \union {"idle"}
      BY <1>1, WorkerAlone
<1>. SUFFICES Stage' /\ StillGood(w)' /\ (report' = report \/ Revises \/ Delivers)
     BY <1>1, <1>3, WorkerKeeps
<1>. USE <1>1, <1>2 DEF db, procs, Take, Ack, Acknowledge, Raise
<1>4. ASSUME report' = report, run'.state = run.state PROVE Stage'
      BY <1>4 DEF Stage
<1>5. ASSUME pc'[w] \notin {"persist", "persist_saved", "render", "render_loaded"}
      PROVE  StillGood(w)'
      BY <1>5 DEF StillGood
<1>6. ASSUME \/ \E m \in pending : DropDispatch(w, m)
             \/ AnalysisClaimLost(w) \/ PersistRefused(w) \/ ParkSkip(w) \/ ParkConflict(w)
      PROVE  Stage' /\ StillGood(w)' /\ report' = report
  <2>1. pc'[w] = "idle"
        BY <1>6 DEF DropDispatch, Receives, AnalysisClaimLost, PersistRefused, ParkSkip,
                    ParkConflict, Finish
  <2>. QED BY <1>4, <1>5, <1>6, <2>1
           DEF DropDispatch, AnalysisClaimLost, PersistRefused, ParkSkip, ParkConflict
<1>7. ASSUME \/ \E m \in pending : AnalysisLoad(w, m)
             \/ AnalysisClaim(w) \/ PdfRaised(w) \/ ParkRead(w)
      PROVE  Stage' /\ StillGood(w)' /\ report' = report
  <2>1. pc'[w] \in {"claim", "analyse", "park", "park_loaded"}
        BY <1>7 DEF AnalysisLoad, AnalysisClaim, PdfRaised, ParkRead, Goto
  <2>2. run'.state = run.state
        BY <1>7, WorkerCommits DEF AnalysisLoad, PdfRaised, ParkRead
  <2>. QED BY <1>4, <1>5, <1>7, <2>1, <2>2 DEF AnalysisLoad, AnalysisClaim, PdfRaised, ParkRead
<1>8. ASSUME NEW outcome \in Drafts \union {Template}, PersistRead(w, outcome)
      PROVE  Stage' /\ StillGood(w)' /\ report' = report
  <2>1. /\ pc'[w] = "persist" /\ rep'[w] = ApplyAiUnifiedResult(report, outcome)
        /\ report.status = "draft"
        BY <1>8 DEF PersistRead, Editable, Goto, HoldReport
  <2>. QED BY <1>4, <1>8, <2>1, StatusMethods DEF PersistRead, StillGood
<1>9. CASE PersistSave(w)
      BY <1>4, <1>9 DEF PersistSave, Goto, StillGood
<1>10. ASSUME NEW m \in pending, PdfReadReport(w, m)
       PROVE  Stage' /\ StillGood(w)' /\ report' = report
  <2>1. pc'[w] = "render" /\ rep'[w] = report /\ run.state = "PDF_PENDING"
        BY <1>10 DEF PdfReadReport, Goto, HoldReport
  <2>2. report.status = "signed"
        BY <2>1 DEF Stage, Report, Status, NoState
  <2>. QED BY <1>4, <1>10, <2>1, <2>2 DEF PdfReadReport, StillGood
<1>11. CASE PdfReadRun(w)
  <2>1. pc[w] = "render" /\ pc'[w] = "render_loaded" /\ rep'[w] = Complete(rep[w])
        BY <1>11 DEF PdfReadRun, Goto, HoldReport
  <2>. QED BY <1>4, <1>11, <2>1, StatusMethods DEF PdfReadRun, StillGood
<1>12. ASSUME PersistCommit(w) \/ PdfCommit(w) \/ ParkCommit(w) PROVE StillGood(w)'
  <2>1. pc'[w] = "idle"
        BY <1>12 DEF PersistCommit, PdfCommit, ParkCommit, Finish
  <2>. QED BY <1>5, <2>1
<1>13. CASE PersistCommit(w)
  <2>1. report' = rep[w] /\ report.status = "draft" /\ rep[w].status = "draft"
        BY <1>13 DEF PersistCommit, StillGood
  <2>2. run'.state \in {"FAILED", "REVIEW_PENDING"}
        BY <1>13, WorkerCommits
  <2>. QED BY <1>12, <1>13, <2>1, <2>2 DEF Stage, Revises
<1>14. CASE PdfCommit(w)
  <2>1. report' = rep[w] /\ rep[w] = Complete(report)
    <3>1. rep[w].status = "completed" /\ Complete(rep[w]) = Complete(report) /\ report' = rep[w]
          BY <1>14 DEF PdfCommit, StillGood
    <3>2. Complete(rep[w]) = rep[w]
          BY <3>1 DEF Complete, Report
    <3>. QED BY <3>1, <3>2
  <2>2. run.state = "PDF_PENDING" /\ run'.state = "COMPLETED"
        BY <1>14, WorkerCommits
  <2>3. report.status = "signed"
        BY <2>2 DEF Stage, Report, Status, NoState
  <2>. QED BY <1>12, <1>14, <2>1, <2>2, <2>3, StatusMethods DEF Stage, Delivers
<1>15. CASE ParkCommit(w)
  <2>1. /\ run.state = "PDF_PENDING" /\ run'.state \in {"PDF_PENDING", "MANUAL_INPUT_REQUIRED"}
        /\ report' = report
        BY <1>15, WorkerCommits DEF ParkCommit
  <2>2. report.status = "signed"
        BY <2>1 DEF Stage, Report, Status, NoState
  <2>. QED BY <1>12, <1>15, <2>1, <2>2 DEF Stage
<1>. QED BY <1>6, <1>7, <1>8, <1>9, <1>10, <1>11, <1>13, <1>14, <1>15 DEF WorkerNext

\* The speech-to-text worker moves the run only while it waits for it.
LEMMA SttMoves ==
  ASSUME IInv, NEW s \in SttWorkers, SttNext(s) \/ SttHeartbeat(s)
  PROVE  /\ report' = report
         /\ \/ run'.state = run.state
            \/ /\ run.state = "TRANSCRIPTION_PENDING"
               /\ run'.state \in {"TRANSCRIPTION_PENDING", "DRAFTING_PENDING",
                                  "MANUAL_INPUT_REQUIRED"}
<1>1. /\ s \in Procs /\ FreshIfUnmodified /\ Licensed(s)
      /\ wr[s] \in Run /\ run \in Run
      BY DEF Procs, IInv, ReadsLicenseWrites, TypeOK
<1>. USE <1>1 DEF db
<1>2. CASE \/ \E m \in pending : SttDrop(s, m) \/ SttLoad(s, m)
           \/ SttClaimLost(s) \/ SttClaimInvalid(s) \/ SttCompleteRead(s) \/ SttRaised(s)
           \/ SttFailRead(s) \/ SttFailSkip(s) \/ SttFailConflict(s)
      BY <1>2 DEF SttDrop, SttLoad, SttClaimLost, SttClaimInvalid, SttCompleteRead, SttRaised,
                  SttFailRead, SttFailSkip, SttFailConflict
<1>3. CASE SttHeartbeat(s)
      BY <1>3, RunMethods DEF SttHeartbeat
<1>4. ASSUME SttClaim(s) \/ SttCompleteCommit(s) \/ SttFailCommit(s)
      PROVE  wr[s].state = "TRANSCRIPTION_PENDING" /\ wr[s] = run
      BY <1>4 DEF SttClaim, SttCompleteCommit, SttFailCommit, Licensed, NoState, SaveRun,
                  FreshIfUnmodified
<1>5. CASE SttClaim(s)
      BY <1>4, <1>5, RunMethods DEF SttClaim, SaveRun
<1>6. CASE SttCompleteCommit(s)
  <2>1. run' = TransitionTo(RecordStepSuccess([wr[s] EXCEPT !.notes = "transcript"]), "DRAFTING_PENDING")
        BY <1>6 DEF SttCompleteCommit, SaveRun
  <2>. QED BY <1>4, <1>6, <2>1, CommittedRuns DEF SttCompleteCommit
<1>7. CASE SttFailCommit(s)
  <2>1. run' = RecordFailure(wr[s], MaxSttAttempts) /\ report' = report
        BY <1>7 DEF SttFailCommit, SaveRun
  <2>. QED BY <1>4, <1>7, <2>1, RecordFailureTyped DEF MaxSttAttempts
<1>. QED BY <1>2, <1>3, <1>5, <1>6, <1>7 DEF SttNext

LEMMA SttStory ==
  ASSUME IInv, Story, NEW s \in SttWorkers, SttNext(s) \/ SttHeartbeat(s)
  PROVE  Story'
<1>1. s \in Procs /\ TypeOK /\ Stage /\ report \in Report
      BY DEF Procs, IInv, Story, TypeOK
<1>2. Alone(s) /\ pc'[s] \in WorkerLabel \union SttLabel \union {"idle"}
      BY <1>1, WorkerAlone
<1>3. Stage' /\ report' = report
  <2>1. CASE run'.state = run.state /\ report' = report
        BY <1>1, <2>1 DEF Stage
  <2>2. CASE /\ report' = report /\ run.state = "TRANSCRIPTION_PENDING"
             /\ run'.state \in {"TRANSCRIPTION_PENDING", "DRAFTING_PENDING", "MANUAL_INPUT_REQUIRED"}
    <3>1. report.status = "draft"
          BY <1>1, <2>2 DEF Stage, Report, Status, NoState
    <3>. QED BY <2>2, <3>1 DEF Stage
  <2>. QED BY <2>1, <2>2, SttMoves
<1>4. ASSUME s \in Workers PROVE StillGood(s)'
  <2>1. pc'[s] \in SttLabel \union {"idle"}
    <3>1. \/ Finish(s)
          \/ UNCHANGED procs /\ pc[s] \in {"idle", "transcribe"}
          \/ \E label \in SttLabel : Goto(s, label)
          BY DEF SttNext, SttDrop, SttLoad, SttClaim, SttClaimLost, SttClaimInvalid, SttHeartbeat,
               SttCompleteRead, SttCompleteCommit, SttRaised, SttFailRead, SttFailSkip,
               SttFailCommit, SttFailConflict, Receives, Take, Ack, Acknowledge, Raise, SttLabel
    <3>. QED BY <1>1, <3>1 DEF TypeOK, Finish, Goto, procs, SttLabel
  <2>. QED BY <2>1 DEF StillGood, SttLabel
<1>. QED BY <1>1, <1>2, <1>3, <1>4, WorkerKeeps

-----------------------------------------------------------------------------
(* The story *)

LEMMA StoryInit == Init => Story
BY DEF Init, Story, Stage, AsFound, StillGood, NoReport, NoRun, NoState, Procs

LEMMA StoryStep ==
  ASSUME OneTechnician, IInv, Story, [Next]_vars
  PROVE  Story'
<1>1. ASSUME NEW p \in Workers \union SttWorkers, Crash(p) PROVE Story'
  <2>1. p \in Procs /\ TypeOK /\ Stage
        BY DEF Procs, IInv, Story
  <2>2. report' = report /\ run' = run /\ pc'[p] = "idle"
        BY <1>1, <2>1 DEF Crash, Raise, Finish, TypeOK
  <2>3. Stage' /\ StillGood(p)'
        BY <2>1, <2>2 DEF Stage, StillGood
  <2>. QED BY <1>1, <2>1, <2>2, <2>3, WorkerAlone, WorkerKeeps
<1>2. CASE UNCHANGED vars
      BY <1>2 DEF vars, Story, Stage, AsFound, StillGood
<1>. QED BY <1>1, <1>2, ClientStory, WorkerStory, SttStory DEF Next

\* With one technician the report and its run tell the same story in every state.
THEOREM StoryHolds == ASSUME OneTechnician PROVE Spec => []Story
<1>1. IInv /\ Story /\ [Next]_vars => Story'
      BY StoryStep
<1>. QED BY <1>1, StoryInit, Invariant, PTL DEF Spec

\* With one technician the statuses of the two rows agree, although different
\* handlers write them (StageAgreement).
THEOREM StagesAgree == ASSUME OneTechnician PROVE Spec => []StageAgreement
<1>1. TypeOK /\ Story => StageAgreement
      BY DEF TypeOK, Report, Status, Story, Stage, StageAgreement, NoState
<1>. QED BY <1>1, StoryHolds, TypeCorrect, PTL

-----------------------------------------------------------------------------
(* The lifecycle *)

\* What one step does to the four things the lifecycle is about.
LifecycleMove ==
  \/ UNCHANGED <<report, signatures, pdfs>>
  \/ Opens /\ report'.content = report.content /\ UNCHANGED <<signatures, pdfs>>
  \/ (Revises \/ Freezes) /\ UNCHANGED <<signatures, pdfs>>
  \/ Signs /\ signatures' = signatures + 1 /\ pdfs' = pdfs
  \/ Delivers /\ pdfs' = pdfs + 1 /\ signatures' = signatures

LEMMA ClientMoves ==
  ASSUME IInv, Story, NEW c \in Clients, ClientNext(c)
  PROVE  LifecycleMove
<1>1. c \in Procs /\ TypeOK /\ AsFound(c) /\ Stage /\ rep[c] \in Report
      BY DEF Procs, IInv, Story, TypeOK
<1>. USE <1>1 DEF db, LifecycleMove
<1>2. ASSUME NEW voice \in BOOLEAN, CreateReport(c, voice) PROVE LifecycleMove
      BY <1>2 DEF CreateReport, Opens, CreateDraft, NoReport, Stage
<1>3. CASE \/ \E text \in Edits : UpdateRead(c, text)
           \/ UpdateSave(c) \/ ConfirmRead(c) \/ ReadyRead(c) \/ ReadyReadRun(c)
           \/ SignRead(c) \/ SignSave(c) \/ RetryRead(c) \/ RetryReadRun(c) \/ RetryCommit(c)
           \/ ManualRead(c) \/ ManualCommit(c) \/ Abort(c)
      BY <1>3 DEF UpdateRead, UpdateSave, ConfirmRead, ReadyRead, ReadyReadRun, SignRead,
                  SignSave, RetryRead, RetryReadRun, RetryCommit, ManualRead, ManualCommit, Abort
<1>4. CASE UpdateCommit(c) \/ ConfirmCommit(c)
      BY <1>4 DEF UpdateCommit, ConfirmCommit, AsFound, Revises
<1>5. CASE ReadyCommit(c)
  <2>1. Analysing = {}
        BY <1>5, ClientCommits DEF IInv, AnalysisExclusive
  <2>. QED BY <1>5, <2>1 DEF ReadyCommit, AsFound, Freezes
<1>6. CASE SignCommit(c)
      BY <1>6 DEF SignCommit, AsFound, Signs
<1>. QED BY <1>2, <1>3, <1>4, <1>5, <1>6 DEF ClientNext

LEMMA PdfDelivers ==
  ASSUME IInv, Story, NEW w \in Workers, PdfCommit(w)
  PROVE  Delivers
<1>1. w \in Procs /\ StillGood(w) /\ Stage /\ report \in Report /\ rep[w] \in Report
      BY DEF Procs, IInv, Story, TypeOK
<1>2. rep[w].status = "completed" /\ Complete(rep[w]) = Complete(report) /\ report' = rep[w]
      BY <1>1 DEF PdfCommit, StillGood
<1>3. Complete(rep[w]) = rep[w]
      BY <1>1, <1>2 DEF Complete, Report
<1>4. report.status = "signed"
      BY <1>1, WorkerCommits DEF Stage, Report, Status, NoState
<1>. QED BY <1>2, <1>3, <1>4 DEF Delivers

LEMMA WorkerMovesLife ==
  ASSUME IInv, Story, NEW w \in Workers, WorkerNext(w)
  PROVE  LifecycleMove
<1>. USE DEF db, LifecycleMove
<1>1. CASE PersistCommit(w)
      BY <1>1 DEF PersistCommit, Story, StillGood, Revises
<1>2. CASE PdfCommit(w)
      BY <1>2, PdfDelivers DEF PdfCommit
<1>3. CASE \/ \E m \in pending : DropDispatch(w, m) \/ AnalysisLoad(w, m) \/ PdfReadReport(w, m)
           \/ AnalysisClaim(w) \/ AnalysisClaimLost(w)
           \/ \E outcome \in Drafts \union {Template} : PersistRead(w, outcome)
           \/ PersistRefused(w) \/ PersistSave(w) \/ PdfReadRun(w) \/ PdfRaised(w)
           \/ ParkRead(w) \/ ParkSkip(w) \/ ParkCommit(w) \/ ParkConflict(w)
      BY <1>3 DEF DropDispatch, AnalysisLoad, AnalysisClaim, AnalysisClaimLost, PersistRead,
                  PersistRefused, PersistSave, PdfReadReport, PdfReadRun, PdfRaised,
                  ParkRead, ParkSkip, ParkCommit, ParkConflict
<1>. QED BY <1>1, <1>2, <1>3 DEF WorkerNext

LEMMA OthersMoveNothing ==
  ASSUME NEW s, SttNext(s) \/ SttHeartbeat(s) \/ Crash(s)
  PROVE  UNCHANGED <<report, signatures, pdfs>>
BY DEF SttNext, SttDrop, SttLoad, SttClaim, SttClaimLost, SttClaimInvalid, SttHeartbeat,
       SttCompleteRead, SttCompleteCommit, SttRaised, SttFailRead, SttFailSkip, SttFailCommit,
       SttFailConflict, Crash, db

\* With one technician the handlers implement the lifecycle: the report is frozen once, signed
\* once and delivered once, and what was frozen is not touched again (LifecycleHolds).
THEOREM LifecycleImplemented == ASSUME OneTechnician PROVE Spec => LifecycleHolds
<1>1. Init => Lifecycle!LifecycleInit
      BY DEF Init, NoReport, Content, Lifecycle!LifecycleInit
<1>2. TypeOK /\ TypeOK' /\ LifecycleMove => [Lifecycle!LifecycleNext]_Lifecycle!lifecycle
  <2>. SUFFICES ASSUME TypeOK, TypeOK', LifecycleMove
                PROVE  [Lifecycle!LifecycleNext]_Lifecycle!lifecycle
       OBVIOUS
  <2>1. report \in Report /\ report' \in Report /\ report'.content \in Content
        BY DEF TypeOK, Report
  <2>2. CASE UNCHANGED <<report, signatures, pdfs>>
        BY <2>2 DEF Lifecycle!lifecycle
  <2>3. CASE Opens /\ report'.content = report.content /\ UNCHANGED <<signatures, pdfs>>
        BY <2>3 DEF Opens, Lifecycle!Open, Lifecycle!LifecycleNext
  <2>4. CASE Revises /\ UNCHANGED <<signatures, pdfs>>
        BY <2>1, <2>4 DEF Revises, Lifecycle!Edit, Lifecycle!LifecycleNext
  <2>5. CASE Freezes /\ UNCHANGED <<signatures, pdfs>>
        BY <2>1, <2>5 DEF Freezes, Lifecycle!Freeze, Lifecycle!LifecycleNext
  <2>6. CASE Signs /\ signatures' = signatures + 1 /\ pdfs' = pdfs
        BY <2>1, <2>6, StatusMethods DEF Signs, Lifecycle!SignOff, Lifecycle!LifecycleNext
  <2>7. CASE Delivers /\ pdfs' = pdfs + 1 /\ signatures' = signatures
        BY <2>1, <2>7, StatusMethods DEF Delivers, Lifecycle!Deliver, Lifecycle!LifecycleNext
  <2>. QED BY <2>2, <2>3, <2>4, <2>5, <2>6, <2>7 DEF LifecycleMove
<1>3. IInv /\ Story /\ [Next]_vars => LifecycleMove
  <2>. SUFFICES ASSUME IInv, Story, [Next]_vars PROVE LifecycleMove
       OBVIOUS
  <2>1. CASE UNCHANGED vars
        BY <2>1 DEF vars, LifecycleMove
  <2>. QED BY <2>1, ClientMoves, WorkerMovesLife, OthersMoveNothing DEF Next, LifecycleMove
<1>. QED BY <1>1, <1>2, <1>3, Invariant, StoryHolds, TypeCorrect, PTL
         DEF Spec, LifecycleHolds, Lifecycle!LifecycleSpec

-----------------------------------------------------------------------------
(* One technician: a confirmation in review is binding *)

\* A report confirmed in review has the content that was confirmed; it has
\* left the draft, or is still up for review.
Vouched ==
  /\ ReviewIsBinding
  /\ report.reviewed /\ report.status = "draft" => run.state = "REVIEW_PENDING"

\* What the technician is about to write keeps that: an edit takes the
\* confirmation back, and the run does not leave the review under a request.
WillVouch(c) ==
  /\ pc[c] \in {"update", "update_saved"} => ~rep[c].reviewed
  /\ pc[c] = "confirm" /\ rep[c].reviewed => run.state = "REVIEW_PENDING"
  /\ pc[c] \in {"confirm", "ready", "ready_loaded"} /\ rep[c].reviewed =>
       rep[c].vouched = rep[c].content

\* An analysis writes its result over no draft that was confirmed in review.
WritesUnreviewed(w) ==
  pc[w] \in {"persist", "persist_saved"} => ~rep[w].reviewed

Vouching ==
  /\ Vouched
  /\ \A c \in Clients : WillVouch(c)
  /\ \A w \in Workers : WritesUnreviewed(w)


-----------------------------------------------------------------------------
(* Confirming *)

\* Only a confirmation vouches, and only an edit takes it back.
LEMMA ConfirmMethods ==
  ASSUME NEW r \in Report
  PROVE  /\ \A text : ~UpdateRevision(r, text).reviewed
         /\ \A text : ApplyAiUnifiedResult(r, text).reviewed = r.reviewed
         /\ \A inReview : Confirm(r, inReview).vouched = Confirm(r, inReview).content
         /\ \A done \in {MarkReadyForSignature(r), Sign(r), Complete(r)} :
              /\ done.reviewed = r.reviewed
              /\ done.vouched = r.vouched
              /\ done.content = r.content
BY Zenon DEF Report, UpdateRevision, ApplyAiUnifiedResult, Confirm, MarkReadyForSignature,
       Sign, Complete

\* A step of one process keeps what was vouched for if it does so for the
\* report and for itself, and ends nobody's review.
LEMMA VouchingKeeps ==
  ASSUME Vouching, NEW p \in Procs, Alone(p), Vouched',
         p \in Clients => WillVouch(p)',
         p \in Workers => WritesUnreviewed(p)',
         \/ OneTechnician /\ p \in Clients
         \/ (run.state = "REVIEW_PENDING" => run'.state = "REVIEW_PENDING")
  PROVE  Vouching'
<1>1. ASSUME NEW c \in Clients PROVE WillVouch(c)'
  <2>1. CASE c = p
        BY <2>1
  <2>2. CASE c # p
    <3>1. c \in Procs /\ WillVouch(c) /\ pc'[c] = pc[c] /\ rep'[c] = rep[c]
          BY <2>2 DEF Procs, Vouching, Alone
    <3>2. run.state = "REVIEW_PENDING" => run'.state = "REVIEW_PENDING"
          BY <2>2 DEF OneTechnician
    <3>. QED BY <3>1, <3>2 DEF WillVouch
  <2>. QED BY <2>1, <2>2
<1>2. ASSUME NEW w \in Workers PROVE WritesUnreviewed(w)'
  <2>1. CASE w = p
        BY <2>1
  <2>2. CASE w # p
    <3>1. w \in Procs /\ WritesUnreviewed(w) /\ pc'[w] = pc[w] /\ rep'[w] = rep[w]
          BY <2>2 DEF Procs, Vouching, Alone
    <3>. QED BY <3>1 DEF WritesUnreviewed
  <2>. QED BY <2>1, <2>2
<1>. QED BY <1>1, <1>2 DEF Vouching

\* Every request of one technician keeps what was vouched for.
LEMMA ClientVouching ==
  ASSUME OneTechnician, IInv, Story, Vouching, NEW c \in Clients, ClientNext(c)
  PROVE  Vouching'
<1>1. c \in Procs /\ TypeOK /\ AsFound(c) /\ Stage /\ Vouched /\ WillVouch(c)
      BY DEF Procs, IInv, Story, Vouching
<1>2. report \in Report /\ rep[c] \in Report /\ pc \in [Procs -> Label] /\ rep \in [Procs -> Report]
      BY <1>1 DEF TypeOK
<1>3. Alone(c) /\ pc'[c] \in ClientLabel \union {"idle"}
      BY <1>1, ClientAlone
<1>4. WritesUnreviewed(c)'
      BY <1>3 DEF WritesUnreviewed, ClientLabel
<1>. SUFFICES Vouched' /\ WillVouch(c)'
     BY <1>1, <1>3, <1>4, VouchingKeeps
<1>. USE <1>1, <1>2 DEF db, procs
<1>5. ASSUME report' = report, run' = run PROVE Vouched'
      BY <1>5 DEF Vouched, ReviewIsBinding
<1>6. ASSUME pc'[c] \notin {"update", "update_saved", "confirm", "ready", "ready_loaded"}
      PROVE  WillVouch(c)'
      BY <1>6 DEF WillVouch
<1>7. ASSUME NEW voice \in BOOLEAN, CreateReport(c, voice) PROVE Vouched' /\ WillVouch(c)'
  <2>1. report' = CreateDraft /\ pc'[c] = "idle"
        BY <1>7 DEF CreateReport
  <2>2. ~report'.reviewed
        BY <2>1 DEF CreateDraft, NoReport
  <2>. QED BY <1>6, <2>1, <2>2 DEF Vouched, ReviewIsBinding
<1>8. ASSUME NEW text \in Edits, UpdateRead(c, text) PROVE Vouched' /\ WillVouch(c)'
  <2>1. pc'[c] = "update" /\ rep'[c] = UpdateRevision(report, text)
        BY <1>8 DEF UpdateRead, Goto, HoldReport
  <2>2. ~rep'[c].reviewed
        BY <2>1, ConfirmMethods
  <2>. QED BY <1>5, <1>8, <2>1, <2>2 DEF UpdateRead, WillVouch
<1>9. ASSUME ConfirmRead(c) PROVE Vouched' /\ WillVouch(c)'
  <2>1. pc'[c] = "confirm" /\ rep'[c] = Confirm(report, run.state = "REVIEW_PENDING")
        BY <1>9 DEF ConfirmRead, Goto, HoldReport
  <2>2. rep'[c].reviewed => run.state = "REVIEW_PENDING"
    <3>. SUFFICES ASSUME run.state # "REVIEW_PENDING" PROVE ~rep'[c].reviewed
         OBVIOUS
    <3>1. rep'[c] = Confirm(report, FALSE)
          BY <2>1, Zenon
    <3>. QED BY <3>1 DEF Report, Confirm
  <2>3. rep'[c].vouched = rep'[c].content
        BY <2>1, ConfirmMethods
  <2>4. run' = run
        BY <1>9 DEF ConfirmRead
  <2>. QED BY <1>5, <1>9, <2>1, <2>2, <2>3, <2>4 DEF ConfirmRead, WillVouch
<1>10. ASSUME ReadyRead(c) PROVE Vouched' /\ WillVouch(c)'
  <2>1. pc'[c] = "ready" /\ rep'[c] = MarkReadyForSignature(report)
        BY <1>10 DEF ReadyRead, Goto, HoldReport
  <2>2. rep'[c].reviewed => rep'[c].vouched = rep'[c].content
        BY <2>1, ConfirmMethods DEF Vouched, ReviewIsBinding
  <2>. QED BY <1>5, <1>10, <2>1, <2>2 DEF ReadyRead, WillVouch
<1>11. CASE UpdateSave(c) \/ ReadyReadRun(c)
  <2>1. /\ rep' = rep /\ report' = report /\ run' = run
        /\ \/ pc[c] = "update" /\ pc'[c] = "update_saved"
           \/ pc[c] = "ready" /\ pc'[c] = "ready_loaded"
        BY <1>11 DEF UpdateSave, ReadyReadRun, Goto
  <2>2. WillVouch(c)'
        BY <2>1 DEF WillVouch
  <2>. QED BY <1>5, <2>1, <2>2
<1>12. CASE SignRead(c) \/ SignSave(c) \/ RetryRead(c) \/ RetryReadRun(c) \/ ManualRead(c) \/ Abort(c)
  <2>1. /\ report' = report /\ run' = run
        /\ pc'[c] \in {"sign", "sign_saved", "retry", "retry_loaded", "manual_loaded", "idle"}
        BY <1>12 DEF SignRead, SignSave, RetryRead, RetryReadRun, ManualRead, Abort, Goto, Finish
  <2>. QED BY <1>5, <1>6, <2>1
<1>13. ASSUME \/ UpdateCommit(c) \/ ConfirmCommit(c) \/ ReadyCommit(c) \/ SignCommit(c)
              \/ RetryCommit(c) \/ ManualCommit(c)
       PROVE  WillVouch(c)'
  <2>1. pc'[c] = "idle"
        BY <1>13 DEF UpdateCommit, ConfirmCommit, ReadyCommit, SignCommit, RetryCommit,
                     ManualCommit, Finish
  <2>. QED BY <1>6, <2>1
<1>14. CASE UpdateCommit(c)
  <2>1. report' = rep[c] /\ ~rep[c].reviewed
        BY <1>14 DEF UpdateCommit, WillVouch
  <2>. QED BY <1>13, <1>14, <2>1 DEF Vouched, ReviewIsBinding
<1>15. CASE ConfirmCommit(c)
  <2>1. /\ report' = rep[c] /\ run' = run
        /\ rep[c].reviewed =>
             rep[c].vouched = rep[c].content /\ run.state = "REVIEW_PENDING"
        BY <1>15 DEF ConfirmCommit, WillVouch
  <2>. QED BY <1>13, <1>15, <2>1 DEF Vouched, ReviewIsBinding
<1>16. CASE ReadyCommit(c)
  <2>1. /\ report' = rep[c] /\ rep[c].status = "pending_signature"
        /\ rep[c].reviewed => rep[c].vouched = rep[c].content
        BY <1>16 DEF ReadyCommit, WillVouch, AsFound
  <2>. QED BY <1>13, <1>16, <2>1 DEF Vouched, ReviewIsBinding
<1>17. CASE SignCommit(c)
  <2>1. report' = Sign(report) /\ report.status = "pending_signature"
        BY <1>17 DEF SignCommit, AsFound
  <2>2. report'.status = "signed" /\ (report.reviewed => report.vouched = report.content)
        BY <2>1, StatusMethods DEF Vouched, ReviewIsBinding
  <2>3. report'.reviewed => report'.vouched = report'.content
        BY <2>1, <2>2, ConfirmMethods
  <2>. QED BY <1>13, <1>17, <2>2, <2>3 DEF Vouched, ReviewIsBinding
<1>18. CASE RetryCommit(c) \/ ManualCommit(c)
  <2>1. report' = report /\ run.state \in {"MANUAL_INPUT_REQUIRED", "FAILED"}
        BY <1>18, ClientCommits DEF RetryCommit, ManualCommit
  <2>2. Vouched'
        BY <2>1 DEF Vouched, ReviewIsBinding
  <2>. QED BY <1>13, <1>18, <2>2
<1>. QED BY <1>7, <1>8, <1>9, <1>10, <1>11, <1>12, <1>14, <1>15, <1>16, <1>17, <1>18
         DEF ClientNext

\* A step of a worker keeps what was vouched for: it finds no
\* draft that was confirmed in review.
LEMMA WorkerVouching ==
  ASSUME IInv, Story, Vouching, NEW w \in Workers, WorkerNext(w)
  PROVE  Vouching'
<1>1. w \in Procs /\ TypeOK /\ StillGood(w) /\ Stage /\ Vouched /\ WritesUnreviewed(w)
      BY DEF Procs, IInv, Story, Vouching
<1>2. report \in Report /\ rep[w] \in Report /\ pc \in [Procs -> Label] /\ rep \in [Procs -> Report]
      BY <1>1 DEF TypeOK
<1>3. Alone(w) /\ pc'[w] \in WorkerLabel \union SttLabel \union {"idle"}
      BY <1>1, WorkerAlone
<1>4. WillVouch(w)'
      BY <1>3 DEF WillVouch, WorkerLabel, SttLabel
<1>. SUFFICES /\ Vouched' /\ WritesUnreviewed(w)'
              /\ run.state = "REVIEW_PENDING" => run'.state = "REVIEW_PENDING"
     BY <1>1, <1>3, <1>4, VouchingKeeps
<1>. USE <1>1, <1>2 DEF db, procs, Take, Ack, Acknowledge, Raise
<1>5. ASSUME report' = report, run'.state = run.state PROVE Vouched'
      BY <1>5 DEF Vouched, ReviewIsBinding
<1>6. ASSUME pc'[w] \notin {"persist", "persist_saved"} PROVE WritesUnreviewed(w)'
      BY <1>6 DEF WritesUnreviewed
<1>7. CASE \/ \E m \in pending : DropDispatch(w, m) \/ AnalysisLoad(w, m) \/ PdfReadReport(w, m)
           \/ AnalysisClaim(w) \/ AnalysisClaimLost(w) \/ PersistRefused(w)
           \/ PdfReadRun(w) \/ PdfRaised(w) \/ ParkRead(w) \/ ParkSkip(w) \/ ParkConflict(w)
  <2>1. pc'[w] \notin {"persist", "persist_saved"}
        BY <1>7 DEF DropDispatch, Receives, AnalysisLoad, PdfReadReport, AnalysisClaim,
                    AnalysisClaimLost, PersistRefused, PdfReadRun, PdfRaised, ParkRead,
                    ParkSkip, ParkConflict, Goto, Finish
  <2>2. report' = report /\ run'.state = run.state
        BY <1>7, WorkerCommits
           DEF DropDispatch, AnalysisLoad, PdfReadReport, AnalysisClaim, AnalysisClaimLost,
               PersistRefused, PdfReadRun, PdfRaised, ParkRead, ParkSkip, ParkConflict
  <2>. QED BY <1>5, <1>6, <2>1, <2>2
<1>8. ASSUME NEW outcome \in Drafts \union {Template}, PersistRead(w, outcome)
      PROVE  Vouched' /\ WritesUnreviewed(w)' /\ run' = run
  <2>1. /\ rep'[w] = ApplyAiUnifiedResult(report, outcome) /\ report.status = "draft"
        /\ report' = report /\ run' = run /\ pc[w] = "analyse"
        BY <1>8 DEF PersistRead, Editable, HoldReport
  <2>2. run.state = "DRAFTING_PENDING"
        BY <2>1 DEF IInv, AnalysisExclusive, Analysing
  <2>3. ~report.reviewed
        BY <2>1, <2>2 DEF Vouched
  <2>4. ~rep'[w].reviewed
        BY <2>1, <2>3, ConfirmMethods
  <2>. QED BY <1>5, <2>1, <2>4 DEF WritesUnreviewed
<1>9. CASE PersistSave(w)
  <2>1. pc[w] = "persist" /\ rep' = rep /\ report' = report /\ run' = run
        BY <1>9 DEF PersistSave
  <2>. QED BY <1>5, <2>1 DEF WritesUnreviewed
<1>10. ASSUME PersistCommit(w) \/ PdfCommit(w) \/ ParkCommit(w) PROVE WritesUnreviewed(w)'
  <2>1. pc'[w] = "idle"
        BY <1>10 DEF PersistCommit, PdfCommit, ParkCommit, Finish
  <2>. QED BY <1>6, <2>1
<1>11. CASE PersistCommit(w)
  <2>1. report' = rep[w] /\ ~rep[w].reviewed
        BY <1>11 DEF PersistCommit, WritesUnreviewed
  <2>2. run.state = "DRAFTING_PENDING"
        BY <1>11, WorkerCommits
  <2>. QED BY <1>10, <1>11, <2>1, <2>2 DEF Vouched, ReviewIsBinding
<1>12. CASE PdfCommit(w)
  <2>1. Delivers /\ run.state = "PDF_PENDING"
        BY <1>12, PdfDelivers, WorkerCommits
  <2>2. /\ report'.status = "completed" /\ report' = Complete(report)
        /\ report.reviewed => report.vouched = report.content
        BY <2>1, StatusMethods DEF Delivers, Vouched, ReviewIsBinding
  <2>3. report'.reviewed => report'.vouched = report'.content
        BY <2>2, ConfirmMethods
  <2>. QED BY <1>10, <1>12, <2>1, <2>2, <2>3 DEF Vouched, ReviewIsBinding
<1>13. CASE ParkCommit(w)
  <2>1. run.state = "PDF_PENDING" /\ report' = report
        BY <1>13, WorkerCommits DEF ParkCommit
  <2>2. Vouched'
        BY <2>1 DEF Vouched, ReviewIsBinding
  <2>. QED BY <1>10, <1>13, <2>1, <2>2
<1>. QED BY <1>7, <1>8, <1>9, <1>11, <1>12, <1>13 DEF WorkerNext

\* Nor does the speech-to-text worker meet such a draft, and a crash changes nothing.
LEMMA OthersVouching ==
  ASSUME IInv, Vouching, NEW s \in Workers \union SttWorkers,
         (s \in SttWorkers /\ (SttNext(s) \/ SttHeartbeat(s))) \/ Crash(s)
  PROVE  Vouching'
<1>1. s \in Procs /\ TypeOK /\ Vouched /\ pc \in [Procs -> Label]
      BY DEF Procs, IInv, Vouching, TypeOK
<1>2. Alone(s) /\ pc'[s] \in WorkerLabel \union SttLabel \union {"idle"}
      BY <1>1, WorkerAlone
<1>3. /\ report' = report
      /\ run'.state = run.state \/ run.state = "TRANSCRIPTION_PENDING"
      BY SttMoves DEF Crash, db
<1>4. Vouched' /\ (run.state = "REVIEW_PENDING" => run'.state = "REVIEW_PENDING")
      BY <1>1, <1>3 DEF Vouched, ReviewIsBinding
<1>5. pc'[s] \in SttLabel \union {"idle"}
  <2>1. \/ Finish(s)
        \/ UNCHANGED procs /\ pc[s] \in {"idle", "transcribe"}
        \/ \E label \in SttLabel : Goto(s, label)
        BY DEF SttNext, SttDrop, SttLoad, SttClaim, SttClaimLost, SttClaimInvalid, SttHeartbeat,
             SttCompleteRead, SttCompleteCommit, SttRaised, SttFailRead, SttFailSkip, Crash,
             SttFailCommit, SttFailConflict, Receives, Take, Ack, Acknowledge, Raise, SttLabel
  <2>. QED BY <1>1, <2>1 DEF Finish, Goto, procs, SttLabel
<1>6. WillVouch(s)' /\ WritesUnreviewed(s)'
      BY <1>5 DEF WillVouch, WritesUnreviewed, SttLabel
<1>. QED BY <1>1, <1>2, <1>4, <1>6, VouchingKeeps

\* With one request to a report at a time, what a technician confirmed while the run was up for
\* review is what is frozen, signed and delivered, unless he edits it again (ReviewIsBinding):
\* no analysis, retry, redelivery or crash reaches it.
THEOREM ReviewBinds == ASSUME OneTechnician PROVE Spec => []ReviewIsBinding
<1>1. Init => Vouching
      BY DEF Init, Vouching, Vouched, ReviewIsBinding, WillVouch, WritesUnreviewed, NoReport, Procs
<1>2. IInv /\ Story /\ Vouching /\ [Next]_vars => Vouching'
  <2>. SUFFICES ASSUME IInv, Story, Vouching, [Next]_vars PROVE Vouching'
       OBVIOUS
  <2>1. CASE UNCHANGED vars
        BY <2>1 DEF vars, Vouching, Vouched, ReviewIsBinding, WillVouch, WritesUnreviewed
  <2>. QED BY <2>1, ClientVouching, WorkerVouching, OthersVouching DEF Next
<1>3. Vouching => ReviewIsBinding
      BY DEF Vouching, Vouched
<1>. QED BY <1>1, <1>2, <1>3, Invariant, StoryHolds, PTL DEF Spec
=============================================================================
