----------------------- MODULE ReportFulfillmentProofs -----------------------
(***************************************************************************)
(* What holds of ReportFulfillment for every number of clients, workers,   *)
(* requests, faults and run versions.                                      *)
(***************************************************************************)
EXTENDS ReportFulfillment, TLAPS

-----------------------------------------------------------------------------
(* The aggregate methods stay within their types *)

LEMMA VersionedTyped ==
  ASSUME NEW r \in Run
  PROVE  /\ Versioned(r) \in Run /\ Attempted(r) \in Run
         /\ Versioned(r).version = r.version + 1
         /\ Versioned(r).state = r.state
         /\ Versioned(r).claimed = r.claimed
BY DEF Run, Versioned, Attempted

\* Every method of the run returns a run, one version further on.
LEMMA RunMethods ==
  ASSUME NEW r \in Run
  PROVE  /\ \A target \in WorkflowState :
              /\ TransitionTo(r, target) \in Run
              /\ TransitionTo(r, target).state = target
              /\ TransitionTo(r, target).version = r.version + 1
              /\ ResumeTo(r, target) \in Run
              /\ ResumeTo(r, target).state = target
              /\ ResumeTo(r, target).version = r.version + 1
         /\ ClaimAttempt(r) \in Run
         /\ ClaimAttempt(r).state = r.state
         /\ ClaimAttempt(r).claimed
         /\ ClaimAttempt(r).version = r.version + 1
         /\ RenewClaim(r) \in Run
         /\ RenewClaim(r).state = r.state
         /\ RenewClaim(r).version = r.version + 1
         /\ Fail(r) \in Run
         /\ Fail(r).state = "FAILED"
         /\ Fail(r).version = r.version + 1
         /\ RecordStepSuccess(r) \in Run
         /\ RecordStepSuccess(r).state = r.state
         /\ RecordStepSuccess(r).version = r.version + 1
         /\ \A notes \in Notes : /\ [r EXCEPT !.notes = notes] \in Run
                                 /\ [r EXCEPT !.notes = notes].state = r.state
                                 /\ [r EXCEPT !.notes = notes].version = r.version
<1>1. ASSUME NEW target \in WorkflowState
      PROVE  LET parked == [r EXCEPT !.state = target, !.attempt = 0,
                                     !.backoff = FALSE, !.claimed = FALSE]
             IN  parked \in Run /\ parked.version = r.version /\ parked.state = target
      BY DEF Run
<1>2. [r EXCEPT !.claimed = TRUE] \in Run
      BY DEF Run
<1>3. /\ [Attempted(r) EXCEPT !.state = "FAILED", !.backoff = FALSE] \in Run
      /\ [Attempted(r) EXCEPT !.state = "FAILED", !.backoff = FALSE].version = r.version
      <2>1. Attempted(r) \in Run /\ Attempted(r).version = r.version
            BY DEF Run, Attempted
      <2>. QED BY <2>1 DEF Run, WorkflowState
<1>4. [r EXCEPT !.attempt = 0, !.backoff = FALSE] \in Run
      BY DEF Run
<1>5. ASSUME NEW notes \in Notes PROVE [r EXCEPT !.notes = notes] \in Run
      BY DEF Run
<1>6. \A target \in WorkflowState :
        /\ TransitionTo(r, target) \in Run
        /\ TransitionTo(r, target).state = target
        /\ TransitionTo(r, target).version = r.version + 1
      BY <1>1, VersionedTyped DEF TransitionTo
<1>7. \A target \in WorkflowState :
        /\ ResumeTo(r, target) \in Run
        /\ ResumeTo(r, target).state = target
        /\ ResumeTo(r, target).version = r.version + 1
      BY <1>1, VersionedTyped DEF ResumeTo
<1>8. /\ ClaimAttempt(r) \in Run
      /\ ClaimAttempt(r).state = r.state
      /\ ClaimAttempt(r).claimed
      /\ ClaimAttempt(r).version = r.version + 1
      <2>1. /\ [r EXCEPT !.claimed = TRUE].state = r.state
            /\ [r EXCEPT !.claimed = TRUE].claimed
            /\ [r EXCEPT !.claimed = TRUE].version = r.version
            BY DEF Run
      <2>. QED BY <1>2, <2>1, VersionedTyped DEF ClaimAttempt
<1>9. /\ RenewClaim(r) \in Run
       /\ RenewClaim(r).state = r.state
       /\ RenewClaim(r).version = r.version + 1
       BY VersionedTyped DEF RenewClaim
<1>10. /\ Fail(r) \in Run
       /\ Fail(r).state = "FAILED"
       /\ Fail(r).version = r.version + 1
       <2>1. [Attempted(r) EXCEPT !.state = "FAILED", !.backoff = FALSE].state = "FAILED"
             BY VersionedTyped DEF Run
       <2>. QED BY <1>3, <2>1, VersionedTyped DEF Fail
<1>11. /\ RecordStepSuccess(r) \in Run
       /\ RecordStepSuccess(r).state = r.state
       /\ RecordStepSuccess(r).version = r.version + 1
       <2>1. /\ [r EXCEPT !.attempt = 0, !.backoff = FALSE].state = r.state
             /\ [r EXCEPT !.attempt = 0, !.backoff = FALSE].version = r.version
             BY DEF Run
       <2>. QED BY <1>4, <2>1, VersionedTyped DEF RecordStepSuccess
<1>12. \A notes \in Notes :
         /\ [r EXCEPT !.notes = notes].state = r.state
         /\ [r EXCEPT !.notes = notes].version = r.version
       BY DEF Run
<1>. QED BY <1>5, <1>6, <1>7, <1>8, <1>9, <1>10, <1>11, <1>12

\* A failure parks the run at the limit and otherwise leaves it where it is.
LEMMA RecordFailureTyped ==
  ASSUME NEW r \in Run, NEW max \in Nat
  PROVE  /\ RecordFailure(r, max) \in Run
         /\ RecordFailure(r, max).state \in {r.state, "MANUAL_INPUT_REQUIRED"}
         /\ RecordFailure(r, max).version = r.version + 1
<1>. DEFINE exhausted == r.attempt + 1 >= max
            state == IF exhausted THEN "MANUAL_INPUT_REQUIRED" ELSE r.state
            failed == [Attempted(r) EXCEPT !.claimed = FALSE,
                         !.state = IF exhausted THEN "MANUAL_INPUT_REQUIRED" ELSE @,
                         !.backoff = ~exhausted]
<1>1. /\ Attempted(r) \in Run
      /\ Attempted(r).version = r.version
      /\ Attempted(r).state = r.state
      BY DEF Run, Attempted
<1>2. exhausted \in BOOLEAN
      OBVIOUS
<1>3. failed \in Run /\ failed.version = r.version
                     /\ failed.state \in {r.state, "MANUAL_INPUT_REQUIRED"}
      <2>. HIDE DEF exhausted
      <2>. QED BY <1>1, <1>2 DEF Run, WorkflowState
<1>4. RecordFailure(r, max) = Versioned(failed)
      BY DEF RecordFailure
<1>. HIDE DEF failed
<1>. QED BY <1>3, <1>4, VersionedTyped

LEMMA RunStarts ==
  /\ NoRun \in Run
  /\ \A voice \in BOOLEAN : Start(voice) \in Run
BY DEF NoRun, Run, WorkflowState, NoState, Notes, Start

\* A working state has exactly the dispatch that request_dispatch makes.
LEMMA DispatchTyped ==
  ASSUME NEW r \in Run,
         r.state \in {"TRANSCRIPTION_PENDING", "DRAFTING_PENDING", "PDF_PENDING"}
  PROVE  Dispatch(r) \in Dispatches
BY DEF Dispatch, Dispatches, Run

\* A run resumed to a stage that workers serve can be dispatched.
LEMMA ResumedTyped ==
  ASSUME NEW r \in Run,
         NEW target \in {"TRANSCRIPTION_PENDING", "DRAFTING_PENDING", "PDF_PENDING"}
  PROVE  ResumeTo(r, target) \in Run /\ Dispatch(ResumeTo(r, target)) \in Dispatches
<1>. DEFINE resumed == ResumeTo(r, target)
<1>1. target \in WorkflowState
      BY DEF WorkflowState
<1>2. resumed \in Run /\ resumed.state = target
      BY <1>1, RunMethods
<1>. HIDE DEF resumed
<1>3. Dispatch(resumed) \in Dispatches
      BY <1>2, DispatchTyped
<1>. QED BY <1>2, <1>3 DEF resumed

\* Every method of the report returns a report.
LEMMA ReportMethods ==
  ASSUME NEW r \in Report
  PROVE  /\ \A text \in Content : ApplyAiUnifiedResult(r, text) \in Report
         /\ \A text \in Content : UpdateRevision(r, text) \in Report
         /\ \A inReview \in BOOLEAN : Confirm(r, inReview) \in Report
         /\ MarkReadyForSignature(r) \in Report
         /\ Sign(r) \in Report
         /\ Complete(r) \in Report
BY DEF Report, Content, Status, Blank, ApplyAiUnifiedResult, UpdateRevision,
       Confirm, MarkReadyForSignature, Sign, Complete

LEMMA ReportStarts == NoReport \in Report /\ CreateDraft \in Report
BY DEF NoReport, CreateDraft, Report, Content, Status, Blank

\* The runs that the handlers commit, from the run they have read: their
\* states, and that they are of a later version.
LEMMA CommittedRuns ==
  ASSUME NEW r \in Run
  PROVE  /\ ClaimAttempt(r).version > r.version
         /\ RenewClaim(r).version > r.version
         /\ RecordFailure(r, 1).version > r.version
         /\ RecordFailure(r, MaxSttAttempts).version > r.version
         /\ LET toPdf == TransitionTo(TransitionTo(r, "FINALIZATION_PENDING"), "PDF_PENDING")
            IN  toPdf \in Run /\ toPdf.state = "PDF_PENDING" /\ toPdf.version > r.version
         /\ LET typed == ResumeTo([r EXCEPT !.notes = "typed"], "DRAFTING_PENDING")
            IN  typed \in Run /\ typed.state = "DRAFTING_PENDING" /\ typed.version > r.version
         /\ LET draft == TransitionTo(RecordStepSuccess([r EXCEPT !.notes = "transcript"]),
                                      "DRAFTING_PENDING")
            IN  draft \in Run /\ draft.state = "DRAFTING_PENDING" /\ draft.version > r.version
         /\ LET done == TransitionTo(RecordStepSuccess(r), "COMPLETED")
            IN  done \in Run /\ done.state = "COMPLETED" /\ done.version > r.version
         /\ \A content \in Content :
              /\ Outcome(r, content) \in Run
              /\ Outcome(r, content).version > r.version
              /\ Outcome(r, content).state =
                   IF content = Template THEN "FAILED" ELSE "REVIEW_PENDING"
<1>. DEFINE final == TransitionTo(r, "FINALIZATION_PENDING")
            typed == [r EXCEPT !.notes = "typed"]
            heard == RecordStepSuccess([r EXCEPT !.notes = "transcript"])
            succeeded == RecordStepSuccess(r)
<1>1. r.version \in Nat
      BY DEF Run
<1>2. final \in Run /\ final.version = r.version + 1
      BY RunMethods DEF WorkflowState
<1>3. typed \in Run /\ typed.version = r.version
      BY RunMethods DEF Notes
<1>4. heard \in Run /\ heard.version = r.version + 1
      <2>. DEFINE noted == [r EXCEPT !.notes = "transcript"]
      <2>1. noted \in Run /\ noted.version = r.version
            BY RunMethods DEF Notes
      <2>. HIDE DEF noted
      <2>2. RecordStepSuccess(noted) \in Run /\ RecordStepSuccess(noted).version = r.version + 1
            BY <2>1, RunMethods
      <2>. QED BY <2>2 DEF noted
<1>5. succeeded \in Run /\ succeeded.version = r.version + 1
      BY RunMethods
<1>6. /\ TransitionTo(r, "REVIEW_PENDING") \in Run
      /\ Fail(r) \in Run /\ Fail(r).state = "FAILED" /\ Fail(r).version = r.version + 1
      BY RunMethods DEF WorkflowState
<1>. HIDE DEF final, typed, heard, succeeded
<1>7. ASSUME NEW q \in Run, q.version \in {r.version, r.version + 1},
             NEW target \in WorkflowState
      PROVE  /\ TransitionTo(q, target) \in Run /\ ResumeTo(q, target) \in Run
             /\ TransitionTo(q, target).state = target /\ ResumeTo(q, target).state = target
             /\ TransitionTo(q, target).version > r.version
             /\ ResumeTo(q, target).version > r.version
      <2>1. /\ TransitionTo(q, target) \in Run /\ ResumeTo(q, target) \in Run
            /\ TransitionTo(q, target).state = target /\ ResumeTo(q, target).state = target
            /\ TransitionTo(q, target).version = q.version + 1
            /\ ResumeTo(q, target).version = q.version + 1
            BY <1>7, RunMethods
      <2>2. q.version + 1 > r.version
            BY <1>1, <1>7
      <2>. QED BY <2>1, <2>2
<1>8. /\ "PDF_PENDING" \in WorkflowState /\ "DRAFTING_PENDING" \in WorkflowState
      /\ "COMPLETED" \in WorkflowState /\ "REVIEW_PENDING" \in WorkflowState
      BY DEF WorkflowState
<1>9. /\ TransitionTo(final, "PDF_PENDING") \in Run
      /\ TransitionTo(final, "PDF_PENDING").state = "PDF_PENDING"
      /\ TransitionTo(final, "PDF_PENDING").version > r.version
      BY <1>2, <1>7, <1>8
<1>10. /\ ResumeTo(typed, "DRAFTING_PENDING") \in Run
       /\ ResumeTo(typed, "DRAFTING_PENDING").state = "DRAFTING_PENDING"
       /\ ResumeTo(typed, "DRAFTING_PENDING").version > r.version
       BY <1>3, <1>7, <1>8
<1>11. /\ TransitionTo(heard, "DRAFTING_PENDING") \in Run
       /\ TransitionTo(heard, "DRAFTING_PENDING").state = "DRAFTING_PENDING"
       /\ TransitionTo(heard, "DRAFTING_PENDING").version > r.version
       BY <1>4, <1>7, <1>8
<1>12. \A target \in {"COMPLETED", "REVIEW_PENDING"} :
         /\ TransitionTo(succeeded, target) \in Run
         /\ TransitionTo(succeeded, target).state = target
         /\ TransitionTo(succeeded, target).version > r.version
       BY <1>5, <1>7, <1>8
<1>13. /\ ClaimAttempt(r).version > r.version
       /\ RenewClaim(r).version > r.version
       <2>1. ClaimAttempt(r).version = r.version + 1 /\ RenewClaim(r).version = r.version + 1
             BY RunMethods
       <2>. QED BY <1>1, <2>1
<1>14. /\ RecordFailure(r, 1).version > r.version
       /\ RecordFailure(r, MaxSttAttempts).version > r.version
       <2>1. /\ RecordFailure(r, 1).version = r.version + 1
             /\ RecordFailure(r, MaxSttAttempts).version = r.version + 1
             BY RecordFailureTyped DEF MaxSttAttempts
       <2>. QED BY <1>1, <2>1
<1>. QED BY <1>1, <1>6, <1>9, <1>10, <1>11, <1>12, <1>13, <1>14
         DEF final, typed, heard, succeeded, Outcome

-----------------------------------------------------------------------------
(* Type correctness *)

THEOREM TypeInit == Init => TypeOK
BY RunStarts, ReportStarts
   DEF Init, TypeOK, Label, Dispatches, NoJob

\* Ending a transaction forgets what was read, whoever ends it.
LEMMA FinishTyped ==
  ASSUME TypeOK, NEW p \in Procs, Finish(p)
  PROVE  /\ pc' \in [Procs -> Label]
         /\ rep' \in [Procs -> Report]
         /\ wr' \in [Procs -> Run]
         /\ job' \in [Procs -> Dispatches \union {NoJob}]
BY RunStarts, ReportStarts DEF TypeOK, Finish, Label

\* Acknowledging loses no event that it should not, and makes none up.
LEMMA AckTyped ==
  ASSUME TypeOK, NEW p \in Procs, NEW emitted \in SUBSET Dispatches,
         Acknowledge(p, emitted)
  PROVE  pending' \subseteq Dispatches /\ faults' \in Nat /\ Finish(p)
BY DEF TypeOK, Acknowledge

LEMMA ClientTyped ==
  ASSUME TypeOK, NEW c \in Clients, ClientNext(c)
  PROVE  TypeOK'
<1>. c \in Procs
     BY DEF Procs
<1>. USE DEF TypeOK, db, procs, Label, ClientLabel, Goto, HoldReport, ReadRun
<1>1. ASSUME NEW voice \in BOOLEAN, CreateReport(c, voice) PROVE TypeOK'
      <2>1. Start(voice) \in Run /\ Dispatch(Start(voice)) \in Dispatches
            BY RunStarts, DispatchTyped DEF Start
      <2>. QED BY <1>1, <2>1, ReportStarts DEF CreateReport, Emit
<1>2. ASSUME NEW text \in Edits, UpdateRead(c, text) PROVE TypeOK'
      BY <1>2, ReportMethods DEF UpdateRead, Content
<1>3. CASE UpdateSave(c)
      BY <1>3 DEF UpdateSave
<1>4. CASE UpdateCommit(c)
      <2>1. ResumeTo(wr[c], "REVIEW_PENDING") \in Run
            BY RunMethods DEF WorkflowState
      <2>. QED BY <1>4, <2>1, FinishTyped DEF UpdateCommit, SaveRun
<1>5. CASE ConfirmRead(c)
      BY <1>5, ReportMethods DEF ConfirmRead
<1>6. CASE ConfirmCommit(c)
      BY <1>6, FinishTyped DEF ConfirmCommit
<1>7. CASE ReadyRead(c)
      BY <1>7, ReportMethods DEF ReadyRead
<1>8. CASE ReadyReadRun(c)
      BY <1>8 DEF ReadyReadRun
<1>9. CASE ReadyCommit(c)
      <2>1. TransitionTo(wr[c], "SIGNATURE_PENDING") \in Run
            BY RunMethods DEF WorkflowState
      <2>. QED BY <1>9, <2>1, FinishTyped DEF ReadyCommit, SaveRun
<1>10. CASE SignRead(c)
      BY <1>10, ReportMethods DEF SignRead
<1>11. CASE SignSave(c)
      BY <1>11 DEF SignSave
<1>12. CASE SignCommit(c)
      <2>. DEFINE toPdf == TransitionTo(TransitionTo(wr[c], "FINALIZATION_PENDING"), "PDF_PENDING")
      <2>1. toPdf \in Run /\ toPdf.state = "PDF_PENDING"
            BY CommittedRuns
      <2>2. Dispatch(toPdf) \in Dispatches
            BY <2>1, DispatchTyped
      <2>3. /\ report' = rep[c] /\ signatures' = signatures + 1 /\ run' = toPdf
            /\ pending' = pending \union {Dispatch(toPdf)}
            /\ UNCHANGED <<pdfs, faults>> /\ Finish(c)
            BY <1>12 DEF SignCommit, SaveRun, Emit
      <2>. HIDE DEF toPdf
      <2>. QED BY <2>1, <2>2, <2>3, FinishTyped
<1>13. CASE RetryRead(c)
      BY <1>13 DEF RetryRead
<1>14. CASE RetryReadRun(c)
      BY <1>14 DEF RetryReadRun
<1>15. CASE RetryCommit(c)
      <2>. DEFINE resumed == ResumeTo(wr[c], RetryTarget(rep[c].status, wr[c]))
      <2>1. resumed \in Run /\ Dispatch(resumed) \in Dispatches
            <3>1. RetryTarget(rep[c].status, wr[c]) \in
                    {"TRANSCRIPTION_PENDING", "DRAFTING_PENDING", "PDF_PENDING"}
                  BY DEF RetryTarget
            <3>. QED BY <3>1, ResumedTyped
      <2>2. run' = resumed /\ pending' = pending \union {Dispatch(resumed)}
            BY <1>15 DEF RetryCommit, SaveRun, Emit
      <2>. HIDE DEF resumed
      <2>. QED BY <1>15, <2>1, <2>2, FinishTyped DEF RetryCommit
<1>16. CASE ManualRead(c)
      BY <1>16 DEF ManualRead
<1>17. CASE ManualCommit(c)
      <2>. DEFINE resumed == ResumeTo([wr[c] EXCEPT !.notes = "typed"], "DRAFTING_PENDING")
      <2>1. resumed \in Run /\ resumed.state = "DRAFTING_PENDING"
            BY CommittedRuns
      <2>2. run' = resumed /\ pending' = pending \union {Dispatch(resumed)}
            BY <1>17 DEF ManualCommit, SaveRun, Emit
      <2>. HIDE DEF resumed
      <2>3. Dispatch(resumed) \in Dispatches
            BY <2>1, DispatchTyped
      <2>. QED BY <1>17, <2>1, <2>2, <2>3, FinishTyped DEF ManualCommit
<1>18. CASE Abort(c)
      BY <1>18, FinishTyped DEF Abort
<1>. QED BY <1>1, <1>2, <1>3, <1>4, <1>5, <1>6, <1>7, <1>8, <1>9, <1>10, <1>11,
            <1>12, <1>13, <1>14, <1>15, <1>16, <1>17, <1>18 DEF ClientNext

LEMMA WorkerTyped ==
  ASSUME TypeOK, NEW w \in Workers, WorkerNext(w)
  PROVE  TypeOK'
<1>. w \in Procs
     BY DEF Procs
<1>. USE DEF TypeOK, db, procs, Label, WorkerLabel, Goto, HoldReport, ReadRun
<1>1. ASSUME NEW m \in pending, DropDispatch(w, m) PROVE TypeOK'
      BY <1>1 DEF DropDispatch
<1>2. ASSUME NEW m \in pending, AnalysisLoad(w, m) PROVE TypeOK'
      BY <1>2 DEF AnalysisLoad, Take
<1>3. ASSUME NEW m \in pending, PdfReadReport(w, m) PROVE TypeOK'
      BY <1>3 DEF PdfReadReport, Take
<1>4. CASE AnalysisClaim(w)
      BY <1>4, RunMethods, RunStarts DEF AnalysisClaim, SaveRun
<1>5. CASE AnalysisClaimLost(w)
      BY <1>5, FinishTyped, AckTyped DEF AnalysisClaimLost, Ack
<1>6. ASSUME NEW outcome \in Drafts \union {Template}, PersistRead(w, outcome) PROVE TypeOK'
      BY <1>6, ReportMethods DEF PersistRead, Content
<1>7. CASE PersistRefused(w)
      BY <1>7, FinishTyped DEF PersistRefused, Raise
<1>8. CASE PersistSave(w)
      BY <1>8 DEF PersistSave
<1>9. CASE PersistCommit(w)
      <2>1. Outcome(wr[w], rep[w].content) \in Run
            <3>1. rep[w].content \in Content
                  BY DEF Report
            <3>. QED BY <3>1, CommittedRuns
      <2>. QED BY <1>9, <2>1, FinishTyped, AckTyped DEF PersistCommit, SaveRun, Ack
<1>11. CASE PdfReadRun(w)
      BY <1>11, ReportMethods DEF PdfReadRun
<1>12. CASE PdfCommit(w)
      <2>1. TransitionTo(RecordStepSuccess(wr[w]), "COMPLETED") \in Run
            BY CommittedRuns
      <2>. QED BY <1>12, <2>1, FinishTyped, AckTyped DEF PdfCommit, SaveRun, Ack
<1>13. CASE PdfRaised(w)
      BY <1>13, RunStarts, ReportStarts DEF PdfRaised
<1>14. CASE ParkRead(w)
      BY <1>14 DEF ParkRead
<1>15. CASE ParkSkip(w)
      BY <1>15, FinishTyped, AckTyped DEF ParkSkip, Ack
<1>16. CASE ParkCommit(w)
      <2>1. RecordFailure(wr[w], 1) \in Run
            BY RecordFailureTyped
      <2>. QED BY <1>16, <2>1, FinishTyped, AckTyped DEF ParkCommit, SaveRun, Ack
<1>17. CASE ParkConflict(w)
      BY <1>17, FinishTyped DEF ParkConflict, Raise
<1>. QED BY <1>1, <1>2, <1>3, <1>4, <1>5, <1>6, <1>7, <1>8, <1>9, <1>11,
            <1>12, <1>13, <1>14, <1>15, <1>16, <1>17 DEF WorkerNext

LEMMA SttTyped ==
  ASSUME TypeOK, NEW s \in SttWorkers, SttNext(s) \/ SttHeartbeat(s)
  PROVE  TypeOK'
<1>. s \in Procs
     BY DEF Procs
<1>. USE DEF TypeOK, db, procs, Label, SttLabel, Goto, HoldReport, ReadRun
<1>1. ASSUME NEW m \in pending, SttDrop(s, m) PROVE TypeOK'
      BY <1>1 DEF SttDrop
<1>2. ASSUME NEW m \in pending, SttLoad(s, m) PROVE TypeOK'
      BY <1>2 DEF SttLoad, Take
<1>3. CASE SttClaim(s)
      BY <1>3, RunMethods, RunStarts DEF SttClaim, SaveRun
<1>4. CASE SttClaimLost(s)
      BY <1>4, FinishTyped, AckTyped DEF SttClaimLost, Ack
<1>5. CASE SttClaimInvalid(s)
      BY <1>5, RunStarts DEF SttClaimInvalid
<1>6. CASE SttHeartbeat(s)
      BY <1>6, RunMethods DEF SttHeartbeat
<1>7. CASE SttCompleteRead(s)
      BY <1>7 DEF SttCompleteRead
<1>8. CASE SttCompleteCommit(s)
      <2>. DEFINE draft == TransitionTo(RecordStepSuccess([wr[s] EXCEPT !.notes = "transcript"]),
                                        "DRAFTING_PENDING")
      <2>1. draft \in Run /\ draft.state = "DRAFTING_PENDING"
            BY CommittedRuns
      <2>2. run' = draft /\ Acknowledge(s, {Dispatch(draft)})
            BY <1>8 DEF SttCompleteCommit, SaveRun
      <2>. HIDE DEF draft
      <2>3. Dispatch(draft) \in Dispatches
            BY <2>1, DispatchTyped
      <2>. QED BY <1>8, <2>1, <2>2, <2>3, FinishTyped, AckTyped DEF SttCompleteCommit
<1>9. CASE SttRaised(s)
      BY <1>9, RunStarts DEF SttRaised
<1>10. CASE SttFailRead(s)
      BY <1>10 DEF SttFailRead
<1>11. CASE SttFailSkip(s)
      BY <1>11, FinishTyped, AckTyped DEF SttFailSkip, Ack
<1>12. CASE SttFailCommit(s)
      <2>. DEFINE failed == RecordFailure(wr[s], MaxSttAttempts)
      <2>1. failed \in Run
            BY RecordFailureTyped DEF MaxSttAttempts
      <2>. DEFINE again == IF failed.state = "TRANSCRIPTION_PENDING" THEN {Dispatch(failed)} ELSE {}
      <2>2. run' = failed /\ Acknowledge(s, again)
            BY <1>12 DEF SttFailCommit, SaveRun
      <2>. HIDE DEF failed
      <2>3. again \in SUBSET Dispatches
            BY <2>1, DispatchTyped
      <2>. HIDE DEF again
      <2>. QED BY <1>12, <2>1, <2>2, <2>3, FinishTyped, AckTyped DEF SttFailCommit
<1>13. CASE SttFailConflict(s)
      BY <1>13, FinishTyped DEF SttFailConflict, Raise
<1>. QED BY <1>1, <1>2, <1>3, <1>4, <1>5, <1>6, <1>7, <1>8, <1>9, <1>10, <1>11,
            <1>12, <1>13 DEF SttNext

THEOREM TypeStep == TypeOK /\ [Next]_vars => TypeOK'
<1>. SUFFICES ASSUME TypeOK, [Next]_vars PROVE TypeOK'
     OBVIOUS
<1>1. ASSUME NEW p \in Workers \union SttWorkers, Crash(p) PROVE TypeOK'
      <2>1. p \in Procs
            BY <1>1 DEF Procs
      <2>. QED BY <1>1, <2>1, FinishTyped DEF Crash, Raise, TypeOK
<1>2. CASE UNCHANGED vars
      BY <1>2 DEF vars, TypeOK
<1>. QED BY <1>1, <1>2, ClientTyped, WorkerTyped, SttTyped DEF Next

\* Types are preserved by every request, worker step, retry and crash.
THEOREM TypeCorrect == Spec => []TypeOK
BY TypeInit, TypeStep, PTL DEF Spec

-----------------------------------------------------------------------------
(* Every step of the run comes from what its writer read *)

\* A compare-and-swap that passes has read the run as it is.
LEMMA WriterIsFresh ==
  ASSUME FreshIfUnmodified, NEW p \in Procs, wr[p].state # NoState,
         NEW r, SaveRun(p, r)
  PROVE  wr[p] = run /\ run' = r
BY DEF FreshIfUnmodified, SaveRun

\* How one step treats what the processes have read of the run: either the
\* run stays and at most one process reads it, or it moves on to a later
\* version and nobody reads it, or it starts.
VersionsMove ==
  \/ run' = run /\ \A p \in Procs : wr'[p] \in {wr[p], NoRun, run}
  \/ run'.version > run.version /\ \A p \in Procs : wr'[p] \in {wr[p], NoRun}
  \/ run = NoRun /\ run'.version = 0 /\ wr' = wr

LEMMA FinishForgets ==
  ASSUME TypeOK, NEW p \in Procs, Finish(p)
  PROVE  \A q \in Procs : wr'[q] \in {wr[q], NoRun}
BY DEF TypeOK, Finish

LEMMA ClientVersions ==
  ASSUME IInv, NEW c \in Clients, ClientNext(c)
  PROVE  VersionsMove
<1>. c \in Procs /\ TypeOK
     BY DEF Procs, IInv
<1>. USE DEF VersionsMove, db, procs, SaveRun
<1>. wr \in [Procs -> Run] /\ run \in Run /\ wr[c] \in Run /\ run.version \in Nat
     BY DEF TypeOK, Run
<1>1. ASSUME NEW voice \in BOOLEAN, CreateReport(c, voice) PROVE VersionsMove
      <2>1. run = NoRun
            BY <1>1 DEF CreateReport, IInv, ReadsLicenseWrites, NothingBeforeCreation
      <2>. QED BY <1>1, <2>1 DEF CreateReport, Start
<1>2. ASSUME \/ \E text \in Edits : UpdateRead(c, text)
             \/ ConfirmRead(c) \/ ReadyRead(c) \/ SignRead(c) \/ RetryRead(c)
      PROVE  VersionsMove
      BY <1>2 DEF UpdateRead, ConfirmRead, ReadyRead, SignRead, RetryRead
<1>3. CASE UpdateSave(c) \/ ReadyReadRun(c) \/ SignSave(c) \/ RetryReadRun(c) \/ ManualRead(c)
      BY <1>3 DEF UpdateSave, ReadyReadRun, SignSave, RetryReadRun, ManualRead, ReadRun
<1>4. CASE UpdateCommit(c)
      <2>1. ResumeTo(wr[c], "REVIEW_PENDING").version = wr[c].version + 1
            BY RunMethods DEF WorkflowState
      <2>. QED BY <1>4, <2>1, FinishForgets DEF UpdateCommit
<1>5. CASE ConfirmCommit(c) \/ Abort(c)
      BY <1>5, FinishForgets DEF ConfirmCommit, Abort
<1>6. CASE ReadyCommit(c)
      <2>1. TransitionTo(wr[c], "SIGNATURE_PENDING").version = wr[c].version + 1
            BY RunMethods DEF WorkflowState
      <2>. QED BY <1>6, <2>1, FinishForgets DEF ReadyCommit
<1>7. CASE SignCommit(c)
      BY <1>7, CommittedRuns, FinishForgets DEF SignCommit
<1>8. CASE RetryCommit(c)
      <2>1. RetryTarget(rep[c].status, wr[c]) \in WorkflowState
            BY DEF RetryTarget, WorkflowState
      <2>. DEFINE resumed == ResumeTo(wr[c], RetryTarget(rep[c].status, wr[c]))
      <2>2. resumed.version = wr[c].version + 1
            BY <2>1, RunMethods
      <2>3. run.version = wr[c].version /\ run' = resumed /\ Finish(c)
            BY <1>8 DEF RetryCommit
      <2>. HIDE DEF resumed
      <2>. QED BY <2>2, <2>3, FinishForgets
<1>9. CASE ManualCommit(c)
      BY <1>9, CommittedRuns, FinishForgets DEF ManualCommit
<1>. QED BY <1>1, <1>2, <1>3, <1>4, <1>5, <1>6, <1>7, <1>8, <1>9 DEF ClientNext

LEMMA WorkerVersions ==
  ASSUME IInv, NEW w \in Workers, WorkerNext(w)
  PROVE  VersionsMove
<1>. w \in Procs /\ TypeOK
     BY DEF Procs, IInv
<1>. USE DEF VersionsMove, db, procs, SaveRun, Ack, Acknowledge, Raise
<1>. wr \in [Procs -> Run] /\ run \in Run /\ wr[w] \in Run /\ run.version \in Nat
     BY DEF TypeOK, Run
<1>1. ASSUME \/ \E m \in pending : DropDispatch(w, m) \/ PdfReadReport(w, m)
             \/ \E outcome \in Drafts \union {Template} : PersistRead(w, outcome)
      PROVE  VersionsMove
      BY <1>1 DEF DropDispatch, PdfReadReport, PersistRead
<1>2. ASSUME \/ \E m \in pending : AnalysisLoad(w, m)
             \/ PersistSave(w) \/ PdfReadRun(w) \/ PdfRaised(w) \/ ParkRead(w)
      PROVE  VersionsMove
      BY <1>2 DEF AnalysisLoad, PersistSave, PdfReadRun, PdfRaised, ParkRead, ReadRun
<1>3. CASE \/ AnalysisClaimLost(w) \/ PersistRefused(w)
           \/ ParkSkip(w) \/ ParkConflict(w)
      BY <1>3, FinishForgets
         DEF AnalysisClaimLost, PersistRefused, ParkSkip, ParkConflict
<1>4. CASE AnalysisClaim(w)
      BY <1>4, CommittedRuns DEF AnalysisClaim
<1>5. CASE PersistCommit(w)
      <2>1. rep[w].content \in Content
            BY DEF TypeOK, Report
      <2>2. Outcome(wr[w], rep[w].content).version > wr[w].version
            BY <2>1, CommittedRuns
      <2>. QED BY <1>5, <2>2, FinishForgets DEF PersistCommit
<1>6. CASE PdfCommit(w)
      BY <1>6, CommittedRuns, FinishForgets DEF PdfCommit
<1>7. CASE ParkCommit(w)
      BY <1>7, CommittedRuns, FinishForgets DEF ParkCommit
<1>. QED BY <1>1, <1>2, <1>3, <1>4, <1>5, <1>6, <1>7 DEF WorkerNext

LEMMA SttVersions ==
  ASSUME IInv, NEW s \in SttWorkers, SttNext(s) \/ SttHeartbeat(s)
  PROVE  VersionsMove
<1>. s \in Procs /\ TypeOK
     BY DEF Procs, IInv
<1>. USE DEF VersionsMove, db, procs, SaveRun, Ack, Acknowledge, Raise
<1>. wr \in [Procs -> Run] /\ run \in Run /\ wr[s] \in Run /\ run.version \in Nat
     BY DEF TypeOK, Run
<1>1. ASSUME \/ \E m \in pending : SttDrop(s, m) \/ SttLoad(s, m)
             \/ SttClaimInvalid(s) \/ SttCompleteRead(s) \/ SttRaised(s) \/ SttFailRead(s)
      PROVE  VersionsMove
      BY <1>1 DEF SttDrop, SttLoad, SttClaimInvalid, SttCompleteRead, SttRaised,
                  SttFailRead, ReadRun
<1>2. CASE SttClaimLost(s) \/ SttFailSkip(s) \/ SttFailConflict(s)
      BY <1>2, FinishForgets DEF SttClaimLost, SttFailSkip, SttFailConflict
<1>3. CASE SttClaim(s)
      BY <1>3, CommittedRuns DEF SttClaim
<1>4. CASE SttHeartbeat(s)
      BY <1>4, CommittedRuns DEF SttHeartbeat
<1>5. CASE SttCompleteCommit(s)
      BY <1>5, CommittedRuns, FinishForgets DEF SttCompleteCommit
<1>6. CASE SttFailCommit(s)
      BY <1>6, CommittedRuns, FinishForgets DEF SttFailCommit
<1>. QED BY <1>1, <1>2, <1>3, <1>4, <1>5, <1>6 DEF SttNext

LEMMA VersionsStep ==
  ASSUME IInv, [Next]_vars
  PROVE  VersionsMove
<1>1. ASSUME NEW p \in Workers \union SttWorkers, Crash(p) PROVE VersionsMove
      <2>1. p \in Procs /\ TypeOK
            BY DEF Procs, IInv
      <2>. QED BY <1>1, <2>1, FinishForgets DEF Crash, Raise, VersionsMove
<1>2. CASE UNCHANGED vars
      BY <1>2 DEF vars, VersionsMove
<1>. QED BY <1>1, <1>2, ClientVersions, WorkerVersions, SttVersions DEF Next

LEMMA FreshStep ==
  ASSUME IInv, [Next]_vars
  PROVE  FreshIfUnmodified'
<1>1. TypeOK /\ TypeOK' /\ FreshIfUnmodified /\ VersionsMove
      BY TypeStep, VersionsStep DEF IInv
<1>. SUFFICES ASSUME NEW p \in Procs, wr'[p].state # NoState
              PROVE  /\ wr'[p].version <= run'.version
                     /\ wr'[p].version = run'.version => wr'[p] = run'
     BY DEF FreshIfUnmodified
<1>2. /\ wr[p] \in Run /\ run \in Run /\ run' \in Run
      /\ wr[p].version \in Nat /\ run.version \in Nat /\ run'.version \in Nat
      /\ NoRun.state = NoState /\ NoRun.version = 0
      BY <1>1 DEF TypeOK, Run, NoRun
<1>3. CASE run' = run /\ wr'[p] \in {wr[p], NoRun, run}
      BY <1>1, <1>2, <1>3 DEF FreshIfUnmodified
<1>4. CASE run'.version > run.version /\ wr'[p] \in {wr[p], NoRun}
      BY <1>1, <1>2, <1>4 DEF FreshIfUnmodified
<1>5. CASE run = NoRun /\ run'.version = 0 /\ wr' = wr
      BY <1>1, <1>2, <1>5 DEF FreshIfUnmodified
<1>. QED BY <1>1, <1>3, <1>4, <1>5 DEF VersionsMove

-----------------------------------------------------------------------------
(* What is read licenses what is written *)

LEMMA CreationStep ==
  ASSUME IInv, [Next]_vars
  PROVE  NothingBeforeCreation'
<1>. USE DEF IInv, ReadsLicenseWrites, NothingBeforeCreation, Procs, procs, db
<1>1. CASE report.status = "absent"
      <2>1. run = NoRun /\ pending = {} /\ \A p \in Procs : pc[p] = "idle"
            BY <1>1
      <2>2. ASSUME NEW c \in Clients, ClientNext(c) PROVE report'.status # "absent"
            BY <1>1, <2>1, <2>2
               DEF ClientNext, CreateReport, CreateDraft, NoReport, UpdateRead,
                   UpdateSave, UpdateCommit, ConfirmRead, ConfirmCommit, ReadyRead,
                   ReadyReadRun, ReadyCommit, SignRead, SignSave, SignCommit, RetryRead,
                   RetryReadRun, RetryCommit, ManualRead, ManualCommit, Abort, Requests
      <2>3. ASSUME NEW w \in Workers, WorkerNext(w) PROVE FALSE
            BY <2>1, <2>3
               DEF WorkerNext, AnalysisClaim, AnalysisClaimLost, PersistRead,
                   PersistRefused, PersistSave, PersistCommit, PdfReadRun,
                   PdfCommit, PdfRaised, ParkRead, ParkSkip, ParkCommit, ParkConflict
      <2>4. ASSUME NEW s \in SttWorkers, SttNext(s) \/ SttHeartbeat(s) PROVE FALSE
            BY <2>1, <2>4
               DEF SttNext, SttClaim, SttClaimLost, SttClaimInvalid, SttHeartbeat,
                   SttCompleteRead, SttCompleteCommit, SttRaised, SttFailRead,
                   SttFailSkip, SttFailCommit, SttFailConflict
      <2>5. ASSUME NEW p \in Workers \union SttWorkers, Crash(p) PROVE FALSE
            BY <2>1, <2>5 DEF Crash
      <2>6. CASE UNCHANGED vars
            BY <1>1, <2>1, <2>6 DEF vars
      <2>. QED BY <2>2, <2>3, <2>4, <2>5, <2>6 DEF Next
<1>2. CASE report.status # "absent"
      <2>. SUFFICES report' # report => \E p \in Procs : report' = rep[p] /\ pc[p] \in HoldsReport
           BY <1>2 DEF Licensed
      <2>1. ASSUME NEW c \in Clients, ClientNext(c), report' # report
            PROVE  report' = rep[c] /\ pc[c] \in HoldsReport
            BY <1>2, <2>1
               DEF ClientNext, CreateReport, UpdateRead, HoldsReport,
                   UpdateSave, UpdateCommit, ConfirmRead, ConfirmCommit, ReadyRead,
                   ReadyReadRun, ReadyCommit, SignRead, SignSave, SignCommit, RetryRead,
                   RetryReadRun, RetryCommit, ManualRead, ManualCommit, Abort
      <2>2. ASSUME NEW w \in Workers, WorkerNext(w), report' # report
            PROVE  report' = rep[w] /\ pc[w] \in HoldsReport
            BY <2>2
               DEF WorkerNext, DropDispatch, AnalysisLoad, AnalysisClaim, HoldsReport,
                   AnalysisClaimLost, PersistRead, PersistRefused, PersistSave,
                   PersistCommit, PdfReadReport, PdfReadRun,
                   PdfCommit, PdfRaised, ParkRead, ParkSkip, ParkCommit, ParkConflict
      <2>3. ASSUME NEW s \in SttWorkers, SttNext(s) \/ SttHeartbeat(s) PROVE report' = report
            BY <2>3
               DEF SttNext, SttDrop, SttLoad, SttClaim, SttClaimLost, SttClaimInvalid,
                   SttHeartbeat, SttCompleteRead, SttCompleteCommit, SttRaised,
                   SttFailRead, SttFailSkip, SttFailCommit, SttFailConflict
      <2>4. ASSUME NEW p \in Workers \union SttWorkers, Crash(p) PROVE report' = report
            BY <2>4 DEF Crash
      <2>. QED BY <2>1, <2>2, <2>3, <2>4 DEF Next, vars
<1>. QED BY <1>1, <1>2

\* A transaction that is over, and one that a step leaves alone, keep their licence.
LEMMA LicensedFrame ==
  ASSUME TypeOK, NEW p \in Procs, NEW q \in Procs, Licensed(q)
  PROVE  /\ pc'[q] = pc[q] /\ rep'[q] = rep[q] /\ wr'[q] = wr[q] => Licensed(q)'
         /\ pc'[q] = "idle" => Licensed(q)'
         /\ Finish(p) => Licensed(q)'
<1>1. pc'[q] = pc[q] /\ rep'[q] = rep[q] /\ wr'[q] = wr[q] => Licensed(q)'
      BY DEF Licensed, MayResume
<1>2. pc'[q] = "idle" => Licensed(q)'
      BY DEF Licensed, HoldsReport
<1>3. ASSUME Finish(p)
      PROVE  \/ pc'[q] = "idle"
             \/ pc'[q] = pc[q] /\ rep'[q] = rep[q] /\ wr'[q] = wr[q]
      BY <1>3 DEF Finish, TypeOK
<1>. QED BY <1>1, <1>2, <1>3

LEMMA ClientLicensed ==
  ASSUME IInv, NEW c \in Clients, ClientNext(c), NEW q \in Procs
  PROVE  Licensed(q)'
<1>1. c \in Procs /\ TypeOK /\ Licensed(q)
      BY DEF Procs, IInv, ReadsLicenseWrites
<1>2. pc \in [Procs -> Label] /\ rep \in [Procs -> Report] /\ wr \in [Procs -> Run]
      BY <1>1 DEF TypeOK
<1>. USE <1>1, <1>2, LicensedFrame DEF procs, Goto, HoldReport, ReadRun
<1>3. ASSUME \/ \E voice \in BOOLEAN : CreateReport(c, voice)
             \/ UpdateCommit(c) \/ ConfirmCommit(c) \/ ReadyCommit(c) \/ SignCommit(c)
             \/ RetryCommit(c) \/ ManualCommit(c) \/ Abort(c)
      PROVE  Licensed(q)'
      BY <1>3 DEF CreateReport, UpdateCommit, ConfirmCommit, ReadyCommit, SignCommit,
                  RetryCommit, ManualCommit, Abort
<1>4. ASSUME NEW text \in Edits, UpdateRead(c, text) PROVE Licensed(q)'
      <2>1. UpdateRevision(report, text).status # "absent"
            BY <1>4 DEF UpdateRead, Requests, UpdateRevision, TypeOK, Report
      <2>. QED BY <1>4, <2>1 DEF UpdateRead, Licensed, HoldsReport
<1>5. CASE ConfirmRead(c)
      <2>1. Confirm(report, run.state = "REVIEW_PENDING").status # "absent"
            BY <1>5 DEF ConfirmRead, Requests, Confirm, TypeOK, Report
      <2>. QED BY <1>5, <2>1 DEF ConfirmRead, Licensed, HoldsReport
<1>6. CASE ReadyRead(c)
      <2>1. MarkReadyForSignature(report).status # "absent"
            BY DEF MarkReadyForSignature, TypeOK, Report
      <2>. QED BY <1>6, <2>1 DEF ReadyRead, Licensed, HoldsReport
<1>7. CASE SignRead(c)
      <2>1. Sign(report).status # "absent"
            BY DEF Sign, TypeOK, Report
      <2>. QED BY <1>7, <2>1 DEF SignRead, Licensed, HoldsReport
<1>8. CASE UpdateSave(c) \/ ReadyReadRun(c) \/ SignSave(c)
      BY <1>8 DEF UpdateSave, ReadyReadRun, SignSave, Licensed, HoldsReport
<1>9. CASE RetryRead(c)
      BY <1>9 DEF RetryRead, Licensed, HoldsReport
<1>10. CASE RetryReadRun(c) \/ ManualRead(c)
      BY <1>10 DEF RetryReadRun, ManualRead, Licensed, HoldsReport, MayResume
<1>. QED BY <1>3, <1>4, <1>5, <1>6, <1>7, <1>8, <1>9, <1>10 DEF ClientNext

LEMMA WorkerLicensed ==
  ASSUME IInv, NEW w \in Workers, WorkerNext(w), NEW q \in Procs
  PROVE  Licensed(q)'
<1>1. w \in Procs /\ TypeOK /\ Licensed(q)
      BY DEF Procs, IInv, ReadsLicenseWrites
<1>2. pc \in [Procs -> Label] /\ rep \in [Procs -> Report] /\ wr \in [Procs -> Run]
      BY <1>1 DEF TypeOK
<1>. USE <1>1, <1>2, LicensedFrame DEF procs, Goto, HoldReport, ReadRun, Take, Ack, Acknowledge, Raise
<1>3. ASSUME \/ \E m \in pending : DropDispatch(w, m)
             \/ AnalysisClaimLost(w) \/ PersistRefused(w) \/ PersistCommit(w)
             \/ PdfCommit(w) \/ ParkSkip(w) \/ ParkCommit(w)
             \/ ParkConflict(w)
      PROVE  Licensed(q)'
      BY <1>3 DEF DropDispatch, AnalysisClaimLost, PersistRefused, PersistCommit,
                  PdfCommit, ParkSkip, ParkCommit, ParkConflict
<1>4. ASSUME NEW m \in pending, AnalysisLoad(w, m) PROVE Licensed(q)'
      BY <1>4 DEF AnalysisLoad, Licensed, HoldsReport
<1>5. ASSUME NEW m \in pending, PdfReadReport(w, m) PROVE Licensed(q)'
      <2>1. report.status # "absent"
            BY <1>5 DEF PdfReadReport, Receives, IInv, ReadsLicenseWrites, NothingBeforeCreation
      <2>. QED BY <1>5, <2>1 DEF PdfReadReport, Licensed, HoldsReport
<1>6. CASE AnalysisClaim(w) \/ PdfRaised(w)
      BY <1>6 DEF AnalysisClaim, PdfRaised, Licensed, HoldsReport
<1>7. ASSUME NEW outcome \in Drafts \union {Template}, PersistRead(w, outcome)
      PROVE  Licensed(q)'
      <2>1. ApplyAiUnifiedResult(report, outcome).status # "absent"
            BY <1>7 DEF PersistRead, Editable, ApplyAiUnifiedResult, TypeOK, Report
      <2>. QED BY <1>7, <2>1 DEF PersistRead, Licensed, HoldsReport
<1>8. CASE PersistSave(w)
      <2>1. run.state = "DRAFTING_PENDING"
            BY <1>8 DEF PersistSave, IInv, AnalysisExclusive, Analysing
      <2>. QED BY <1>8, <2>1 DEF PersistSave, Licensed, HoldsReport
<1>9. CASE PdfReadRun(w)
      <2>1. Complete(rep[w]).status # "absent"
            BY DEF Complete, TypeOK, Report
      <2>. QED BY <1>9, <2>1 DEF PdfReadRun, Licensed, HoldsReport
<1>10. CASE ParkRead(w)
      BY <1>10 DEF ParkRead, Licensed, HoldsReport
<1>. QED BY <1>3, <1>4, <1>5, <1>6, <1>7, <1>8, <1>9, <1>10 DEF WorkerNext

LEMMA SttLicensed ==
  ASSUME IInv, NEW s \in SttWorkers, SttNext(s) \/ SttHeartbeat(s), NEW q \in Procs
  PROVE  Licensed(q)'
<1>1. s \in Procs /\ TypeOK /\ Licensed(q)
      BY DEF Procs, IInv, ReadsLicenseWrites
<1>2. pc \in [Procs -> Label] /\ rep \in [Procs -> Report] /\ wr \in [Procs -> Run]
      BY <1>1 DEF TypeOK
<1>. USE <1>1, <1>2, LicensedFrame DEF procs, Goto, ReadRun, Take, Ack, Acknowledge, Raise
<1>3. ASSUME \/ \E m \in pending : SttDrop(s, m)
             \/ SttHeartbeat(s) \/ SttClaimLost(s) \/ SttCompleteCommit(s)
             \/ SttFailSkip(s) \/ SttFailCommit(s) \/ SttFailConflict(s)
      PROVE  Licensed(q)'
      BY <1>3 DEF SttDrop, SttHeartbeat, SttClaimLost, SttCompleteCommit, SttFailSkip,
                  SttFailCommit, SttFailConflict
<1>4. ASSUME NEW m \in pending, SttLoad(s, m) PROVE Licensed(q)'
      BY <1>4 DEF SttLoad, Licensed, HoldsReport
<1>5. CASE SttClaim(s) \/ SttClaimInvalid(s) \/ SttRaised(s)
      BY <1>5 DEF SttClaim, SttClaimInvalid, SttRaised, Licensed, HoldsReport
<1>6. CASE SttCompleteRead(s) \/ SttFailRead(s)
      BY <1>6 DEF SttCompleteRead, SttFailRead, Licensed, HoldsReport
<1>. QED BY <1>3, <1>4, <1>5, <1>6 DEF SttNext

LEMMA LicensedStep ==
  ASSUME IInv, [Next]_vars
  PROVE  ReadsLicenseWrites'
<1>. SUFFICES ASSUME NEW q \in Procs PROVE Licensed(q)'
     BY CreationStep DEF ReadsLicenseWrites, Procs
<1>1. TypeOK /\ Licensed(q)
      BY DEF IInv, ReadsLicenseWrites
<1>2. ASSUME NEW p \in Workers \union SttWorkers, Crash(p) PROVE Licensed(q)'
      <2>1. p \in Procs
            BY <1>2 DEF Procs
      <2>. QED BY <1>1, <1>2, <2>1, LicensedFrame DEF Crash, Raise
<1>3. CASE UNCHANGED vars
      BY <1>1, <1>3, LicensedFrame DEF vars
<1>. QED BY <1>2, <1>3, ClientLicensed, WorkerLicensed, SttLicensed DEF Next

-----------------------------------------------------------------------------
(* How the run moves, and who is analysing it *)

\* A step that is not the business of the analysis: it moves the run legally,
\* completes nothing, leaves a run that is being drafted alone and starts no
\* analysis.
Unrelated ==
  /\ LegalMove(run.state, run'.state)
  /\ pdfs' = pdfs
  /\ run'.state = "COMPLETED" <=> run.state = "COMPLETED"
  /\ run.state = "DRAFTING_PENDING" => run' = run
  /\ Analysing' \subseteq Analysing

LEMMA FinishAnalysis ==
  ASSUME TypeOK, NEW p \in Procs, Finish(p)
  PROVE  Analysing' = Analysing \ {p}
BY DEF TypeOK, Finish, Analysing, Procs

LEMMA GotoAnalysis ==
  ASSUME TypeOK, NEW p \in Procs, NEW label, Goto(p, label),
         label \notin {"analyse", "persist", "persist_saved"}
  PROVE  Analysing' \subseteq Analysing
BY DEF TypeOK, Goto, Analysing, Procs

LEMMA UnrelatedKeeps ==
  ASSUME IInv, Unrelated
  PROVE  AnalysisExclusive' /\ OnePdf'
BY DEF IInv, Unrelated, AnalysisExclusive, OnePdf

LEMMA ClientUnrelated ==
  ASSUME IInv, NEW c \in Clients, ClientNext(c)
  PROVE  Unrelated
<1>1. c \in Procs /\ TypeOK /\ FreshIfUnmodified /\ Licensed(c) /\ wr[c] \in Run
      BY DEF Procs, IInv, ReadsLicenseWrites, TypeOK
<1>. USE <1>1, FinishAnalysis, GotoAnalysis DEF Unrelated, LegalMove, procs, db
<1>2. ASSUME NEW voice \in BOOLEAN, CreateReport(c, voice) PROVE Unrelated
      <2>1. run = NoRun
            BY <1>2 DEF CreateReport, IInv, ReadsLicenseWrites, NothingBeforeCreation
      <2>. QED BY <1>2, <2>1 DEF CreateReport, Start, NoRun, NoState, Analysing
<1>3. ASSUME \/ \E text \in Edits : UpdateRead(c, text)
             \/ UpdateSave(c) \/ ConfirmRead(c) \/ ReadyRead(c) \/ ReadyReadRun(c)
             \/ SignRead(c) \/ SignSave(c) \/ RetryRead(c) \/ RetryReadRun(c) \/ ManualRead(c)
      PROVE  Unrelated
      BY <1>3 DEF UpdateRead, UpdateSave, ConfirmRead, ReadyRead, ReadyReadRun, SignRead,
                  SignSave, RetryRead, RetryReadRun, ManualRead
<1>4. CASE ConfirmCommit(c) \/ Abort(c)
      BY <1>4 DEF ConfirmCommit, Abort
<1>5. CASE UpdateCommit(c)
      <2>1. CASE wr[c].state # "MANUAL_INPUT_REQUIRED"
            BY <1>5, <2>1 DEF UpdateCommit
      <2>2. CASE wr[c].state = "MANUAL_INPUT_REQUIRED"
            <3>1. wr[c] = run /\ run' = ResumeTo(wr[c], "REVIEW_PENDING")
                  BY <1>5, <2>2, WriterIsFresh DEF UpdateCommit, NoState
            <3>2. run'.state = "REVIEW_PENDING"
                  BY <3>1, RunMethods DEF WorkflowState
            <3>. QED BY <1>5, <2>2, <3>1, <3>2 DEF UpdateCommit
      <2>. QED BY <2>1, <2>2
<1>6. CASE ReadyCommit(c)
      <2>1. wr[c].state = "REVIEW_PENDING"
            BY <1>6 DEF ReadyCommit, MayTransition, AllowedTransitions, ForwardTransitions
      <2>2. wr[c] = run /\ run' = TransitionTo(wr[c], "SIGNATURE_PENDING")
            BY <1>6, <2>1, WriterIsFresh DEF ReadyCommit, NoState
      <2>3. run'.state = "SIGNATURE_PENDING"
            BY <2>2, RunMethods DEF WorkflowState
      <2>. QED BY <1>6, <2>1, <2>2, <2>3 DEF ReadyCommit, AllowedTransitions, ForwardTransitions
<1>7. CASE SignCommit(c)
      <2>1. wr[c].state = "SIGNATURE_PENDING"
            BY <1>7 DEF SignCommit, MayTransition, AllowedTransitions, ForwardTransitions
      <2>2. /\ wr[c] = run
            /\ run' = TransitionTo(TransitionTo(wr[c], "FINALIZATION_PENDING"), "PDF_PENDING")
            BY <1>7, <2>1, WriterIsFresh DEF SignCommit, NoState
      <2>3. run'.state = "PDF_PENDING"
            BY <2>2, CommittedRuns
      <2>. QED BY <1>7, <2>1, <2>2, <2>3 DEF SignCommit
<1>8. CASE RetryCommit(c)
      <2>1. wr[c].state \in {"MANUAL_INPUT_REQUIRED", "FAILED"}
            BY <1>8 DEF RetryCommit, Licensed, MayResume
      <2>2. wr[c] = run /\ run' = ResumeTo(wr[c], RetryTarget(rep[c].status, wr[c]))
            BY <1>8, <2>1, WriterIsFresh DEF RetryCommit, NoState
      <2>3. run'.state \in {"TRANSCRIPTION_PENDING", "DRAFTING_PENDING", "PDF_PENDING"}
            <3>1. RetryTarget(rep[c].status, wr[c]) \in
                    {"TRANSCRIPTION_PENDING", "DRAFTING_PENDING", "PDF_PENDING"}
                  BY DEF RetryTarget
            <3>2. RetryTarget(rep[c].status, wr[c]) \in WorkflowState
                  BY <3>1 DEF WorkflowState
            <3>. QED BY <2>2, <3>1, <3>2, RunMethods
      <2>. QED BY <1>8, <2>1, <2>2, <2>3 DEF RetryCommit
<1>9. CASE ManualCommit(c)
      <2>1. wr[c].state = "MANUAL_INPUT_REQUIRED"
            BY <1>9 DEF ManualCommit, Licensed
      <2>2. /\ wr[c] = run
            /\ run' = ResumeTo([wr[c] EXCEPT !.notes = "typed"], "DRAFTING_PENDING")
            BY <1>9, <2>1, WriterIsFresh DEF ManualCommit, NoState
      <2>3. run'.state = "DRAFTING_PENDING"
            BY <2>2, CommittedRuns
      <2>. QED BY <1>9, <2>1, <2>2, <2>3 DEF ManualCommit
<1>. QED BY <1>2, <1>3, <1>4, <1>5, <1>6, <1>7, <1>8, <1>9 DEF ClientNext

LEMMA SttUnrelated ==
  ASSUME IInv, NEW s \in SttWorkers, SttNext(s) \/ SttHeartbeat(s)
  PROVE  Unrelated
<1>1. s \in Procs /\ TypeOK /\ FreshIfUnmodified /\ Licensed(s) /\ wr[s] \in Run /\ run \in Run
      BY DEF Procs, IInv, ReadsLicenseWrites, TypeOK
<1>. USE <1>1, FinishAnalysis, GotoAnalysis
     DEF Unrelated, LegalMove, procs, db, Take, Ack, Acknowledge, Raise
<1>2. ASSUME NEW m \in pending, SttDrop(s, m) PROVE Unrelated
      BY <1>2 DEF SttDrop, Analysing
<1>3. ASSUME NEW m \in pending, SttLoad(s, m) PROVE Unrelated
      BY <1>3 DEF SttLoad
<1>4. CASE \/ SttClaimInvalid(s) \/ SttCompleteRead(s) \/ SttRaised(s) \/ SttFailRead(s)
      BY <1>4 DEF SttClaimInvalid, SttCompleteRead, SttRaised, SttFailRead
<1>5. CASE SttClaimLost(s) \/ SttFailSkip(s) \/ SttFailConflict(s)
      BY <1>5 DEF SttClaimLost, SttFailSkip, SttFailConflict
<1>6. CASE SttClaim(s)
      <2>1. wr[s].state = "TRANSCRIPTION_PENDING"
            BY <1>6 DEF SttClaim, Licensed
      <2>2. wr[s] = run /\ run' = ClaimAttempt(wr[s])
            BY <1>6, <2>1, WriterIsFresh DEF SttClaim, NoState
      <2>3. run'.state = "TRANSCRIPTION_PENDING"
            BY <2>1, <2>2, RunMethods
      <2>. QED BY <1>6, <2>1, <2>2, <2>3 DEF SttClaim
<1>7. CASE SttHeartbeat(s)
      <2>1. run'.state = run.state /\ run.state = "TRANSCRIPTION_PENDING"
            BY <1>7, RunMethods DEF SttHeartbeat
      <2>. QED BY <1>7, <2>1 DEF SttHeartbeat, Analysing
<1>8. CASE SttCompleteCommit(s)
      <2>1. wr[s].state = "TRANSCRIPTION_PENDING"
            BY <1>8 DEF SttCompleteCommit, Licensed
      <2>2. /\ wr[s] = run
            /\ run' = TransitionTo(RecordStepSuccess([wr[s] EXCEPT !.notes = "transcript"]),
                                   "DRAFTING_PENDING")
            BY <1>8, <2>1, WriterIsFresh DEF SttCompleteCommit, NoState
      <2>3. run'.state = "DRAFTING_PENDING"
            BY <2>2, CommittedRuns
      <2>. QED BY <1>8, <2>1, <2>2, <2>3
               DEF SttCompleteCommit, AllowedTransitions, ForwardTransitions
<1>9. CASE SttFailCommit(s)
      <2>1. wr[s].state = "TRANSCRIPTION_PENDING"
            BY <1>9 DEF SttFailCommit, Licensed
      <2>2. wr[s] = run /\ run' = RecordFailure(wr[s], MaxSttAttempts)
            BY <1>9, <2>1, WriterIsFresh DEF SttFailCommit, NoState
      <2>3. run'.state \in {"TRANSCRIPTION_PENDING", "MANUAL_INPUT_REQUIRED"}
            BY <2>1, <2>2, RecordFailureTyped DEF MaxSttAttempts
      <2>. QED BY <1>9, <2>1, <2>2, <2>3
               DEF SttFailCommit, AllowedTransitions, WorkflowState, TerminalStates
<1>. QED BY <1>2, <1>3, <1>4, <1>5, <1>6, <1>7, <1>8, <1>9 DEF SttNext

LEMMA WorkerMoves ==
  ASSUME IInv, NEW w \in Workers, WorkerNext(w)
  PROVE  LegalMove(run.state, run'.state) /\ AnalysisExclusive' /\ OnePdf'
<1>1. w \in Procs /\ TypeOK /\ FreshIfUnmodified /\ Licensed(w) /\ wr[w] \in Run /\ run \in Run
      BY DEF Procs, IInv, ReadsLicenseWrites, TypeOK
<1>2. AnalysisExclusive /\ OnePdf
      BY DEF IInv
<1>. USE <1>1, <1>2, FinishAnalysis, GotoAnalysis DEF LegalMove, procs, db, Take, Ack, Acknowledge, Raise
<1>3. ASSUME \/ \E m \in pending : DropDispatch(w, m) \/ AnalysisLoad(w, m) \/ PdfReadReport(w, m)
             \/ AnalysisClaimLost(w) \/ PersistRefused(w)
             \/ PdfReadRun(w) \/ PdfRaised(w) \/ ParkRead(w) \/ ParkSkip(w) \/ ParkConflict(w)
      PROVE  Unrelated
      BY <1>3 DEF DropDispatch, AnalysisLoad, PdfReadReport, AnalysisClaimLost,
                  PersistRefused, PdfReadRun, PdfRaised, ParkRead, ParkSkip,
                  ParkConflict, Unrelated, Analysing
<1>4. ASSUME Unrelated
      PROVE  LegalMove(run.state, run'.state) /\ AnalysisExclusive' /\ OnePdf'
      BY <1>4, UnrelatedKeeps DEF Unrelated
<1>5. CASE AnalysisClaim(w)
      <2>1. wr[w].state = "DRAFTING_PENDING" /\ ~wr[w].claimed
            BY <1>5 DEF AnalysisClaim, Licensed
      <2>2. wr[w] = run /\ run' = ClaimAttempt(wr[w])
            BY <1>5, <2>1, WriterIsFresh DEF AnalysisClaim, NoState
      <2>3. run'.state = "DRAFTING_PENDING" /\ run'.claimed
            BY <2>1, <2>2, RunMethods
      <2>4. Analysing = {} /\ Analysing' \subseteq {w}
            BY <1>5, <2>1, <2>2 DEF AnalysisClaim, AnalysisExclusive, Analysing, Goto, TypeOK, Procs
      <2>. QED BY <1>5, <2>1, <2>2, <2>3, <2>4 DEF AnalysisClaim, AnalysisExclusive, OnePdf
<1>6. ASSUME (\E outcome \in Drafts \union {Template} : PersistRead(w, outcome)) \/ PersistSave(w)
      PROVE  LegalMove(run.state, run'.state) /\ AnalysisExclusive' /\ OnePdf'
      <2>1. Analysing' = Analysing
            BY <1>6 DEF PersistRead, PersistSave, Goto, Analysing, TypeOK, Procs
      <2>. QED BY <1>6, <2>1 DEF PersistRead, PersistSave, AnalysisExclusive, OnePdf
<1>7. CASE PersistCommit(w)
      <2>1. wr[w].state = "DRAFTING_PENDING" /\ Analysing = {w}
            BY <1>7 DEF PersistCommit, Licensed, AnalysisExclusive, Analysing
      <2>2. wr[w] = run /\ run' = Outcome(wr[w], rep[w].content)
            BY <1>7, <2>1, WriterIsFresh DEF PersistCommit, NoState
      <2>3. run'.state \in {"FAILED", "REVIEW_PENDING"}
            <3>1. rep[w].content \in Content
                  BY DEF TypeOK, Report
            <3>. QED BY <2>2, <3>1, CommittedRuns
      <2>4. Analysing' = {}
            BY <1>7, <2>1 DEF PersistCommit
      <2>. QED BY <1>7, <2>1, <2>2, <2>3, <2>4
               DEF PersistCommit, AnalysisExclusive, OnePdf, AllowedTransitions, ForwardTransitions
<1>8. CASE PdfCommit(w)
      <2>1. wr[w].state = "PDF_PENDING"
            BY <1>8 DEF PdfCommit, Licensed
      <2>2. wr[w] = run /\ run' = TransitionTo(RecordStepSuccess(wr[w]), "COMPLETED")
            BY <1>8, <2>1, WriterIsFresh DEF PdfCommit, NoState
      <2>3. run'.state = "COMPLETED"
            BY <2>2, CommittedRuns
      <2>4. Analysing = {} /\ Analysing' = {}
            BY <1>8, <2>1, <2>2 DEF PdfCommit, AnalysisExclusive
      <2>. QED BY <1>8, <2>1, <2>2, <2>3, <2>4
               DEF PdfCommit, AnalysisExclusive, OnePdf, AllowedTransitions, ForwardTransitions
<1>9. CASE ParkCommit(w)
      <2>1. wr[w].state = "PDF_PENDING"
            BY <1>9 DEF ParkCommit, Licensed
      <2>2. wr[w] = run /\ run' = RecordFailure(wr[w], 1)
            BY <1>9, <2>1, WriterIsFresh DEF ParkCommit, NoState
      <2>3. run'.state \in {"PDF_PENDING", "MANUAL_INPUT_REQUIRED"}
            BY <2>1, <2>2, RecordFailureTyped
      <2>4. Analysing = {} /\ Analysing' = {}
            BY <1>9, <2>1, <2>2 DEF ParkCommit, AnalysisExclusive
      <2>. QED BY <1>9, <2>1, <2>2, <2>3, <2>4
               DEF ParkCommit, AnalysisExclusive, OnePdf, AllowedTransitions, WorkflowState,
                   TerminalStates
<1>. QED BY <1>3, <1>4, <1>5, <1>6, <1>7, <1>8, <1>9 DEF WorkerNext

LEMMA MovesStep ==
  ASSUME IInv, [Next]_vars
  PROVE  LegalMove(run.state, run'.state) /\ AnalysisExclusive' /\ OnePdf'
<1>1. ASSUME NEW p \in Workers \union SttWorkers, Crash(p) PROVE Unrelated
      <2>1. p \in Procs /\ TypeOK
            BY DEF Procs, IInv
      <2>. QED BY <1>1, <2>1, FinishAnalysis DEF Crash, Raise, Unrelated, LegalMove
<1>2. ASSUME UNCHANGED vars PROVE Unrelated
      BY <1>2 DEF vars, Unrelated, LegalMove, Analysing
<1>. QED BY <1>1, <1>2, ClientUnrelated, SttUnrelated, WorkerMoves, UnrelatedKeeps
         DEF Next, Unrelated

-----------------------------------------------------------------------------
(* The theorems *)

LEMMA InvInit == Init => IInv
<1>. SUFFICES ASSUME Init PROVE IInv
     OBVIOUS
<1>1. NoRun.state = NoState /\ NoState # "COMPLETED"
      BY DEF NoRun, NoState
<1>2. Analysing = {}
      BY DEF Init, Analysing, Procs
<1>3. ReadsLicenseWrites
      BY DEF Init, ReadsLicenseWrites, NothingBeforeCreation, Licensed, HoldsReport, Procs
<1>4. FreshIfUnmodified /\ OnePdf
      BY <1>1 DEF Init, FreshIfUnmodified, OnePdf, Procs
<1>. QED BY <1>2, <1>3, <1>4, TypeInit DEF IInv, AnalysisExclusive

LEMMA InvStep == IInv /\ [Next]_vars => IInv'
<1>. SUFFICES ASSUME IInv, [Next]_vars PROVE IInv'
     OBVIOUS
<1>1. TypeOK'
      BY TypeStep DEF IInv
<1>. QED BY <1>1, LicensedStep, FreshStep, MovesStep DEF IInv

THEOREM Invariant == Spec => []IInv
BY InvInit, InvStep, PTL DEF Spec

\* Optimistic locking is sound for any number of requests and workers: a
\* version check that passes has read the row as it is.
THEOREM LockingSound == Spec => []FreshIfUnmodified
<1>1. IInv => FreshIfUnmodified
      BY DEF IInv
<1>. QED BY <1>1, Invariant, PTL

\* What a process has read still licenses what it will write.
THEOREM ReadsLicensed == Spec => []ReadsLicenseWrites
<1>1. IInv => ReadsLicenseWrites
      BY DEF IInv
<1>. QED BY <1>1, Invariant, PTL

\* At most one worker analyses a report, and the run waits for it.
THEOREM AnalysisIsExclusive == Spec => []AnalysisExclusive
<1>1. IInv => AnalysisExclusive
      BY DEF IInv
<1>. QED BY <1>1, Invariant, PTL

\* One PDF is attached to a completed report and none to any other.
THEOREM ExactlyOnePdf == Spec => []OnePdf
<1>1. IInv => OnePdf
      BY DEF IInv
<1>. QED BY <1>1, Invariant, PTL

\* The run takes only the transitions of its table, and resumptions.
THEOREM MovesAreLegal == Spec => RunMovesLegally
<1>1. IInv /\ [Next]_vars => [LegalMove(run.state, run'.state)]_vars
      BY MovesStep
<1>. QED BY <1>1, Invariant, PTL DEF Spec, RunMovesLegally

=============================================================================
