---------------------------- MODULE ReportScreens ---------------------------
(***************************************************************************)
(* From the request for a report to its PDF, as the web app goes through   *)
(* it: the analysis, draft, edit and signature screens (flow.tsx), the     *)
(* polling of a report (polling.ts) and the answers of the report          *)
(* endpoints (routers/reports.py).                                         *)
(*                                                                         *)
(* The analysis screen runs an effect: it posts the report with a key of   *)
(* its own and polls.  Leaving the screen, "try again" and a change of the *)
(* notes abort the effect, which then finishes the call it is in.  The     *)
(* wait for the PDF is aborted by nothing.  The endpoints are single steps *)
(* here but for the reading of a report, which takes three; their races    *)
(* with each other and with the workers are ReportFulfillment's.           *)
(***************************************************************************)
EXTENDS Naturals, Sequences, FiniteSets

CONSTANTS
    MaxScreens,   \* bound on the analysis screens opened, and so on the keys
    MaxPolls,     \* polls of a wait (90 and 60 in the app)
    MaxCalls,     \* bound on the effects under way
    MaxStack,     \* bound on the navigation stack
    MaxFaults     \* bound on failing calls, lost answers, failing workers and
                  \* screens left under a call

ASSUME ScreensAssumption ==
    /\ MaxScreens \in Nat /\ MaxPolls \in Nat \ {0}
    /\ MaxCalls \in Nat \ {0} /\ MaxStack \in Nat \ {0} /\ MaxFaults \in Nat

VARIABLES
    stack,     \* the navigation stack; the last frame is on display
    opened,    \* analysis screens opened so far; the last one's key
    error,     \* the analysis screen on display shows an error
    draft,     \* the app's draft (DraftState)
    calls,     \* effects and waits under way, aborted ones too
    reports,   \* reports with their runs and PDFs
    faults     \* faults so far

app == <<stack, opened, error, draft, calls>>
vars == <<app, reports, faults>>

\* "away": the screens of the capture; parked: the parameter of the frame that
\* every screen of the flow hands on.
Screens == {"away", "analysis", "draft", "edit", "signature", "completed", "home"}
Frames == [screen : Screens, parked : BOOLEAN]

RunStates == {"TRANSCRIPTION_PENDING", "DRAFTING_PENDING", "REVIEW_PENDING", "SIGNATURE_PENDING",
              "PDF_PENDING", "COMPLETED", "MANUAL_INPUT_REQUIRED", "FAILED"}
Statuses == {"draft", "pending_signature", "signed", "completed"}
Keys == 1..MaxScreens

\* What the app sees of a report, and a report with its run.
Views == [state : RunStates, confirmed : BOOLEAN, pdf : BOOLEAN]
Reports == [key : Keys, status : Statuses, state : RunStates, confirmed : BOOLEAN,
            transcript : BOOLEAN, pdf : BOOLEAN]

\* notes: typed by the technician, or the transcript; voice: a recording is given.
Drafts == [report : Nat, view : Views, voice : BOOLEAN,
           notes : {"none", "typed", "transcript"}]

\* An effect of the analysis screen, or a wait of the signature screen.
\* first: the answer is the one that starts the polling; heard: it has a
\* transcript; aborted: the screen was left or the effect started again.
Calls == [op : {"analysis", "finish"}, aborted : BOOLEAN, key : 0..MaxScreens,
          at : {"create", "retry", "report", "run", "pdf", "answer", "ready", "sign"},
          first : BOOLEAN, report : Nat, view : Views, heard : BOOLEAN,
          left : 0..MaxPolls]

\* The answer that create_report gives.
Fresh(voice) ==
    [state |-> IF voice THEN "TRANSCRIPTION_PENDING" ELSE "DRAFTING_PENDING",
     confirmed |-> FALSE, pdf |-> FALSE]

\* The answers of the endpoints that say the state they led to, and nothing of
\* the PDF.
Told(state) == [state |-> state, confirmed |-> TRUE, pdf |-> FALSE]

NoCall == [op |-> "analysis", aborted |-> FALSE, key |-> 0, at |-> "create", first |-> FALSE,
           report |-> 0, view |-> Told("REVIEW_PENDING"), heard |-> FALSE, left |-> 0]

TypeOK ==
    /\ stack \in Seq(Frames) /\ Len(stack) \in 1..MaxStack
    /\ opened \in 0..MaxScreens
    /\ error \in BOOLEAN
    /\ draft \in Drafts
    /\ calls \subseteq Calls
    /\ reports \in Seq(Reports)
    /\ draft.report \in 0..Len(reports)
    /\ faults \in 0..MaxFaults
    /\ \A c \in calls : c.key <= opened /\ c.report <= Len(reports)
    /\ \A c \in calls : c.at \notin {"create"} => c.report # 0

Init ==
    /\ stack = <<[screen |-> "away", parked |-> FALSE]>>
    /\ opened = 0
    /\ error = FALSE
    /\ \E voice \in BOOLEAN :
         draft = [report |-> 0, view |-> Fresh(voice), voice |-> voice,
                  notes |-> IF voice THEN "none" ELSE "typed"]
    /\ calls = {}
    /\ reports = <<>>
    /\ faults = 0

(* ------------------------- navigation and effects ------------------------ *)

Top == stack[Len(stack)]
On(screen) == Top.screen = screen
Below == SubSeq(stack, 1, Len(stack) - 1)
Frame(screen) == [screen |-> screen, parked |-> Top.parked]

Fault == faults < MaxFaults /\ faults' = faults + 1

Aborted(C) == {[c EXCEPT !.aborted = TRUE] : c \in C}

\* Mutant: every run of the effect has a key of its own.
EffectWithNewKey(key, d) ==
    [NoCall EXCEPT !.key = IF error THEN MaxScreens ELSE key, !.first = TRUE, !.view = Fresh(d.voice)]

\* Mutant: "try again" retries the report, also when there is none yet.
EffectAlwaysRetries(key, d) ==
    [NoCall EXCEPT !.key = key, !.first = TRUE, !.view = Fresh(d.voice),
                   !.at = IF error THEN "retry" ELSE "create", !.report = d.report]

\* The effect of the analysis screen starts, with the screen's key and the
\* draft of this moment: it retries a run that it knows to have failed.
Effect(key, d) ==
    LET fresh == [NoCall EXCEPT !.key = key, !.first = TRUE, !.view = Fresh(d.voice)] IN
    IF d.report # 0 /\ d.view.state = "FAILED"
    THEN [fresh EXCEPT !.at = "retry", !.report = d.report] ELSE fresh

\* Another screen comes on display, with draft d and calls C under way.  What
\* the old screen has running is aborted; an analysis screen starts its effect.
\* A technician who leaves a screen under a call counts as a fault.
Show(newStack, d, C) ==
    /\ Len(newStack) <= MaxStack
    /\ stack' = newStack
    /\ draft' = d
    /\ error' = FALSE
    /\ IF C = calls /\ \E c \in C : ~c.aborted THEN Fault ELSE faults' = faults
    /\ IF newStack[Len(newStack)].screen = "analysis"
       THEN /\ opened < MaxScreens /\ Cardinality(C) < MaxCalls
            /\ opened' = opened + 1
            /\ calls' = Aborted(C) \union {Effect(opened + 1, d)}
       ELSE opened' = opened /\ calls' = Aborted(C)

Navigate(frame, d, C) == Show(Append(stack, frame), d, C)
Replace(frame, d, C) == Show(Append(Below, frame), d, C)

\* The screen stays.  The effect runs again when its key has changed, of which
\* the notes are modelled: recording and photos change on it only by a call of
\* the capture that outlived its screen.
Stay(d, C) ==
    /\ draft' = d
    /\ calls' = IF On("analysis") /\ d.notes # draft.notes
                THEN Aborted(C) \union {Effect(opened, d)}
                ELSE C
    /\ UNCHANGED <<stack, opened, faults>>

\* Call c goes on as e.  An aborted effect drops its first answer.
GoOn(c, e) ==
    /\ calls' = (calls \ {c}) \union (IF c.aborted /\ c.first THEN {} ELSE {e})
    /\ UNCHANGED <<stack, opened, error, draft, faults>>

\* The server did its part, but the answer is lost; the calls in C go on.
Lost(C) == Fault /\ calls' = C /\ UNCHANGED <<stack, opened, error, draft>>

\* pollUntil begins, and goes on after a value that is not the end.
Waiting(c) ==
    [NoCall EXCEPT !.op = c.op, !.aborted = c.aborted, !.at = "report", !.report = c.report,
                   !.left = MaxPolls]
AskAgain(c) == [Waiting(c) EXCEPT !.left = c.left - 1]

(* --------------------------- the analysis effect ------------------------- *)

\* POST /reports: the answer of the first request with the key is given to the
\* others with it.  That the key is kept once a report is made is assumed here: an
\* exception behind the commit releases it (ApiRequests).  What the server finds
\* missing in the evidence is among CallFails.  Without notes the app does not ask.
Create(c) ==
    LET known == {r \in DOMAIN reports : reports[r].key = c.key} IN
    /\ c.at = "create" /\ (draft.voice \/ draft.notes # "none")
    /\ IF known = {}
       THEN /\ reports' = Append(reports,
                 [key |-> c.key, status |-> "draft", state |-> c.view.state,
                  confirmed |-> FALSE, transcript |-> FALSE, pdf |-> FALSE])
            /\ GoOn(c, [c EXCEPT !.at = "answer", !.report = Len(reports) + 1])
       ELSE /\ GoOn(c, [c EXCEPT !.at = "answer", !.report = CHOOSE r \in known : TRUE])
            /\ UNCHANGED reports

\* RetryReportWorkflowHandler: the state a parked or failed run goes back to.
Resumed(r, voice) ==
    IF r.status = "signed" THEN "PDF_PENDING" ELSE Fresh(voice).state
Retryable(r) ==
    r.state \in {"MANUAL_INPUT_REQUIRED", "FAILED"} /\ r.status \in {"draft", "signed"}

\* ReadyForSignatureHandler asks for a confirmed draft whose run is in review.
MayBeSigned(r) == r.status = "draft" /\ r.confirmed /\ r.state = "REVIEW_PENDING"

\* POST /reports/{id}/retry.  The answer is read in a second transaction.
Retry(c) ==
    /\ c.at = "retry" /\ Retryable(reports[c.report])
    /\ reports' = [reports EXCEPT ![c.report].state = Resumed(reports[c.report], draft.voice)]
    /\ GoOn(c, [c EXCEPT !.at = "run", !.view.confirmed = reports[c.report].confirmed])

\* GET /reports/{id}: the report is read in one transaction ...
ReadReport(c) ==
    /\ c.at = "report"
    /\ GoOn(c, [c EXCEPT !.at = "run", !.view.confirmed = reports[c.report].confirmed])
    /\ UNCHANGED reports

\* ... and its run, with the transcript, and then its PDF in another.
ReadRun(c) ==
    /\ c.at = "run"
    /\ GoOn(c, [c EXCEPT !.at = "pdf", !.view.state = reports[c.report].state,
                         !.heard = reports[c.report].transcript])
    /\ UNCHANGED reports

ReadPdf(c) ==
    /\ c.at = "pdf"
    /\ GoOn(c, [c EXCEPT !.at = "answer", !.view.pdf = reports[c.report].pdf])
    /\ UNCHANGED reports

\* The first answer starts the polling, unless the effect was aborted meanwhile.
Started(c) ==
    /\ c.at = "answer" /\ c.first
    /\ Stay(IF c.aborted THEN draft ELSE [draft EXCEPT !.report = c.report, !.view = c.view],
            (calls \ {c}) \union (IF c.aborted THEN {} ELSE {Waiting(c)}))
    /\ UNCHANGED <<error, reports>>

\* onValue, which an aborted effect calls as well.
Seen(c) == [draft EXCEPT !.view = c.view,
                         !.notes = IF c.heard THEN "transcript" ELSE @]

Terminal == {"REVIEW_PENDING", "MANUAL_INPUT_REQUIRED", "FAILED"}
Polled(c) == c.op = "analysis" /\ c.at = "answer" /\ ~c.first

\* The run has come to an end that has a screen.
Settled(c) ==
    /\ Polled(c) /\ ~c.aborted /\ c.view.state \in Terminal \ {"FAILED"}
    /\ Replace(IF c.view.state = "REVIEW_PENDING" THEN Frame("draft")
               ELSE [screen |-> "edit", parked |-> TRUE],
               Seen(c), calls \ {c})
    /\ UNCHANGED reports

\* The run has failed, which the screen shows.
Failed(c) ==
    /\ Polled(c) /\ ~c.aborted /\ c.view.state = "FAILED"
    /\ Stay(Seen(c), calls \ {c})
    /\ error' = TRUE
    /\ UNCHANGED reports

\* Mutant: the polls are not counted.
NotYetUncounted(c) ==
    /\ Polled(c) /\ (c.aborted \/ c.view.state \notin Terminal)
    /\ IF c.aborted THEN Stay(Seen(c), calls \ {c})
       ELSE Stay(Seen(c), (calls \ {c}) \union {Waiting(c)})
    /\ UNCHANGED <<error, reports>>

\* The run is under way: another poll follows, if there is one left and the
\* effect was not aborted.
NotYet(c) ==
    /\ Polled(c) /\ (c.aborted \/ c.view.state \notin Terminal)
    /\ IF c.aborted \/ c.left = 1 \/ Seen(c).notes # draft.notes
       THEN Stay(Seen(c), calls \ {c})
       ELSE Stay(Seen(c), (calls \ {c}) \union {AskAgain(c)})
    /\ error' = (error \/ (~c.aborted /\ c.left = 1 /\ Seen(c).notes = draft.notes))
    /\ UNCHANGED reports

\* A call ends without an answer: the screen shows an error.
Ends(c) ==
    /\ calls' = calls \ {c}
    /\ error' = (error \/ (c.op = "analysis" /\ ~c.aborted))
    /\ UNCHANGED <<stack, opened, draft, reports>>

\* The server refuses the call, or the app does not make it.
Refused(c) ==
    /\ \/ c.at = "create" /\ ~draft.voice /\ draft.notes = "none"
       \/ c.at = "retry" /\ ~Retryable(reports[c.report])
       \/ c.at = "ready" /\ ~MayBeSigned(reports[c.report])
       \/ c.at = "sign" /\ reports[c.report].state # "SIGNATURE_PENDING"
    /\ Ends(c)
    /\ UNCHANGED faults

\* The call fails, or its answer is lost.
CallFails(c) == Ends(c) /\ Fault

(* ------------------------- the analysis screen --------------------------- *)

\* The last screen of the capture leads to the analysis.
Continue == On("away") /\ Navigate(Frame("analysis"), draft, calls) /\ UNCHANGED reports

\* "Review photos", of the analysis after an error and of the parked report, and
\* "recapture" of the draft.
ReviewPhotos ==
    /\ (On("analysis") /\ error) \/ On("draft") \/ (On("edit") /\ Top.parked)
    /\ Replace(Frame("away"), draft, calls)
    /\ UNCHANGED reports

\* "Write manually".
WriteManually == On("analysis") /\ error /\ Navigate(Frame("edit"), draft, calls) /\ UNCHANGED reports

TryAgain ==
    /\ On("analysis") /\ error /\ Cardinality(calls) < MaxCalls
    /\ error' = FALSE
    /\ calls' = Aborted(calls) \union {Effect(opened, draft)}
    /\ UNCHANGED <<stack, opened, draft, reports, faults>>

\* "Return to workspace" and "done"; other visits are VisitCapture's.
Home ==
    /\ Top.screen \in {"analysis", "completed"}
    /\ Show(<<[screen |-> "home", parked |-> FALSE]>>, draft, calls)
    /\ UNCHANGED reports

Back ==
    /\ Top.screen \in {"away", "draft", "edit", "signature"} /\ Len(stack) > 1
    /\ Show(Below, draft, calls)
    /\ UNCHANGED reports

(* ---------------------- the draft and the edit screen -------------------- *)

\* A button's call on the draft's report, which leaves it as r; the app goes on,
\* unless the answer is lost.  A refused call changes nothing.
Pressed(r, goesOn) ==
    /\ reports' = [reports EXCEPT ![draft.report] = r]
    /\ goesOn \/ Lost(calls)

Mine == reports[draft.report]

\* "Retry analysis" of the parked report and "rerun" of the draft: the view
\* stays, and the analysis screen takes it for a report it does not know.
RetryAnalysis ==
    /\ (On("edit") /\ Top.parked) \/ On("draft")
    /\ draft.report # 0 /\ Retryable(Mine)
    /\ Pressed([Mine EXCEPT !.state = Resumed(Mine, draft.voice)],
               Replace(Frame("analysis"), draft, calls))

\* EditReportScreen.save with notes for a run that has no report yet.
SaveTyping ==
    /\ On("edit") /\ draft.report = 0
    /\ \E notes \in {"none", "typed"} :
         Replace(Frame("analysis"), [draft EXCEPT !.notes = notes], calls)
    /\ UNCHANGED reports

\* save with notes for a parked run: ManualTranscriptionHandler.
SaveParked ==
    /\ On("edit") /\ Top.parked /\ draft.report # 0
    /\ Mine.state = "MANUAL_INPUT_REQUIRED"
    /\ LET resumed == [Mine EXCEPT !.state = "DRAFTING_PENDING"]
           view == [state |-> resumed.state, confirmed |-> resumed.confirmed, pdf |-> resumed.pdf]
       IN Pressed(resumed, Replace(Frame("analysis"), [draft EXCEPT !.notes = "typed", !.view = view], calls))

\* save of a revision: UpdateReportRevisionHandler, and then ConfirmReportHandler.
SaveEdit ==
    /\ On("edit") /\ ~Top.parked /\ draft.report # 0 /\ Mine.status = "draft"
    /\ LET edited == [Mine EXCEPT !.confirmed = FALSE,
                        !.state = IF @ = "MANUAL_INPUT_REQUIRED" THEN "REVIEW_PENDING" ELSE @]
       IN \/ Pressed([edited EXCEPT !.confirmed = TRUE],
                     Replace(Frame("draft"), [draft EXCEPT !.view = Told("REVIEW_PENDING")], calls))
          \/ reports' = [reports EXCEPT ![draft.report] = edited] /\ Lost(calls)

OpenEdit == On("draft") /\ Navigate(Frame("edit"), draft, calls) /\ UNCHANGED reports

\* confirmAndContinue: a view that is confirmed needs no call.
ConfirmAndContinue ==
    /\ On("draft") /\ draft.report # 0
    /\ IF draft.view.confirmed
       THEN Navigate(Frame("signature"), draft, calls) /\ UNCHANGED reports
       ELSE /\ Mine.status = "draft"
            /\ Pressed([Mine EXCEPT !.confirmed = TRUE],
                 Navigate(Frame("signature"), [draft EXCEPT !.view = Told("REVIEW_PENDING")], calls))

(* -------------------------- the signature screen ------------------------- *)

SendLink == On("signature") /\ Navigate(Frame("completed"), draft, calls) /\ UNCHANGED reports

\* finishReport goes on from where the app believes the report is.
FinishReport ==
    LET state == draft.view.state
        c == [NoCall EXCEPT !.op = "finish", !.report = draft.report,
                            !.at = IF state = "SIGNATURE_PENDING" THEN "sign" ELSE "ready"]
    IN
    /\ On("signature") /\ draft.report # 0 /\ Cardinality(calls) < MaxCalls
    /\ \A d \in calls : d.op = "finish" => d.aborted
    /\ IF state = "COMPLETED"
       THEN Navigate(Frame("completed"), draft, calls)
       ELSE /\ Stay(draft, calls \union {IF state = "PDF_PENDING" THEN Waiting(c) ELSE c})
            /\ UNCHANGED error
    /\ UNCHANGED reports

\* ReadyForSignatureHandler.
Ready(c) ==
    LET r == reports[c.report] IN
    /\ c.at = "ready" /\ MayBeSigned(r)
    /\ reports' = [reports EXCEPT ![c.report].status = "pending_signature",
                                  ![c.report].state = "SIGNATURE_PENDING"]
    /\ \/ /\ Stay([draft EXCEPT !.view = Told("SIGNATURE_PENDING")],
                 (calls \ {c}) \union {[c EXCEPT !.at = "sign"]})
          /\ UNCHANGED error
       \/ Lost(calls \ {c})

\* SignReportHandler, once the picture of the signature is attached.  The answer
\* may be lost, as that of Ready.  The code stops if the screen is left before the
\* picture is drawn; here the signature may follow all the same.
Sign(c) ==
    LET r == reports[c.report] IN
    /\ c.at = "sign" /\ r.state = "SIGNATURE_PENDING"
    /\ reports' = [reports EXCEPT ![c.report].status = "signed", ![c.report].state = "PDF_PENDING"]
    /\ \/ /\ Stay([draft EXCEPT !.view = Told("PDF_PENDING")], (calls \ {c}) \union {Waiting(c)})
          /\ UNCHANGED error
       \/ Lost(calls \ {c})

\* The rest of waitForCompletion: nobody asks which screen is on display.
Completed(c) ==
    /\ c.op = "finish" /\ c.at = "answer"
    /\ CASE c.view.state = "COMPLETED" ->
              Navigate(Frame("completed"), [draft EXCEPT !.view = c.view], calls \ {c})
         [] c.view.state = "MANUAL_INPUT_REQUIRED" ->
              Stay([draft EXCEPT !.view = c.view], calls \ {c}) /\ UNCHANGED error
         [] c.view.state \notin {"COMPLETED", "MANUAL_INPUT_REQUIRED"} ->
              /\ Stay(draft, (calls \ {c}) \union
                        IF c.left = 1 THEN {} ELSE {AskAgain(c)})
              /\ UNCHANGED error
    /\ UNCHANGED reports

(* -------------------------------- workers -------------------------------- *)

\* Mutant: the run is completed before the PDF is attached.
FinishedEarly(r) == [r EXCEPT !.state = "COMPLETED", !.status = "completed"]

\* The PDF is attached and the run completed in one transaction.
Finished(r) == [r EXCEPT !.state = "COMPLETED", !.status = "completed", !.pdf = TRUE]

\* What the workers do to a report and its run.
Worked(r) ==
    CASE r.state = "TRANSCRIPTION_PENDING" ->
           {[r EXCEPT !.state = "DRAFTING_PENDING", !.transcript = TRUE],
            [r EXCEPT !.state = "MANUAL_INPUT_REQUIRED"]}
      [] r.state = "DRAFTING_PENDING" /\ r.status = "draft" ->
           {[r EXCEPT !.state = s] : s \in Terminal}
      [] r.state = "PDF_PENDING" ->
           {Finished(r), [r EXCEPT !.state = "MANUAL_INPUT_REQUIRED"]}
      [] OTHER -> {}

Work(i) ==
    /\ \E r \in Worked(reports[i]) : reports' = [reports EXCEPT ![i] = r]
    /\ UNCHANGED app
    /\ IF reports'[i].state \in {"MANUAL_INPUT_REQUIRED", "FAILED"} THEN Fault ELSE faults' = faults

(* ------------------------------ specification ---------------------------- *)

EffectStep(c) ==
    \/ Create(c) \/ Retry(c) \/ ReadReport(c) \/ ReadRun(c) \/ ReadPdf(c)
    \/ Started(c) \/ Settled(c) \/ Failed(c) \/ NotYet(c)
    \/ Refused(c) \/ CallFails(c)

WaitStep(c) == Ready(c) \/ Sign(c) \/ Completed(c)

UserStep ==
    \/ Continue \/ ReviewPhotos \/ WriteManually \/ TryAgain \/ Home \/ Back
    \/ RetryAnalysis \/ SaveTyping \/ SaveParked \/ SaveEdit \/ OpenEdit
    \/ ConfirmAndContinue \/ SendLink \/ FinishReport

Next ==
    \/ \E c \in calls : EffectStep(c) \/ WaitStep(c)
    \/ UserStep
    \/ \E i \in DOMAIN reports : Work(i)

Spec == Init /\ [][Next]_vars

\* The browser runs the effect on display and every fetch is answered or fails.
\* Nothing is assumed of the technician, the workers or aborted effects.
LiveEffectStep == \E c \in calls : c.op = "analysis" /\ ~c.aborted /\ EffectStep(c)

FairSpec == Spec /\ WF_vars(LiveEffectStep)

(* ------------------------------- properties ------------------------------ *)

\* However often the effect of an analysis screen runs again -- "try again"
\* after a timeout or a lost answer, a transcript that changes the notes, a
\* retry -- it posts with the screen's one key, and so makes one report as long
\* as the server keeps the key of a report it has made (see Create): each report
\* has the key of a screen that was opened, and no two the same
\* (flow.tsx:767, 802-810).
OneReportPerScreen ==
    /\ \A i \in DOMAIN reports : reports[i].key \in 1..opened
    /\ \A i, j \in DOMAIN reports : reports[i].key = reports[j].key => i = j

\* A report the app shows as completed has its PDF in the same view, which the
\* completed screen opens: the run and the PDF are read one after the other
\* while the worker commits (routers/reports.py:170-173, generate_pdf.py).
CompletedHasPdf ==
    /\ draft.view.state = "COMPLETED" => draft.view.pdf
    /\ \A c \in calls : c.at = "answer" /\ c.view.state = "COMPLETED" => c.view.pdf

\* polling.ts:16-19: "a caller can always leave its loading state -- there is
\* no path that polls forever", whatever becomes of the run.
LoadingEnds == (On("analysis") /\ ~error) ~> ~(On("analysis") /\ ~error)
=============================================================================
