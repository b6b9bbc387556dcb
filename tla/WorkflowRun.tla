----------------------------- MODULE WorkflowRun -----------------------------
(***************************************************************************)
(* The durable workflow record of one report: the row of                   *)
(* workflow.workflow_runs and the methods of the WorkflowRun aggregate.    *)
(* Every operator takes the record as read by a transaction and returns    *)
(* the record that transaction will try to write back.                     *)
(*                                                                         *)
(* Abstracted: last_error (a display code), correlation ids, and the text  *)
(* in input_data, of which only its shape is kept: "voice" says whether it *)
(* holds a transcription entry and "notes" where its drafting notes came   *)
(* from.  next_retry_at is the flag "backoff" (a retry time is set).       *)
(***************************************************************************)
EXTENDS Naturals

WorkflowState ==
  {"COLLECTING_EVIDENCE", "TRANSCRIPTION_PENDING", "DRAFTING_PENDING",
   "REVIEW_PENDING", "SIGNATURE_PENDING", "FINALIZATION_PENDING",
   "PDF_PENDING", "COMPLETED", "MANUAL_INPUT_REQUIRED", "FAILED"}

\* No run row exists before the report is created.
NoState == "NONE"

\* The states from which the workflow alone never moves on.
TerminalStates == {"COMPLETED", "MANUAL_INPUT_REQUIRED", "FAILED"}

\* The forward edges between working states; every working state may also
\* be parked.
ForwardTransitions ==
  {<<"COLLECTING_EVIDENCE", "DRAFTING_PENDING">>,
   <<"TRANSCRIPTION_PENDING", "DRAFTING_PENDING">>,
   <<"DRAFTING_PENDING", "REVIEW_PENDING">>,
   <<"DRAFTING_PENDING", "FAILED">>,
   <<"REVIEW_PENDING", "SIGNATURE_PENDING">>,
   <<"SIGNATURE_PENDING", "FINALIZATION_PENDING">>,
   <<"FINALIZATION_PENDING", "PDF_PENDING">>,
   <<"PDF_PENDING", "COMPLETED">>}

AllowedTransitions ==
  ForwardTransitions \union
  {<<s, "MANUAL_INPUT_REQUIRED">> : s \in WorkflowState \ TerminalStates}

Notes == {"none", "typed", "transcript"}

Run == [state   : WorkflowState \union {NoState},
        attempt : Nat,
        backoff : BOOLEAN,
        version : Nat,
        claimed : BOOLEAN,
        voice   : BOOLEAN,
        notes   : Notes]

NoRun == [state |-> NoState, attempt |-> 0, backoff |-> FALSE, version |-> 0,
          claimed |-> FALSE, voice |-> FALSE, notes |-> "none"]

\* start(): a voice report begins with its recording, a typed one with notes.
Start(voice) ==
  [state   |-> IF voice THEN "TRANSCRIPTION_PENDING" ELSE "DRAFTING_PENDING",
   attempt |-> 0,
   backoff |-> FALSE,
   version |-> 0,
   claimed |-> FALSE,
   voice   |-> voice,
   notes   |-> IF voice THEN "none" ELSE "typed"]

MayTransition(r, target) == <<r.state, target>> \in AllowedTransitions

\* Every method moves state_version on, and two of them count an attempt.
Versioned(r) == [r EXCEPT !.version = @ + 1]
Attempted(r) == [r EXCEPT !.attempt = @ + 1]

TransitionTo(r, target) ==
  Versioned([r EXCEPT !.state = target, !.attempt = 0, !.backoff = FALSE,
                      !.claimed = FALSE])

ClaimAttempt(r) == Versioned([r EXCEPT !.claimed = TRUE])

\* The heartbeat rewrites claimed_at of whatever claim the row holds.
RenewClaim(r) == Versioned(r)

MayResume(r) == r.state \in {"MANUAL_INPUT_REQUIRED", "FAILED"}

\* Mutant: resuming forgets the version.
ResumeToSameVersion(r, target) ==
  [r EXCEPT !.state = target, !.attempt = 0, !.backoff = FALSE, !.claimed = FALSE]

ResumeTo(r, target) ==
  Versioned([r EXCEPT !.state = target, !.attempt = 0, !.backoff = FALSE,
                      !.claimed = FALSE])

\* fail() looks at no state and leaves the claim as it is.
Fail(r) ==
  Versioned([Attempted(r) EXCEPT !.state = "FAILED", !.backoff = FALSE])

RecordStepSuccess(r) == Versioned([r EXCEPT !.attempt = 0, !.backoff = FALSE])

RecordFailure(r, maxAttempts) ==
  LET exhausted == r.attempt + 1 >= maxAttempts IN
  Versioned([Attempted(r) EXCEPT
               !.claimed = FALSE,
               !.state   = IF exhausted THEN "MANUAL_INPUT_REQUIRED" ELSE @,
               !.backoff = ~exhausted])

\* request_dispatch(): the event committed with the run.  The version names
\* the commit that emitted it, as event_id does.
Dispatch(r) == [kind |-> r.state, ver |-> r.version]

Dispatches == [kind : {"TRANSCRIPTION_PENDING", "DRAFTING_PENDING", "PDF_PENDING"},
               ver  : Nat]
=============================================================================
