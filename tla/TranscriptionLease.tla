------------------------- MODULE TranscriptionLease -------------------------
(***************************************************************************)
(* The transcription of one recording, on a clock: the lease on the run's  *)
(* claim, the heartbeats that renew it, and the redelivery of a message    *)
(* that was pending for too long.  The lease and the redelivery are timed  *)
(* separately, by Postgres rows and by Redis, and meet when a worker dies. *)
(*                                                                         *)
(* A tick is CLAIM_HEARTBEAT_SECONDS.  What takes much less is immediate:  *)
(* a transaction, the poll of the stream (_BLOCK_MS), the pauses between   *)
(* tries (2 to 4 seconds, which also wait out next_retry_at).  Races       *)
(* between transactions are the business of ReportFulfillment, duplicates  *)
(* and batches that of OutboxDelivery; here transactions are atomic and a  *)
(* worker takes one message at a time.                                     *)
(***************************************************************************)
EXTENDS Naturals, FiniteSets

CONSTANTS
  Workers,      \* processes of apps/stt_worker
  Lease,        \* CLAIM_LEASE_SECONDS, in ticks
  Stale,        \* _STALE_PENDING_MS, in ticks
  MaxPrepare,   \* bound: ticks that download and inspection take at most
  MaxAttempts,  \* record_failure(max_attempts = 3)
  MaxTries,     \* _MAX_ATTEMPTS of the dispatch loop
  MaxCrashes,   \* bound: processes that die
  MaxOutages    \* bound: transactions that fail for want of the database

ASSUME LeaseAssumption ==
  /\ Lease \in Nat /\ Lease >= 2
  /\ {Stale, MaxAttempts, MaxTries} \subseteq Nat \ {0}
  /\ {MaxPrepare, MaxCrashes, MaxOutages} \subseteq Nat

\* A message is a TranscriptionDispatchRequested; each failed attempt but the
\* last requests another.
Messages == 1..MaxAttempts

VARIABLES
  valid,    \* the report's media asset is an attached recording of its visit
  state,    \* of the run: transcribing, drafting, or parked for a human
  attempt,  \* failed attempts
  claimed,  \* claimed_at is set
  lease,    \* ticks until the claim may be taken over
  message,  \* per message: where it is
  idle,     \* per message: ticks since its delivery
  pc,       \* per worker
  job,      \* per worker: its message
  tries,    \* per worker: tries of the handler that raised
  quiet,    \* per worker: ticks since it claimed, or since its last heartbeat
  late,     \* a download or an inspection has left the first heartbeat no time
  crashes, outages

run    == <<valid, state, attempt, claimed, lease>>
broker == <<message, idle>>
worker == <<pc, job, tries, quiet>>
faults == <<late, crashes, outages>>
vars   == <<valid, state, attempt, claimed, lease, message, idle, pc, job, tries, quiet,
            late, crashes, outages>>

Init ==
  /\ valid \in BOOLEAN
  /\ state = "transcribing" /\ attempt = 0 /\ claimed = FALSE /\ lease = 0
  /\ message = [m \in Messages |-> IF m = 1 THEN "sent" ELSE "unsent"]
  /\ idle = [m \in Messages |-> 0]
  /\ pc = [w \in Workers |-> "idle"]
  /\ job = [w \in Workers |-> 1]
  /\ tries = [w \in Workers |-> 0]
  /\ quiet = [w \in Workers |-> 0]
  /\ late = FALSE /\ crashes = 0 /\ outages = 0

\* The worker goes on to the step at; Return also settles its message, which
\* is recorded in the inbox and acknowledged.
Goto(w, at) == pc' = [pc EXCEPT ![w] = at]

Return(w) ==
  /\ Goto(w, "idle")
  /\ message' = [message EXCEPT ![job[w]] = "done"]

Claimable == state = "transcribing" /\ (~ claimed \/ lease = 0)

-----------------------------------------------------------------------------
(* Delivery *)

Fetchable(m) == message[m] = "sent" \/ (message[m] = "pending" /\ idle[m] >= Stale)

Fetch(w, m) ==
  /\ pc[w] = "idle" /\ Fetchable(m)
  /\ message' = [message EXCEPT ![m] = "pending"]
  /\ idle' = [idle EXCEPT ![m] = 0]
  /\ job' = [job EXCEPT ![w] = m]
  /\ tries' = [tries EXCEPT ![w] = 0]
  /\ Goto(w, "claim")
  /\ UNCHANGED <<run, quiet, faults>>

-----------------------------------------------------------------------------
(* TranscribeAudioActivity.run *)

Claim(w) ==
  /\ pc[w] = "claim"
  /\ Claimable /\ valid
  /\ claimed' = TRUE /\ lease' = Lease
  /\ quiet' = [quiet EXCEPT ![w] = 0]
  /\ Goto(w, "prepare")
  /\ UNCHANGED <<valid, state, attempt, broker, job, tries, faults>>

\* Somebody else holds the claim, or the run is elsewhere: nothing to do, and
\* the message is settled.
ClaimRefused(w) ==
  /\ pc[w] = "claim"
  /\ ~ Claimable
  /\ Return(w)
  /\ UNCHANGED <<run, idle, job, tries, quiet, faults>>

\* There is no valid recording; the claim is rolled back.
ClaimInvalid(w) ==
  /\ pc[w] = "claim"
  /\ Claimable /\ ~ valid
  /\ Goto(w, "fail")
  /\ UNCHANGED <<run, broker, job, tries, quiet, faults>>

\* Downloaded and inspected: the transcription starts, and its heartbeat.
Prepared(w) ==
  /\ pc[w] = "prepare"
  /\ quiet' = [quiet EXCEPT ![w] = 0]
  /\ Goto(w, "transcribe")
  /\ UNCHANGED <<run, broker, job, tries, faults>>

\* The recording is too large or not what it says it is, its transcript is no
\* use, a service does not answer, or the run has moved on in the meantime.
AttemptFails(w) ==
  /\ pc[w] \in {"prepare", "transcribe"}
  /\ Goto(w, "fail")
  /\ UNCHANGED <<run, broker, job, tries, quiet, faults>>

\* Mutant: the heartbeat is not saved.
HeartbeatUnsaved(w) ==
  /\ pc[w] = "transcribe" /\ quiet[w] = 1
  /\ quiet' = [quiet EXCEPT ![w] = 0]
  /\ UNCHANGED <<run, broker, pc, job, tries, faults>>

\* Renews whatever claim the run has.
Heartbeat(w) ==
  /\ pc[w] = "transcribe" /\ quiet[w] = 1
  /\ quiet' = [quiet EXCEPT ![w] = 0]
  /\ lease' = IF state = "transcribing" /\ claimed THEN Lease ELSE lease
  /\ UNCHANGED <<valid, state, attempt, claimed, broker, pc, job, tries, faults>>

Complete(w) ==
  /\ pc[w] = "transcribe"
  /\ state = "transcribing" /\ claimed
  /\ state' = "drafting" /\ attempt' = 0 /\ claimed' = FALSE /\ lease' = 0
  /\ Return(w)
  /\ UNCHANGED <<valid, idle, job, tries, quiet, faults>>

-----------------------------------------------------------------------------
(* fail_transcription *)

\* Mutant: a failed attempt that is not the last keeps its claim.
FailClaimed(w) ==
  /\ pc[w] = "fail"
  /\ state = "transcribing" /\ attempt + 1 < MaxAttempts
  /\ attempt' = attempt + 1
  /\ message' = [message EXCEPT ![job[w]] = "done", ![attempt + 2] = "sent"]
  /\ Goto(w, "idle")
  /\ UNCHANGED <<valid, state, claimed, lease, idle, job, tries, quiet, faults>>

FailAgain(w) ==
  /\ pc[w] = "fail"
  /\ state = "transcribing" /\ attempt + 1 < MaxAttempts
  /\ attempt' = attempt + 1 /\ claimed' = FALSE /\ lease' = 0
  /\ message' = [message EXCEPT ![job[w]] = "done", ![attempt + 2] = "sent"]
  /\ Goto(w, "idle")
  /\ UNCHANGED <<valid, state, idle, job, tries, quiet, faults>>

\* Mutant: the last failure forgets to park the run.
FailUnparked(w) ==
  /\ pc[w] = "fail"
  /\ state = "transcribing" /\ attempt + 1 >= MaxAttempts
  /\ attempt' = attempt + 1 /\ claimed' = FALSE /\ lease' = 0
  /\ Return(w)
  /\ UNCHANGED <<valid, state, idle, job, tries, quiet, faults>>

FailForGood(w) ==
  /\ pc[w] = "fail"
  /\ state = "transcribing" /\ attempt + 1 >= MaxAttempts
  /\ state' = "parked"
  /\ attempt' = attempt + 1 /\ claimed' = FALSE /\ lease' = 0
  /\ Return(w)
  /\ UNCHANGED <<valid, idle, job, tries, quiet, faults>>

FailTooLate(w) ==
  /\ pc[w] = "fail"
  /\ state # "transcribing"
  /\ Return(w)
  /\ UNCHANGED <<run, idle, job, tries, quiet, faults>>

\* The database is away while a claim or a failure is written: the handler
\* raises, and the dispatch loop tries the whole of it again, until it has
\* tried often enough and leaves the message pending.
Outage(w) ==
  /\ pc[w] \in {"claim", "fail"}
  /\ outages < MaxOutages
  /\ outages' = outages + 1
  /\ tries' = [tries EXCEPT ![w] = @ + 1]
  /\ Goto(w, IF tries[w] + 1 < MaxTries THEN "claim" ELSE "idle")
  /\ UNCHANGED <<run, broker, job, quiet, late, crashes>>

-----------------------------------------------------------------------------
(* Crashes and time *)

Crash(w) ==
  /\ pc[w] # "down"
  /\ crashes < MaxCrashes
  /\ crashes' = crashes + 1
  /\ Goto(w, "down")
  /\ UNCHANGED <<run, broker, job, tries, quiet, late, outages>>

Restart(w) ==
  /\ pc[w] = "down"
  /\ Goto(w, "idle")
  /\ UNCHANGED <<run, broker, job, tries, quiet, faults>>

\* A worker that is about to do something that takes no time.
Busy(w) ==
  \/ pc[w] \in {"claim", "fail"}
  \/ pc[w] = "idle" /\ \E m \in Messages : Fetchable(m)
  \/ pc[w] = "prepare" /\ quiet[w] >= MaxPrepare
  \/ pc[w] = "transcribe" /\ quiet[w] = 1

Tick ==
  /\ \A w \in Workers : ~ Busy(w)
  /\ lease' = IF lease > 0 THEN lease - 1 ELSE 0
  /\ idle' = [m \in Messages |->
                IF message[m] = "pending" /\ idle[m] < Stale THEN idle[m] + 1 ELSE idle[m]]
  /\ quiet' = [w \in Workers |->
                 IF pc[w] \in {"prepare", "transcribe"} THEN quiet[w] + 1 ELSE quiet[w]]
  /\ late' = (late \/ \E w \in Workers : pc[w] = "prepare" /\ quiet[w] + 2 >= Lease)
  /\ UNCHANGED <<valid, state, attempt, claimed, message, pc, job, tries, crashes, outages>>

Work(w) ==
  \/ \E m \in Messages : Fetch(w, m)
  \/ Claim(w) \/ ClaimRefused(w) \/ ClaimInvalid(w)
  \/ Heartbeat(w)
  \/ FailAgain(w) \/ FailForGood(w) \/ FailTooLate(w)
  \/ Restart(w)

\* What the services decide.
Outcome(w) == Prepared(w) \/ AttemptFails(w) \/ Complete(w)

Next ==
  \/ \E w \in Workers : Work(w) \/ Outcome(w) \/ Outage(w) \/ Crash(w)
  \/ Tick

Spec == Init /\ [][Next]_vars

\* Time passes, workers go on and are restarted, and every download, inspection
\* and transcription has an outcome.
Fairness ==
  /\ WF_vars(Tick)
  /\ \A w \in Workers : WF_vars(Work(w)) /\ WF_vars(Outcome(w))

FairSpec == Spec /\ Fairness

-----------------------------------------------------------------------------
TypeOK ==
  /\ valid \in BOOLEAN
  /\ state \in {"transcribing", "drafting", "parked"}
  /\ attempt \in 0..MaxAttempts
  /\ attempt = MaxAttempts <=> state = "parked"
  /\ claimed \in BOOLEAN
  /\ lease \in 0..Lease
  /\ message \in [Messages -> {"unsent", "sent", "pending", "done"}]
  /\ idle \in [Messages -> 0..Stale]
  /\ pc \in [Workers -> {"idle", "claim", "prepare", "transcribe", "fail", "down"}]
  /\ job \in [Workers -> Messages]
  /\ tries \in [Workers -> Nat]
  /\ quiet \in [Workers -> Nat]
  /\ late \in BOOLEAN
  /\ crashes \in Nat
  /\ outages \in Nat

Transcribers == {w \in Workers : pc[w] \in {"prepare", "transcribe"}}

\* A recording that still waits for its transcript is worked on by one worker at
\* a time, although messages are redelivered while a slow transcription runs:
\* the heartbeats keep the lease ahead of the clock, if download and inspection
\* have left the first of them the time (transcribe_audio.py,
\* _transcribe_with_heartbeat).
OneTranscriber ==
  state = "transcribing" /\ ~ late => Cardinality(Transcribers) <= 1

\* A run that waits for its transcript is attended to: a message for it is on
\* its way, or a worker is at it.  Redelivery is there to recover what a dead
\* worker left behind (streams.py, consume).
Attended ==
  state = "transcribing" =>
    \/ \E m \in Messages : message[m] \in {"sent", "pending"}
    \/ \E w \in Workers : pc[w] \in {"claim", "prepare", "transcribe", "fail"}

Undisturbed == crashes = 0 /\ outages = 0

\* Unless a worker dies or the database is away on the way, every recording is
\* transcribed or parked for a human in the end.
TranscriptionEnds ==
  state = "transcribing" /\ Undisturbed ~> state # "transcribing" \/ ~ Undisturbed
=============================================================================
