---------------------- MODULE TranscriptionLeaseProofs ----------------------
(***************************************************************************)
(* Heartbeats keep a recording in the hands of one worker, for any number  *)
(* of workers, any lease of two heartbeats or more and any redelivery      *)
(* time, through crashes and outages.                                      *)
(***************************************************************************)
EXTENDS TranscriptionLease, FiniteSetTheorems, TLAPS

-----------------------------------------------------------------------------
(* The inductive invariant *)

\* Who works under the run's claim, or is about to give it back.
Holding(w) ==
  \/ pc[w] \in {"prepare", "transcribe"}
  \/ pc[w] = "fail" /\ valid

\* The claim of a worker that is at it is live, and will be when its next
\* heartbeat is due.
Live(w) ==
  /\ Holding(w) => valid /\ claimed /\ lease > 0
  /\ pc[w] = "prepare" => lease + quiet[w] >= Lease /\ quiet[w] + 2 <= Lease
  /\ pc[w] = "transcribe" => quiet[w] <= 1 /\ lease + quiet[w] >= 2

InTime == state = "transcribing" /\ ~ late

Alone ==
  InTime =>
    /\ \A w \in Workers : Live(w)
    /\ \A v, w \in Workers : Holding(v) /\ Holding(w) => v = w

IInv == TypeOK /\ Alone

-----------------------------------------------------------------------------
(* Type correctness *)

LEMMA ConstantsTyped ==
  /\ Lease \in Nat /\ Lease >= 2
  /\ Stale \in Nat /\ Stale >= 1
  /\ MaxAttempts \in Nat /\ MaxAttempts >= 1
  /\ 1 \in Messages
BY LeaseAssumption DEF Messages

LEMMA InitInvariant == Init => IInv
<1>. SUFFICES ASSUME Init PROVE IInv
     OBVIOUS
<1>1. TypeOK
  <2>1. message \in [Messages -> {"unsent", "sent", "pending", "done"}]
        BY DEF Init
  <2>2. idle \in [Messages -> 0..Stale] /\ job \in [Workers -> Messages]
        BY ConstantsTyped DEF Init
  <2>3. /\ attempt \in 0..MaxAttempts /\ lease \in 0..Lease
        /\ attempt = MaxAttempts <=> state = "parked"
        BY ConstantsTyped DEF Init
  <2>4. valid \in BOOLEAN /\ claimed \in BOOLEAN /\ late \in BOOLEAN
        BY DEF Init
  <2>. QED BY <2>1, <2>2, <2>3, <2>4 DEF Init, TypeOK
<1>2. Alone
      BY DEF Init, Alone, Live, Holding
<1>. QED BY <1>1, <1>2 DEF IInv

LEMMA TypeKept ==
  ASSUME TypeOK, [Next]_vars
  PROVE  TypeOK'
<1>. USE ConstantsTyped DEF TypeOK, Goto, Return, run, broker, faults
<1>1. ASSUME NEW w \in Workers, NEW m \in Messages, Fetch(w, m)
      PROVE  TypeOK'
      BY <1>1 DEF Fetch
<1>2. ASSUME NEW w \in Workers, Claim(w)
      PROVE  TypeOK'
      BY <1>2 DEF Claim
<1>3. ASSUME NEW w \in Workers, ClaimRefused(w)
      PROVE  TypeOK'
      BY <1>3 DEF ClaimRefused
<1>4. ASSUME NEW w \in Workers, ClaimInvalid(w)
      PROVE  TypeOK'
      BY <1>4 DEF ClaimInvalid
<1>5. ASSUME NEW w \in Workers, Prepared(w)
      PROVE  TypeOK'
      BY <1>5 DEF Prepared
<1>6. ASSUME NEW w \in Workers, AttemptFails(w)
      PROVE  TypeOK'
      BY <1>6 DEF AttemptFails
<1>7. ASSUME NEW w \in Workers, Heartbeat(w)
      PROVE  TypeOK'
      BY <1>7 DEF Heartbeat
<1>8. ASSUME NEW w \in Workers, Complete(w)
      PROVE  TypeOK'
  <2>1. attempt' \in 0..MaxAttempts /\ lease' \in 0..Lease /\ state' \in {"transcribing", "drafting", "parked"}
        BY <1>8 DEF Complete
  <2>2. attempt' = MaxAttempts <=> state' = "parked"
        BY <1>8 DEF Complete
  <2>3. claimed' \in BOOLEAN
        BY <1>8 DEF Complete
  <2>4. /\ message' \in [Messages -> {"unsent", "sent", "pending", "done"}]
        /\ pc' \in [Workers -> {"idle", "claim", "prepare", "transcribe", "fail", "down"}]
        BY <1>8 DEF Complete
  <2>5. UNCHANGED <<valid, idle, job, tries, quiet, faults>>
        BY <1>8 DEF Complete
  <2>. QED BY <2>1, <2>2, <2>3, <2>4, <2>5
<1>9. ASSUME NEW w \in Workers, FailAgain(w)
      PROVE  TypeOK'
  <2>1. attempt' \in 0..MaxAttempts /\ lease' \in 0..Lease /\ state' \in {"transcribing", "drafting", "parked"}
        BY <1>9 DEF FailAgain
  <2>2. attempt' = MaxAttempts <=> state' = "parked"
        BY <1>9 DEF FailAgain
  <2>3. claimed' \in BOOLEAN
        BY <1>9 DEF FailAgain
  <2>4. /\ message' \in [Messages -> {"unsent", "sent", "pending", "done"}]
        /\ pc' \in [Workers -> {"idle", "claim", "prepare", "transcribe", "fail", "down"}]
        BY <1>9 DEF FailAgain
  <2>5. UNCHANGED <<valid, idle, job, tries, quiet, faults>>
        BY <1>9 DEF FailAgain
  <2>. QED BY <2>1, <2>2, <2>3, <2>4, <2>5
<1>10. ASSUME NEW w \in Workers, FailForGood(w)
      PROVE  TypeOK'
  <2>1. attempt' \in 0..MaxAttempts /\ lease' \in 0..Lease /\ state' \in {"transcribing", "drafting", "parked"}
        BY <1>10 DEF FailForGood
  <2>2. attempt' = MaxAttempts <=> state' = "parked"
        BY <1>10 DEF FailForGood
  <2>3. claimed' \in BOOLEAN
        BY <1>10 DEF FailForGood
  <2>4. /\ message' \in [Messages -> {"unsent", "sent", "pending", "done"}]
        /\ pc' \in [Workers -> {"idle", "claim", "prepare", "transcribe", "fail", "down"}]
        BY <1>10 DEF FailForGood
  <2>5. UNCHANGED <<valid, idle, job, tries, quiet, faults>>
        BY <1>10 DEF FailForGood
  <2>. QED BY <2>1, <2>2, <2>3, <2>4, <2>5
<1>11. ASSUME NEW w \in Workers, FailTooLate(w)
      PROVE  TypeOK'
      BY <1>11 DEF FailTooLate
<1>12. ASSUME NEW w \in Workers, Outage(w)
      PROVE  TypeOK'
      BY <1>12 DEF Outage
<1>13. ASSUME NEW w \in Workers, Crash(w)
      PROVE  TypeOK'
      BY <1>13 DEF Crash
<1>14. ASSUME NEW w \in Workers, Restart(w)
      PROVE  TypeOK'
      BY <1>14 DEF Restart
<1>15. CASE Tick
      BY <1>15 DEF Tick
<1>16. CASE UNCHANGED vars
      BY <1>16 DEF vars
<1>. QED
      BY <1>1, <1>2, <1>3, <1>4, <1>5, <1>6, <1>7, <1>8, <1>9, <1>10, <1>11, <1>12, <1>13,
         <1>14, <1>15, <1>16 DEF Next, Work, Outcome

-----------------------------------------------------------------------------
(* One worker under the claim *)

\* The run cannot come back into time once it has left it.
LEMMA InTimeBefore ==
  ASSUME [Next]_vars, InTime'
  PROVE  InTime /\ valid' = valid
<1>. USE DEF InTime, run, faults
<1>1. ASSUME NEW w \in Workers, Work(w)
      PROVE  InTime /\ valid' = valid
  <2>1. CASE \E m \in Messages : Fetch(w, m)
        BY <2>1 DEF Fetch
  <2>2. CASE Claim(w) \/ ClaimRefused(w) \/ ClaimInvalid(w) \/ Heartbeat(w)
        BY <2>2 DEF Claim, ClaimRefused, ClaimInvalid, Heartbeat
  <2>3. CASE FailAgain(w) \/ FailForGood(w) \/ FailTooLate(w) \/ Restart(w)
        BY <2>3 DEF FailAgain, FailForGood, FailTooLate, Restart
  <2>. QED BY <1>1, <2>1, <2>2, <2>3 DEF Work
<1>2. ASSUME NEW w \in Workers, Outcome(w) \/ Outage(w) \/ Crash(w)
      PROVE  InTime /\ valid' = valid
      BY <1>2 DEF Outcome, Prepared, AttemptFails, Complete, Outage, Crash
<1>3. CASE Tick
      BY <1>3 DEF Tick
<1>4. CASE UNCHANGED vars
      BY <1>4 DEF vars
<1>. QED BY <1>1, <1>2, <1>3, <1>4 DEF Next

\* A step of a worker that holds nothing after it, and touches neither the claim
\* nor another worker, changes nothing for the others.
LEMMA Aside ==
  ASSUME TypeOK, Alone, InTime, valid' = valid,
         claimed' = claimed, lease' = lease, quiet' = quiet,
         NEW w \in Workers, NEW at, pc' = [pc EXCEPT ![w] = at],
         at \notin {"prepare", "transcribe"}, at = "fail" => ~ valid
  PROVE  Alone'
<1>1. pc \in [Workers -> {"idle", "claim", "prepare", "transcribe", "fail", "down"}]
      BY DEF TypeOK
<1>2. ~ Holding(w)'
      BY <1>1 DEF Holding
<1>3. ASSUME NEW v \in Workers, v # w
      PROVE  (Holding(v)' <=> Holding(v)) /\ pc'[v] = pc[v]
      BY <1>1, <1>3 DEF Holding
<1>4. ASSUME NEW v \in Workers
      PROVE  Live(v)'
  <2>1. CASE v = w
        BY <1>1, <1>2, <2>1 DEF Live, Holding
  <2>2. CASE v # w
        BY <1>3, <2>2 DEF Alone, Live
  <2>. QED BY <2>1, <2>2
<1>5. \A u, v \in Workers : Holding(u)' /\ Holding(v)' => u = v
      BY <1>2, <1>3 DEF Alone
<1>. QED BY <1>4, <1>5 DEF Alone

\* Whoever holds a live claim stays alone while others come and go.
LEMMA AloneKept ==
  ASSUME TypeOK, Alone, [Next]_vars
  PROVE  Alone'
<1>. SUFFICES ASSUME InTime' PROVE Alone'
     BY DEF Alone
<1>0. InTime /\ valid' = valid
      BY InTimeBefore
<1>t. /\ pc \in [Workers -> {"idle", "claim", "prepare", "transcribe", "fail", "down"}]
      /\ quiet \in [Workers -> Nat] /\ lease \in Nat /\ Lease \in Nat /\ Lease >= 2
      BY ConstantsTyped DEF TypeOK
<1>u. /\ \A v \in Workers : Live(v)
      /\ \A u, v \in Workers : Holding(u) /\ Holding(v) => u = v
      BY <1>0 DEF Alone
<1>1. ASSUME NEW w \in Workers, NEW m \in Messages, Fetch(w, m)
      PROVE  Alone'
      BY <1>0, <1>1, Aside DEF Fetch, Goto, run
<1>2. ASSUME NEW w \in Workers, Claim(w)
      PROVE  Alone'
  <2>1. \A v \in Workers : ~ Holding(v)
        BY <1>2, <1>u DEF Claim, Claimable, Live
  <2>2. /\ claimed' /\ lease' = Lease /\ valid
        /\ quiet' = [quiet EXCEPT ![w] = 0]
        /\ pc' = [pc EXCEPT ![w] = "prepare"]
        BY <1>2 DEF Claim, Goto
  <2>3. \A v \in Workers : Holding(v)' => v = w
        BY <1>0, <1>t, <2>1, <2>2 DEF Holding
  <2>4. ASSUME NEW v \in Workers
        PROVE  Live(v)'
    <3>1. CASE v = w
          BY <1>0, <1>t, <2>2, <3>1 DEF Live, Holding
    <3>2. CASE v # w
          BY <2>3, <3>2 DEF Live, Holding
    <3>. QED BY <3>1, <3>2
  <2>. QED BY <2>3, <2>4 DEF Alone
<1>3. ASSUME NEW w \in Workers, ClaimRefused(w)
      PROVE  Alone'
      BY <1>0, <1>3, Aside DEF ClaimRefused, Return, Goto, run
<1>4. ASSUME NEW w \in Workers, ClaimInvalid(w)
      PROVE  Alone'
      BY <1>0, <1>4, Aside DEF ClaimInvalid, Goto, run
<1>5. ASSUME NEW w \in Workers, Prepared(w)
      PROVE  Alone'
  <2>1. /\ Holding(w) /\ claimed' = claimed /\ lease' = lease /\ pc[w] = "prepare"
        /\ quiet' = [quiet EXCEPT ![w] = 0]
        /\ pc' = [pc EXCEPT ![w] = "transcribe"]
        BY <1>5 DEF Prepared, Goto, Holding, run
  <2>2. \A v \in Workers : Holding(v)' => v = w
        BY <1>0, <1>t, <1>u, <2>1 DEF Holding
  <2>3. ASSUME NEW v \in Workers
        PROVE  Live(v)'
    <3>1. CASE v = w
          BY <1>0, <1>t, <1>u, <2>1, <3>1 DEF Live, Holding
    <3>2. CASE v # w
          BY <2>2, <3>2 DEF Live, Holding
    <3>. QED BY <3>1, <3>2
  <2>. QED BY <2>2, <2>3 DEF Alone
<1>6. ASSUME NEW w \in Workers, AttemptFails(w)
      PROVE  Alone'
  <2>1. /\ Holding(w) /\ claimed' = claimed /\ lease' = lease
        /\ quiet' = quiet
        /\ pc' = [pc EXCEPT ![w] = "fail"]
        BY <1>6 DEF AttemptFails, Goto, Holding, run
  <2>2. \A v \in Workers : Holding(v)' => v = w
        BY <1>0, <1>t, <1>u, <2>1 DEF Holding
  <2>3. ASSUME NEW v \in Workers
        PROVE  Live(v)'
    <3>1. CASE v = w
          BY <1>0, <1>t, <1>u, <2>1, <3>1 DEF Live, Holding
    <3>2. CASE v # w
          BY <2>2, <3>2 DEF Live, Holding
    <3>. QED BY <3>1, <3>2
  <2>. QED BY <2>2, <2>3 DEF Alone
<1>7. ASSUME NEW w \in Workers, Heartbeat(w)
      PROVE  Alone'
  <2>1. /\ Holding(w) /\ claimed' = claimed /\ lease' = Lease
        /\ quiet' = [quiet EXCEPT ![w] = 0]
        /\ pc' = pc /\ pc[w] = "transcribe"
        BY <1>0, <1>7, <1>u DEF Heartbeat, Holding, Live, InTime
  <2>2. \A v \in Workers : Holding(v)' => v = w
        BY <1>0, <1>u, <2>1 DEF Holding
  <2>3. ASSUME NEW v \in Workers
        PROVE  Live(v)'
    <3>1. CASE v = w
          BY <1>0, <1>t, <1>u, <2>1, <3>1 DEF Live, Holding
    <3>2. CASE v # w
          BY <2>2, <3>2 DEF Live, Holding
    <3>. QED BY <3>1, <3>2
  <2>. QED BY <2>2, <2>3 DEF Alone
<1>8. ASSUME NEW w \in Workers, Complete(w)
      PROVE  Alone'
      BY <1>8 DEF Complete, Alone, InTime
<1>9. ASSUME NEW w \in Workers, FailAgain(w)
      PROVE  Alone'
  <2>1. pc[w] = "fail" /\ pc' = [pc EXCEPT ![w] = "idle"]
        BY <1>9 DEF FailAgain, Goto
  <2>2. \A v \in Workers : Holding(v) => v = w
        BY <1>u, <2>1 DEF Holding, Live
  <2>3. \A v \in Workers : ~ Holding(v)'
        BY <1>0, <1>t, <2>1, <2>2 DEF Holding
  <2>. QED BY <2>3 DEF Alone, Live, Holding
<1>10. ASSUME NEW w \in Workers, FailForGood(w)
       PROVE  Alone'
       BY <1>10 DEF FailForGood, Alone, InTime
<1>11. ASSUME NEW w \in Workers, FailTooLate(w)
       PROVE  Alone'
       BY <1>0, <1>11 DEF FailTooLate, InTime
<1>12. ASSUME NEW w \in Workers, Outage(w)
       PROVE  Alone'
  <2>1. \E at \in {"claim", "idle"} : pc' = [pc EXCEPT ![w] = at]
        BY <1>12 DEF Outage, Goto
  <2>2. UNCHANGED <<claimed, lease, quiet>>
        BY <1>12 DEF Outage, run
  <2>. QED BY <1>0, <2>1, <2>2, Aside
<1>13. ASSUME NEW w \in Workers, Crash(w)
       PROVE  Alone'
       BY <1>0, <1>13, Aside DEF Crash, Goto, run
<1>14. ASSUME NEW w \in Workers, Restart(w)
       PROVE  Alone'
       BY <1>0, <1>14, Aside DEF Restart, Goto, run
<1>15. CASE Tick
  <2>1. /\ claimed' = claimed /\ lease' = IF lease > 0 THEN lease - 1 ELSE 0
        /\ pc' = pc
        BY <1>15 DEF Tick
  <2>h. \A v \in Workers : Holding(v)' <=> Holding(v)
        BY <1>0, <2>1 DEF Holding
  <2>2. ASSUME NEW v \in Workers
        PROVE  Live(v)'
    <3>1. CASE ~ Holding(v)
          BY <2>1, <2>h, <3>1 DEF Live, Holding
    <3>2. CASE pc[v] = "prepare"
      <4>1. quiet'[v] = quiet[v] + 1
            BY <1>15, <3>2 DEF Tick
      <4>2. ~ (quiet[v] + 2 >= Lease)
            BY <1>15, <3>2, Zenon DEF Tick, InTime
      <4>. QED BY <1>0, <1>t, <1>u, <2>1, <3>2, <4>1, <4>2 DEF Live, Holding
    <3>3. CASE pc[v] = "transcribe"
      <4>1. quiet'[v] = quiet[v] + 1 /\ quiet[v] # 1
            BY <1>15, <3>3 DEF Tick, Busy
      <4>. QED BY <1>0, <1>t, <1>u, <2>1, <3>3, <4>1 DEF Live, Holding
    <3>4. pc[v] # "fail"
          BY <1>15 DEF Tick, Busy
    <3>. QED BY <3>1, <3>2, <3>3, <3>4 DEF Holding
  <2>. QED BY <1>u, <2>h, <2>2 DEF Alone
<1>16. CASE UNCHANGED vars
  <2>1. UNCHANGED <<pc, quiet, claimed, lease>>
        BY <1>16 DEF vars
  <2>h. \A v \in Workers : Holding(v)' <=> Holding(v)
        BY <1>0, <2>1 DEF Holding
  <2>2. \A v \in Workers : Live(v)'
        BY <1>0, <1>u, <2>1, <2>h DEF Live
  <2>. QED BY <1>u, <2>h, <2>2 DEF Alone
<1>. QED
     BY <1>1, <1>2, <1>3, <1>4, <1>5, <1>6, <1>7, <1>8, <1>9, <1>10, <1>11, <1>12, <1>13,
        <1>14, <1>15, <1>16 DEF Next, Work, Outcome

-----------------------------------------------------------------------------
(* Theorems *)

\* Every reachable state has the declared types, whatever the constants: the
\* attempts never exceed their limit and reach it exactly when the run is parked
\* (TypeOK).
THEOREM LeaseTypeCorrect == Spec => []TypeOK
<1>1. Init => TypeOK
      BY InitInvariant DEF IInv
<1>2. TypeOK /\ [Next]_vars => TypeOK'
      BY TypeKept
<1>. QED BY <1>1, <1>2, PTL DEF Spec

\* The claim of whoever works on a recording in time is live until his next
\* heartbeat, and nobody else works on it.
THEOREM LeaseInvariant == Spec => []IInv
<1>1. Init => IInv
      BY InitInvariant
<1>2. IInv /\ [Next]_vars => IInv'
      BY TypeKept, AloneKept DEF IInv
<1>. QED BY <1>1, <1>2, PTL DEF Spec

\* One worker at a time works on a recording that waits for its transcript, for
\* any number of workers and any timing of the redelivery (OneTranscriber).
THEOREM WorkersTakeTurns == Spec => []OneTranscriber
<1>1. ASSUME IInv
      PROVE  OneTranscriber
  <2>. SUFFICES ASSUME InTime
                PROVE  Cardinality(Transcribers) <= 1
       BY DEF OneTranscriber, InTime
  <2>1. \A v, w \in Transcribers : v = w
        BY <1>1 DEF IInv, Alone, Holding, Transcribers
  <2>2. CASE Transcribers = {}
        BY <2>2, FS_EmptySet
  <2>3. CASE Transcribers # {}
    <3>1. PICK w : w \in Transcribers
          BY <2>3
    <3>2. Transcribers = {w}
          BY <2>1, <3>1
    <3>. QED BY <3>2, FS_Singleton
  <2>. QED BY <2>2, <2>3
<1>. QED BY <1>1, LeaseInvariant, PTL
=============================================================================
