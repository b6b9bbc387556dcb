------------------------- MODULE ApiRequestsProofs --------------------------
(***************************************************************************)
(* One key stands for one effect, a stored answer is final and a logout    *)
(* that no database read overlapped stays one, for any number of requests, *)
(* sessions, organizations, keys and faults.                               *)
(***************************************************************************)
EXTENDS ApiRequests, TLAPS

-----------------------------------------------------------------------------
(* The inductive invariant *)

Row(p) == <<p.key, p.scope>>

\* Request p runs a mutating route and has the row of its key.
HoldsRow(p) == p.stage = "route" /\ p.call.op # "read" /\ p.at \in Holding

\* A request may have committed an effect.
After(p) == p.stage = "route" /\ p.call.op = "create"
            /\ p.at \in {"respond", "complete", "release", "done", "dead"}

\* What a request has found out so far, at each of its places.
RequestOk(p) ==
  /\ p \in RequestRecords
  /\ p.at # "idle" => p.session \in Sessions /\ p.key \in Keys
  /\ p.at \in {"claim", "wait"} =>
       p.stage = "scope" /\ p.call.op # "read" /\ p.scope \in Scopes /\ p.answer = "none"
  /\ p.stage = "scope" => p.call.op # "read" \/ p.at = "idle"
  /\ p.at \in {"handle", "respond", "purge", "complete", "release"} => p.stage = "route"
  /\ p.at = "handle" => p.org \in Orgs
  /\ p.at \in {"lookup", "load", "fill", "handle", "purge"} => p.answer = "none"
  /\ p.at = "respond" => p.call.op = "create" /\ p.answer = "created"
  /\ p.at \in {"purge", "complete", "release"} => p.call.op # "read"
  /\ p.at = "complete" => p.answer # "none"
  /\ p.at = "release" => p.answer = "error"
  /\ HoldsRow(p) => p.scope \in Scopes

RequestsOk == requests \in [Requests -> RequestRecords] /\ \A r \in Requests : RequestOk(requests[r])

TablesOk ==
  /\ sessions \in [Sessions -> [org : Orgs, status : {"active", "revoked", "expired"}]]
  /\ cache \subseteq Sessions
  /\ purged \in [Sessions -> {"no", "clean", "overlapped"}]
  /\ keys \in [RowIds -> Rows]
  /\ effects \subseteq [request : Requests, row : RowIds, org : Orgs, body : Bodies]
  /\ faults \in 0..MaxFaults

\* A row is held as it was claimed, and by one request.
RowsHeld ==
  /\ \A r \in Requests : HoldsRow(requests[r]) =>
       keys[Row(requests[r])] = [call |-> requests[r].call, answer |-> "none"]
  /\ OneHolder

\* Nobody can have row i any more.
Blocked(i) ==
  keys[i] # NoRow /\ \A r \in Requests : HoldsRow(requests[r]) => Row(requests[r]) # i

EffectsKnown ==
  \A e \in effects :
    LET p == requests[e.request] IN
    /\ After(p) /\ e.row = Row(p)
    /\ p.answer = "created" => p.at \in {"respond", "complete"} \/ Blocked(e.row)

\* The effect that an answer "created" speaks of.
Made(i, call) == \E e \in effects : e.row = i /\ e.body = call.body

AnswersTrue ==
  /\ \A r \in Requests : requests[r].answer = "created" => Made(Row(requests[r]), requests[r].call)
  /\ \A i \in RowIds : keys[i].answer = "created" => Made(i, keys[i].call)

\* A session that was purged is not active, and one that is about to be is not.
LogoutsFinal ==
  /\ CleanLogoutHolds
  /\ \A s \in Sessions : purged[s] # "no" => sessions[s].status # "active"
  /\ \A r \in Requests : requests[r].at = "purge" => sessions[requests[r].session].status # "active"

KeysInv == TablesOk /\ RequestsOk /\ RowsHeld /\ EffectsKnown /\ AcknowledgedOnce /\ AnswersTrue
IInv == KeysInv /\ LogoutsFinal

-----------------------------------------------------------------------------
(* The steps of a request *)

\* Request r takes a step and becomes q; the others stay.
Becomes(r, q) == requests' = [requests EXCEPT ![r] = q]

\* A request takes its row with it.
SameRow(p, q) == q.key = p.key /\ q.scope = p.scope /\ q.call = p.call /\ q.stage = p.stage

\* A step that leaves the rows and the effects alone keeps what is known of them,
\* when a row is not taken and an answer is not invented.
LEMMA QuietKeeps ==
  ASSUME KeysInv, TablesOk', NEW r \in Requests, NEW q, Becomes(r, q), RequestOk(q),
         keys' = keys, effects' = effects,
         HoldsRow(q) => HoldsRow(requests[r]) /\ SameRow(requests[r], q),
         After(requests[r]) => After(q) /\ SameRow(requests[r], q),
         q.answer = "created" => Made(Row(q), q.call),
         q.answer = "created" /\ After(requests[r]) =>
           q.at \in {"respond", "complete"} /\ requests[r].answer = "created"
  PROVE  KeysInv'
<1>1. /\ requests \in [Requests -> RequestRecords] /\ q \in RequestRecords
      /\ requests' \in [Requests -> RequestRecords]
      /\ \A x \in Requests : requests'[x] = IF x = r THEN q ELSE requests[x]
      BY DEF KeysInv, RequestsOk, RequestOk, Becomes
<1>2. RequestsOk'
      BY <1>1 DEF KeysInv, RequestsOk
<1>3. \A x \in Requests : HoldsRow(requests'[x]) =>
        HoldsRow(requests[x]) /\ Row(requests'[x]) = Row(requests[x]) /\ requests'[x].call = requests[x].call
      BY <1>1 DEF SameRow, Row
<1>4. RowsHeld'
  <2>1. \A x, y \in Requests : HoldsRow(requests'[x]) /\ HoldsRow(requests'[y])
                               /\ Row(requests'[x]) = Row(requests'[y]) => x = y
        BY <1>3 DEF KeysInv, RowsHeld, OneHolder, Holds, HoldsRow, RowOf, Row
  <2>2. OneHolder'
        BY <2>1 DEF OneHolder, Holds, HoldsRow, RowOf, Row
  <2>3. \A x \in Requests : HoldsRow(requests'[x]) =>
          keys[Row(requests'[x])] = [call |-> requests'[x].call, answer |-> "none"]
        BY <1>3 DEF KeysInv, RowsHeld
  <2>. QED BY <2>2, <2>3 DEF RowsHeld
<1>5. EffectsKnown'
  <2>. SUFFICES ASSUME NEW e \in effects
                PROVE  /\ After(requests'[e.request]) /\ e.row = Row(requests'[e.request])
                       /\ requests'[e.request].answer = "created" =>
                            requests'[e.request].at \in {"respond", "complete"} \/ Blocked(e.row)'
       BY DEF EffectsKnown
  <2>1. /\ e.request \in Requests /\ After(requests[e.request]) /\ e.row = Row(requests[e.request])
        /\ requests[e.request].answer = "created" =>
             requests[e.request].at \in {"respond", "complete"} \/ Blocked(e.row)
        BY DEF KeysInv, TablesOk, EffectsKnown
  <2>2. Blocked(e.row) => Blocked(e.row)'
        BY <1>3 DEF Blocked
  <2>3. CASE e.request = r
        BY <1>1, <2>1, <2>3 DEF SameRow, Row
  <2>4. CASE e.request # r
        BY <1>1, <2>1, <2>2, <2>4
  <2>. QED BY <2>3, <2>4
<1>6. AnswersTrue'
  <2>1. \A i, c : Made(i, c)' <=> Made(i, c)
        BY DEF Made
  <2>. QED BY <1>1, <2>1 DEF KeysInv, AnswersTrue
<1>7. AcknowledgedOnce'
  <2>1. \A e \in effects : /\ e.request \in Requests
                           /\ requests'[e.request].answer = "created" => requests[e.request].answer = "created"
        BY <1>1 DEF KeysInv, TablesOk, EffectsKnown
  <2>. QED BY <2>1 DEF KeysInv, AcknowledgedOnce
<1>. QED BY <1>2, <1>4, <1>5, <1>6, <1>7 DEF KeysInv

\* A step of r leaves the others where they are.
LEMMA BecomesFacts ==
  ASSUME KeysInv, NEW r \in Requests, NEW q, Becomes(r, q), RequestOk(q)
  PROVE  /\ requests' \in [Requests -> RequestRecords]
         /\ \A x \in Requests : requests'[x] = IF x = r THEN q ELSE requests[x]
         /\ RequestsOk'
<1>1. /\ requests \in [Requests -> RequestRecords] /\ q \in RequestRecords
      /\ requests' \in [Requests -> RequestRecords]
      /\ \A x \in Requests : requests'[x] = IF x = r THEN q ELSE requests[x]
      BY DEF KeysInv, RequestsOk, RequestOk, Becomes
<1>. QED BY <1>1 DEF KeysInv, RequestsOk

\* What the holder of a row knows of it: nobody else has it, and it has no answer.
LEMMA HolderFacts ==
  ASSUME KeysInv, NEW r \in Requests, HoldsRow(requests[r])
  PROVE  /\ Row(requests[r]) \in RowIds
         /\ keys[Row(requests[r])] = [call |-> requests[r].call, answer |-> "none"]
         /\ keys[Row(requests[r])] # NoRow /\ keys[Row(requests[r])].answer = "none"
         /\ \A x \in Requests \ {r} : HoldsRow(requests[x]) => Row(requests[x]) # Row(requests[r])
         /\ \A e \in effects : e.row = Row(requests[r]) => ~Blocked(e.row)
<1>1. requests[r].scope \in Scopes /\ requests[r].key \in Keys /\ requests[r].call \in Calls
      BY DEF KeysInv, RequestsOk, RequestOk, HoldsRow, Holding, RequestRecords
<1>2. keys[Row(requests[r])] = [call |-> requests[r].call, answer |-> "none"]
      BY DEF KeysInv, RowsHeld
<1>3. requests[r].call # NoRow.call
      BY <1>1 DEF Calls, NoRow
<1>4. \A x \in Requests \ {r} : HoldsRow(requests[x]) => Row(requests[x]) # Row(requests[r])
      BY DEF KeysInv, RowsHeld, OneHolder, Holds, HoldsRow, RowOf, Row
<1>5. keys[Row(requests[r])] # NoRow /\ keys[Row(requests[r])].answer = "none"
      BY <1>2, <1>3 DEF NoRow
<1>. QED BY <1>1, <1>2, <1>4, <1>5 DEF RowIds, Row, Blocked

\* The step in which r lets its row go, and writes it or not, as k.
LEMMA LetGoKeeps ==
  ASSUME KeysInv, TablesOk', NEW r \in Requests, HoldsRow(requests[r]),
         NEW q, Becomes(r, q), RequestOk(q), ~HoldsRow(q),
         SameRow(requests[r], q), q.answer = requests[r].answer,
         requests[r].at \in {"respond", "complete", "release"} => q.at \in {"done", "dead"},
         NEW k, keys' = [keys EXCEPT ![Row(requests[r])] = k],
         requests[r].answer = "created" => k # NoRow,
         k.answer = "created" => requests[r].answer = "created" /\ k.call = requests[r].call,
         effects' = effects
  PROVE  KeysInv'
<1>. DEFINE i == Row(requests[r])
<1>1. /\ RequestsOk'
      /\ \A x \in Requests : requests'[x] = IF x = r THEN q ELSE requests[x]
      BY BecomesFacts
<1>2. /\ i \in RowIds /\ \A j \in RowIds : keys'[j] = IF j = i THEN k ELSE keys[j]
      /\ \A x \in Requests \ {r} : HoldsRow(requests[x]) => Row(requests[x]) # i
      BY HolderFacts DEF KeysInv, TablesOk
<1>3. \A x \in Requests : HoldsRow(requests'[x]) =>
        x # r /\ requests'[x] = requests[x] /\ Row(requests[x]) # i /\ Row(requests[x]) \in RowIds
      BY <1>1, <1>2, HolderFacts
<1>4. RowsHeld'
  <2>1. OneHolder'
        BY <1>3 DEF KeysInv, RowsHeld, OneHolder, Holds, HoldsRow, RowOf
  <2>2. \A x \in Requests : HoldsRow(requests'[x]) =>
          keys'[Row(requests'[x])] = [call |-> requests'[x].call, answer |-> "none"]
        BY <1>2, <1>3 DEF KeysInv, RowsHeld
  <2>. QED BY <2>1, <2>2 DEF RowsHeld
<1>5. EffectsKnown'
  <2>. SUFFICES ASSUME NEW e \in effects
                PROVE  /\ After(requests'[e.request]) /\ e.row = Row(requests'[e.request])
                       /\ requests'[e.request].answer = "created" =>
                            requests'[e.request].at \in {"respond", "complete"} \/ Blocked(e.row)'
       BY DEF EffectsKnown
  <2>1. /\ e.request \in Requests /\ After(requests[e.request]) /\ e.row = Row(requests[e.request])
        /\ requests[e.request].answer = "created" =>
             requests[e.request].at \in {"respond", "complete"} \/ Blocked(e.row)
        /\ e.row \in RowIds
        BY DEF KeysInv, TablesOk, EffectsKnown
  <2>2. CASE e.request = r
    <3>1. requests[r].at \in {"respond", "complete", "release"}
          BY <2>1, <2>2 DEF After, HoldsRow, Holding
    <3>2. After(q) /\ e.row = Row(q) /\ e.row = i
          BY <2>1, <2>2, <3>1 DEF SameRow, After, Row
    <3>3. requests[r].answer = "created" => Blocked(e.row)'
          BY <1>2, <1>3, <3>2 DEF Blocked
    <3>. QED BY <1>1, <2>2, <3>2, <3>3
  <2>3. CASE e.request # r
    <3>1. Blocked(e.row) => Blocked(e.row)'
          BY <1>2, <1>3, <2>1, HolderFacts DEF Blocked
    <3>. QED BY <1>1, <2>1, <2>3, <3>1
  <2>. QED BY <2>2, <2>3
<1>6. AnswersTrue'
  <2>1. \A j, c : Made(j, c)' <=> Made(j, c)
        BY DEF Made
  <2>2. q.answer = "created" => Made(Row(q), q.call)
        BY DEF KeysInv, AnswersTrue, SameRow, Row
  <2>3. k.answer = "created" => Made(i, k.call)
        BY DEF KeysInv, AnswersTrue
  <2>. QED BY <1>1, <1>2, <2>1, <2>2, <2>3 DEF KeysInv, AnswersTrue
<1>7. AcknowledgedOnce'
  <2>1. \A e \in effects : /\ e.request \in Requests
                           /\ requests'[e.request].answer = "created" => requests[e.request].answer = "created"
        BY <1>1 DEF KeysInv, TablesOk
  <2>. QED BY <2>1 DEF KeysInv, AcknowledgedOnce
<1>. QED BY <1>1, <1>4, <1>5, <1>6, <1>7 DEF KeysInv

-----------------------------------------------------------------------------
(* The actions *)

\* The key's row is claimed when there is none, which nobody holds.
LEMMA ClaimKeeps == ASSUME KeysInv, NEW r \in Requests, Claim(r) PROVE KeysInv'
<1>. DEFINE p == requests[r]
            i == Row(p)
<1>1. p \in RequestRecords /\ RequestOk(p) /\ p.at = "claim" /\ ~HoldsRow(p) /\ ~After(p)
      BY DEF KeysInv, RequestsOk, Claim, HoldsRow, Holding, After
<1>2. /\ p.stage = "scope" /\ p.call.op # "read" /\ p.scope \in Scopes /\ p.answer = "none"
      /\ p.session \in Sessions /\ p.key \in Keys /\ p.call \in Calls
      BY <1>1 DEF RequestOk, RequestRecords
<1>3. i \in RowIds /\ i = RowOf(r)
      BY <1>2 DEF RowIds, Row, RowOf
<1>4. CASE keys[i] # NoRow
  <2>. DEFINE q == [p EXCEPT !.at = "wait"]
  <2>1. Becomes(r, q) /\ UNCHANGED <<sessions, cache, purged, keys, effects, faults>>
        BY <1>3, <1>4 DEF Claim, Becomes
  <2>2. q \in RequestRecords
        BY <1>1 DEF RequestRecords
  <2>3. RequestOk(q) /\ ~HoldsRow(q) /\ q.answer = "none"
        BY <1>1, <1>2, <2>2 DEF RequestOk, HoldsRow, Holding, RequestRecords
  <2>4. TablesOk'
        BY <2>1 DEF KeysInv, TablesOk
  <2>. QED BY <1>1, <2>1, <2>3, <2>4, QuietKeeps
<1>5. CASE keys[i] = NoRow
  <2>. DEFINE q == [p EXCEPT !.at = "lookup", !.stage = "route"]
              k == [call |-> p.call, answer |-> "none"]
  <2>1. /\ Becomes(r, q) /\ keys' = [keys EXCEPT ![i] = k]
        /\ UNCHANGED <<sessions, cache, purged, effects, faults>>
        BY <1>3, <1>5 DEF Claim, Becomes
  <2>2. q \in RequestRecords
        BY <1>1 DEF RequestRecords, Holding
  <2>3. /\ RequestOk(q) /\ q.answer = "none" /\ Row(q) = i /\ q.call = p.call /\ q.at = "lookup"
        BY <1>1, <1>2, <2>2 DEF RequestOk, HoldsRow, Holding, RequestRecords, Row
  <2>4. k \in Rows
        BY <1>2 DEF Rows
  <2>5. TablesOk'
        BY <1>3, <2>1, <2>4 DEF KeysInv, TablesOk
  <2>6. /\ RequestsOk'
        /\ \A x \in Requests : requests'[x] = IF x = r THEN q ELSE requests[x]
        BY <2>1, <2>3, BecomesFacts
  <2>7. \A j \in RowIds : keys'[j] = IF j = i THEN k ELSE keys[j]
        BY <2>1 DEF KeysInv, TablesOk
  <2>8. \A x \in Requests : HoldsRow(requests[x]) => Row(requests[x]) # i /\ Row(requests[x]) \in RowIds
        BY <1>5, HolderFacts
  <2>. HIDE DEF q, k
  <2>9. RowsHeld'
    <3>0. \A x, y \in Requests : HoldsRow(requests[x]) /\ HoldsRow(requests[y])
                                 /\ Row(requests[x]) = Row(requests[y]) => x = y
          BY DEF KeysInv, RowsHeld, OneHolder, Holds, HoldsRow, RowOf, Row
    <3>1. \A x, y \in Requests : HoldsRow(requests'[x]) /\ HoldsRow(requests'[y])
                                 /\ Row(requests'[x]) = Row(requests'[y]) => x = y
          BY <2>3, <2>6, <2>8, <3>0
    <3>2. OneHolder'
          BY <3>1 DEF OneHolder, Holds, HoldsRow, RowOf, Row
    <3>3. \A x \in Requests : HoldsRow(requests'[x]) =>
            keys'[Row(requests'[x])] = [call |-> requests'[x].call, answer |-> "none"]
          BY <1>3, <2>3, <2>6, <2>7, <2>8 DEF KeysInv, RowsHeld, k
    <3>. QED BY <3>2, <3>3 DEF RowsHeld
  <2>10. EffectsKnown'
    <3>. SUFFICES ASSUME NEW e \in effects
                  PROVE  /\ After(requests'[e.request]) /\ e.row = Row(requests'[e.request])
                         /\ requests'[e.request].answer = "created" =>
                              requests'[e.request].at \in {"respond", "complete"} \/ Blocked(e.row)'
         BY <2>1 DEF EffectsKnown
    <3>1. /\ e.request \in Requests /\ After(requests[e.request]) /\ e.row = Row(requests[e.request])
          /\ requests[e.request].answer = "created" =>
               requests[e.request].at \in {"respond", "complete"} \/ Blocked(e.row)
          /\ e.row \in RowIds
          BY DEF KeysInv, TablesOk, EffectsKnown
    <3>2. e.request # r
          BY <1>1, <3>1
    <3>3. Blocked(e.row) => Blocked(e.row)'
          BY <1>5, <2>3, <2>6, <2>7, <3>1 DEF Blocked
    <3>. QED BY <2>6, <3>1, <3>2, <3>3
  <2>11. AnswersTrue'
    <3>1. \A j, c : Made(j, c)' <=> Made(j, c)
          BY <2>1 DEF Made
    <3>2. k.answer = "none"
          BY DEF k
    <3>. QED BY <2>3, <2>6, <2>7, <3>1, <3>2 DEF KeysInv, AnswersTrue
  <2>12. AcknowledgedOnce'
    <3>1. \A e \in effects : e.request \in Requests /\ e.request # r
          BY <1>1 DEF KeysInv, TablesOk, EffectsKnown
    <3>. QED BY <2>1, <2>6, <3>1 DEF KeysInv, AcknowledgedOnce
  <2>. QED BY <2>5, <2>6, <2>9, <2>10, <2>11, <2>12 DEF KeysInv
<1>. QED BY <1>4, <1>5

\* A request that dies leaves its row as it is.
LEMMA DieKeeps == ASSUME KeysInv, NEW r \in Requests, Die(r) PROVE KeysInv'
<1>. DEFINE p == requests[r]
            q == [p EXCEPT !.at = "dead"]
<1>1. /\ p \in RequestRecords /\ RequestOk(p) /\ p.at \notin {"idle", "done", "dead"}
      /\ Becomes(r, q) /\ UNCHANGED <<sessions, cache, purged, keys, effects>>
      BY DEF KeysInv, RequestsOk, Die, Becomes
<1>2. q \in RequestRecords
      BY <1>1 DEF RequestRecords
<1>3. /\ RequestOk(q) /\ ~HoldsRow(q) /\ SameRow(p, q) /\ q.answer = p.answer /\ q.at = "dead"
      BY <1>1, <1>2 DEF RequestOk, HoldsRow, Holding, RequestRecords, SameRow
<1>4. TablesOk'
      BY <1>1, RequestsAssumption DEF KeysInv, TablesOk, Die
<1>5. CASE HoldsRow(p)
  <2>. DEFINE k == keys[Row(p)]
  <2>1. k # NoRow /\ k.answer = "none" /\ Row(p) \in RowIds
        BY <1>5, HolderFacts
  <2>2. keys' = [keys EXCEPT ![Row(p)] = k]
        BY <1>1, <2>1 DEF KeysInv, TablesOk
  <2>. HIDE DEF k, q
  <2>. QED BY <1>1, <1>3, <1>4, <1>5, <2>1, <2>2, LetGoKeeps
<1>6. CASE ~HoldsRow(p)
  <2>1. ~After(p)
        BY <1>1, <1>6 DEF After, HoldsRow, Holding
  <2>2. q.answer = "created" => Made(Row(q), q.call)
        BY <1>3 DEF KeysInv, AnswersTrue, SameRow, Row
  <2>. HIDE DEF q
  <2>. QED BY <1>1, <1>3, <1>4, <2>1, <2>2, QuietKeeps
<1>. QED BY <1>5, <1>6

\* The answer is written to the row of the request that ran the route.
LEMMA CompleteKeeps == ASSUME KeysInv, NEW r \in Requests, Complete(r) PROVE KeysInv'
<1>. DEFINE p == requests[r]
            q == [p EXCEPT !.at = "done"]
            k == [keys[Row(p)] EXCEPT !.answer = p.answer]
<1>1. /\ p \in RequestRecords /\ RequestOk(p) /\ p.at = "complete" /\ Becomes(r, q)
      BY DEF KeysInv, RequestsOk, Complete, Becomes
<1>2. HoldsRow(p) /\ p.answer # "none" /\ p.answer \in Answers
      BY <1>1 DEF RequestOk, HoldsRow, Holding, RequestRecords
<1>3. /\ Row(p) \in RowIds /\ keys[Row(p)] = [call |-> p.call, answer |-> "none"]
      /\ Row(p) = RowOf(r) /\ keys \in [RowIds -> Rows]
      BY <1>2, HolderFacts DEF KeysInv, TablesOk, Row, RowOf
<1>4. keys' = [keys EXCEPT ![Row(p)] = k] /\ UNCHANGED <<sessions, cache, purged, effects, faults>>
  <2>1. SameHash(r)
        BY <1>3 DEF SameHash
  <2>. QED BY <1>3, <2>1 DEF Complete
<1>5. q \in RequestRecords
      BY <1>1 DEF RequestRecords
<1>6. /\ RequestOk(q) /\ ~HoldsRow(q) /\ SameRow(p, q) /\ q.answer = p.answer /\ q.at = "done"
      BY <1>1, <1>5 DEF RequestOk, HoldsRow, Holding, RequestRecords, SameRow
<1>7. k = [call |-> p.call, answer |-> p.answer]
      BY <1>3
<1>8. k # NoRow /\ k.call = p.call /\ k.answer = p.answer
      BY <1>2, <1>7 DEF NoRow
<1>9. k \in Rows
  <2>1. p.call \in Calls
        BY <1>1 DEF RequestRecords
  <2>. QED BY <1>2, <1>7, <2>1 DEF Rows
<1>10. TablesOk'
       BY <1>3, <1>4, <1>9 DEF KeysInv, TablesOk
<1>. HIDE DEF q, k
<1>. QED BY <1>1, <1>2, <1>4, <1>6, <1>8, <1>10, LetGoKeeps

\* The row of a request that raised is deleted.
LEMMA ReleaseKeeps == ASSUME KeysInv, NEW r \in Requests, Release(r) PROVE KeysInv'
<1>. DEFINE p == requests[r]
            q == [p EXCEPT !.at = "done"]
<1>1. /\ p \in RequestRecords /\ RequestOk(p) /\ p.at = "release" /\ Becomes(r, q)
      BY DEF KeysInv, RequestsOk, Release, Becomes
<1>2. HoldsRow(p) /\ p.answer = "error"
      BY <1>1 DEF RequestOk, HoldsRow, Holding, RequestRecords
<1>3. /\ Row(p) \in RowIds /\ keys[Row(p)] = [call |-> p.call, answer |-> "none"]
      /\ Row(p) = RowOf(r) /\ keys \in [RowIds -> Rows]
      BY <1>2, HolderFacts DEF KeysInv, TablesOk, Row, RowOf
<1>4. keys' = [keys EXCEPT ![Row(p)] = NoRow] /\ UNCHANGED <<sessions, cache, purged, effects, faults>>
  <2>1. SameHash(r) /\ keys[Row(p)].answer = "none"
        BY <1>3 DEF SameHash
  <2>. QED BY <1>3, <2>1 DEF Release
<1>5. q \in RequestRecords
      BY <1>1 DEF RequestRecords
<1>6. /\ RequestOk(q) /\ ~HoldsRow(q) /\ SameRow(p, q) /\ q.answer = p.answer /\ q.at = "done"
      BY <1>1, <1>5 DEF RequestOk, HoldsRow, Holding, RequestRecords, SameRow
<1>7. NoRow \in Rows /\ NoRow.answer = "none"
      BY DEF Rows, NoRow
<1>8. TablesOk'
      BY <1>3, <1>4, <1>7 DEF KeysInv, TablesOk
<1>. HIDE DEF q
<1>. QED BY <1>1, <1>2, <1>4, <1>6, <1>7, <1>8, LetGoKeeps

\* The handler commits while its request holds the row, which has no other effect
\* that was acknowledged.
LEMMA CommitKeeps == ASSUME KeysInv, NEW r \in Requests, Commit(r) PROVE KeysInv'
<1>. DEFINE p == requests[r]
            q == [p EXCEPT !.at = "respond", !.answer = "created"]
            f == [request |-> r, row |-> Row(p), org |-> p.org, body |-> p.call.body]
<1>1. /\ p \in RequestRecords /\ RequestOk(p) /\ p.at = "handle" /\ p.call.op = "create"
      /\ Becomes(r, q) /\ effects' = effects \union {f}
      /\ UNCHANGED <<sessions, cache, purged, keys, faults>>
      BY DEF KeysInv, RequestsOk, Commit, Becomes, RowOf, Row
<1>2. HoldsRow(p) /\ ~After(p) /\ p.org \in Orgs /\ p.call.body \in Bodies
      BY <1>1 DEF RequestOk, HoldsRow, Holding, RequestRecords, After, Calls
<1>3. Row(p) \in RowIds
      BY <1>2, HolderFacts
<1>4. q \in RequestRecords
      BY <1>1 DEF RequestRecords, Holding, Answers
<1>5. /\ RequestOk(q) /\ HoldsRow(q) /\ SameRow(p, q) /\ q.at = "respond" /\ After(q)
      /\ Row(q) = Row(p) /\ q.call = p.call
      BY <1>1, <1>2, <1>4 DEF RequestOk, HoldsRow, Holding, RequestRecords, SameRow, After, Row
<1>6. TablesOk'
      BY <1>1, <1>2, <1>3 DEF KeysInv, TablesOk
<1>7. /\ RequestsOk'
      /\ \A x \in Requests : requests'[x] = IF x = r THEN q ELSE requests[x]
      BY <1>1, <1>5, BecomesFacts
<1>. HIDE DEF q
<1>8. \A x \in Requests : /\ HoldsRow(requests'[x]) <=> HoldsRow(requests[x])
                          /\ Row(requests'[x]) = Row(requests[x]) /\ requests'[x].call = requests[x].call
      BY <1>2, <1>5, <1>7
<1>9. RowsHeld'
  <2>1. \A x, y \in Requests : HoldsRow(requests[x]) /\ HoldsRow(requests[y])
                               /\ Row(requests[x]) = Row(requests[y]) => x = y
        BY DEF KeysInv, RowsHeld, OneHolder, Holds, HoldsRow, RowOf, Row
  <2>2. \A x, y \in Requests : HoldsRow(requests'[x]) /\ HoldsRow(requests'[y])
                               /\ Row(requests'[x]) = Row(requests'[y]) => x = y
        BY <1>8, <2>1
  <2>3. OneHolder'
        BY <2>2 DEF OneHolder, Holds, HoldsRow, RowOf, Row
  <2>4. \A x \in Requests : HoldsRow(requests'[x]) =>
          keys'[Row(requests'[x])] = [call |-> requests'[x].call, answer |-> "none"]
        BY <1>1, <1>8 DEF KeysInv, RowsHeld
  <2>. QED BY <2>3, <2>4 DEF RowsHeld
<1>10. EffectsKnown'
  <2>. SUFFICES ASSUME NEW e \in effects'
                PROVE  /\ After(requests'[e.request]) /\ e.row = Row(requests'[e.request])
                       /\ requests'[e.request].answer = "created" =>
                            requests'[e.request].at \in {"respond", "complete"} \/ Blocked(e.row)'
       BY DEF EffectsKnown
  <2>1. CASE e = f
        BY <1>5, <1>7, <2>1
  <2>2. CASE e \in effects
    <3>1. /\ e.request \in Requests /\ After(requests[e.request]) /\ e.row = Row(requests[e.request])
          /\ requests[e.request].answer = "created" =>
               requests[e.request].at \in {"respond", "complete"} \/ Blocked(e.row)
          BY <2>2 DEF KeysInv, TablesOk, EffectsKnown
    <3>2. Blocked(e.row) => Blocked(e.row)'
          BY <1>1, <1>8 DEF Blocked
    <3>3. e.request # r
          BY <1>2, <3>1
    <3>. QED BY <1>7, <3>1, <3>2, <3>3
  <2>. QED BY <1>1, <2>1, <2>2
<1>11. AnswersTrue'
  <2>1. \A j, c : Made(j, c) => Made(j, c)'
        BY <1>1 DEF Made
  <2>2. \E e \in effects' : e.row = Row(q) /\ e.body = q.call.body
    <3>1. f \in effects' /\ f.row = Row(p) /\ f.body = p.call.body
          BY <1>1
    <3>. QED BY <1>5, <3>1
  <2>3. \A x \in Requests : requests'[x].answer = "created" =>
          \E e \in effects' : e.row = Row(requests'[x]) /\ e.body = requests'[x].call.body
    <3>. SUFFICES ASSUME NEW x \in Requests, requests'[x].answer = "created"
                  PROVE  \E e \in effects' : e.row = Row(requests'[x]) /\ e.body = requests'[x].call.body
         OBVIOUS
    <3>1. CASE x = r
          BY <1>7, <2>2, <3>1
    <3>2. CASE x # r
          BY <1>1, <1>7, <3>2 DEF KeysInv, AnswersTrue, Made
    <3>. QED BY <3>1, <3>2
  <2>4. \A i \in RowIds : keys'[i].answer = "created" => Made(i, keys[i].call)'
        BY <1>1, <2>1 DEF KeysInv, AnswersTrue
  <2>. QED BY <1>1, <2>3, <2>4 DEF AnswersTrue, Made
<1>12. AcknowledgedOnce'
  <2>1. ASSUME NEW e \in effects, requests[e.request].answer = "created"
        PROVE  e.row # Row(p)
    <3>1. /\ e.request \in Requests /\ After(requests[e.request]) /\ e.row = Row(requests[e.request])
          /\ requests[e.request].at \in {"respond", "complete"} \/ Blocked(e.row)
          BY <2>1 DEF KeysInv, TablesOk, EffectsKnown
    <3>2. CASE Blocked(e.row)
          BY <1>2, <3>2 DEF Blocked
    <3>3. CASE requests[e.request].at \in {"respond", "complete"}
      <4>1. HoldsRow(requests[e.request]) /\ e.request # r
            BY <1>2, <3>1, <3>3 DEF After, HoldsRow, Holding
      <4>. QED BY <1>2, <3>1, <4>1, HolderFacts
    <3>. QED BY <3>1, <3>2, <3>3
  <2>2. \A e \in effects : e.request \in Requests /\ e.request # r
        BY <1>2 DEF KeysInv, TablesOk, EffectsKnown
  <2>3. \A e \in effects : requests'[e.request] = requests[e.request]
        BY <1>7, <2>2
  <2>. QED BY <1>1, <2>1, <2>3 DEF KeysInv, AcknowledgedOnce
<1>. QED BY <1>6, <1>7, <1>9, <1>10, <1>11, <1>12 DEF KeysInv

\* The caller is found, or is not: the request goes on to its claim, to its handler
\* or to an answer.
LEMMA ResolvedOk ==
  ASSUME KeysInv, NEW r \in Requests, requests[r].at \in {"lookup", "load", "fill"}, NEW q,
         \/ \E org \in Orgs : Resolved(r, org) /\ q = requests'[r]
         \/ Unresolved(r) /\ q = requests'[r]
  PROVE  /\ Becomes(r, q) /\ RequestOk(q) /\ ~After(requests[r]) /\ q.answer # "created"
         /\ HoldsRow(q) => HoldsRow(requests[r]) /\ SameRow(requests[r], q)
         /\ q.at \in {"claim", "handle", "done", "complete"}
<1>. DEFINE p == requests[r]
<1>1. /\ p \in RequestRecords /\ RequestOk(p) /\ requests \in [Requests -> RequestRecords]
      /\ p.answer = "none"
      BY DEF KeysInv, RequestsOk, RequestOk
<1>2. /\ p.session \in Sessions /\ p.key \in Keys
      /\ p.stage \in {"scope", "route"} /\ p.call \in Calls /\ p.scope \in Scopes \union {"none"}
      /\ p.stage = "scope" => p.call.op # "read"
      BY <1>1 DEF RequestRecords, RequestOk
<1>3. CASE \E org \in Orgs : Resolved(r, org) /\ q = requests'[r]
  <2>1. PICK org \in Orgs : Resolved(r, org) /\ q = requests'[r]
        BY <1>3
  <2>. DEFINE t == [p EXCEPT !.at = IF p.stage = "scope" THEN "claim" ELSE "handle",
                             !.scope = IF p.stage = "scope" THEN org ELSE @,
                             !.org = IF p.stage = "scope" THEN @ ELSE org]
  <2>2. q = t /\ Becomes(r, t)
        BY <1>1, <2>1 DEF Resolved, Becomes
  <2>3. org \in Scopes
        BY DEF Scopes
  <2>4. t \in RequestRecords
        BY <1>1, <2>3 DEF RequestRecords, Holding
  <2>5. RequestOk(t) /\ t.answer = "none" /\ t.at \in {"claim", "handle"}
        BY <1>1, <1>2, <2>3, <2>4 DEF RequestOk, HoldsRow, Holding, RequestRecords
  <2>6. HoldsRow(t) => HoldsRow(p) /\ SameRow(p, t)
        BY <1>1, <1>2 DEF HoldsRow, Holding, SameRow, RequestRecords
  <2>. QED BY <2>2, <2>5, <2>6 DEF After
<1>4. CASE Unresolved(r) /\ q = requests'[r]
  <2>2. Anonymous \in Scopes /\ "unauthenticated" \in Answers
        BY DEF Scopes, Answers
  <2>3. CASE p.stage = "scope"
    <3>. DEFINE t == [p EXCEPT !.at = "claim", !.scope = Anonymous, !.answer = p.answer]
    <3>1. q = t /\ Becomes(r, t)
          BY <1>1, <1>2, <1>4, <2>3 DEF Unresolved, Becomes
    <3>2. t \in RequestRecords
          BY <1>1, <1>2, <2>2 DEF RequestRecords
    <3>3. RequestOk(t) /\ t.answer = "none" /\ t.at = "claim" /\ ~HoldsRow(t)
          BY <1>1, <1>2, <2>2, <2>3, <3>1, <3>2 DEF RequestOk, HoldsRow, Holding, RequestRecords
    <3>. QED BY <3>1, <3>3 DEF After
  <2>4. CASE p.stage # "scope" /\ p.call.op = "read"
    <3>. DEFINE t == [p EXCEPT !.at = "done", !.scope = p.scope, !.answer = "unauthenticated"]
    <3>1. q = t /\ Becomes(r, t)
          BY <1>1, <1>4, <2>4 DEF Unresolved, Becomes
    <3>2. t \in RequestRecords
          BY <1>1, <1>2, <2>2 DEF RequestRecords
    <3>3. RequestOk(t) /\ t.answer = "unauthenticated" /\ t.at = "done" /\ ~HoldsRow(t)
          BY <1>1, <1>2, <2>4, <3>1, <3>2 DEF RequestOk, HoldsRow, Holding, RequestRecords
    <3>. QED BY <3>1, <3>3 DEF After
  <2>5. CASE p.stage # "scope" /\ p.call.op # "read"
    <3>. DEFINE t == [p EXCEPT !.at = "complete", !.scope = p.scope, !.answer = "unauthenticated"]
    <3>1. q = t /\ Becomes(r, t)
          BY <1>1, <1>4, <2>5 DEF Unresolved, Becomes
    <3>2. t \in RequestRecords
          BY <1>1, <1>2, <2>2 DEF RequestRecords, Holding
    <3>3. RequestOk(t) /\ t.answer = "unauthenticated" /\ t.at = "complete" /\ SameRow(p, t) /\ HoldsRow(p)
          BY <1>1, <1>2, <2>5, <3>1, <3>2 DEF RequestOk, HoldsRow, Holding, RequestRecords, SameRow
    <3>. QED BY <3>1, <3>3 DEF After
  <2>. QED BY <2>3, <2>4, <2>5
<1>. QED BY <1>3, <1>4

\* The three steps that find the caller.
LEMMA CallerKeeps ==
  ASSUME KeysInv, NEW r \in Requests, Lookup(r) \/ Load(r) \/ Fill(r)
  PROVE  KeysInv'
<1>. DEFINE p == requests[r]
<1>1. /\ p \in RequestRecords /\ RequestOk(p) /\ p.at \in {"lookup", "load", "fill"} /\ ~After(p)
      /\ keys' = keys /\ effects' = effects /\ p.answer = "none" /\ p.session \in Sessions
      BY DEF KeysInv, RequestsOk, RequestOk, Lookup, Load, Fill, After
<1>2. sessions[p.session].org \in Orgs
      BY <1>1 DEF KeysInv, TablesOk
<1>3. TablesOk'
  <2>1. cache' \subseteq Sessions /\ UNCHANGED <<sessions, purged, faults>>
        BY <1>1 DEF Lookup, Load, Fill, KeysInv, TablesOk
  <2>. QED BY <1>1, <2>1 DEF KeysInv, TablesOk
<1>4. CASE (\E org \in Orgs : Resolved(r, org)) \/ Unresolved(r)
  <2>. DEFINE q == requests'[r]
  <2>1. /\ Becomes(r, q) /\ RequestOk(q) /\ q.answer # "created"
        /\ HoldsRow(q) => HoldsRow(p) /\ SameRow(p, q)
        BY <1>1, <1>4, ResolvedOk
  <2>. HIDE DEF q
  <2>. QED BY <1>1, <1>3, <2>1, QuietKeeps
<1>5. ASSUME NEW at \in {"load", "fill"}, requests' = [requests EXCEPT ![r].at = at]
      PROVE  KeysInv'
  <2>. DEFINE q == [p EXCEPT !.at = at]
  <2>1. Becomes(r, q)
        BY <1>5 DEF Becomes
  <2>2. q \in RequestRecords
        BY <1>1 DEF RequestRecords, Holding
  <2>3. /\ RequestOk(q) /\ q.answer = "none"
        /\ HoldsRow(q) => HoldsRow(p) /\ SameRow(p, q)
        BY <1>1, <2>2 DEF RequestOk, HoldsRow, Holding, RequestRecords, SameRow
  <2>. HIDE DEF q
  <2>. QED BY <1>1, <1>3, <2>1, <2>3, QuietKeeps
<1>. QED BY <1>2, <1>4, <1>5 DEF Lookup, Load, Fill

\* A request arrives, waits in vain or hears an answer, which is the first one's.
LEMMA ArriveKeeps == ASSUME KeysInv, NEW r \in Requests, Arrive(r) PROVE KeysInv'
<1>1. PICK call \in Calls, s \in Sessions, k \in Keys :
        requests' = [requests EXCEPT ![r] =
          [Idle EXCEPT !.at = "lookup", !.stage = IF call.op = "read" THEN "route" ELSE "scope",
                       !.call = call, !.session = s, !.key = k]]
      BY DEF Arrive
<1>. DEFINE p == requests[r]
            q == [Idle EXCEPT !.at = "lookup", !.stage = IF call.op = "read" THEN "route" ELSE "scope",
                              !.call = call, !.session = s, !.key = k]
<1>2. Becomes(r, q) /\ p.at = "idle" /\ UNCHANGED <<sessions, cache, purged, keys, effects, faults>>
      BY <1>1 DEF Arrive, Becomes
<1>3. q \in RequestRecords
      BY DEF Idle, RequestRecords, Holding
<1>4. RequestOk(q) /\ q.answer = "none" /\ ~HoldsRow(q)
      BY <1>3 DEF RequestOk, HoldsRow, Holding, Idle
<1>5. TablesOk' /\ ~After(p)
      BY <1>2 DEF KeysInv, TablesOk, After
<1>. HIDE DEF q
<1>. QED BY <1>2, <1>4, <1>5, QuietKeeps

\* A request that polls the row of another, or gives up waiting for it, only
\* reads it.
LEMMA WaiterKeeps == ASSUME KeysInv, NEW r \in Requests, Poll(r) \/ GiveUp(r) PROVE KeysInv'
<1>. DEFINE p == requests[r]
            i == Row(p)
<1>1. /\ p \in RequestRecords /\ RequestOk(p) /\ p.at = "wait" /\ ~After(p)
      /\ UNCHANGED <<sessions, cache, purged, keys, effects, faults>>
      BY DEF KeysInv, RequestsOk, Poll, GiveUp, After
<1>2. p.key \in Keys /\ p.scope \in Scopes /\ i \in RowIds /\ i = RowOf(r) /\ keys[i] \in Rows
      BY <1>1 DEF RequestOk, RowIds, Row, RowOf, KeysInv, TablesOk
<1>3. PICK a \in Answers : /\ requests' = [requests EXCEPT ![r].at = "done", ![r].answer = a]
                           /\ a = "created" => keys[i].answer = "created" /\ keys[i].call = p.call
  <2>1. CASE Answer(r, "in_progress") \/ Answer(r, "conflict")
        BY <2>1 DEF Answer, Answers
  <2>2. CASE SameHash(r) /\ keys[i].answer # "none" /\ Answer(r, keys[i].answer)
    <3>1. keys[i].answer \in Answers
          BY <1>2, <2>2 DEF Rows, NoRow
    <3>. QED BY <1>2, <2>2, <3>1 DEF Answer, SameHash
  <2>. QED BY <1>2, <2>1, <2>2 DEF Poll, GiveUp
<1>. DEFINE q == [p EXCEPT !.at = "done", !.answer = a]
<1>4. Becomes(r, q)
      BY <1>3 DEF Becomes
<1>5. q \in RequestRecords
      BY <1>1, <1>3 DEF RequestRecords
<1>6. /\ RequestOk(q) /\ ~HoldsRow(q) /\ q.answer = a /\ Row(q) = i /\ q.call = p.call
      BY <1>1, <1>2, <1>3, <1>5 DEF RequestOk, HoldsRow, Holding, RequestRecords, Row
<1>7. q.answer = "created" => Made(Row(q), q.call)
      BY <1>2, <1>3, <1>6 DEF KeysInv, AnswersTrue
<1>8. TablesOk'
      BY <1>1 DEF KeysInv, TablesOk
<1>. HIDE DEF q
<1>. QED BY <1>1, <1>4, <1>6, <1>7, <1>8, QuietKeeps

\* The routes that change no table but perhaps the session, and the ends of a route
\* without an effect of its own.
LEMMA RouteKeeps ==
  ASSUME KeysInv, NEW r \in Requests,
         Read(r) \/ Refuse(r) \/ Respond(r) \/ Raise(r) \/ Revoke(r) \/ Purge(r) \/ PurgeFails(r)
  PROVE  KeysInv'
<1>. DEFINE p == requests[r]
<1>1. /\ p \in RequestRecords /\ RequestOk(p) /\ keys' = keys /\ effects' = effects
      BY DEF KeysInv, RequestsOk, Read, Refuse, Respond, Raise, Revoke, Purge, PurgeFails
<1>2. TablesOk'
  <2>1. /\ UNCHANGED <<keys, effects>> /\ faults' \in 0..MaxFaults /\ cache' \subseteq Sessions
        BY <1>1, RequestsAssumption
           DEF KeysInv, TablesOk, Read, Answer, Refuse, Respond, Raise, Revoke, Purge, PurgeFails
  <2>2. purged' \in [Sessions -> {"no", "clean", "overlapped"}]
        BY DEF KeysInv, TablesOk, Read, Refuse, Respond, Raise, Revoke, Purge, PurgeFails
  <2>3. sessions' \in [Sessions -> [org : Orgs, status : {"active", "revoked", "expired"}]]
        BY DEF KeysInv, TablesOk, Read, Refuse, Respond, Raise, Revoke, Purge, PurgeFails
  <2>. QED BY <2>1, <2>2, <2>3 DEF KeysInv, TablesOk
<1>3. ASSUME NEW q, Becomes(r, q), q \in RequestRecords, SameRow(p, q), q.session = p.session,
             p.at \notin {"idle", "claim", "wait", "done", "dead"},
             \/ q.at = "done" /\ q.answer # "created" /\ (p.call.op = "read" \/ p.stage = "scope")
             \/ q.at = "complete" /\ q.answer \notin {"none", "created"} /\ HoldsRow(p)
             \/ q.at = "complete" /\ q.answer = "created" /\ p.at = "respond"
             \/ q.at = "release" /\ q.answer = "error" /\ HoldsRow(p)
             \/ q.at = "purge" /\ q.answer = "none" /\ HoldsRow(p) /\ ~After(p)
      PROVE  KeysInv'
  <2>1. /\ p.session \in Sessions /\ p.key \in Keys
        /\ p.stage = "scope" => p.call.op # "read"
        /\ HoldsRow(p) => p.stage = "route" /\ p.call.op # "read" /\ p.scope \in Scopes
        /\ p.at = "respond" => HoldsRow(p) /\ p.answer = "created"
        BY <1>1, <1>3 DEF RequestOk, HoldsRow, Holding
  <2>2. RequestOk(q)
        BY <1>3, <2>1 DEF RequestOk, HoldsRow, Holding, SameRow
  <2>3. /\ HoldsRow(q) => HoldsRow(p) /\ SameRow(p, q)
        /\ After(p) => After(q) /\ SameRow(p, q)
        /\ q.answer = "created" => q.at = "complete" /\ p.answer = "created" /\ SameRow(p, q)
        BY <1>1, <1>3, <2>1 DEF RequestOk, HoldsRow, After, Holding, SameRow
  <2>4. q.answer = "created" => Made(Row(q), q.call)
        BY <2>3 DEF KeysInv, AnswersTrue, SameRow, Row
  <2>. QED BY <1>1, <1>2, <1>3, <2>2, <2>3, <2>4, QuietKeeps
<1>4. ASSUME NEW at \in {"done", "complete", "release", "purge"}, NEW a \in Answers \union {"none"},
             NEW q, q = [p EXCEPT !.at = at, !.answer = a]
      PROVE  /\ q \in RequestRecords /\ SameRow(p, q) /\ q.session = p.session
             /\ q.at = at /\ q.answer = a
  <2>1. q \in RequestRecords
        BY <1>1, <1>4 DEF RequestRecords, Holding
  <2>2. q.at = at /\ q.answer = a /\ q.session = p.session /\ SameRow(p, q)
        BY <1>1, <1>4 DEF RequestRecords, SameRow
  <2>. QED BY <2>1, <2>2
<1>5. CASE Read(r)
  <2>. DEFINE q == [p EXCEPT !.at = "done", !.answer = "read"]
  <2>1. Becomes(r, q) /\ p.call.op = "read" /\ p.at = "handle"
        BY <1>5 DEF Read, Answer, Becomes
  <2>2. q \in RequestRecords /\ SameRow(p, q) /\ q.session = p.session /\ q.at = "done" /\ q.answer = "read"
        BY <1>4 DEF Answers
  <2>. HIDE DEF q
  <2>. QED BY <1>3, <2>1, <2>2
<1>6. CASE Refuse(r)
  <2>. DEFINE q == [p EXCEPT !.at = "complete", !.answer = "refused"]
  <2>1. Becomes(r, q) /\ HoldsRow(p) /\ p.at = "handle"
        BY <1>1, <1>6 DEF Refuse, RequestOk, HoldsRow, Holding, Becomes
  <2>2. q \in RequestRecords /\ SameRow(p, q) /\ q.session = p.session /\ q.at = "complete" /\ q.answer = "refused"
        BY <1>4 DEF Answers
  <2>. HIDE DEF q
  <2>. QED BY <1>3, <2>1, <2>2
<1>7. CASE Respond(r) \/ Revoke(r)
  <2>. DEFINE at == IF Respond(r) THEN "complete" ELSE "purge"
              q == [p EXCEPT !.at = at]
  <2>1. Becomes(r, q) /\ p.at \in {"respond", "handle"}
        BY <1>7 DEF Respond, Revoke, Becomes
  <2>2. /\ q \in RequestRecords /\ SameRow(p, q) /\ q.session = p.session
        /\ q.answer = p.answer /\ q.at = at
        BY <1>1 DEF RequestRecords, Holding, SameRow
  <2>3. CASE Respond(r)
    <3>1. p.at = "respond" /\ p.answer = "created" /\ at = "complete"
          BY <1>1, <2>3 DEF Respond, RequestOk
    <3>. QED BY <1>3, <2>1, <2>2, <3>1
  <2>4. CASE ~Respond(r)
    <3>1. p.at = "handle" /\ p.answer = "none" /\ at = "purge" /\ HoldsRow(p) /\ ~After(p)
          BY <1>1, <1>7, <2>4 DEF Revoke, RequestOk, HoldsRow, Holding, After
    <3>. QED BY <1>3, <2>1, <2>2, <3>1
  <2>. QED BY <2>3, <2>4
<1>8. CASE Raise(r) /\ HoldsRow(p)
  <2>. DEFINE q == [p EXCEPT !.at = "release", !.answer = "error"]
  <2>1. Becomes(r, q) /\ p.at \in {"lookup", "load", "fill", "handle", "respond"} /\ HoldsRow(p)
        BY <1>1, <1>8 DEF Raise, Holds, HoldsRow, Becomes
  <2>2. q \in RequestRecords /\ SameRow(p, q) /\ q.session = p.session /\ q.at = "release" /\ q.answer = "error"
        BY <1>4 DEF Answers
  <2>. HIDE DEF q
  <2>. QED BY <1>3, <2>1, <2>2
<1>9. CASE Raise(r) /\ ~HoldsRow(p)
  <2>. DEFINE q == [p EXCEPT !.at = "done", !.answer = "error"]
  <2>1. /\ Becomes(r, q) /\ p.at \in {"lookup", "load", "fill", "handle", "respond"}
        /\ p.call.op = "read" \/ p.stage = "scope"
        BY <1>1, <1>9 DEF Raise, Holds, HoldsRow, Holding, RequestRecords, Becomes
  <2>2. q \in RequestRecords /\ SameRow(p, q) /\ q.session = p.session /\ q.at = "done" /\ q.answer = "error"
        BY <1>4 DEF Answers
  <2>. HIDE DEF q
  <2>. QED BY <1>3, <2>1, <2>2
<1>10. CASE Purge(r)
  <2>. DEFINE q == [p EXCEPT !.at = "complete", !.answer = "signed_out"]
  <2>1. Becomes(r, q) /\ p.at = "purge" /\ HoldsRow(p)
        BY <1>1, <1>10 DEF Purge, RequestOk, HoldsRow, Holding, Becomes
  <2>2. q \in RequestRecords /\ SameRow(p, q) /\ q.session = p.session /\ q.at = "complete" /\ q.answer = "signed_out"
        BY <1>4 DEF Answers
  <2>. HIDE DEF q
  <2>. QED BY <1>3, <2>1, <2>2
<1>11. CASE PurgeFails(r)
  <2>. DEFINE q == [p EXCEPT !.at = "complete", !.answer = "purge_failed"]
  <2>1. Becomes(r, q) /\ p.at = "purge" /\ HoldsRow(p)
        BY <1>1, <1>11 DEF PurgeFails, RequestOk, HoldsRow, Holding, Becomes
  <2>2. q \in RequestRecords /\ SameRow(p, q) /\ q.session = p.session /\ q.at = "complete" /\ q.answer = "purge_failed"
        BY <1>4 DEF Answers
  <2>. HIDE DEF q
  <2>. QED BY <1>3, <2>1, <2>2
<1>. QED BY <1>5, <1>6, <1>7, <1>8, <1>9, <1>10, <1>11

\* Whatever a step is, it keeps what is known of keys and effects.
LEMMA KeysKeep == KeysInv /\ [Next]_vars => KeysInv'
<1>. SUFFICES ASSUME KeysInv, [Next]_vars PROVE KeysInv'
     OBVIOUS
<1>1. ASSUME NEW r \in Requests, Arrive(r) \/ Proceed(r) \/ Raise(r) \/ PurgeFails(r) \/ Die(r)
      PROVE  KeysInv'
      BY <1>1, ArriveKeeps, CallerKeeps, ClaimKeeps, WaiterKeeps, CommitKeeps, RouteKeeps,
         CompleteKeeps, ReleaseKeeps, DieKeeps DEF Proceed
<1>2. ASSUME NEW s \in Sessions, Expire(s)
      PROVE  KeysInv'
  <2>1. /\ sessions' = [sessions EXCEPT ![s].status = "expired"] /\ cache' = cache \ {s}
        /\ UNCHANGED <<purged, keys, requests, effects, faults>>
        BY <1>2 DEF Expire
  <2>2. TablesOk'
        BY <2>1 DEF KeysInv, TablesOk
  <2>. QED BY <2>1, <2>2 DEF KeysInv, RequestsOk, RowsHeld, OneHolder, Holds, RowOf, EffectsKnown,
                             Blocked, AcknowledgedOnce, AnswersTrue, Made
<1>3. CASE UNCHANGED vars
      BY <1>3 DEF vars, KeysInv, TablesOk, RequestsOk, RowsHeld, OneHolder, Holds, RowOf, EffectsKnown,
                  Blocked, AcknowledgedOnce, AnswersTrue, Made
<1>. QED BY <1>1, <1>2, <1>3 DEF Next

-----------------------------------------------------------------------------
(* Logouts *)

\* A step of r that fills nothing and purges nothing keeps what is known of logouts.
LEMMA LogoutQuiet ==
  ASSUME IInv, NEW r \in Requests, \A x \in Requests \ {r} : requests'[x] = requests[x],
         sessions' = sessions, cache' = cache, purged' = purged,
         \/ requests'[r].at \notin {"fill", "purge"}
         \/ requests'[r].at = "fill" /\ sessions[requests'[r].session].status = "active"
            /\ requests'[r].session \in Sessions
  PROVE  LogoutsFinal'
<1>1. \A s \in Sessions : purged[s] = "clean" => s \notin cache' /\ ~FillUnderWay(s)'
  <2>. SUFFICES ASSUME NEW s \in Sessions, purged[s] = "clean", NEW x \in Requests,
                       requests'[x].at = "fill", requests'[x].session = s
                PROVE  FALSE
       BY DEF IInv, LogoutsFinal, CleanLogoutHolds, FillUnderWay
  <2>1. CASE x = r
        BY <2>1 DEF IInv, LogoutsFinal
  <2>2. CASE x # r
        BY <2>2 DEF IInv, LogoutsFinal, CleanLogoutHolds, FillUnderWay
  <2>. QED BY <2>1, <2>2
<1>2. \A x \in Requests : requests'[x].at = "purge" => sessions[requests'[x].session].status # "active"
      BY DEF IInv, LogoutsFinal
<1>. QED BY <1>1, <1>2 DEF IInv, LogoutsFinal, CleanLogoutHolds

\* Every step keeps what is known of logouts.
LEMMA LogoutsKeep == IInv /\ [Next]_vars => LogoutsFinal'
<1>. SUFFICES ASSUME IInv, [Next]_vars PROVE LogoutsFinal'
     OBVIOUS
<1>. USE DEF KeysInv
<1>0. /\ requests \in [Requests -> RequestRecords] /\ \A r \in Requests : RequestOk(requests[r])
      /\ sessions \in [Sessions -> [org : Orgs, status : {"active", "revoked", "expired"}]]
      /\ purged \in [Sessions -> {"no", "clean", "overlapped"}] /\ cache \subseteq Sessions
      BY DEF IInv, RequestsOk, TablesOk
<1>1. ASSUME NEW r \in Requests,
             \/ Arrive(r) \/ Lookup(r) \/ Load(r) \/ Claim(r) \/ Poll(r) \/ GiveUp(r)
             \/ Read(r) \/ Commit(r) \/ Refuse(r) \/ Respond(r) \/ Complete(r) \/ Release(r)
             \/ Raise(r) \/ PurgeFails(r) \/ Die(r)
      PROVE  LogoutsFinal'
  <2>1. /\ \A x \in Requests \ {r} : requests'[x] = requests[x]
        /\ UNCHANGED <<sessions, cache, purged>>
        BY <1>0, <1>1 DEF Arrive, Lookup, Load, Resolved, Unresolved, Claim, Poll, GiveUp, Answer, Read,
              Commit, Refuse, Respond, Complete, Release, Raise, PurgeFails, Die
  <2>2. CASE Load(r) /\ sessions[requests[r].session].status = "active"
    <3>1. requests' = [requests EXCEPT ![r].at = "fill"] /\ requests[r].at = "load"
          BY <2>2 DEF Load
    <3>2. requests'[r].at = "fill" /\ requests'[r].session = requests[r].session /\ requests[r].session \in Sessions
          BY <1>0, <3>1 DEF RequestRecords, RequestOk
    <3>. QED BY <2>1, <2>2, <3>2, LogoutQuiet
  <2>3. CASE (Load(r) /\ sessions[requests[r].session].status # "active") \/ Lookup(r)
    <3>1. CASE requests' = [requests EXCEPT ![r].at = "load"]
          BY <1>0, <2>1, <3>1, LogoutQuiet
    <3>2. CASE (\E org \in Orgs : Resolved(r, org)) \/ Unresolved(r)
      <4>1. \A q : q = requests'[r] => q.at \in {"claim", "handle", "done", "complete"}
            BY <2>3, <3>2, ResolvedOk DEF Load, Lookup, IInv
      <4>. QED BY <2>1, <4>1, LogoutQuiet
    <3>3. Lookup(r) => sessions[requests[r].session].org \in Orgs
          BY <1>0 DEF Lookup, RequestOk
    <3>. QED BY <2>3, <3>1, <3>2, <3>3 DEF Load, Lookup
  <2>4. CASE ~Load(r) /\ ~Lookup(r)
    <3>1. CASE Arrive(r)
      <4>1. requests'[r].at = "lookup"
            BY <1>0, <3>1 DEF Arrive, Idle
      <4>. QED BY <2>1, <4>1, LogoutQuiet
    <3>2. CASE ~Arrive(r)
      <4>1. PICK at \in {"lookup", "wait", "done", "respond", "complete", "release", "dead"} : requests'[r].at = at
            BY <1>0, <1>1, <2>4, <3>2 DEF Claim, Poll, GiveUp, Answer, Read, Commit, Refuse, Respond,
               Complete, Release, Raise, PurgeFails, Die, RequestRecords
      <4>. QED BY <2>1, <4>1, LogoutQuiet
    <3>. QED BY <3>1, <3>2
  <2>. QED BY <2>2, <2>3, <2>4
<1>2. ASSUME NEW r \in Requests, Fill(r)
      PROVE  LogoutsFinal'
  <2>. DEFINE s == requests[r].session
  <2>1. /\ \A x \in Requests \ {r} : requests'[x] = requests[x]
        /\ requests'[r].at \notin {"fill", "purge"} /\ requests[r].at = "fill"
        /\ UNCHANGED <<sessions, purged>> /\ cache' \subseteq cache \union {s}
        BY <1>0, <1>2 DEF Fill, Resolved
  <2>2. \A t \in Sessions : purged[t] = "clean" => t # s
        BY <2>1 DEF IInv, LogoutsFinal, CleanLogoutHolds, FillUnderWay
  <2>3. \A t \in Sessions : FillUnderWay(t)' => FillUnderWay(t)
        BY <2>1 DEF FillUnderWay
  <2>. HIDE DEF s
  <2>. QED BY <2>1, <2>2, <2>3 DEF IInv, LogoutsFinal, CleanLogoutHolds
<1>3. ASSUME NEW r \in Requests, Revoke(r)
      PROVE  LogoutsFinal'
  <2>. DEFINE s == requests[r].session
  <2>1. /\ requests[r].at = "handle" /\ requests' = [requests EXCEPT ![r].at = "purge"]
        /\ sessions' = [sessions EXCEPT ![s].status = IF @ = "active" THEN "revoked" ELSE @]
        /\ UNCHANGED <<cache, purged>>
        BY <1>3 DEF Revoke
  <2>2. s \in Sessions
        BY <1>0, <2>1 DEF RequestOk
  <2>3. \A t \in Sessions : sessions'[t].status = "active" => t # s /\ sessions[t].status = "active"
        BY <1>0, <2>1, <2>2
  <2>4. /\ \A x \in Requests \ {r} : requests'[x] = requests[x]
        /\ requests'[r].at = "purge" /\ requests'[r].session = s
        BY <1>0, <2>1 DEF RequestRecords
  <2>5. \A t \in Sessions : FillUnderWay(t)' => FillUnderWay(t)
        BY <2>4 DEF FillUnderWay
  <2>6. \A x \in Requests : requests'[x].at = "purge" => sessions'[requests'[x].session].status # "active"
    <3>. SUFFICES ASSUME NEW x \in Requests, requests'[x].at = "purge"
                  PROVE  requests'[x].session \in Sessions /\ sessions'[requests'[x].session].status # "active"
         OBVIOUS
    <3>1. CASE x = r
          BY <2>2, <2>3, <2>4, <3>1
    <3>2. CASE x # r
      <4>1. requests'[x] = requests[x] /\ requests[x].session \in Sessions
            BY <1>0, <2>4, <3>2 DEF RequestOk
      <4>. QED BY <2>3, <4>1 DEF IInv, LogoutsFinal
    <3>. QED BY <3>1, <3>2
  <2>. HIDE DEF s
  <2>. QED BY <2>1, <2>3, <2>5, <2>6 DEF IInv, LogoutsFinal, CleanLogoutHolds
<1>4. ASSUME NEW r \in Requests, Purge(r)
      PROVE  LogoutsFinal'
  <2>. DEFINE s == requests[r].session
  <2>1. /\ requests[r].at = "purge" /\ cache' = cache \ {s} /\ sessions' = sessions
        /\ requests' = [requests EXCEPT ![r].at = "complete", ![r].answer = "signed_out"]
        /\ purged' = [purged EXCEPT ![s] = IF FillUnderWay(s) THEN "overlapped" ELSE "clean"]
        BY <1>4 DEF Purge
  <2>2. s \in Sessions /\ sessions[s].status # "active"
        BY <1>0, <2>1 DEF RequestOk, IInv, LogoutsFinal
  <2>3. /\ \A x \in Requests \ {r} : requests'[x] = requests[x]
        /\ requests'[r].at = "complete"
        BY <1>0, <2>1 DEF RequestRecords
  <2>4. \A t \in Sessions : FillUnderWay(t)' => FillUnderWay(t)
        BY <2>3 DEF FillUnderWay
  <2>5. \A t \in Sessions : t # s => purged'[t] = purged[t]
        BY <1>0, <2>1
  <2>6. purged'[s] = "clean" => ~FillUnderWay(s)
        BY <1>0, <2>1, <2>2
  <2>7. \A t \in Sessions : purged'[t] = "clean" => t \notin cache' /\ ~FillUnderWay(t)'
    <3>. SUFFICES ASSUME NEW t \in Sessions, purged'[t] = "clean"
                  PROVE  t \notin cache' /\ ~FillUnderWay(t)'
         OBVIOUS
    <3>1. CASE t = s
          BY <2>1, <2>4, <2>6, <3>1
    <3>2. CASE t # s
          BY <2>1, <2>4, <2>5, <3>2 DEF IInv, LogoutsFinal, CleanLogoutHolds
    <3>. QED BY <3>1, <3>2
  <2>8. \A t \in Sessions : purged'[t] # "no" => sessions[t].status # "active"
        BY <2>2, <2>5 DEF IInv, LogoutsFinal
  <2>9. \A x \in Requests : requests'[x].at = "purge" => sessions[requests'[x].session].status # "active"
        BY <2>3 DEF IInv, LogoutsFinal
  <2>. QED BY <2>1, <2>7, <2>8, <2>9 DEF LogoutsFinal, CleanLogoutHolds
<1>5. ASSUME NEW s \in Sessions, Expire(s)
      PROVE  LogoutsFinal'
  <2>1. /\ sessions' = [sessions EXCEPT ![s].status = "expired"] /\ cache' \subseteq cache
        /\ UNCHANGED <<purged, requests>>
        BY <1>5 DEF Expire
  <2>2. \A t \in Sessions : sessions'[t].status = "active" => sessions[t].status = "active"
        BY <1>0, <2>1
  <2>3. \A x \in Requests : requests[x].at = "purge" => requests[x].session \in Sessions
        BY <1>0 DEF RequestOk
  <2>. QED BY <2>1, <2>2, <2>3 DEF IInv, LogoutsFinal, CleanLogoutHolds, FillUnderWay
<1>6. CASE UNCHANGED vars
      BY <1>6 DEF vars, IInv, LogoutsFinal, CleanLogoutHolds, FillUnderWay
<1>. QED BY <1>1, <1>2, <1>3, <1>4, <1>5, <1>6 DEF Next, Proceed

-----------------------------------------------------------------------------
(* The theorems *)

\* No request has arrived.
LEMMA InitInvariant == Init => IInv
<1>. SUFFICES ASSUME Init PROVE IInv
     OBVIOUS
<1>1. \A r \in Requests : requests[r] = Idle
      BY DEF Init
<1>2. Idle \in RequestRecords
      BY DEF Idle, RequestRecords, Calls
<1>3. RequestsOk
  <2>1. RequestOk(Idle)
        BY <1>2 DEF RequestOk, Idle, HoldsRow, Holding
  <2>. QED BY <1>1, <1>2, <2>1 DEF Init, RequestsOk
<1>4. TablesOk
  <2>1. keys \in [RowIds -> Rows] /\ faults \in 0..MaxFaults
        BY RequestsAssumption DEF Init, Rows
  <2>2. /\ sessions \in [Sessions -> [org : Orgs, status : {"active", "revoked", "expired"}]]
        /\ cache \subseteq Sessions /\ purged \in [Sessions -> {"no", "clean", "overlapped"}]
        /\ effects = {}
        BY DEF Init
  <2>. QED BY <2>1, <2>2 DEF TablesOk
<1>5. RowsHeld
      BY <1>1 DEF RowsHeld, OneHolder, Holds, HoldsRow, Idle
<1>6. EffectsKnown /\ AcknowledgedOnce /\ AnswersTrue
      BY <1>1 DEF Init, EffectsKnown, AcknowledgedOnce, AnswersTrue, Idle, NoRow
<1>7. LogoutsFinal
      BY <1>1 DEF Init, LogoutsFinal, CleanLogoutHolds, Idle
<1>. QED BY <1>3, <1>4, <1>5, <1>6, <1>7 DEF IInv, KeysInv

\* In whatever order requests claim, answer, raise, die and sign out, the rows and
\* the cache are what the invariant says.
THEOREM RequestsInvariant == Spec => []IInv
<1>1. IInv /\ [Next]_vars => IInv'
      BY KeysKeep, LogoutsKeep DEF IInv
<1>. QED BY <1>1, InitInvariant, PTL DEF Spec

\* Type correctness (TypeOK).
THEOREM RequestsTyped == Spec => []TypeOK
<1>1. IInv => TypeOK
      BY DEF IInv, KeysInv, TablesOk, RequestsOk, TypeOK
<1>. QED BY <1>1, RequestsInvariant, PTL

\* Two live requests never run the route of the same key (OneHolder).
THEOREM OneRequestHoldsTheRow == Spec => []OneHolder
<1>1. IInv => OneHolder
      BY DEF IInv, KeysInv, RowsHeld
<1>. QED BY <1>1, RequestsInvariant, PTL

\* A key stands for at most one effect that was acknowledged, however often it is
\* sent again (AcknowledgedOnce).
THEOREM KeyAcknowledgedOnce == Spec => []AcknowledgedOnce
<1>1. IInv => AcknowledgedOnce
      BY DEF IInv, KeysInv
<1>. QED BY <1>1, RequestsInvariant, PTL

\* Whoever is told "created" is told the truth about its own body (CreatedIsReal).
THEOREM CreatedIsMade == Spec => []CreatedIsReal
<1>1. IInv => CreatedIsReal
      BY DEF IInv, KeysInv, AnswersTrue, Made, CreatedIsReal, RowOf, Row
<1>. QED BY <1>1, RequestsInvariant, PTL

\* No entry survives a logout that no database read overlapped (CleanLogoutHolds).
THEOREM LogoutIsFinal == Spec => []CleanLogoutHolds
<1>1. IInv => CleanLogoutHolds
      BY DEF IInv, LogoutsFinal
<1>. QED BY <1>1, RequestsInvariant, PTL

\* A stored answer is final (StoredAnswerStays): only the holder of a row writes
\* to it, and the row it holds has no answer.
THEOREM StoredAnswerIsFinal == Spec => StoredAnswerStays
<1>1. IInv /\ [Next]_vars => [\A i \in RowIds : keys[i].answer # "none" => keys'[i] = keys[i]]_vars
  <2>. SUFFICES ASSUME IInv, [Next]_vars, NEW i \in RowIds, keys[i].answer # "none"
                PROVE  keys'[i] = keys[i]
       OBVIOUS
  <2>0. keys \in [RowIds -> Rows]
        BY DEF IInv, KeysInv, TablesOk
  <2>1. ASSUME NEW r \in Requests, Claim(r)
        PROVE  keys'[i] = keys[i]
        BY <2>0, <2>1 DEF Claim, NoRow
  <2>2. ASSUME NEW r \in Requests, Complete(r) \/ Release(r)
        PROVE  keys'[i] = keys[i]
    <3>1. HoldsRow(requests[r])
          BY <2>2 DEF IInv, KeysInv, RequestsOk, RequestOk, HoldsRow, Holding, Complete, Release
    <3>2. Row(requests[r]) # i
          BY <3>1, HolderFacts DEF IInv
    <3>. QED BY <2>0, <2>2, <3>2 DEF Complete, Release, RowOf, Row
  <2>3. CASE keys' = keys
        BY <2>3
  <2>. QED BY <2>1, <2>2, <2>3 DEF Next, Proceed, Arrive, Lookup, Load, Fill, Poll, GiveUp, Read, Commit,
         Refuse, Respond, Raise, Revoke, Purge, PurgeFails, Die, Expire, vars
<1>. QED BY <1>1, RequestsInvariant, PTL DEF Spec, StoredAnswerStays
=============================================================================
