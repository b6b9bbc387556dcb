---------------------------- MODULE ApiRequests ----------------------------
(***************************************************************************)
(* How the API decides who is calling and whether it has seen the call     *)
(* before: the session cache in front of identity.sessions (deps.py,       *)
(* redis/client.py), the idempotency middleware around every mutating      *)
(* route (middleware/idempotency.py) and POST /auth/logout, the one route  *)
(* that changes what the cache may say.  Every mutating call carries a key *)
(* here, as those of the web app do (lib/jobact/api.ts); without one the   *)
(* middleware steps aside.                                                 *)
(*                                                                         *)
(* A request is a process.  Each of its steps is one call to Redis or one  *)
(* database transaction, so that everything another request can do between *)
(* two awaits is a behaviour here.  The middleware resolves the caller to  *)
(* find the scope of the key, the route resolves the caller again to       *)
(* authorize the call; both go through the same three steps.               *)
(***************************************************************************)
EXTENDS Naturals, FiniteSets

CONSTANTS
    Requests,    \* the requests of a behaviour, each sent once
    Sessions,    \* session ids a cookie may carry
    Orgs,        \* organizations the sessions belong to
    Keys,        \* idempotency keys the clients reuse
    Bodies,      \* bodies of the mutating call
    MaxFaults    \* bound on exceptions, failing cache deletes and crashes

ASSUME RequestsAssumption ==
    /\ MaxFaults \in Nat
    /\ Orgs \cap {"anonymous", "none"} = {}
    /\ "none" \notin Bodies

VARIABLES
    sessions,    \* identity.sessions: the organization, and whether it still is active
    cache,       \* Redis: the session ids with an entry
    purged,      \* how the last cache delete of a logout met the fills under way (history)
    keys,        \* platform.idempotency_keys
    requests,    \* where each request is
    effects,     \* what the mutating handler committed
    faults       \* faults so far

vars == <<sessions, cache, purged, keys, requests, effects, faults>>

Anonymous == "anonymous"
Scopes == Orgs \union {Anonymous}
RowIds == Keys \X Scopes

\* What a client may ask for: any read, a mutation with a body, a logout.
Calls == [op : {"read", "logout"}, body : {"none"}] \union [op : {"create"}, body : Bodies]

Answers == {"read", "created", "refused", "unauthenticated", "signed_out",
            "purge_failed", "in_progress", "conflict", "error"}

\* A row of the table: the hash it was claimed with and the stored answer,
\* "none" while the first request is still running.
NoRow == [call |-> [op |-> "none", body |-> "none"], answer |-> "none"]
Rows == {NoRow} \union [call : Calls, answer : Answers \union {"none"}]

Idle == [at |-> "idle", stage |-> "scope", call |-> [op |-> "read", body |-> "none"],
         session |-> "none", key |-> "none", scope |-> "none", org |-> "none",
         answer |-> "none"]

\* The request r runs a mutating route and holds the row of its key.
Holding == {"lookup", "load", "fill", "handle", "respond", "purge", "complete", "release"}
Holds(r) ==
    /\ requests[r].stage = "route"
    /\ requests[r].call.op # "read"
    /\ requests[r].at \in Holding

RowOf(r) == <<requests[r].key, requests[r].scope>>

\* The organization is part of the hash, and of the row's key as well: two
\* requests that meet on a row differ in the hash exactly if their calls do.
SameHash(r) == keys[RowOf(r)].call = requests[r].call

RequestRecords ==
    [at : Holding \union {"idle", "claim", "wait", "done", "dead"},
     stage : {"scope", "route"}, call : Calls, session : Sessions \union {"none"},
     key : Keys \union {"none"}, scope : Scopes \union {"none"},
     org : Orgs \union {"none"}, answer : Answers \union {"none"}]

TypeOK ==
    /\ sessions \in [Sessions -> [org : Orgs, status : {"active", "revoked", "expired"}]]
    /\ cache \subseteq Sessions
    /\ purged \in [Sessions -> {"no", "clean", "overlapped"}]
    /\ keys \in [RowIds -> Rows]
    /\ requests \in [Requests -> RequestRecords]
    /\ effects \subseteq [request : Requests, row : RowIds, org : Orgs, body : Bodies]
    /\ faults \in 0..MaxFaults

Init ==
    /\ sessions \in [Sessions -> [org : Orgs, status : {"active"}]]
    /\ cache \in SUBSET Sessions
    /\ purged = [s \in Sessions |-> "no"]
    /\ keys = [i \in RowIds |-> NoRow]
    /\ requests = [r \in Requests |-> Idle]
    /\ effects = {}
    /\ faults = 0

(* ------------------------------ the caller ----------------------------- *)

\* IdempotencyMiddleware.dispatch, first lines: a read goes straight to its
\* route, a mutating call first resolves the caller to find the key's scope.
Arrive(r) ==
    /\ requests[r].at = "idle"
    /\ \E call \in Calls, s \in Sessions, k \in Keys :
         requests' = [requests EXCEPT ![r] =
           [Idle EXCEPT !.at = "lookup", !.stage = IF call.op = "read" THEN "route" ELSE "scope",
                        !.call = call, !.session = s, !.key = k]]
    /\ UNCHANGED <<sessions, cache, purged, keys, effects, faults>>

\* try_resolve_principal is done: the middleware goes on to claim the key in
\* the caller's scope, the route goes on to its handler.
Resolved(r, org) ==
    requests' = [requests EXCEPT
      ![r].at = IF requests[r].stage = "scope" THEN "claim" ELSE "handle",
      ![r].scope = IF requests[r].stage = "scope" THEN org ELSE @,
      ![r].org = IF requests[r].stage = "scope" THEN @ ELSE org]

\* There is no valid session: the middleware uses the anonymous scope, the
\* route answers 401, which the middleware stores like any other answer.
Unresolved(r) ==
    requests' = [requests EXCEPT
      ![r].at = CASE requests[r].stage = "scope" -> "claim"
                  [] requests[r].call.op = "read" -> "done"
                  [] OTHER -> "complete",
      ![r].scope = IF requests[r].stage = "scope" THEN Anonymous ELSE @,
      ![r].answer = IF requests[r].stage = "scope" THEN @ ELSE "unauthenticated"]

\* A cache hit is trusted; a miss goes to the database.
Lookup(r) ==
    /\ requests[r].at = "lookup"
    /\ IF requests[r].session \in cache
       THEN Resolved(r, sessions[requests[r].session].org)
       ELSE requests' = [requests EXCEPT ![r].at = "load"]
    /\ UNCHANGED <<sessions, cache, purged, keys, effects, faults>>

\* SessionRepository.get_by_id and Session.is_active, in one transaction.
Load(r) ==
    /\ requests[r].at = "load"
    /\ IF sessions[requests[r].session].status = "active"
       THEN requests' = [requests EXCEPT ![r].at = "fill"]
       ELSE Unresolved(r)
    /\ UNCHANGED <<sessions, cache, purged, keys, effects, faults>>

\* SessionCache.put with the time the session has left: nothing is written
\* for a session that has run out, whatever else happened to it meanwhile.
Fill(r) ==
    LET s == requests[r].session IN
    /\ requests[r].at = "fill"
    /\ cache' = IF sessions[s].status = "expired" THEN cache ELSE cache \union {s}
    /\ Resolved(r, sessions[s].org)
    /\ UNCHANGED <<sessions, purged, keys, effects, faults>>

\* Thirty days pass: the row is no longer active and its entry, which has
\* the same time to live, is gone.
Expire(s) ==
    /\ sessions[s].status # "expired"
    /\ sessions' = [sessions EXCEPT ![s].status = "expired"]
    /\ cache' = cache \ {s}
    /\ UNCHANGED <<purged, keys, requests, effects, faults>>

(* --------------------------- the key's row ----------------------------- *)

\* Mutant: the insert takes the row over on a conflict.
ClaimTakesOver(r) ==
    /\ requests[r].at = "claim"
    /\ keys' = [keys EXCEPT ![RowOf(r)] = [call |-> requests[r].call, answer |-> "none"]]
    /\ requests' = [requests EXCEPT ![r].at = "lookup", ![r].stage = "route"]
    /\ UNCHANGED <<sessions, cache, purged, effects, faults>>

\* _claim_idempotency_key: INSERT .. ON CONFLICT DO NOTHING.  Who inserts the
\* row runs the route; everybody else waits for its answer.
Claim(r) ==
    /\ requests[r].at = "claim"
    /\ IF keys[RowOf(r)] = NoRow
       THEN /\ keys' = [keys EXCEPT ![RowOf(r)] = [call |-> requests[r].call, answer |-> "none"]]
            /\ requests' = [requests EXCEPT ![r].at = "lookup", ![r].stage = "route"]
       ELSE /\ requests' = [requests EXCEPT ![r].at = "wait"]
            /\ UNCHANGED keys
    /\ UNCHANGED <<sessions, cache, purged, effects, faults>>

\* The answer goes to the client and the request is over.
Answer(r, a) == requests' = [requests EXCEPT ![r].at = "done", ![r].answer = a]

\* Mutant: the stored answer is replayed without comparing the hashes.
PollIgnoresBody(r) ==
    /\ requests[r].at = "wait"
    /\ \/ keys[RowOf(r)] = NoRow /\ Answer(r, "in_progress")
       \/ keys[RowOf(r)].answer # "none" /\ Answer(r, keys[RowOf(r)].answer)
    /\ UNCHANGED <<sessions, cache, purged, keys, effects, faults>>

\* One turn of _wait_for_replay_or_conflict that finds something: the row is
\* gone (the first request raised), it belongs to another call, or the answer
\* is there and is replayed.
Poll(r) ==
    /\ requests[r].at = "wait"
    /\ \/ keys[RowOf(r)] = NoRow /\ Answer(r, "in_progress")
       \/ keys[RowOf(r)] # NoRow /\ ~SameHash(r) /\ Answer(r, "conflict")
       \/ SameHash(r) /\ keys[RowOf(r)].answer # "none" /\ Answer(r, keys[RowOf(r)].answer)
    /\ UNCHANGED <<sessions, cache, purged, keys, effects, faults>>

\* Mutant: the waiting request has no deadline.
NeverGivesUp(r) == FALSE /\ UNCHANGED vars

\* Ten seconds of polling are over.  The row is not read once more: whatever
\* has become of the first request since the last poll, the answer is 409.
GiveUp(r) ==
    /\ requests[r].at = "wait"
    /\ Answer(r, "in_progress")
    /\ UNCHANGED <<sessions, cache, purged, keys, effects, faults>>

(* ------------------------------ the routes ----------------------------- *)

\* A read answers from the database; nothing of it is stored.
Read(r) ==
    /\ requests[r].at = "handle" /\ requests[r].call.op = "read"
    /\ Answer(r, "read")
    /\ UNCHANGED <<sessions, cache, purged, keys, effects, faults>>

\* A mutating handler commits its transaction.
Commit(r) ==
    /\ requests[r].at = "handle" /\ requests[r].call.op = "create"
    /\ effects' = effects \union
         {[request |-> r, row |-> RowOf(r), org |-> requests[r].org,
           body |-> requests[r].call.body]}
    /\ requests' = [requests EXCEPT ![r].at = "respond", ![r].answer = "created"]
    /\ UNCHANGED <<sessions, cache, purged, keys, faults>>

\* A mutating handler refuses the call: an error envelope, and no effect.
Refuse(r) ==
    /\ requests[r].at = "handle" /\ requests[r].call.op = "create"
    /\ requests' = [requests EXCEPT ![r].at = "complete", ![r].answer = "refused"]
    /\ UNCHANGED <<sessions, cache, purged, keys, effects, faults>>

\* The route renders its answer; the middleware has read it to the end.
Respond(r) ==
    /\ requests[r].at = "respond"
    /\ requests' = [requests EXCEPT ![r].at = "complete"]
    /\ UNCHANGED <<sessions, cache, purged, keys, effects, faults>>

\* An exception that no handler of error_handlers.py renders: Redis or the
\* database fails while the caller is resolved, or the route itself raises,
\* before its commit or after it, where the handlers still presign an upload or
\* read the row back for the answer.  Without a claim it is simply a 500.
Raise(r) ==
    /\ requests[r].at \in {"lookup", "load", "fill", "handle", "respond"}
    /\ faults < MaxFaults
    /\ requests' = [requests EXCEPT ![r].at = IF Holds(r) THEN "release" ELSE "done",
                                    ![r].answer = "error"]
    /\ faults' = faults + 1
    /\ UNCHANGED <<sessions, cache, purged, keys, effects>>

\* Mutant: logout deletes the row of the session.
RevokeDeletes(r) ==
    /\ requests[r].at = "handle" /\ requests[r].call.op = "logout"
    /\ sessions' = [sessions EXCEPT ![requests[r].session].status = "deleted"]
    /\ requests' = [requests EXCEPT ![r].at = "purge"]
    /\ UNCHANGED <<cache, purged, keys, effects, faults>>

\* logout, its transaction: Session.revoke.
Revoke(r) ==
    LET s == requests[r].session IN
    /\ requests[r].at = "handle" /\ requests[r].call.op = "logout"
    /\ sessions' = [sessions EXCEPT ![s].status = IF @ = "active" THEN "revoked" ELSE @]
    /\ requests' = [requests EXCEPT ![r].at = "purge"]
    /\ UNCHANGED <<cache, purged, keys, effects, faults>>

\* A request that has read the session from the database and not yet put it
\* into the cache.
FillUnderWay(s) == \E r \in Requests : requests[r].at = "fill" /\ requests[r].session = s

\* Mutant: logout leaves the cache entry to its time to live.
PurgeNothing(r) ==
    LET s == requests[r].session IN
    /\ requests[r].at = "purge"
    /\ purged' = [purged EXCEPT ![s] = IF FillUnderWay(s) THEN "overlapped" ELSE "clean"]
    /\ requests' = [requests EXCEPT ![r].at = "complete", ![r].answer = "signed_out"]
    /\ UNCHANGED <<sessions, cache, keys, effects, faults>>

\* logout, after the commit: one of the three attempts deletes the entry.
Purge(r) ==
    LET s == requests[r].session IN
    /\ requests[r].at = "purge"
    /\ cache' = cache \ {s}
    /\ purged' = [purged EXCEPT ![s] = IF FillUnderWay(s) THEN "overlapped" ELSE "clean"]
    /\ requests' = [requests EXCEPT ![r].at = "complete", ![r].answer = "signed_out"]
    /\ UNCHANGED <<sessions, keys, effects, faults>>

\* All three attempts failed: LogoutCacheDeleteFailedError becomes a 502.
PurgeFails(r) ==
    /\ requests[r].at = "purge"
    /\ faults < MaxFaults
    /\ requests' = [requests EXCEPT ![r].at = "complete", ![r].answer = "purge_failed"]
    /\ faults' = faults + 1
    /\ UNCHANGED <<sessions, cache, purged, keys, effects>>

(* ---------------------- the middleware, afterwards ---------------------- *)

\* _complete_idempotency_record: the answer, whatever its status, is stored.
Complete(r) ==
    /\ requests[r].at = "complete"
    /\ keys' = [keys EXCEPT ![RowOf(r)].answer = IF SameHash(r) THEN requests[r].answer ELSE @]
    /\ requests' = [requests EXCEPT ![r].at = "done"]
    /\ UNCHANGED <<sessions, cache, purged, effects, faults>>

\* _release_idempotency_claim: the unanswered row is deleted, and the
\* exception goes on to the client as a 500.
Release(r) ==
    /\ requests[r].at = "release"
    /\ keys' = [keys EXCEPT ![RowOf(r)] = IF SameHash(r) /\ @.answer = "none" THEN NoRow ELSE @]
    /\ requests' = [requests EXCEPT ![r].at = "done"]
    /\ UNCHANGED <<sessions, cache, purged, effects, faults>>

\* The API process dies: the client gets no answer, and a row it had claimed
\* stays as it is, because nothing looks at expires_at.  The other requests of the
\* process die in steps of their own, or, more than the code allows, not at all.
Die(r) ==
    /\ requests[r].at \notin {"idle", "done", "dead"}
    /\ faults < MaxFaults
    /\ requests' = [requests EXCEPT ![r].at = "dead"]
    /\ faults' = faults + 1
    /\ UNCHANGED <<sessions, cache, purged, keys, effects>>

(* --------------------------- specification ------------------------------ *)

\* What a request does once it has arrived, as long as its process lives.
Proceed(r) ==
    \/ Lookup(r) \/ Load(r) \/ Fill(r)
    \/ Claim(r) \/ Poll(r) \/ GiveUp(r)
    \/ Read(r) \/ Commit(r) \/ Refuse(r) \/ Respond(r)
    \/ Revoke(r) \/ Purge(r)
    \/ Complete(r) \/ Release(r)

Next ==
    \/ \E r \in Requests : Arrive(r) \/ Proceed(r) \/ Raise(r) \/ PurgeFails(r) \/ Die(r)
    \/ \E s \in Sessions : Expire(s)

Spec == Init /\ [][Next]_vars

\* The event loop runs every request it has accepted; nobody has to send one,
\* and no session has to run out.
FairSpec == Spec /\ \A r \in Requests : WF_vars(Proceed(r))

(* ----------------------------- properties ------------------------------- *)

\* Two live requests never hold the same row: whatever was claimed, released
\* and claimed again, one of them runs the route and the others wait.
OneHolder ==
    \A r, q \in Requests : Holds(r) /\ Holds(q) /\ RowOf(r) = RowOf(q) => r = q

\* One row stands for at most one effect that was acknowledged: the same key,
\* sent again by the same organization, does not create a second thing unless
\* the first one failed after its commit or died before its answer was stored.
AcknowledgedOnce ==
    \A e, f \in effects :
        e.row = f.row /\ requests[e.request].answer = "created"
                      /\ requests[f.request].answer = "created"
        => e.request = f.request

\* Whoever is told "created", first or by a replay, is told the truth about
\* its own body: that body was committed under that key.
CreatedIsReal ==
    \A r \in Requests :
        requests[r].at = "done" /\ requests[r].answer = "created" =>
        \E e \in effects : e.row = RowOf(r) /\ e.body = requests[r].call.body

\* A stored answer is final: no later request, release or retry replaces it
\* or takes it away.
StoredAnswerStays ==
    [][\A i \in RowIds : keys[i].answer # "none" => keys'[i] = keys[i]]_vars

\* A logout that no database read of the same session overlapped is final: no
\* entry is left behind, and none comes back.
CleanLogoutHolds ==
    \A s \in Sessions : purged[s] = "clean" => s \notin cache /\ ~FillUnderWay(s)

\* Every request that arrives is answered unless its process dies, also the
\* ones that wait for a request that will never answer.
EveryRequestEnds ==
    \A r \in Requests : requests[r].at # "idle" ~> requests[r].at \in {"done", "dead"}
=============================================================================
