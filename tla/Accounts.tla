------------------------------ MODULE Accounts ------------------------------
(***************************************************************************)
(* Accounts and the ways into them: POST /auth/register and /login behind  *)
(* the rate limiter, the Google sign-in and linking flow with its one-time *)
(* states, PUT /auth/password, /locale and /currency (routers/auth.py, the *)
(* handlers and repositories of contexts/identity).                        *)
(*                                                                         *)
(* A request is a process.  What a transaction reads and what it commits   *)
(* are two steps; a user is saved as the whole row that was read, without  *)
(* a version.  The unique constraints (users.email, the subject of an      *)
(* identity, the owner of a credential) are checked when a step commits.   *)
(* How a cookie becomes a principal is the subject of ApiRequests.         *)
(***************************************************************************)
EXTENDS Naturals, FiniteSets

CONSTANTS
    Requests,    \* the requests of a behaviour, each sent once
    Users,       \* ids of users
    Emails,      \* normalized e-mail addresses
    Subjects,    \* Google subjects
    Passwords,   \* passwords within the policy
    Attempts,    \* OAuth states
    Earlier,     \* the id of a session from before the behaviour
    Limit,       \* requests of one kind that a window lets through
    MaxFaults    \* bound on failing calls of Redis and dying processes

ASSUME AccountsAssumption ==
    /\ Limit \in Nat \ {0} /\ MaxFaults \in Nat
    /\ Earlier \notin Requests
    /\ "none" \notin Users \union Emails \union Subjects \union Passwords \union Requests \union {Earlier}

VARIABLES
    users,        \* identity.users: one row each, the fields requests change
    members,      \* users with a personal organization, owned by them
    identities,   \* identity.identities: whose each Google subject is
    credentials,  \* identity.local_credentials: each user's password
    known,        \* every password a user has ever had (history)
    sessions,     \* identity.sessions: whose session each sign-in opened
    attempts,     \* Redis: the OAuth states under way
    windows,      \* Redis: the counters of the rate limiter, and who started each (history)
    settled,      \* settings that were saved while nobody held the row (history)
    requests,     \* where each request is
    faults        \* faults so far

tables == <<users, members, identities, credentials, known, sessions>>
vars == <<tables, attempts, windows, settled, requests, faults>>

Languages == {"en-US", "ru-RU"}
Currencies == {"RUB", "USD"}
Fields == {"locale", "currency"}
ValuesOf == [f \in Fields |-> IF f = "locale" THEN Languages ELSE Currencies]

NoUser == [email |-> "none", locale |-> "en-US", currency |-> "RUB"]
UserRows == [email : Emails \union {"none"}, locale : Languages, currency : Currencies]
SessionIds == Requests \union {Earlier}
Throttled == {"register", "login"}

NoAttempt == [op |-> "none", session |-> "none"]
AttemptRows == {NoAttempt} \union {[op |-> "sign_in", session |-> "none"]}
                           \union [op : {"link_google"}, session : SessionIds]

\* What a request asks for.  A callback carries the identity its code stands for.
NoCall == [op |-> "none", email |-> "none", password |-> "none", current |-> "none",
           subject |-> "none", cookie |-> "none", attempt |-> "none", value |-> "none"]
Nothing == {"none"}
SignIns == [op : Throttled, email : Emails, password : Passwords, current : Nothing,
            subject : Nothing, cookie : Nothing, attempt : Nothing, value : Nothing]
Callbacks == [op : {"callback"}, email : Emails, password : Nothing, current : Nothing,
              subject : Subjects, cookie : SessionIds \union Nothing, attempt : Attempts, value : Nothing]
PasswordChanges == [op : {"password"}, email : Nothing, password : Passwords, current : Passwords,
                    subject : Nothing, cookie : SessionIds, attempt : Nothing, value : Nothing]
SettingChanges(f) == [op : {f}, email : Nothing, password : Nothing, current : Nothing,
                      subject : Nothing, cookie : SessionIds, attempt : Nothing, value : ValuesOf[f]]
Settings == UNION {SettingChanges(f) : f \in Fields}
Calls == SignIns \union Callbacks \union PasswordChanges \union Settings

Answers == {"signed_in", "linked", "saved", "exists", "refused", "throttled", "unavailable", "error"}
Places == {"idle", "count", "window", "pop", "read", "reread", "write", "establish", "done"}

NoWindow == [count |-> 0, expires |-> FALSE, opener |-> "none"]
WindowRows == [count : Nat, expires : BOOLEAN, opener : Requests \union {"none"}]

\* user, row: what the transaction under way has read; "none" for a new user.
Idle == [at |-> "idle", alive |-> TRUE, call |-> NoCall, user |-> "none", row |-> NoUser,
         answer |-> "none"]

TypeOK ==
    /\ users \in [Users -> UserRows]
    /\ members \subseteq Users
    /\ identities \in [Subjects -> Users \union {"none"}]
    /\ credentials \in [Users -> Passwords \union {"none"}]
    /\ known \in [Users -> SUBSET Passwords]
    /\ sessions \in [SessionIds -> Users \union {"none"}]
    /\ attempts \in [Attempts -> AttemptRows]
    /\ windows \in [Throttled -> WindowRows]
    /\ settled \in [Users -> [Fields -> Languages \union Currencies \union {"none"}]]
    /\ requests \in [Requests -> [at : Places, alive : BOOLEAN, call : Calls \union {NoCall},
                                  user : Users \union {"none"}, row : UserRows,
                                  answer : Answers \union {"none"}]]
    /\ faults \in 0..MaxFaults

\* One account may exist: a password, a Google identity or both lead into it.
Init ==
    /\ \E u \in Users, e \in Emails, p \in Passwords \union {"none"}, G \in SUBSET Subjects :
         /\ p # "none" \/ G # {}
         /\ \/ /\ users = [v \in Users |-> IF v = u THEN [NoUser EXCEPT !.email = e] ELSE NoUser]
               /\ members = {u}
               /\ identities = [g \in Subjects |-> IF g \in G THEN u ELSE "none"]
               /\ credentials = [v \in Users |-> IF v = u THEN p ELSE "none"]
               /\ sessions = [s \in SessionIds |-> IF s = Earlier THEN u ELSE "none"]
            \/ /\ users = [v \in Users |-> NoUser]
               /\ members = {}
               /\ identities = [g \in Subjects |-> "none"]
               /\ credentials = [v \in Users |-> "none"]
               /\ sessions = [s \in SessionIds |-> "none"]
    /\ known = [v \in Users |-> {credentials[v]} \ {"none"}]
    /\ attempts = [t \in Attempts |-> NoAttempt]
    /\ windows = [a \in Throttled |-> NoWindow]
    /\ settled = [u \in Users |-> [f \in Fields |-> "none"]]
    /\ requests = [r \in Requests |-> Idle]
    /\ faults = 0

(* ------------------------------- helpers ------------------------------- *)

Call(r) == requests[r].call
Registered(u) == users[u].email # "none"
At(r, place, op) == requests[r].alive /\ requests[r].at = place /\ Call(r).op = op
Goto(r, place) == requests' = [requests EXCEPT ![r].at = place]
Answer(r, a) == requests' = [requests EXCEPT ![r].at = "done", ![r].answer = a]
Reading(r, u, row) == requests' = [requests EXCEPT ![r].at = "write", ![r].user = u, ![r].row = row]

\* UserRepository.get_by_email.
OwnerOf(e) == {u \in Users : users[u].email = e}

\* The unique constraint: saving this row would not collide with another user.
EmailFree(row, u) == OwnerOf(row.email) \subseteq {u}

\* UserRepository.save: the row is written back as it was read.
SaveRow(r) ==
    LET u == requests[r].user IN
    /\ EmailFree(requests[r].row, u)
    /\ users' = [users EXCEPT ![u] = requests[r].row]

\* _insert_linked_identity, for what is not there yet; the subject is unique.
InsertIdentity(g, u) ==
    /\ identities[g] \in {"none", u}
    /\ identities' = [identities EXCEPT ![g] = u]

\* LocalCredentialRepository: insert or replace the password of u.
SaveCredential(u, p) ==
    /\ credentials' = [credentials EXCEPT ![u] = p]
    /\ known' = [known EXCEPT ![u] = @ \union {p}]

\* MembershipRepository.get_by_user_id.
Member(u) == u \in members

\* Some other request has read the row of u and is going to write it back.
HeldByOthers(u, r) ==
    \E q \in Requests \ {r} :
        requests[q].alive /\ requests[q].at = "write" /\ requests[q].user = u

\* provision_personal_account and create_session: user, organization, owner
\* membership and session are inserted in the caller's transaction.
Provision(r, u) ==
    /\ ~Registered(u)
    /\ users' = [users EXCEPT ![u] = requests[r].row]
    /\ members' = members \union {u}
    /\ sessions' = [sessions EXCEPT ![r] = u]
    /\ Goto(r, "establish")

\* create_session_for_user and UserRepository.save: the membership is looked
\* up, a session inserted, and the row written back as it was read.
OpenSession(r) ==
    /\ Member(requests[r].user)
    /\ SaveRow(r)
    /\ sessions' = [sessions EXCEPT ![r] = requests[r].user]
    /\ Goto(r, "establish")
    /\ UNCHANGED members

\* A unique constraint is violated: the transaction rolls back, and the
\* exception, which no handler expects, becomes a 500.
Collides(r) ==
    /\ Answer(r, "error")
    /\ UNCHANGED <<tables, attempts, windows, settled, faults>>

(* ----------------------------- rate limiter ----------------------------- *)

Arrive(r) ==
    /\ requests[r].at = "idle"
    /\ \E call \in Calls :
         requests' = [requests EXCEPT
           ![r].call = call,
           ![r].at = CASE call.op \in Throttled -> "count"
                       [] call.op = "callback" -> "pop"
                       [] OTHER -> "read"]
    /\ UNCHANGED <<tables, attempts, windows, settled, faults>>

\* The answer of AuthRateLimiter.check.
LetThrough(r, n) == IF n <= Limit THEN Goto(r, "read") ELSE Answer(r, "throttled")

\* INCR: the request that finds no counter starts one, which has no end yet.
Counted(r) ==
    LET w == windows[Call(r).op] IN
    [w EXCEPT !.count = @ + 1, !.opener = IF w.count = 0 THEN r ELSE @]

\* Mutant: the expiry is set by the request that finds a counter.
CountLate(r) ==
    LET a == Call(r).op IN
    /\ requests[r].alive /\ requests[r].at = "count"
    /\ windows' = [windows EXCEPT ![a] = Counted(r)]
    /\ IF windows[a].count = 1 THEN Goto(r, "window") ELSE LetThrough(r, windows[a].count + 1)
    /\ UNCHANGED <<tables, attempts, settled, faults>>

\* AuthRateLimiter.check, INCR.  The first one of a window has to set its end.
Count(r) ==
    LET a == Call(r).op IN
    /\ requests[r].alive /\ requests[r].at = "count"
    /\ windows' = [windows EXCEPT ![a] = Counted(r)]
    /\ IF windows[a].count = 0 THEN Goto(r, "window") ELSE LetThrough(r, windows[a].count + 1)
    /\ UNCHANGED <<tables, attempts, settled, faults>>

\* INCR raises, before or after it has counted, or TTL raises behind it: the
\* caller is told 503, and the process goes on.
CountFails(r) ==
    /\ requests[r].alive /\ requests[r].at = "count"
    /\ faults < MaxFaults
    /\ \/ UNCHANGED windows
       \/ windows' = [windows EXCEPT ![Call(r).op] = Counted(r)]
    /\ Answer(r, "unavailable")
    /\ faults' = faults + 1
    /\ UNCHANGED <<tables, attempts, settled>>

\* AuthRateLimiter.check, EXPIRE.
OpenWindow(r) ==
    LET a == Call(r).op IN
    /\ requests[r].alive /\ requests[r].at = "window"
    /\ windows' = [windows EXCEPT ![a].expires = TRUE]
    /\ LetThrough(r, 1)
    /\ UNCHANGED <<tables, attempts, settled, faults>>

\* EXPIRE raises, whether Redis has set the end or not: 503 again.
OpenWindowFails(r) ==
    /\ requests[r].alive /\ requests[r].at = "window"
    /\ faults < MaxFaults
    /\ \/ UNCHANGED windows
       \/ windows' = [windows EXCEPT ![Call(r).op].expires = TRUE]
    /\ Answer(r, "unavailable")
    /\ faults' = faults + 1
    /\ UNCHANGED <<tables, attempts, settled>>

\* The time of a window is over: Redis drops the counter.
WindowEnds(a) ==
    /\ windows[a].expires
    /\ windows' = [windows EXCEPT ![a] = NoWindow]
    /\ UNCHANGED <<tables, attempts, settled, requests, faults>>

(* ------------------------- e-mail and password -------------------------- *)

\* RegisterWithPasswordHandler.handle up to its inserts.
RegisterRead(r) ==
    /\ At(r, "read", "register")
    /\ IF OwnerOf(Call(r).email) # {}
       THEN Answer(r, "exists")
       ELSE Reading(r, "none", [NoUser EXCEPT !.email = Call(r).email])
    /\ UNCHANGED <<tables, attempts, windows, settled, faults>>

\* The rest of it: the account and its credential, in one transaction.
RegisterCommit(r) ==
    /\ At(r, "write", "register")
    /\ EmailFree(requests[r].row, "none")
    /\ \E u \in Users :
         /\ Provision(r, u)
         /\ SaveCredential(u, Call(r).password)
    /\ UNCHANGED <<identities, attempts, windows, settled, faults>>

\* SignInWithPasswordHandler.handle, first transaction, and the verification
\* of the hash that follows it outside any transaction.
LoginRead(r) ==
    /\ At(r, "read", "login")
    /\ LET verified == {u \in OwnerOf(Call(r).email) : credentials[u] = Call(r).password}
       IN IF verified # {} THEN \E u \in verified : Reading(r, u, users[u])
                           ELSE Answer(r, "refused")
    /\ UNCHANGED <<tables, attempts, windows, settled, faults>>

\* Mutant: signing in writes the row of a new user.
LoginCommitDefaults(r) ==
    /\ At(r, "write", "login")
    /\ EmailFree(requests[r].row, requests[r].user)
    /\ requests[r].user \in members
    /\ users' = [users EXCEPT ![requests[r].user] = [NoUser EXCEPT !.email = requests[r].row.email]]
    /\ sessions' = [sessions EXCEPT ![r] = requests[r].user]
    /\ Goto(r, "establish")
    /\ UNCHANGED <<members, identities, credentials, known, attempts, windows, settled, faults>>

\* Its second transaction.
LoginCommit(r) ==
    /\ At(r, "write", "login")
    /\ OpenSession(r)
    /\ UNCHANGED <<identities, credentials, known, attempts, windows, settled, faults>>

\* _establish_session: the session is cached and the cookie set.
Establish(r) ==
    /\ requests[r].alive /\ requests[r].at = "establish"
    /\ Answer(r, "signed_in")
    /\ UNCHANGED <<tables, attempts, windows, settled, faults>>

\* The cache cannot be written: a 500, although account and session stand.
EstablishFails(r) ==
    /\ requests[r].alive /\ requests[r].at = "establish"
    /\ faults < MaxFaults
    /\ Answer(r, "error")
    /\ faults' = faults + 1
    /\ UNCHANGED <<tables, attempts, windows, settled>>

\* SetOrChangePasswordHandler.handle, first transaction and verification.
PasswordRead(r) ==
    /\ At(r, "read", "password")
    /\ LET u == sessions[Call(r).cookie] IN
       IF u = "none" \/ credentials[u] \notin {"none", Call(r).current}
       THEN Answer(r, "refused")
       ELSE requests' = [requests EXCEPT ![r].at = "reread"]
    /\ UNCHANGED <<tables, attempts, windows, settled, faults>>

\* Its second transaction looks for a credential again, but does not verify
\* the old password again.
PasswordReread(r) ==
    LET u == sessions[Call(r).cookie] IN
    /\ At(r, "reread", "password")
    /\ requests' = [requests EXCEPT ![r].at = "write",
         ![r].user = IF credentials[u] = "none" THEN "none" ELSE u]
    /\ UNCHANGED <<tables, attempts, windows, settled, faults>>

\* A credential that was found is replaced, a missing one is inserted.
PasswordCommit(r) ==
    LET u == sessions[Call(r).cookie] IN
    /\ At(r, "write", "password")
    /\ requests[r].user = "none" => credentials[u] = "none"
    /\ SaveCredential(u, Call(r).password)
    /\ Answer(r, "saved")
    /\ UNCHANGED <<users, members, identities, sessions, attempts, windows, settled, faults>>

(* -------------------------------- Google -------------------------------- *)

\* google_start, google_link_start: a state is stored; a link is bound to
\* the session that asks for it.
GoogleStart(t) ==
    /\ attempts[t] = NoAttempt
    /\ \E a \in {b \in AttemptRows : b.op = "link_google" => sessions[b.session] # "none"} :
         /\ a # NoAttempt
         /\ attempts' = [attempts EXCEPT ![t] = a]
    /\ UNCHANGED <<tables, windows, settled, requests, faults>>

\* Five minutes have passed.
AttemptExpires(t) ==
    /\ attempts[t] # NoAttempt
    /\ attempts' = [attempts EXCEPT ![t] = NoAttempt]
    /\ UNCHANGED <<tables, windows, settled, requests, faults>>

\* google_callback: the state is taken out, whatever comes after.  A link
\* goes on only in the session it was started in; a sign-in does not look at
\* the cookie it came with.
Pop(r) ==
    LET a == attempts[Call(r).attempt] IN
    /\ requests[r].alive /\ requests[r].at = "pop"
    /\ attempts' = [attempts EXCEPT ![Call(r).attempt] = NoAttempt]
    /\ CASE a.op = "sign_in" -> requests' = [requests EXCEPT ![r].at = "read", ![r].call.cookie = "none"]
         [] a.op = "link_google" /\ a.session = Call(r).cookie -> Goto(r, "read")
         [] OTHER -> Answer(r, "refused")
    /\ UNCHANGED <<tables, windows, settled, faults>>

\* The code cannot be exchanged, or its nonce is not the one of the attempt.
ExchangeFails(r) ==
    /\ At(r, "read", "callback")
    /\ Answer(r, "refused")
    /\ UNCHANGED <<tables, attempts, windows, settled, faults>>

\* _update_existing_user: the e-mail follows Google's unless it is taken.
Refreshed(u, e) ==
    [users[u] EXCEPT !.email = IF OwnerOf(e) \subseteq {u} THEN e ELSE @]

\* Mutant: a matching e-mail address is as good as a linked identity.
GoogleReadByEmail(r) ==
    /\ At(r, "read", "callback") /\ Call(r).cookie = "none"
    /\ \/ \E u \in OwnerOf(Call(r).email) : Reading(r, u, users[u])
       \/ OwnerOf(Call(r).email) = {} /\ Reading(r, "none", [NoUser EXCEPT !.email = Call(r).email])
    /\ UNCHANGED <<tables, attempts, windows, settled, faults>>

\* SignInWithGoogleHandler.handle, its reads: by subject, and never by e-mail.
GoogleRead(r) ==
    LET u == identities[Call(r).subject] IN
    /\ At(r, "read", "callback") /\ Call(r).cookie = "none"
    /\ IF u # "none" THEN Reading(r, u, Refreshed(u, Call(r).email))
       ELSE IF OwnerOf(Call(r).email) # {} THEN Answer(r, "refused")
       ELSE Reading(r, "none", [NoUser EXCEPT !.email = Call(r).email])
    /\ UNCHANGED <<tables, attempts, windows, settled, faults>>

\* _register_new_user commits; the identity is inserted with the user.
GoogleRegisterCommit(r) ==
    /\ At(r, "write", "callback") /\ Call(r).cookie = "none" /\ requests[r].user = "none"
    /\ EmailFree(requests[r].row, "none")
    /\ \E u \in Users : Provision(r, u) /\ InsertIdentity(Call(r).subject, u)
    /\ UNCHANGED <<credentials, known, attempts, windows, settled, faults>>

\* _update_existing_user commits.
GoogleSignInCommit(r) ==
    /\ At(r, "write", "callback") /\ Call(r).cookie = "none" /\ requests[r].user # "none"
    /\ OpenSession(r)
    /\ UNCHANGED <<identities, credentials, known, attempts, windows, settled, faults>>

\* LinkGoogleIdentityHandler.handle, its reads.
LinkRead(r) ==
    LET u == sessions[Call(r).cookie] IN
    /\ At(r, "read", "callback") /\ Call(r).cookie # "none"
    /\ IF identities[Call(r).subject] \in {"none", u}
       THEN Reading(r, u, users[u])
       ELSE Answer(r, "refused")
    /\ UNCHANGED <<tables, attempts, windows, settled, faults>>

\* Mutant: the identity is written over whoever has it.
LinkCommitUpsert(r) ==
    LET u == requests[r].user IN
    /\ At(r, "write", "callback") /\ Call(r).cookie # "none"
    /\ EmailFree(requests[r].row, u)
    /\ identities' = [identities EXCEPT ![Call(r).subject] = u]
    /\ users' = [users EXCEPT ![u] = requests[r].row]
    /\ Answer(r, "linked")
    /\ UNCHANGED <<members, credentials, known, sessions, attempts, windows, settled, faults>>

\* It commits: the row is written back, a missing identity inserted.
LinkCommit(r) ==
    /\ At(r, "write", "callback") /\ Call(r).cookie # "none"
    /\ SaveRow(r)
    /\ InsertIdentity(Call(r).subject, requests[r].user)
    /\ Answer(r, "linked")
    /\ UNCHANGED <<members, credentials, known, sessions, attempts, windows, settled, faults>>

(* ------------------------------- settings ------------------------------- *)

\* Mutant: both endpoints change the language.
SettingReadLocale(r) ==
    LET u == sessions[Call(r).cookie] IN
    /\ requests[r].alive /\ requests[r].at = "read" /\ Call(r).op \in Fields
    /\ u # "none" /\ Reading(r, u, [users[u] EXCEPT !.locale = Call(r).value])
    /\ UNCHANGED <<tables, attempts, windows, settled, faults>>

\* update_locale, update_currency: read the user and change one field.
SettingRead(r) ==
    LET u == sessions[Call(r).cookie] IN
    /\ requests[r].alive /\ requests[r].at = "read" /\ Call(r).op \in Fields
    /\ IF u = "none" THEN Answer(r, "refused")
       ELSE Reading(r, u, [users[u] EXCEPT ![Call(r).op] = Call(r).value])
    /\ UNCHANGED <<tables, attempts, windows, settled, faults>>

\* Save the whole row.  The setting has settled if nobody else has a copy.
SettingCommit(r) ==
    LET u == requests[r].user IN
    /\ requests[r].alive /\ requests[r].at = "write" /\ Call(r).op \in Fields
    /\ SaveRow(r)
    /\ settled' = [settled EXCEPT ![u][Call(r).op] =
                     IF HeldByOthers(u, r) THEN "none" ELSE Call(r).value]
    /\ Answer(r, "saved")
    /\ UNCHANGED <<members, identities, credentials, known, sessions, attempts, windows, faults>>

(* ---------------------------- specification ----------------------------- *)

\* What a write would collide with: the e-mail of another user, somebody
\* else's identity, a credential inserted meanwhile.
Collision(r) ==
    /\ requests[r].alive /\ requests[r].at = "write"
    /\ \/ Call(r).op # "password" /\ ~EmailFree(requests[r].row, requests[r].user)
       \/ Call(r).op = "callback" /\ (Call(r).cookie # "none" \/ requests[r].user = "none")
                                  /\ identities[Call(r).subject] \notin {"none", requests[r].user}
       \/ Call(r).op = "password" /\ requests[r].user = "none"
                                  /\ credentials[sessions[Call(r).cookie]] # "none"
    /\ Collides(r)

\* The process dies where it is; what it has not committed is rolled back.
Die(r) ==
    /\ requests[r].alive /\ requests[r].at \notin {"idle", "done"}
    /\ faults < MaxFaults
    /\ requests' = [requests EXCEPT ![r].alive = FALSE]
    /\ faults' = faults + 1
    /\ UNCHANGED <<tables, attempts, windows, settled>>

Next ==
    \/ \E r \in Requests :
         \/ Arrive(r) \/ Count(r) \/ CountFails(r) \/ OpenWindow(r) \/ OpenWindowFails(r)
         \/ RegisterRead(r) \/ RegisterCommit(r) \/ LoginRead(r) \/ LoginCommit(r)
         \/ Establish(r) \/ EstablishFails(r)
         \/ PasswordRead(r) \/ PasswordReread(r) \/ PasswordCommit(r)
         \/ Pop(r) \/ ExchangeFails(r)
         \/ GoogleRead(r) \/ GoogleRegisterCommit(r) \/ GoogleSignInCommit(r)
         \/ LinkRead(r) \/ LinkCommit(r)
         \/ SettingRead(r) \/ SettingCommit(r)
         \/ Collision(r) \/ Die(r)
    \/ \E a \in Throttled : WindowEnds(a)
    \/ \E t \in Attempts : GoogleStart(t) \/ AttemptExpires(t)

Spec == Init /\ [][Next]_vars

(* ------------------------------ properties ------------------------------ *)

\* Nobody is let into an account that was not proven to be theirs: a password
\* sign-in gave a password this user has had, and a Google sign-in leads to the
\* user its subject is linked to, never to one that merely has the same e-mail
\* address (authentication design: "never auto-link accounts by email alone").
SessionIsProven ==
    \A r \in Requests : sessions[r] # "none" =>
        /\ Registered(sessions[r]) /\ sessions[r] \in members
        /\ IF Call(r).op = "callback" THEN identities[Call(r).subject] = sessions[r]
                                      ELSE Call(r).password \in known[sessions[r]]

\* A linked subject stays with its user, however sign-ins and links race.
SubjectKeepsUser ==
    [][\A g \in Subjects : identities[g] # "none" => identities'[g] = identities[g]]_vars

\* A language or currency that was saved while nobody else held a copy of the
\* row survives everything but another change of the same setting: sign-ins and
\* links that come later write back what was chosen.
SettingSticks ==
    \A u \in Users, f \in Fields : settled[u][f] # "none" => users[u][f] = settled[u][f]

\* Where a request leaves the window that it has opened without an end.
LeavesOpen(p) == p.at = "window" \/ (p.at = "done" /\ p.answer = "unavailable")

\* A counter of the limiter that has no end yet was started by a request that
\* still stands, or has died, between INCR and EXPIRE, or that was told 503
\* because one of the two failed: nothing else shuts the door for good, and no
\* request goes on behind a window that it left open (redis/client.py, check).
ThrottleExpires ==
    \A a \in Throttled : windows[a].count > 0 /\ ~windows[a].expires =>
        \E r \in Requests :
            windows[a].opener = r /\ Call(r).op = a /\ LeavesOpen(requests[r])
=============================================================================
