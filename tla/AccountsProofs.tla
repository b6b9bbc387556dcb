--------------------------- MODULE AccountsProofs ---------------------------
(***************************************************************************)
(* Nobody gets into an account that is not theirs, a linked subject stays, *)
(* a settled setting survives and a counter of the limiter has an end      *)
(* unless a process died or Redis failed, for any requests, users, addresses, subjects,    *)
(* passwords and faults.                                                   *)
(***************************************************************************)
EXTENDS Accounts, TLAPS

-----------------------------------------------------------------------------
(* The inductive invariant *)

Records == [at : Places, alive : BOOLEAN, call : Calls \union {NoCall},
            user : Users \union {"none"}, row : UserRows, answer : Answers \union {"none"}]

\* What a request is at each of its places.
RequestOk(p) ==
  /\ p \in Records
  /\ p.at # "idle" => p.call \in Calls
  /\ p.at \in {"count", "window"} => p.call.op \in Throttled
  /\ p.at = "pop" => p.call.op = "callback"
  /\ p.at = "reread" => p.call.op = "password"
  /\ p.at = "write" /\ p.call.op # "password" => p.row.email # "none"
  /\ p.at = "write" /\ p.call.op \in Fields \union {"login"} => p.user # "none"
  /\ p.at = "write" /\ p.call.op \in Fields => p.row[p.call.op] = p.call.value
  /\ p.at = "write" /\ p.call.op = "callback" /\ p.call.cookie # "none" => p.user # "none"

\* What its transactions have found in users U, identities I, passwords K and
\* sessions S, which is still so when it commits.
Licensed(p, U, I, K, S) ==
  /\ p.at = "write" /\ p.user # "none" => U[p.user].email # "none"
  /\ p.at = "write" /\ p.call.op = "login" => p.call.password \in K[p.user]
  /\ p.at = "write" /\ p.call.op = "callback" /\ p.call.cookie = "none" /\ p.user # "none" =>
       I[p.call.subject] = p.user
  /\ p.at = "read" /\ p.call.op = "callback" /\ p.call.cookie # "none" => S[p.call.cookie] # "none"
  /\ p.at \in {"reread", "write"} /\ p.call.op = "password" => S[p.call.cookie] # "none"

\* The call of p proves that the caller is u.
Proves(p, u, I, K) ==
  IF p.call.op = "callback" THEN I[p.call.subject] = u ELSE p.call.password \in K[u]

\* Whoever holds a copy of a row with settled settings T writes them back as they
\* are, but for the one it was asked to change.
KeepsSettled(p, T) ==
  p.alive /\ p.at = "write" /\ p.user # "none" =>
    \A f \in Fields : p.call.op \notin {"password", f} /\ T[p.user][f] # "none" => p.row[f] = T[p.user][f]

RequestsOk ==
  /\ requests \in [Requests -> Records]
  /\ \A r \in Requests : RequestOk(requests[r])
  /\ \A r \in Requests : Licensed(requests[r], users, identities, known, sessions)

TablesTyped ==
  /\ users \in [Users -> UserRows]
  /\ members \subseteq Users
  /\ identities \in [Subjects -> Users \union {"none"}]
  /\ credentials \in [Users -> Passwords \union {"none"}]
  /\ known \in [Users -> SUBSET Passwords]
  /\ sessions \in [SessionIds -> Users \union {"none"}]
  /\ settled \in [Users -> [Fields -> Languages \union Currencies \union {"none"}]]
  /\ faults \in 0..MaxFaults

\* Sessions and identities are those of registered users.
TablesOk ==
  /\ \A s \in SessionIds : sessions[s] # "none" =>
       users[sessions[s]].email # "none" /\ sessions[s] \in members
  /\ \A g \in Subjects : identities[g] # "none" => users[identities[g]].email # "none"
  /\ \A u \in Users : credentials[u] # "none" => credentials[u] \in known[u]

\* A link is asked for in a session.
AttemptsOk ==
  /\ attempts \in [Attempts -> AttemptRows]
  /\ \A t \in Attempts : attempts[t].op = "link_google" => sessions[attempts[t].session] # "none"

SessionsProven ==
  \A r \in Requests : sessions[r] # "none" =>
    requests[r].at \in {"establish", "done"} /\ Proves(requests[r], sessions[r], identities, known)

SettingsOk ==
  /\ \A u \in Users, f \in Fields : settled[u][f] # "none" =>
       users[u].email # "none" /\ users[u][f] = settled[u][f]
  /\ \A r \in Requests : KeepsSettled(requests[r], settled)

AccountsInv == TablesTyped /\ TablesOk /\ AttemptsOk /\ RequestsOk /\ SessionsProven /\ SettingsOk
WindowsInv == windows \in [Throttled -> WindowRows] /\ ThrottleExpires
IInv == AccountsInv /\ WindowsInv

-----------------------------------------------------------------------------
(* Calls and rows *)

\* What each kind of call carries; a callback without its cookie is a callback.
LEMMA CallFacts ==
  \A c \in Calls :
    /\ c.op \in {"register", "login", "callback", "password", "locale", "currency"}
    /\ c.op \in Throttled => c.email \in Emails /\ c.password \in Passwords
    /\ c.op = "callback" => /\ c.attempt \in Attempts /\ c.subject \in Subjects /\ c.email \in Emails
                            /\ c.cookie \in SessionIds \union {"none"}
    /\ c.op = "password" => c.cookie \in SessionIds /\ c.password \in Passwords
    /\ c.op \in Fields => c.cookie \in SessionIds /\ c.value \in ValuesOf[c.op]
<1>. SUFFICES ASSUME NEW c \in Calls
              PROVE  /\ c.op \in {"register", "login", "callback", "password", "locale", "currency"}
                     /\ c.op \in Throttled => c.email \in Emails /\ c.password \in Passwords
                     /\ c.op = "callback" => /\ c.attempt \in Attempts /\ c.subject \in Subjects /\ c.email \in Emails
                                             /\ c.cookie \in SessionIds \union {"none"}
                     /\ c.op = "password" => c.cookie \in SessionIds /\ c.password \in Passwords
                     /\ c.op \in Fields => c.cookie \in SessionIds /\ c.value \in ValuesOf[c.op]
     OBVIOUS
<1>1. CASE c \in SignIns
      BY <1>1 DEF SignIns, Throttled, Fields
<1>2. CASE c \in Callbacks
      BY <1>2 DEF Callbacks, Nothing, Throttled, Fields
<1>3. CASE c \in PasswordChanges
      BY <1>3 DEF PasswordChanges, Throttled, Fields
<1>4. CASE c \in Settings
  <2>1. PICK f \in Fields : c \in SettingChanges(f)
        BY <1>4 DEF Settings
  <2>. QED BY <2>1 DEF SettingChanges, Throttled, Fields
<1>. QED BY <1>1, <1>2, <1>3, <1>4 DEF Calls

\* A callback whose cookie is not looked at is a callback without one.
LEMMA CookieDropped ==
  ASSUME NEW c \in Calls, c.op = "callback"
  PROVE  [c EXCEPT !.cookie = "none"] \in Calls
<1>1. c \in Callbacks
  <2>1. c \notin SignIns /\ c \notin PasswordChanges
        BY DEF SignIns, PasswordChanges, Throttled
  <2>2. c \notin Settings
        BY DEF Settings, SettingChanges, Fields
  <2>. QED BY <2>1, <2>2 DEF Calls
<1>. QED BY <1>1 DEF Callbacks, Nothing, Calls

\* No name of an account is the empty one.
LEMMA NamesAreNotNone ==
  /\ "none" \notin Users /\ "none" \notin Emails /\ "none" \notin SessionIds /\ "none" \notin Passwords
BY AccountsAssumption DEF SessionIds

\* A row takes an e-mail address or a setting, and keeps the rest.
LEMMA RowFacts ==
  /\ NoUser \in UserRows
  /\ \A row \in UserRows, e \in Emails :
       /\ [row EXCEPT !.email = e] \in UserRows /\ [row EXCEPT !.email = e].email = e
       /\ \A f \in Fields : [row EXCEPT !.email = e][f] = row[f]
  /\ \A row \in UserRows, f \in Fields : \A x \in ValuesOf[f] :
       /\ [row EXCEPT ![f] = x] \in UserRows /\ [row EXCEPT ![f] = x].email = row.email
       /\ [row EXCEPT ![f] = x][f] = x
       /\ \A g \in Fields : g # f => [row EXCEPT ![f] = x][g] = row[g]
<1>1. NoUser \in UserRows
      BY DEF NoUser, UserRows, Languages, Currencies
<1>2. ASSUME NEW row \in UserRows, NEW e \in Emails
      PROVE  /\ [row EXCEPT !.email = e] \in UserRows /\ [row EXCEPT !.email = e].email = e
             /\ \A f \in Fields : [row EXCEPT !.email = e][f] = row[f]
      BY DEF UserRows, Fields
<1>3. ASSUME NEW row \in UserRows, NEW f \in Fields, NEW x \in ValuesOf[f]
      PROVE  /\ [row EXCEPT ![f] = x] \in UserRows /\ [row EXCEPT ![f] = x].email = row.email
             /\ [row EXCEPT ![f] = x][f] = x
             /\ \A g \in Fields : g # f => [row EXCEPT ![f] = x][g] = row[g]
  <2>1. CASE f = "locale"
    <3>1. x \in Languages
          BY <2>1 DEF ValuesOf, Fields
    <3>. QED BY <2>1, <3>1 DEF UserRows, Fields
  <2>2. CASE f = "currency"
    <3>1. x \in Currencies
          BY <2>2 DEF ValuesOf, Fields
    <3>. QED BY <2>2, <3>1 DEF UserRows, Fields
  <2>. QED BY <2>1, <2>2 DEF Fields
<1>. QED BY <1>1, <1>2, <1>3

-----------------------------------------------------------------------------
(* The parts of a step *)

\* Request r takes a step and becomes q; the others stay.
Becomes(r, q) == requests' = [requests EXCEPT ![r] = q]

\* The tables only gain accounts, identities, passwords, members and sessions.
Grows ==
  /\ \A u \in Users : users[u].email # "none" => users'[u].email # "none"
  /\ \A g \in Subjects : identities[g] # "none" => identities'[g] = identities[g]
  /\ \A u \in Users : known[u] \subseteq known'[u]
  /\ members \subseteq members'
  /\ \A s \in SessionIds : sessions[s] # "none" => sessions'[s] = sessions[s]

\* What a request has found stays true while the tables grow.
LEMMA StillLicensed ==
  ASSUME Grows, NEW p, RequestOk(p), Licensed(p, users, identities, known, sessions)
  PROVE  Licensed(p, users', identities', known', sessions')
<1>1. p.at \in {"read", "write", "reread"} => p.call \in Calls
      BY DEF RequestOk
<1>2. p \in Records
      BY DEF RequestOk
<1>3. p.at = "write" /\ p.user # "none" => users'[p.user].email # "none"
      BY <1>2 DEF Licensed, Grows, Records
<1>4. p.at = "write" /\ p.call.op = "login" => p.call.password \in known'[p.user]
  <2>. SUFFICES ASSUME p.at = "write", p.call.op = "login"
                PROVE  p.call.password \in known'[p.user]
       OBVIOUS
  <2>1. p.user \in Users
        BY <1>2 DEF RequestOk, Records
  <2>. QED BY <2>1 DEF Licensed, Grows
<1>5. p.at = "write" /\ p.call.op = "callback" /\ p.call.cookie = "none" /\ p.user # "none" =>
        identities'[p.call.subject] = p.user
      BY <1>1, CallFacts DEF Licensed, Grows
<1>6. p.at = "read" /\ p.call.op = "callback" /\ p.call.cookie # "none" => sessions'[p.call.cookie] # "none"
  <2>. SUFFICES ASSUME p.at = "read", p.call.op = "callback", p.call.cookie # "none"
                PROVE  sessions'[p.call.cookie] # "none"
       OBVIOUS
  <2>1. p.call.cookie \in SessionIds /\ sessions[p.call.cookie] # "none"
        BY <1>1, CallFacts DEF Licensed
  <2>. QED BY <2>1 DEF Grows
<1>7. p.at \in {"reread", "write"} /\ p.call.op = "password" => sessions'[p.call.cookie] # "none"
  <2>. SUFFICES ASSUME p.at \in {"reread", "write"}, p.call.op = "password"
                PROVE  sessions'[p.call.cookie] # "none"
       OBVIOUS
  <2>1. p.call.cookie \in SessionIds /\ sessions[p.call.cookie] # "none"
        BY <1>1, CallFacts DEF Licensed
  <2>. QED BY <2>1 DEF Grows
<1>. QED BY <1>3, <1>4, <1>5, <1>6, <1>7 DEF Licensed

\* When one request moves, opening a session at most for itself, the others
\* are what they were.
LEMMA OthersKept ==
  ASSUME AccountsInv, NEW r \in Requests, NEW q, Becomes(r, q), RequestOk(q), Grows,
         Licensed(q, users', identities', known', sessions'),
         \A s \in SessionIds : s # r => sessions'[s] = sessions[s],
         sessions'[r] # "none" => q.at \in {"establish", "done"} /\ Proves(q, sessions'[r], identities', known'),
         TablesTyped', attempts' = attempts
  PROVE  RequestsOk' /\ SessionsProven' /\ AttemptsOk'
<1>1. /\ requests \in [Requests -> Records] /\ q \in Records
      /\ requests' \in [Requests -> Records]
      /\ \A x \in Requests : requests'[x] = IF x = r THEN q ELSE requests[x]
      BY DEF AccountsInv, RequestsOk, RequestOk, Becomes
<1>2. RequestsOk'
  <2>1. \A x \in Requests : RequestOk(requests'[x])
        BY <1>1 DEF AccountsInv, RequestsOk
  <2>2. ASSUME NEW x \in Requests
        PROVE  Licensed(requests'[x], users', identities', known', sessions')
    <3>1. CASE x = r
          BY <1>1, <3>1
    <3>2. CASE x # r
          BY <1>1, <3>2, StillLicensed DEF AccountsInv, RequestsOk
    <3>. QED BY <3>1, <3>2
  <2>. QED BY <1>1, <2>1, <2>2 DEF RequestsOk
<1>3. SessionsProven'
  <2>. SUFFICES ASSUME NEW x \in Requests, sessions'[x] # "none"
                PROVE  requests'[x].at \in {"establish", "done"}
                       /\ Proves(requests'[x], sessions'[x], identities', known')
       BY DEF SessionsProven
  <2>1. CASE x = r
        BY <1>1, <2>1
  <2>2. CASE x # r
    <3>1. sessions'[x] = sessions[x] /\ requests'[x] = requests[x]
          BY <1>1, <2>2 DEF SessionIds
    <3>2. requests[x].at \in {"establish", "done"} /\ Proves(requests[x], sessions[x], identities, known)
          BY <3>1 DEF AccountsInv, SessionsProven
    <3>3. requests[x].call \in Calls /\ sessions[x] \in Users
          BY <1>1, <3>1, <3>2 DEF AccountsInv, RequestsOk, RequestOk, TablesTyped, SessionIds
    <3>4. Proves(requests[x], sessions[x], identities', known')
      <4>1. CASE requests[x].call.op = "callback"
        <5>1. requests[x].call.subject \in Subjects /\ identities[requests[x].call.subject] # "none"
              BY <3>2, <3>3, <4>1, CallFacts, NamesAreNotNone DEF Proves
        <5>. QED BY <3>2, <4>1, <5>1 DEF Proves, Grows
      <4>2. CASE requests[x].call.op # "callback"
            BY <3>2, <3>3, <4>2 DEF Proves, Grows
      <4>. QED BY <4>1, <4>2
    <3>. QED BY <3>1, <3>2, <3>4
  <2>. QED BY <2>1, <2>2
<1>4. AttemptsOk'
  <2>. SUFFICES ASSUME NEW t \in Attempts, attempts[t].op = "link_google"
                PROVE  sessions'[attempts[t].session] # "none"
       BY DEF AttemptsOk, AccountsInv
  <2>1. attempts[t].session \in SessionIds /\ sessions[attempts[t].session] # "none"
        BY DEF AccountsInv, AttemptsOk, AttemptRows, NoAttempt
  <2>. QED BY <2>1 DEF Grows
<1>. QED BY <1>2, <1>3, <1>4

\* A step that leaves tables and settings alone keeps what is known of them, when
\* its request has found out what it claims and changes no call that opened a session.
LEMMA QuietKeeps ==
  ASSUME AccountsInv, NEW r \in Requests, NEW q, Becomes(r, q), RequestOk(q),
         UNCHANGED <<tables, settled>>, faults' \in 0..MaxFaults,
         attempts' \in [Attempts -> AttemptRows], \A t \in Attempts : attempts'[t] \in {attempts[t], NoAttempt},
         Licensed(q, users, identities, known, sessions), KeepsSettled(q, settled),
         sessions[r] # "none" => q.call = requests[r].call /\ q.at \in {"establish", "done"}
  PROVE  AccountsInv'
<1>1. /\ requests \in [Requests -> Records] /\ q \in Records
      /\ requests' \in [Requests -> Records]
      /\ \A x \in Requests : requests'[x] = IF x = r THEN q ELSE requests[x]
      BY DEF AccountsInv, RequestsOk, RequestOk, Becomes
<1>2. TablesTyped' /\ TablesOk'
      BY DEF AccountsInv, TablesTyped, TablesOk, tables
<1>3. AttemptsOk'
      BY DEF AccountsInv, AttemptsOk, NoAttempt, tables
<1>4. RequestsOk'
      BY <1>1 DEF AccountsInv, RequestsOk, tables
<1>5. SessionsProven'
  <2>. SUFFICES ASSUME NEW x \in Requests, sessions[x] # "none"
                PROVE  requests'[x].at \in {"establish", "done"} /\ Proves(requests'[x], sessions[x], identities, known)
       BY DEF SessionsProven, tables
  <2>1. requests[x].at \in {"establish", "done"} /\ Proves(requests[x], sessions[x], identities, known)
        BY DEF AccountsInv, SessionsProven
  <2>2. requests'[x].call = requests[x].call /\ requests'[x].at \in {"establish", "done"}
        BY <1>1, <2>1
  <2>. QED BY <2>1, <2>2 DEF Proves
<1>6. SettingsOk'
      BY <1>1 DEF AccountsInv, SettingsOk, tables
<1>. QED BY <1>2, <1>3, <1>4, <1>5, <1>6 DEF AccountsInv

\* What is known of one request.
LEMMA RequestFacts ==
  ASSUME AccountsInv, NEW r \in Requests
  PROVE  /\ requests[r] \in Records /\ RequestOk(requests[r])
         /\ requests[r].at # "idle" => requests[r].call \in Calls
         /\ Licensed(requests[r], users, identities, known, sessions)
         /\ KeepsSettled(requests[r], settled)
         /\ requests[r].at \notin {"establish", "done"} => sessions[r] = "none"
         /\ r \in SessionIds
BY DEF AccountsInv, RequestsOk, RequestOk, SettingsOk, SessionsProven, SessionIds

-----------------------------------------------------------------------------
(* Steps that leave the tables alone *)

\* A request that is answered has nothing left to find out.
LEMMA AnswerKeeps ==
  ASSUME AccountsInv, NEW r \in Requests, NEW a \in Answers, Answer(r, a), requests[r].at # "idle",
         UNCHANGED <<tables, settled>>, faults' \in 0..MaxFaults,
         attempts' \in [Attempts -> AttemptRows], \A t \in Attempts : attempts'[t] \in {attempts[t], NoAttempt}
  PROVE  AccountsInv'
<1>. DEFINE p == requests[r]
            q == [p EXCEPT !.at = "done", !.answer = a]
<1>1. Becomes(r, q)
      BY DEF Answer, Becomes
<1>2. p \in Records /\ p.call \in Calls
      BY RequestFacts
<1>3. q \in Records /\ q.at = "done" /\ q.call = p.call
      BY <1>2 DEF Records, Places
<1>. HIDE DEF q
<1>4. RequestOk(q) /\ Licensed(q, users, identities, known, sessions) /\ KeepsSettled(q, settled)
      BY <1>2, <1>3 DEF RequestOk, Licensed, KeepsSettled
<1>. QED BY <1>1, <1>3, <1>4, QuietKeeps

\* A request arrives, counts or opens a window: it carries its call and no more.
LEMMA LimiterKeeps ==
  ASSUME AccountsInv, NEW r \in Requests,
         Arrive(r) \/ Count(r) \/ CountFails(r) \/ OpenWindow(r) \/ OpenWindowFails(r)
  PROVE  AccountsInv'
<1>0. /\ UNCHANGED <<tables, attempts, settled>> /\ faults' \in 0..MaxFaults
      /\ attempts' \in [Attempts -> AttemptRows] /\ \A t \in Attempts : attempts'[t] = attempts[t]
      BY AccountsAssumption
         DEF AccountsInv, TablesTyped, AttemptsOk, Arrive, Count, CountFails, OpenWindow, OpenWindowFails
<1>. DEFINE p == requests[r]
<1>1. p \in Records /\ (p.at # "idle" => p.call \in Calls) /\ (p.at \in {"idle", "count", "window"} => sessions[r] = "none")
      /\ (p.at \in {"count", "window"} => p.call.op \in Throttled)
      BY RequestFacts DEF RequestOk
<1>2. ASSUME NEW q \in Records, Becomes(r, q), q.call \in Calls, p.at \in {"idle", "count", "window"},
             \/ q.at = "count" /\ q.call.op \in Throttled
             \/ q.at = "window" /\ q.call.op \in Throttled
             \/ q.at = "pop" /\ q.call.op = "callback"
             \/ q.at = "read" /\ q.call.op # "callback"
      PROVE  AccountsInv'
  <2>1. RequestOk(q) /\ Licensed(q, users, identities, known, sessions) /\ KeepsSettled(q, settled)
        BY <1>2 DEF RequestOk, Licensed, KeepsSettled
  <2>. QED BY <1>0, <1>1, <1>2, <2>1, QuietKeeps
<1>3. CASE Arrive(r)
  <2>1. PICK call \in Calls :
          requests' = [requests EXCEPT ![r].call = call,
            ![r].at = CASE call.op \in Throttled -> "count"
                        [] call.op = "callback" -> "pop"
                        [] OTHER -> "read"]
        BY <1>3 DEF Arrive
  <2>2. ASSUME NEW at \in {"count", "pop", "read"},
               requests' = [requests EXCEPT ![r].call = call, ![r].at = at],
               \/ at = "count" /\ call.op \in Throttled
               \/ at = "pop" /\ call.op = "callback"
               \/ at = "read" /\ call.op # "callback"
        PROVE  AccountsInv'
    <3>. DEFINE q == [p EXCEPT !.call = call, !.at = at]
    <3>1. Becomes(r, q)
          BY <2>2 DEF Becomes
    <3>2. q \in Records /\ q.call = call /\ q.at = at
          BY <1>1 DEF Records, Places
    <3>3. p.at = "idle"
          BY <1>3 DEF Arrive
    <3>. HIDE DEF q
    <3>. QED BY <1>2, <2>2, <3>1, <3>2, <3>3
  <2>3. CASE call.op \in Throttled
    <3>1. call.op # "callback"
          BY <2>3 DEF Throttled
    <3>. QED BY <2>1, <2>2, <2>3, <3>1
  <2>4. CASE call.op = "callback"
    <3>1. call.op \notin Throttled
          BY <2>4 DEF Throttled
    <3>. QED BY <2>1, <2>2, <2>4, <3>1
  <2>5. CASE call.op \notin Throttled /\ call.op # "callback"
        BY <2>1, <2>2, <2>5
  <2>. QED BY <2>3, <2>4, <2>5
<1>4. CASE Count(r) \/ CountFails(r) \/ OpenWindow(r) \/ OpenWindowFails(r)
  <2>1. /\ p.at \in {"count", "window"}
        /\ \/ Goto(r, "window") \/ Goto(r, "read")
           \/ Answer(r, "throttled") \/ Answer(r, "unavailable")
        BY <1>4 DEF Count, CountFails, OpenWindow, OpenWindowFails, LetThrough
  <2>2. ASSUME NEW at \in {"window", "read"}, Goto(r, at)
        PROVE  AccountsInv'
    <3>. DEFINE q == [p EXCEPT !.at = at]
    <3>1. Becomes(r, q)
          BY <2>2 DEF Goto, Becomes
    <3>2. q \in Records /\ q.at = at /\ q.call = p.call
          BY <1>1 DEF Records, Places
    <3>3. q.call \in Calls /\ q.call.op \in Throttled /\ q.call.op # "callback"
          BY <1>1, <2>1, <3>2 DEF Throttled
    <3>. HIDE DEF q
    <3>. QED BY <1>2, <2>1, <3>1, <3>2, <3>3
  <2>3. CASE Answer(r, "throttled") \/ Answer(r, "unavailable")
        BY <1>0, <2>1, <2>3, AnswerKeeps DEF Answers
  <2>. QED BY <2>1, <2>2, <2>3
<1>. QED BY <1>3, <1>4

\* A transaction that has read a row of a registered user, or made one for a new
\* user, may write it back.
LEMMA ReadingKeeps ==
  ASSUME AccountsInv, NEW r \in Requests, NEW u \in Users \union {"none"}, NEW row \in UserRows,
         Reading(r, u, row), UNCHANGED <<tables, attempts, settled, faults>>,
         requests[r].at = "read", requests[r].call.op # "password", row.email # "none",
         u # "none" => /\ users[u].email # "none"
                       /\ \A f \in Fields : f # requests[r].call.op => row[f] = users[u][f],
         requests[r].call.op = "login" => u # "none" /\ requests[r].call.password \in known[u],
         requests[r].call.op \in Fields => u # "none" /\ row[requests[r].call.op] = requests[r].call.value,
         requests[r].call.op = "callback" /\ requests[r].call.cookie # "none" => u # "none",
         requests[r].call.op = "callback" /\ requests[r].call.cookie = "none" /\ u # "none" =>
           identities[requests[r].call.subject] = u
  PROVE  AccountsInv'
<1>. DEFINE p == requests[r]
            q == [p EXCEPT !.at = "write", !.user = u, !.row = row]
<1>1. Becomes(r, q)
      BY DEF Reading, Becomes
<1>2. p \in Records /\ p.call \in Calls /\ sessions[r] = "none"
      BY RequestFacts
<1>3. q \in Records /\ q.at = "write" /\ q.call = p.call /\ q.user = u /\ q.row = row
      BY <1>2 DEF Records, Places
<1>. HIDE DEF q
<1>4. RequestOk(q)
      BY <1>2, <1>3 DEF RequestOk, Fields
<1>5. Licensed(q, users, identities, known, sessions)
      BY <1>3 DEF Licensed
<1>6. KeepsSettled(q, settled)
      BY <1>3 DEF KeepsSettled, AccountsInv, SettingsOk
<1>7. faults' \in 0..MaxFaults /\ attempts' \in [Attempts -> AttemptRows] /\ \A t \in Attempts : attempts'[t] = attempts[t]
      BY DEF AccountsInv, TablesTyped, AttemptsOk
<1>. QED BY <1>1, <1>2, <1>4, <1>5, <1>6, <1>7, QuietKeeps

\* A registration has read that the e-mail address is free, or is refused.
LEMMA RegisterReadKeeps ==
  ASSUME AccountsInv, NEW r \in Requests, RegisterRead(r) PROVE AccountsInv'
<1>1. /\ requests[r].at = "read" /\ requests[r].call.op = "register"
      /\ UNCHANGED <<tables, attempts, settled, faults>>
      BY DEF RegisterRead, At, Call
<1>2. requests[r].call.email \in Emails
      BY <1>1, RequestFacts, CallFacts DEF Throttled
<1>3. CASE Answer(r, "exists")
      BY <1>1, <1>3, AnswerKeeps DEF Answers, AccountsInv, TablesTyped, AttemptsOk
<1>4. CASE Reading(r, "none", [NoUser EXCEPT !.email = requests[r].call.email])
  <2>. DEFINE row == [NoUser EXCEPT !.email = requests[r].call.email]
  <2>1. row \in UserRows /\ row.email # "none"
        BY <1>2, RowFacts, NamesAreNotNone
  <2>2. Reading(r, "none", row)
        BY <1>4
  <2>. HIDE DEF row
  <2>. QED BY <1>1, <2>1, <2>2, ReadingKeeps DEF Fields
<1>. QED BY <1>3, <1>4 DEF RegisterRead, Call

\* A password that was verified is one of the user's.
LEMMA LoginReadKeeps ==
  ASSUME AccountsInv, NEW r \in Requests, LoginRead(r) PROVE AccountsInv'
<1>1. /\ requests[r].at = "read" /\ requests[r].call.op = "login"
      /\ UNCHANGED <<tables, attempts, settled, faults>>
      BY DEF LoginRead, At, Call
<1>2. requests[r].call.email \in Emails /\ requests[r].call.password \in Passwords
      BY <1>1, RequestFacts, CallFacts DEF Throttled
<1>3. CASE Answer(r, "refused")
      BY <1>1, <1>3, AnswerKeeps DEF Answers, AccountsInv, TablesTyped, AttemptsOk
<1>4. ASSUME NEW u \in OwnerOf(requests[r].call.email), credentials[u] = requests[r].call.password,
             Reading(r, u, users[u])
      PROVE  AccountsInv'
  <2>1. u \in Users /\ users[u] \in UserRows /\ users[u].email # "none"
        BY <1>2, <1>4, NamesAreNotNone DEF OwnerOf, AccountsInv, TablesTyped
  <2>2. requests[r].call.password \in known[u] /\ u # "none"
        BY <1>2, <1>4, <2>1, NamesAreNotNone DEF AccountsInv, TablesOk
  <2>. QED BY <1>1, <1>4, <2>1, <2>2, ReadingKeeps DEF Fields
<1>. QED BY <1>3, <1>4 DEF LoginRead, Call

\* A linked subject leads to its user, an unknown one to a new user.
LEMMA GoogleReadKeeps ==
  ASSUME AccountsInv, NEW r \in Requests, GoogleRead(r) PROVE AccountsInv'
<1>. DEFINE c == requests[r].call
            u == identities[c.subject]
<1>1. /\ requests[r].at = "read" /\ c.op = "callback" /\ c.cookie = "none"
      /\ UNCHANGED <<tables, attempts, settled, faults>>
      BY DEF GoogleRead, At, Call
<1>2. c.email \in Emails /\ c.subject \in Subjects /\ c.email # "none"
      BY <1>1, RequestFacts, CallFacts, NamesAreNotNone
<1>3. ASSUME Answer(r, "refused")
      PROVE  AccountsInv'
      BY <1>1, <1>3, AnswerKeeps DEF Answers, AccountsInv, TablesTyped, AttemptsOk
<1>4. ASSUME Reading(r, "none", [NoUser EXCEPT !.email = c.email])
      PROVE  AccountsInv'
  <2>. DEFINE row == [NoUser EXCEPT !.email = c.email]
  <2>1. row \in UserRows /\ row.email # "none" /\ Reading(r, "none", row)
        BY <1>2, <1>4, RowFacts
  <2>. HIDE DEF row
  <2>. QED BY <1>1, <2>1, ReadingKeeps DEF Fields
<1>5. ASSUME u # "none", Reading(r, u, Refreshed(u, c.email))
      PROVE  AccountsInv'
  <2>. DEFINE row == Refreshed(u, c.email)
  <2>1. u \in Users /\ users[u] \in UserRows /\ users[u].email # "none"
        BY <1>2, <1>5 DEF AccountsInv, TablesTyped, TablesOk
  <2>2. row = [users[u] EXCEPT !.email = c.email] \/ row = users[u]
    <3>1. users[u] = [users[u] EXCEPT !.email = users[u].email]
          BY <2>1 DEF UserRows
    <3>. QED BY <3>1 DEF Refreshed
  <2>. HIDE DEF row
  <2>3. row \in UserRows /\ row.email # "none" /\ \A f \in Fields : row[f] = users[u][f]
    <3>1. CASE row = users[u]
          BY <2>1, <3>1
    <3>2. CASE row = [users[u] EXCEPT !.email = c.email]
      <4>1. /\ [users[u] EXCEPT !.email = c.email] \in UserRows
            /\ [users[u] EXCEPT !.email = c.email].email = c.email
            /\ \A f \in Fields : [users[u] EXCEPT !.email = c.email][f] = users[u][f]
            BY <1>2, <2>1, RowFacts
      <4>. QED BY <1>2, <3>2, <4>1
    <3>. QED BY <2>2, <3>1, <3>2
  <2>4. Reading(r, u, row)
        BY <1>5 DEF row
  <2>. QED BY <1>1, <1>5, <2>1, <2>3, <2>4, ReadingKeeps DEF Fields
<1>6. \/ Answer(r, "refused") \/ Reading(r, "none", [NoUser EXCEPT !.email = c.email])
      \/ u # "none" /\ Reading(r, u, Refreshed(u, c.email))
      BY DEF GoogleRead, Call
<1>. QED BY <1>3, <1>4, <1>5, <1>6

\* A link reads the row of the user it was asked for.
LEMMA LinkReadKeeps ==
  ASSUME AccountsInv, NEW r \in Requests, LinkRead(r) PROVE AccountsInv'
<1>. DEFINE c == requests[r].call
            u == sessions[c.cookie]
<1>1. /\ requests[r].at = "read" /\ c.op = "callback" /\ c.cookie # "none"
      /\ UNCHANGED <<tables, attempts, settled, faults>>
      BY DEF LinkRead, At, Call
<1>2. c.cookie \in SessionIds /\ u # "none"
      BY <1>1, RequestFacts, CallFacts DEF Licensed
<1>3. u \in Users /\ users[u] \in UserRows /\ users[u].email # "none"
      BY <1>2 DEF AccountsInv, TablesTyped, TablesOk
<1>4. CASE Answer(r, "refused")
      BY <1>1, <1>4, AnswerKeeps DEF Answers, AccountsInv, TablesTyped, AttemptsOk
<1>5. CASE Reading(r, u, users[u])
      BY <1>1, <1>2, <1>3, <1>5, ReadingKeeps DEF Fields
<1>. QED BY <1>4, <1>5 DEF LinkRead, Call

\* A setting is changed in the row as it was read.
LEMMA SettingReadKeeps ==
  ASSUME AccountsInv, NEW r \in Requests, SettingRead(r) PROVE AccountsInv'
<1>. DEFINE c == requests[r].call
            u == sessions[c.cookie]
<1>1. /\ requests[r].at = "read" /\ c.op \in Fields
      /\ UNCHANGED <<tables, attempts, settled, faults>>
      BY DEF SettingRead, Call
<1>2. c.cookie \in SessionIds /\ c.value \in ValuesOf[c.op]
      BY <1>1, RequestFacts, CallFacts
<1>3. CASE Answer(r, "refused")
      BY <1>1, <1>3, AnswerKeeps DEF Answers, AccountsInv, TablesTyped, AttemptsOk
<1>4. CASE u # "none" /\ Reading(r, u, [users[u] EXCEPT ![c.op] = c.value])
  <2>. DEFINE row == [users[u] EXCEPT ![c.op] = c.value]
  <2>1. u \in Users /\ users[u] \in UserRows /\ users[u].email # "none"
        BY <1>2, <1>4 DEF AccountsInv, TablesTyped, TablesOk
  <2>2. /\ row \in UserRows /\ row.email # "none" /\ row[c.op] = c.value
        /\ \A f \in Fields : f # c.op => row[f] = users[u][f]
        BY <1>1, <1>2, <2>1, RowFacts
  <2>3. Reading(r, u, row)
        BY <1>4
  <2>. HIDE DEF row
  <2>. QED BY <1>1, <1>4, <2>1, <2>2, <2>3, ReadingKeeps DEF Fields
<1>. QED BY <1>3, <1>4 DEF SettingRead, Call

\* Verifying the old password, and looking for the credential again.
LEMMA PasswordReadsKeep ==
  ASSUME AccountsInv, NEW r \in Requests, PasswordRead(r) \/ PasswordReread(r) PROVE AccountsInv'
<1>. DEFINE p == requests[r]
            u == sessions[p.call.cookie]
<1>1. /\ p.at \in {"read", "reread"} /\ p.call.op = "password"
      /\ UNCHANGED <<tables, attempts, settled, faults>>
      BY DEF PasswordRead, PasswordReread, At, Call
<1>2. p \in Records /\ p.call \in Calls /\ p.call.cookie \in SessionIds /\ sessions[r] = "none"
      BY <1>1, RequestFacts, CallFacts
<1>3. faults' \in 0..MaxFaults /\ attempts' \in [Attempts -> AttemptRows] /\ \A t \in Attempts : attempts'[t] = attempts[t]
      BY <1>1 DEF AccountsInv, TablesTyped, AttemptsOk
<1>4. CASE Answer(r, "refused")
      BY <1>1, <1>3, <1>4, AnswerKeeps DEF Answers
<1>5. CASE u # "none" /\ requests' = [requests EXCEPT ![r].at = "reread"]
  <2>. DEFINE q == [p EXCEPT !.at = "reread"]
  <2>1. Becomes(r, q)
        BY <1>5 DEF Becomes
  <2>2. q \in Records /\ q.at = "reread" /\ q.call = p.call
        BY <1>2 DEF Records, Places
  <2>. HIDE DEF q
  <2>3. RequestOk(q) /\ Licensed(q, users, identities, known, sessions) /\ KeepsSettled(q, settled)
        BY <1>1, <1>2, <1>5, <2>2 DEF RequestOk, Licensed, KeepsSettled
  <2>. QED BY <1>1, <1>2, <1>3, <2>1, <2>3, QuietKeeps
<1>6. ASSUME NEW v \in {"none", u}, p.at = "reread",
             requests' = [requests EXCEPT ![r].at = "write", ![r].user = v]
      PROVE  AccountsInv'
  <2>. DEFINE q == [p EXCEPT !.at = "write", !.user = v]
  <2>1. Becomes(r, q)
        BY <1>6 DEF Becomes
  <2>2. u \in Users /\ users[u].email # "none"
        BY <1>1, <1>2, <1>6, RequestFacts DEF Licensed, AccountsInv, TablesTyped, TablesOk
  <2>3. q \in Records /\ q.at = "write" /\ q.call = p.call /\ q.user = v
        BY <1>2, <2>2 DEF Records, Places
  <2>. HIDE DEF q
  <2>4. RequestOk(q)
        BY <1>1, <1>2, <2>3 DEF RequestOk, Fields
  <2>5. Licensed(q, users, identities, known, sessions)
        BY <1>1, <1>6, <2>2, <2>3, RequestFacts DEF Licensed
  <2>6. KeepsSettled(q, settled)
        BY <1>1, <2>3 DEF KeepsSettled
  <2>. QED BY <1>1, <1>2, <1>3, <2>1, <2>4, <2>5, <2>6, QuietKeeps
<1>7. CASE PasswordRead(r)
      BY <1>4, <1>5, <1>7 DEF PasswordRead, Call
<1>8. CASE PasswordReread(r)
      BY <1>6, <1>8 DEF PasswordReread, At, Call
<1>. QED BY <1>7, <1>8

\* A state is taken out of Redis: the sign-in forgets the cookie, the link goes on
\* in the session it was asked for.
LEMMA PopKeeps ==
  ASSUME AccountsInv, NEW r \in Requests, Pop(r) PROVE AccountsInv'
<1>. DEFINE p == requests[r]
            a == attempts[p.call.attempt]
<1>1. /\ p.at = "pop" /\ p \in Records /\ p.call \in Calls /\ p.call.op = "callback" /\ sessions[r] = "none"
      /\ UNCHANGED <<tables, settled, faults>> /\ faults' \in 0..MaxFaults
      BY RequestFacts DEF Pop, RequestOk, AccountsInv, TablesTyped
<1>2. p.call.attempt \in Attempts /\ p.call.cookie \in SessionIds \union {"none"}
      BY <1>1, CallFacts
<1>3. /\ attempts' \in [Attempts -> AttemptRows]
      /\ \A t \in Attempts : attempts'[t] \in {attempts[t], NoAttempt}
  <2>1. attempts' = [attempts EXCEPT ![p.call.attempt] = NoAttempt]
        BY DEF Pop, Call
  <2>. QED BY <1>2, <2>1 DEF AccountsInv, AttemptsOk, AttemptRows
<1>4. ASSUME NEW q \in Records, Becomes(r, q), q.at = "read", q.call \in Calls, q.call.op = "callback",
             q.call.cookie # "none" => sessions[q.call.cookie] # "none"
      PROVE  AccountsInv'
  <2>1. RequestOk(q) /\ Licensed(q, users, identities, known, sessions) /\ KeepsSettled(q, settled)
        BY <1>4 DEF RequestOk, Licensed, KeepsSettled
  <2>. QED BY <1>1, <1>3, <1>4, <2>1, QuietKeeps
<1>5. ASSUME requests' = [requests EXCEPT ![r].at = "read", ![r].call.cookie = "none"]
      PROVE  AccountsInv'
  <2>. DEFINE call == [p.call EXCEPT !.cookie = "none"]
              q == [p EXCEPT !.at = "read", !.call = call]
  <2>1. call \in Calls /\ call.op = "callback" /\ call.cookie = "none"
    <3>1. call \in Calls
          BY <1>1, CookieDropped
    <3>2. "cookie" \in DOMAIN p.call /\ "op" \in DOMAIN p.call
          BY <1>1 DEF Calls, SignIns, Callbacks, PasswordChanges, Settings, SettingChanges
    <3>. QED BY <1>1, <3>1, <3>2
  <2>2. Becomes(r, q)
        BY <1>5 DEF Becomes
  <2>. HIDE DEF call
  <2>3. q \in Records /\ q.at = "read" /\ q.call = call
        BY <1>1, <2>1 DEF Records, Places
  <2>. HIDE DEF q
  <2>. QED BY <1>4, <2>1, <2>2, <2>3
<1>6. ASSUME a.op = "link_google", a.session = p.call.cookie, Goto(r, "read")
      PROVE  AccountsInv'
  <2>. DEFINE q == [p EXCEPT !.at = "read"]
  <2>1. Becomes(r, q)
        BY <1>6 DEF Goto, Becomes
  <2>2. q \in Records /\ q.at = "read" /\ q.call = p.call
        BY <1>1 DEF Records, Places
  <2>3. sessions[p.call.cookie] # "none"
        BY <1>2, <1>6 DEF AccountsInv, AttemptsOk
  <2>. HIDE DEF q
  <2>. QED BY <1>1, <1>4, <2>1, <2>2, <2>3
<1>7. ASSUME Answer(r, "refused")
      PROVE  AccountsInv'
      BY <1>1, <1>3, <1>7, AnswerKeeps DEF Answers
<1>8. \/ requests' = [requests EXCEPT ![r].at = "read", ![r].call.cookie = "none"]
      \/ a.op = "link_google" /\ a.session = p.call.cookie /\ Goto(r, "read")
      \/ Answer(r, "refused")
  <2>1. CASE a.op = "sign_in"
        BY <2>1 DEF Pop, Call
  <2>2. CASE a.op = "link_google" /\ a.session = p.call.cookie
        BY <2>2 DEF Pop, Call
  <2>3. CASE a.op # "sign_in" /\ ~(a.op = "link_google" /\ a.session = p.call.cookie)
        BY <2>3 DEF Pop, Call
  <2>. QED BY <2>1, <2>2, <2>3
<1>. QED BY <1>5, <1>6, <1>7, <1>8

\* A process dies: it writes nothing any more.
LEMMA DieKeeps ==
  ASSUME AccountsInv, NEW r \in Requests, Die(r) PROVE AccountsInv'
<1>. DEFINE p == requests[r]
            q == [p EXCEPT !.alive = FALSE]
<1>1. /\ Becomes(r, q) /\ p.at \notin {"idle", "done"} /\ UNCHANGED <<tables, attempts, settled>>
      BY DEF Die, Becomes
<1>2. faults' \in 0..MaxFaults
      BY AccountsAssumption DEF Die, AccountsInv, TablesTyped
<1>3. p \in Records /\ RequestOk(p) /\ Licensed(p, users, identities, known, sessions)
      /\ (p.at # "establish" => sessions[r] = "none")
      BY <1>1, RequestFacts
<1>4. q \in Records /\ ~q.alive /\ q.at = p.at /\ q.call = p.call /\ q.user = p.user /\ q.row = p.row
      BY <1>3 DEF Records
<1>. HIDE DEF q
<1>5. RequestOk(q) /\ Licensed(q, users, identities, known, sessions) /\ KeepsSettled(q, settled)
      BY <1>3, <1>4 DEF RequestOk, Licensed, KeepsSettled
<1>6. attempts' \in [Attempts -> AttemptRows] /\ \A t \in Attempts : attempts'[t] = attempts[t]
      BY <1>1 DEF AccountsInv, AttemptsOk
<1>. QED BY <1>1, <1>2, <1>3, <1>4, <1>5, <1>6, QuietKeeps

\* The answers that are given without another look at the tables.
LEMMA EndsKeep ==
  ASSUME AccountsInv, NEW r \in Requests,
         Establish(r) \/ EstablishFails(r) \/ ExchangeFails(r) \/ Collision(r)
  PROVE  AccountsInv'
<1>1. /\ \E a \in Answers : Answer(r, a)
      /\ requests[r].at # "idle" /\ UNCHANGED <<tables, attempts, settled>>
      BY DEF Establish, EstablishFails, ExchangeFails, Collision, Collides, At, Answers
<1>2. faults' \in 0..MaxFaults
  <2>1. CASE faults' = faults
        BY <2>1 DEF AccountsInv, TablesTyped
  <2>2. CASE faults < MaxFaults /\ faults' = faults + 1
        BY <2>2, AccountsAssumption DEF AccountsInv, TablesTyped
  <2>. QED BY <2>1, <2>2 DEF Establish, EstablishFails, ExchangeFails, Collision, Collides
<1>3. attempts' \in [Attempts -> AttemptRows] /\ \A t \in Attempts : attempts'[t] = attempts[t]
      BY <1>1 DEF AccountsInv, AttemptsOk
<1>. QED BY <1>1, <1>2, <1>3, AnswerKeeps

-----------------------------------------------------------------------------
(* Commits *)

\* A new user is inserted with a membership and the session of the request.
LEMMA ProvisionKeeps ==
  ASSUME AccountsInv, NEW r \in Requests, NEW u \in Users, Provision(r, u),
         requests[r].at = "write", requests[r].call.op # "password", TablesTyped',
         UNCHANGED <<attempts, settled, faults>>,
         \A g \in Subjects : identities'[g] = identities[g] \/ (identities[g] = "none" /\ identities'[g] = u),
         \A v \in Users : known[v] \subseteq known'[v],
         \A v \in Users : credentials'[v] # "none" => credentials'[v] \in known'[v],
         Proves(requests[r], u, identities', known')
  PROVE  AccountsInv'
<1>. DEFINE p == requests[r]
            q == [p EXCEPT !.at = "establish"]
<1>1. /\ Becomes(r, q) /\ users[u].email = "none"
      /\ users' = [users EXCEPT ![u] = p.row] /\ members' = members \union {u}
      /\ sessions' = [sessions EXCEPT ![r] = u]
      BY DEF Provision, Registered, Goto, Becomes
<1>2. /\ p \in Records /\ p.call \in Calls /\ p.row.email # "none" /\ sessions[r] = "none" /\ r \in SessionIds
      /\ users \in [Users -> UserRows] /\ sessions \in [SessionIds -> Users \union {"none"}]
      BY RequestFacts DEF RequestOk, AccountsInv, TablesTyped
<1>3. q \in Records /\ q.at = "establish" /\ q.call = p.call
      BY <1>2 DEF Records, Places
<1>. HIDE DEF q
<1>4. u # "none" /\ sessions'[r] = u /\ users'[u] = p.row
      BY <1>1, <1>2, NamesAreNotNone
<1>5. \A v \in Users : v # u => users'[v] = users[v]
      BY <1>1, <1>2
<1>6. \A s \in SessionIds : s # r => sessions'[s] = sessions[s]
      BY <1>1, <1>2
<1>7. Grows
      BY <1>1, <1>2, <1>5, <1>6 DEF Grows
<1>8. TablesOk'
  <2>1. \A s \in SessionIds : sessions'[s] # "none" =>
          users'[sessions'[s]].email # "none" /\ sessions'[s] \in members'
    <3>1. ASSUME NEW s \in SessionIds, s # r, sessions[s] # "none"
          PROVE  users'[sessions[s]].email # "none" /\ sessions[s] \in members'
          BY <1>1, <1>2, <1>5, <3>1 DEF AccountsInv, TablesOk
    <3>. QED BY <1>1, <1>2, <1>4, <1>6, <3>1
  <2>2. \A g \in Subjects : identities'[g] # "none" => users'[identities'[g]].email # "none"
        BY <1>2, <1>4, <1>7 DEF Grows, AccountsInv, TablesOk, TablesTyped
  <2>. QED BY <2>1, <2>2 DEF TablesOk
<1>9. RequestOk(q) /\ Licensed(q, users', identities', known', sessions')
      BY <1>2, <1>3 DEF RequestOk, Licensed
<1>10. Proves(q, u, identities', known')
      BY <1>3 DEF Proves
<1>11. RequestsOk' /\ SessionsProven' /\ AttemptsOk'
      BY <1>1, <1>3, <1>4, <1>6, <1>7, <1>9, <1>10, OthersKept
<1>12. SettingsOk'
  <2>1. \A v \in Users, f \in Fields : settled[v][f] # "none" =>
          users'[v].email # "none" /\ users'[v][f] = settled[v][f]
        BY <1>1, <1>5 DEF AccountsInv, SettingsOk
  <2>2. \A x \in Requests : KeepsSettled(requests'[x], settled)
    <3>1. \A x \in Requests : requests'[x] = IF x = r THEN q ELSE requests[x]
          BY <1>1 DEF Becomes, AccountsInv, RequestsOk
    <3>2. KeepsSettled(q, settled)
          BY <1>3 DEF KeepsSettled
    <3>. QED BY <3>1, <3>2 DEF AccountsInv, SettingsOk
  <2>. QED BY <2>1, <2>2 DEF SettingsOk
<1>. QED BY <1>8, <1>11, <1>12 DEF AccountsInv

\* A registration by password commits: the new user has the password that was given.
LEMMA RegisterCommitKeeps ==
  ASSUME AccountsInv, NEW r \in Requests, RegisterCommit(r) PROVE AccountsInv'
<1>. DEFINE c == requests[r].call
<1>1. /\ requests[r].at = "write" /\ c.op = "register"
      /\ UNCHANGED <<identities, attempts, settled, faults>>
      BY DEF RegisterCommit, At, Call
<1>2. PICK u \in Users : Provision(r, u) /\ SaveCredential(u, c.password)
      BY DEF RegisterCommit, Call
<1>3. c.password \in Passwords /\ requests[r].row \in UserRows /\ r \in SessionIds
      BY <1>1, RequestFacts, CallFacts DEF Throttled, Records
<1>4. TablesTyped'
      BY <1>1, <1>2, <1>3 DEF AccountsInv, TablesTyped, Provision, SaveCredential
<1>5. c.password \in known'[u] /\ \A v \in Users : known[v] \subseteq known'[v]
      BY <1>2 DEF SaveCredential, AccountsInv, TablesTyped
<1>6. \A v \in Users : credentials'[v] # "none" => credentials'[v] \in known'[v]
      BY <1>2 DEF SaveCredential, AccountsInv, TablesTyped, TablesOk
<1>7. Proves(requests[r], u, identities', known')
      BY <1>1, <1>5 DEF Proves
<1>. QED BY <1>1, <1>2, <1>4, <1>5, <1>6, <1>7, ProvisionKeeps

\* A registration by Google commits: the subject is the new user's.
LEMMA GoogleRegisterCommitKeeps ==
  ASSUME AccountsInv, NEW r \in Requests, GoogleRegisterCommit(r) PROVE AccountsInv'
<1>. DEFINE c == requests[r].call
<1>1. /\ requests[r].at = "write" /\ c.op = "callback"
      /\ UNCHANGED <<credentials, known, attempts, settled, faults>>
      BY DEF GoogleRegisterCommit, At, Call
<1>2. PICK u \in Users : Provision(r, u) /\ InsertIdentity(c.subject, u)
      BY DEF GoogleRegisterCommit, Call
<1>3. c.subject \in Subjects /\ requests[r].row \in UserRows /\ r \in SessionIds
      BY <1>1, RequestFacts, CallFacts DEF Records
<1>4. TablesTyped'
      BY <1>1, <1>2, <1>3 DEF AccountsInv, TablesTyped, Provision, InsertIdentity
<1>5. users[u].email = "none"
      BY <1>2 DEF Provision, Registered
<1>6. identities[c.subject] = "none"
      BY <1>2, <1>3, <1>5, NamesAreNotNone DEF InsertIdentity, AccountsInv, TablesOk
<1>7. /\ \A g \in Subjects : identities'[g] = identities[g] \/ (identities[g] = "none" /\ identities'[g] = u)
      /\ identities'[c.subject] = u
      BY <1>2, <1>3, <1>6 DEF InsertIdentity, AccountsInv, TablesTyped
<1>8. /\ \A v \in Users : known[v] \subseteq known'[v]
      /\ \A v \in Users : credentials'[v] # "none" => credentials'[v] \in known'[v]
      BY <1>1 DEF AccountsInv, TablesOk
<1>9. Proves(requests[r], u, identities', known')
      BY <1>1, <1>7 DEF Proves
<1>. QED BY <1>1, <1>2, <1>4, <1>7, <1>8, <1>9, ProvisionKeeps

\* A row is written back: its user stays registered, and what was settled stays but
\* for the setting that was asked for, which settles when nobody else has a copy.
LEMMA SaveKeeps ==
  ASSUME AccountsInv, NEW r \in Requests, NEW q \in Records, Becomes(r, q), SaveRow(r),
         requests[r].alive, requests[r].at = "write", requests[r].call.op # "password", requests[r].user # "none",
         q.call = requests[r].call, q.at \in {"establish", "done"},
         TablesTyped', UNCHANGED <<members, credentials, known, attempts, faults>>,
         \A g \in Subjects : identities'[g] = identities[g] \/ (identities[g] = "none" /\ identities'[g] = requests[r].user),
         \A s \in SessionIds : s # r => sessions'[s] = sessions[s],
         sessions'[r] # "none" => /\ sessions'[r] = requests[r].user /\ requests[r].user \in members
                                  /\ Proves(requests[r], requests[r].user, identities', known'),
         \A v \in Users, f \in Fields : settled'[v][f] # "none" =>
           \/ v = requests[r].user /\ f = requests[r].call.op /\ settled'[v][f] = requests[r].call.value
              /\ ~HeldByOthers(v, r)
           \/ ~(v = requests[r].user /\ f = requests[r].call.op) /\ settled'[v][f] = settled[v][f]
  PROVE  AccountsInv'
<1>. DEFINE p == requests[r]
            u == p.user
<1>1. /\ p \in Records /\ RequestOk(p) /\ Licensed(p, users, identities, known, sessions)
      /\ KeepsSettled(p, settled) /\ p.call \in Calls /\ sessions[r] = "none" /\ r \in SessionIds
      BY RequestFacts
<1>2. u \in Users /\ p.row.email # "none" /\ users[u].email # "none"
      BY <1>1 DEF Records, RequestOk, Licensed
<1>3. users'[u] = p.row /\ \A v \in Users : v # u => users'[v] = users[v]
      BY <1>2 DEF SaveRow, AccountsInv, TablesTyped
<1>4. Grows
      BY <1>1, <1>2, <1>3 DEF Grows
<1>5. TablesOk'
  <2>1. \A s \in SessionIds : sessions'[s] # "none" =>
          users'[sessions'[s]].email # "none" /\ sessions'[s] \in members'
    <3>1. ASSUME NEW s \in SessionIds, s # r, sessions[s] # "none"
          PROVE  users'[sessions[s]].email # "none" /\ sessions[s] \in members
          BY <1>4, <3>1 DEF AccountsInv, TablesTyped, TablesOk, Grows
    <3>. QED BY <1>2, <1>3, <3>1
  <2>2. \A g \in Subjects : identities'[g] # "none" => users'[identities'[g]].email # "none"
        BY <1>2, <1>3, <1>4 DEF Grows, AccountsInv, TablesOk, TablesTyped
  <2>. QED BY <2>1, <2>2 DEF TablesOk, AccountsInv
<1>6. RequestOk(q) /\ Licensed(q, users', identities', known', sessions') /\ KeepsSettled(q, settled')
      BY <1>1 DEF RequestOk, Licensed, KeepsSettled
<1>7. sessions'[r] # "none" => Proves(q, sessions'[r], identities', known')
      BY DEF Proves
<1>8. RequestsOk' /\ SessionsProven' /\ AttemptsOk'
      BY <1>4, <1>6, <1>7, OthersKept
<1>9. SettingsOk'
  <2>1. ASSUME NEW v \in Users, NEW f \in Fields, settled'[v][f] # "none"
        PROVE  users'[v].email # "none" /\ users'[v][f] = settled'[v][f]
    <3>1. CASE v # u
          BY <1>3, <2>1, <3>1 DEF AccountsInv, SettingsOk
    <3>2. CASE v = u /\ f = p.call.op
          BY <1>1, <1>2, <1>3, <2>1, <3>2 DEF RequestOk
    <3>3. CASE v = u /\ f # p.call.op
      <4>1. settled'[u][f] = settled[u][f] /\ settled[u][f] # "none"
            BY <2>1, <3>3
      <4>. QED BY <1>1, <1>2, <1>3, <3>3, <4>1 DEF KeepsSettled
    <3>. QED BY <3>1, <3>2, <3>3
  <2>2. ASSUME NEW x \in Requests
        PROVE  KeepsSettled(requests'[x], settled')
    <3>1. CASE x = r
      <4>1. requests'[x] = q
            BY <3>1 DEF Becomes, AccountsInv, RequestsOk
      <4>. QED BY <1>6, <4>1
    <3>2. CASE x # r
      <4>1. requests'[x] = requests[x] /\ requests[x] \in Records
            BY <3>2 DEF Becomes, AccountsInv, RequestsOk
      <4>. SUFFICES ASSUME requests[x].alive, requests[x].at = "write", requests[x].user # "none",
                           NEW f \in Fields, requests[x].call.op \notin {"password", f},
                           settled'[requests[x].user][f] # "none"
                    PROVE  requests[x].row[f] = settled'[requests[x].user][f]
           BY <4>1 DEF KeepsSettled
      <4>2. requests[x].user \in Users
            BY <4>1 DEF Records
      <4>3. HeldByOthers(requests[x].user, r)
            BY <3>2 DEF HeldByOthers
      <4>4. settled'[requests[x].user][f] = settled[requests[x].user][f]
            BY <4>2, <4>3
      <4>. QED BY <4>4 DEF KeepsSettled, AccountsInv, SettingsOk
    <3>. QED BY <3>1, <3>2
  <2>. QED BY <2>1, <2>2 DEF SettingsOk
<1>. QED BY <1>5, <1>8, <1>9 DEF AccountsInv

\* A sign-in opens a session of the user it found.
LEMMA SignInKeeps ==
  ASSUME AccountsInv, NEW r \in Requests, LoginCommit(r) \/ GoogleSignInCommit(r) PROVE AccountsInv'
<1>. DEFINE p == requests[r]
            q == [p EXCEPT !.at = "establish"]
<1>1. /\ p.alive /\ p.at = "write" /\ p.call.op \in {"login", "callback"} /\ OpenSession(r)
      /\ (p.call.op = "callback" => p.call.cookie = "none" /\ p.user # "none")
      /\ UNCHANGED <<identities, credentials, known, attempts, settled, faults>>
      BY DEF LoginCommit, GoogleSignInCommit, At, Call
<1>2. Becomes(r, q) /\ SaveRow(r) /\ p.user \in members /\ sessions' = [sessions EXCEPT ![r] = p.user]
      /\ UNCHANGED members /\ users' = [users EXCEPT ![p.user] = p.row]
      BY <1>1 DEF OpenSession, Goto, Becomes, Member, SaveRow
<1>3. p \in Records /\ RequestOk(p) /\ Licensed(p, users, identities, known, sessions) /\ r \in SessionIds
      BY RequestFacts
<1>4. q \in Records /\ q.call = p.call /\ q.at = "establish"
      BY <1>3 DEF Records, Places
<1>. HIDE DEF q
<1>5. p.user # "none" /\ p.user \in Users
      BY <1>1, <1>3 DEF RequestOk, Records
<1>6. TablesTyped'
      BY <1>1, <1>2, <1>3, <1>5 DEF AccountsInv, TablesTyped, Records
<1>7. Proves(p, p.user, identities', known')
      BY <1>1, <1>3, <1>5 DEF Proves, Licensed
<1>8. \A s \in SessionIds : s # r => sessions'[s] = sessions[s]
      BY <1>2 DEF AccountsInv, TablesTyped
<1>9. sessions'[r] = p.user
      BY <1>2, <1>3 DEF AccountsInv, TablesTyped
<1>10. p.call.op \notin Fields /\ p.call.op # "password"
      BY <1>1 DEF Fields
<1>. QED BY <1>1, <1>2, <1>4, <1>5, <1>6, <1>7, <1>8, <1>9, <1>10, SaveKeeps

\* A link inserts the identity for the user whose session asked for it.
LEMMA LinkCommitKeeps ==
  ASSUME AccountsInv, NEW r \in Requests, LinkCommit(r) PROVE AccountsInv'
<1>. DEFINE p == requests[r]
            q == [p EXCEPT !.at = "done", !.answer = "linked"]
<1>1. /\ p.alive /\ p.at = "write" /\ p.call.op = "callback" /\ p.call.cookie # "none"
      /\ SaveRow(r) /\ InsertIdentity(p.call.subject, p.user)
      /\ UNCHANGED <<members, credentials, known, sessions, attempts, settled, faults>>
      BY DEF LinkCommit, At, Call
<1>2. Becomes(r, q) /\ users' = [users EXCEPT ![p.user] = p.row]
      BY <1>1 DEF LinkCommit, Answer, Becomes, SaveRow
<1>3. p \in Records /\ RequestOk(p) /\ sessions[r] = "none" /\ p.call.subject \in Subjects
      BY <1>1, RequestFacts, CallFacts
<1>4. q \in Records /\ q.call = p.call /\ q.at = "done"
      BY <1>3 DEF Records, Places, Answers
<1>. HIDE DEF q
<1>5. p.user # "none" /\ p.user \in Users
      BY <1>1, <1>3 DEF RequestOk, Records
<1>6. \A g \in Subjects : identities'[g] = identities[g] \/ (identities[g] = "none" /\ identities'[g] = p.user)
      BY <1>1, <1>3 DEF InsertIdentity, AccountsInv, TablesTyped
<1>7. TablesTyped'
      BY <1>1, <1>2, <1>3, <1>5 DEF AccountsInv, TablesTyped, Records, InsertIdentity
<1>8. p.call.op \notin Fields /\ p.call.op # "password"
      BY <1>1 DEF Fields
<1>. QED BY <1>1, <1>2, <1>3, <1>4, <1>5, <1>6, <1>7, <1>8, SaveKeeps

\* A setting is saved, and settles if nobody else has a copy of the row.
LEMMA SettingCommitKeeps ==
  ASSUME AccountsInv, NEW r \in Requests, SettingCommit(r) PROVE AccountsInv'
<1>. DEFINE p == requests[r]
            u == p.user
            new == IF HeldByOthers(u, r) THEN "none" ELSE p.call.value
            q == [p EXCEPT !.at = "done", !.answer = "saved"]
<1>1. /\ p.alive /\ p.at = "write" /\ p.call.op \in Fields /\ SaveRow(r)
      /\ settled' = [settled EXCEPT ![u][p.call.op] = new]
      /\ UNCHANGED <<members, identities, credentials, known, sessions, attempts, faults>>
      BY DEF SettingCommit, Call
<1>2. Becomes(r, q) /\ users' = [users EXCEPT ![u] = p.row]
      BY <1>1 DEF SettingCommit, Answer, Becomes, SaveRow
<1>3. p \in Records /\ RequestOk(p) /\ sessions[r] = "none" /\ p.call \in Calls /\ p.call.value \in ValuesOf[p.call.op]
      BY <1>1, RequestFacts, CallFacts
<1>4. q \in Records /\ q.call = p.call /\ q.at = "done"
      BY <1>3 DEF Records, Places, Answers
<1>5. u # "none" /\ u \in Users
      BY <1>1, <1>3 DEF RequestOk, Records
<1>6. /\ new \in Languages \union Currencies \union {"none"}
      /\ new # "none" => new = p.call.value /\ ~HeldByOthers(u, r)
  <2>1. p.call.value \in Languages \union Currencies
        BY <1>1, <1>3 DEF ValuesOf, Fields
  <2>. QED BY <2>1
<1>. HIDE DEF new, q
<1>7. TablesTyped'
  <2>1. settled' \in [Users -> [Fields -> Languages \union Currencies \union {"none"}]]
        BY <1>1, <1>5, <1>6 DEF AccountsInv, TablesTyped
  <2>. QED BY <1>1, <1>2, <1>3, <1>5, <2>1 DEF AccountsInv, TablesTyped, Records
<1>8. ASSUME NEW v \in Users, NEW f \in Fields, settled'[v][f] # "none"
      PROVE  \/ v = u /\ f = p.call.op /\ settled'[v][f] = p.call.value /\ ~HeldByOthers(v, r)
             \/ ~(v = u /\ f = p.call.op) /\ settled'[v][f] = settled[v][f]
  <2>1. CASE v = u /\ f = p.call.op
    <3>1. settled'[u][p.call.op] = new
          BY <1>1, <1>5 DEF AccountsInv, TablesTyped
    <3>. QED BY <1>6, <1>8, <2>1, <3>1
  <2>2. CASE ~(v = u /\ f = p.call.op)
        BY <1>1, <1>5, <2>2 DEF AccountsInv, TablesTyped
  <2>. QED BY <2>1, <2>2
<1>9. p.call.op # "password"
      BY <1>1 DEF Fields
<1>. QED BY <1>1, <1>2, <1>3, <1>4, <1>5, <1>7, <1>8, <1>9, SaveKeeps

\* A password is inserted or replaced, and remembered.
LEMMA PasswordCommitKeeps ==
  ASSUME AccountsInv, NEW r \in Requests, PasswordCommit(r) PROVE AccountsInv'
<1>. DEFINE p == requests[r]
            u == sessions[p.call.cookie]
            q == [p EXCEPT !.at = "done", !.answer = "saved"]
<1>1. /\ p.at = "write" /\ p.call.op = "password" /\ SaveCredential(u, p.call.password)
      /\ UNCHANGED <<users, members, identities, sessions, attempts, settled, faults>>
      BY DEF PasswordCommit, At, Call
<1>2. Becomes(r, q)
      BY DEF PasswordCommit, Answer, Becomes
<1>3. /\ p \in Records /\ p.call \in Calls /\ p.call.cookie \in SessionIds /\ p.call.password \in Passwords
      /\ sessions[r] = "none" /\ u # "none"
      BY <1>1, RequestFacts, CallFacts DEF Licensed
<1>4. u \in Users
      BY <1>3 DEF AccountsInv, TablesTyped
<1>5. q \in Records /\ q.call = p.call /\ q.at = "done"
      BY <1>3 DEF Records, Places, Answers
<1>. HIDE DEF q
<1>6. TablesTyped'
      BY <1>1, <1>3, <1>4 DEF AccountsInv, TablesTyped, SaveCredential
<1>7. Grows
      BY <1>1 DEF Grows, SaveCredential, AccountsInv, TablesTyped
<1>8. TablesOk'
  <2>1. \A v \in Users : credentials'[v] # "none" => credentials'[v] \in known'[v]
        BY <1>1, <1>4 DEF AccountsInv, TablesTyped, TablesOk, SaveCredential
  <2>. QED BY <1>1, <2>1 DEF AccountsInv, TablesOk
<1>9. RequestOk(q) /\ Licensed(q, users', identities', known', sessions') /\ KeepsSettled(q, settled)
      BY <1>3, <1>5 DEF RequestOk, Licensed, KeepsSettled
<1>10. RequestsOk' /\ SessionsProven' /\ AttemptsOk'
      BY <1>1, <1>2, <1>3, <1>6, <1>7, <1>9, OthersKept
<1>11. SettingsOk'
  <2>1. \A x \in Requests : requests'[x] = IF x = r THEN q ELSE requests[x]
        BY <1>2 DEF Becomes, AccountsInv, RequestsOk
  <2>. QED BY <1>1, <1>9, <2>1 DEF AccountsInv, SettingsOk
<1>. QED BY <1>6, <1>8, <1>10, <1>11 DEF AccountsInv

-----------------------------------------------------------------------------
(* The invariants *)

\* A start, and the end of an attempt, change the attempts only: a link is asked for
\* in a session.
LEMMA AttemptsKeep ==
  ASSUME AccountsInv, NEW t \in Attempts, GoogleStart(t) \/ AttemptExpires(t)
  PROVE  AccountsInv'
<1>1. UNCHANGED <<tables, settled, requests, faults>>
      BY DEF GoogleStart, AttemptExpires
<1>2. PICK a \in AttemptRows :
        /\ a.op = "link_google" => sessions[a.session] # "none"
        /\ attempts' = [attempts EXCEPT ![t] = a]
  <2>1. NoAttempt \in AttemptRows /\ NoAttempt.op # "link_google"
        BY DEF NoAttempt, AttemptRows
  <2>2. CASE AttemptExpires(t)
        BY <2>1, <2>2 DEF AttemptExpires
  <2>3. CASE GoogleStart(t)
        BY <2>3 DEF GoogleStart
  <2>. QED BY <2>2, <2>3
<1>3. AttemptsOk'
      BY <1>1, <1>2 DEF AccountsInv, AttemptsOk, tables
<1>4. TablesTyped' /\ TablesOk' /\ RequestsOk' /\ SessionsProven' /\ SettingsOk'
      BY <1>1 DEF AccountsInv, TablesTyped, TablesOk, RequestsOk, SessionsProven, SettingsOk, tables
<1>. QED BY <1>3, <1>4 DEF AccountsInv

\* Every step keeps what is known of tables, requests and settings.
LEMMA AccountsKeep ==
  ASSUME AccountsInv, [Next]_vars PROVE AccountsInv'
<1>1. ASSUME NEW r \in Requests,
             Arrive(r) \/ Count(r) \/ CountFails(r) \/ OpenWindow(r) \/ OpenWindowFails(r)
      PROVE  AccountsInv'
      BY <1>1, LimiterKeeps
<1>2. ASSUME NEW r \in Requests, RegisterRead(r) \/ LoginRead(r) \/ GoogleRead(r) \/ LinkRead(r) \/ SettingRead(r)
      PROVE  AccountsInv'
      BY <1>2, RegisterReadKeeps, LoginReadKeeps, GoogleReadKeeps, LinkReadKeeps, SettingReadKeeps
<1>3. ASSUME NEW r \in Requests, PasswordRead(r) \/ PasswordReread(r) \/ Pop(r) \/ Die(r)
      PROVE  AccountsInv'
      BY <1>3, PasswordReadsKeep, PopKeeps, DieKeeps
<1>4. ASSUME NEW r \in Requests, Establish(r) \/ EstablishFails(r) \/ ExchangeFails(r) \/ Collision(r)
      PROVE  AccountsInv'
      BY <1>4, EndsKeep
<1>5. ASSUME NEW r \in Requests, RegisterCommit(r) \/ GoogleRegisterCommit(r)
      PROVE  AccountsInv'
      BY <1>5, RegisterCommitKeeps, GoogleRegisterCommitKeeps
<1>6. ASSUME NEW r \in Requests, LoginCommit(r) \/ GoogleSignInCommit(r)
      PROVE  AccountsInv'
      BY <1>6, SignInKeeps
<1>7. ASSUME NEW r \in Requests, LinkCommit(r) \/ SettingCommit(r) \/ PasswordCommit(r)
      PROVE  AccountsInv'
      BY <1>7, LinkCommitKeeps, SettingCommitKeeps, PasswordCommitKeeps
<1>8. ASSUME NEW a \in Throttled, WindowEnds(a)
      PROVE  AccountsInv'
      BY <1>8 DEF WindowEnds, AccountsInv, TablesTyped, TablesOk, AttemptsOk, RequestsOk, SessionsProven,
                  SettingsOk, tables
<1>9. ASSUME NEW t \in Attempts, GoogleStart(t) \/ AttemptExpires(t)
      PROVE  AccountsInv'
      BY <1>9, AttemptsKeep
<1>10. CASE UNCHANGED vars
      BY <1>10 DEF vars, tables, AccountsInv, TablesTyped, TablesOk, AttemptsOk, RequestsOk, SessionsProven, SettingsOk
<1>. QED BY <1>1, <1>2, <1>3, <1>4, <1>5, <1>6, <1>7, <1>8, <1>9, <1>10 DEF Next

\* The other requests stay where they are.
OthersStay(r) == \A x \in Requests : x # r => requests'[x] = requests[x]

\* While the others stay, a window without an end is still its opener's, unless that is the
\* one who moves and he leaves it.
LEMMA StillOpen ==
  ASSUME WindowsInv, NEW r \in Requests, OthersStay(r), NEW a \in Throttled,
         windows[a].count > 0, ~windows[a].expires, windows'[a].opener = windows[a].opener,
         requests[r].at # "done",
         requests[r].at = "window" /\ requests[r].call.op = a =>
           requests'[r].call.op = a /\ LeavesOpen(requests'[r])
  PROVE  \E x \in Requests :
           windows'[a].opener = x /\ requests'[x].call.op = a /\ LeavesOpen(requests'[x])
<1>1. PICK x \in Requests :
        windows[a].opener = x /\ requests[x].call.op = a /\ LeavesOpen(requests[x])
      BY DEF WindowsInv, ThrottleExpires, Call
<1>2. CASE x = r
  <2>1. requests[r].at = "window"
        BY <1>1, <1>2 DEF LeavesOpen
  <2>. QED BY <1>1, <1>2, <2>1
<1>3. CASE x # r
  <2>1. requests'[x] = requests[x]
        BY <1>3 DEF OthersStay
  <2>. QED BY <1>1, <2>1
<1>. QED BY <1>2, <1>3

\* A request that is not between INCR and EXPIRE leaves the counters alone, and so does
\* one that dies there.
LEMMA CountersAlone ==
  ASSUME WindowsInv, NEW r \in Requests, OthersStay(r), UNCHANGED windows, requests[r].at # "done",
         requests[r].at = "window" => requests'[r].at = "window" /\ requests'[r].call = requests[r].call
  PROVE  WindowsInv'
<1>. SUFFICES ASSUME NEW a \in Throttled, windows[a].count > 0, ~windows[a].expires
              PROVE  \E x \in Requests :
                       windows'[a].opener = x /\ requests'[x].call.op = a /\ LeavesOpen(requests'[x])
     BY DEF WindowsInv, ThrottleExpires, Call
<1>1. requests[r].at = "window" /\ requests[r].call.op = a =>
        requests'[r].call.op = a /\ LeavesOpen(requests'[r])
      BY DEF LeavesOpen
<1>. QED BY <1>1, StillOpen

\* However a request goes on, it goes on alone.
LEMMA GoesAlone ==
  ASSUME requests \in [Requests -> Records], NEW r \in Requests
  PROVE  /\ \A a : Answer(r, a) => OthersStay(r)
         /\ \A u, row : Reading(r, u, row) => OthersStay(r)
         /\ \A place : Goto(r, place) => OthersStay(r)
BY DEF Answer, Reading, Goto, OthersStay

\* Only INCR and EXPIRE take a request to or from the place between them.
LEMMA NotBetween ==
  ASSUME requests \in [Requests -> Records], NEW r \in Requests,
         \/ Arrive(r) \/ RegisterRead(r) \/ RegisterCommit(r) \/ LoginRead(r) \/ LoginCommit(r)
         \/ Establish(r) \/ EstablishFails(r) \/ PasswordRead(r) \/ PasswordReread(r) \/ PasswordCommit(r)
         \/ Pop(r) \/ ExchangeFails(r) \/ GoogleRead(r) \/ GoogleRegisterCommit(r) \/ GoogleSignInCommit(r)
         \/ LinkRead(r) \/ LinkCommit(r) \/ SettingRead(r) \/ SettingCommit(r) \/ Collision(r)
  PROVE  UNCHANGED windows /\ requests[r].at \notin {"window", "done"} /\ OthersStay(r)
<1>1. UNCHANGED windows /\ requests[r].at \notin {"window", "done"}
      BY DEF Arrive, RegisterRead, RegisterCommit, LoginRead, LoginCommit, Establish, EstablishFails, PasswordRead,
             PasswordReread, PasswordCommit, Pop, ExchangeFails, GoogleRead, GoogleRegisterCommit, GoogleSignInCommit,
             LinkRead, LinkCommit, SettingRead, SettingCommit, Collision, Collides, At
<1>2. CASE Arrive(r)
      BY <1>1, <1>2 DEF Arrive, OthersStay
<1>3. CASE RegisterRead(r)
      BY <1>1, <1>3, GoesAlone DEF RegisterRead
<1>4. CASE LoginRead(r) \/ GoogleRead(r)
      BY <1>1, <1>4, GoesAlone DEF LoginRead, GoogleRead
<1>5. CASE LinkRead(r) \/ SettingRead(r)
      BY <1>1, <1>5, GoesAlone DEF LinkRead, SettingRead
<1>6. CASE RegisterCommit(r) \/ LoginCommit(r) \/ GoogleRegisterCommit(r) \/ GoogleSignInCommit(r)
      BY <1>1, <1>6, GoesAlone DEF RegisterCommit, LoginCommit, GoogleRegisterCommit, GoogleSignInCommit, Provision, OpenSession
<1>7. CASE PasswordRead(r)
  <2>1. Answer(r, "refused") \/ requests' = [requests EXCEPT ![r].at = "reread"]
        BY <1>7 DEF PasswordRead
  <2>. QED BY <1>1, <2>1, GoesAlone DEF OthersStay
<1>8. CASE PasswordReread(r)
      BY <1>1, <1>8 DEF PasswordReread, OthersStay
<1>9. CASE Pop(r)
  <2>. DEFINE a == attempts[Call(r).attempt]
  <2>1. CASE a.op = "sign_in"
        BY <1>1, <1>9, <2>1 DEF Pop, OthersStay
  <2>2. CASE a.op = "link_google" /\ a.session = Call(r).cookie
        BY <1>1, <1>9, <2>2, GoesAlone DEF Pop
  <2>3. CASE a.op # "sign_in" /\ ~(a.op = "link_google" /\ a.session = Call(r).cookie)
        BY <1>1, <1>9, <2>3, GoesAlone DEF Pop
  <2>. QED BY <2>1, <2>2, <2>3
<1>10. CASE \/ Establish(r) \/ EstablishFails(r) \/ PasswordCommit(r) \/ ExchangeFails(r) \/ LinkCommit(r)
            \/ SettingCommit(r) \/ Collision(r)
      BY <1>1, <1>10, GoesAlone DEF Establish, EstablishFails, PasswordCommit, ExchangeFails, LinkCommit, SettingCommit,
                              Collision, Collides
<1>. QED BY <1>1, <1>2, <1>3, <1>4, <1>5, <1>6, <1>7, <1>8, <1>9, <1>10

\* INCR counts one more and leaves the end as it is; a new counter is the caller's.
LEMMA CountedFacts ==
  ASSUME windows \in [Throttled -> WindowRows], NEW r \in Requests, Call(r).op \in Throttled
  PROVE  LET w == windows[Call(r).op] IN
         /\ Counted(r) \in WindowRows
         /\ w.count \in Nat
         /\ Counted(r).expires = w.expires
         /\ w.count = 0 => Counted(r).opener = r
         /\ w.count > 0 => Counted(r).opener = w.opener
<1>. DEFINE w == windows[Call(r).op]
<1>1. w \in WindowRows
      OBVIOUS
<1>2. w.count \in Nat /\ w.opener \in Requests \union {"none"}
      BY <1>1 DEF WindowRows
<1>. HIDE DEF w
<1>. DEFINE opener == IF w.count = 0 THEN r ELSE w.opener
<1>3. opener \in Requests \union {"none"} /\ w.count + 1 \in Nat
      BY <1>2
<1>4. w.count > 0 => w.count # 0
      BY <1>2
<1>. HIDE DEF opener
<1>. DEFINE counted == [w EXCEPT !.count = @ + 1, !.opener = opener]
<1>5. counted \in WindowRows /\ counted.expires = w.expires /\ counted.opener = opener
      BY <1>1, <1>3, Zenon DEF WindowRows
<1>6. Counted(r) = counted
      BY Zenon DEF Counted, w, opener
<1>. QED BY <1>2, <1>4, <1>5, <1>6, Zenon DEF w, opener

\* A window without an end that INCR has touched is the caller's, or its opener's as before.
LEMMA CountKeeps ==
  ASSUME AccountsInv, WindowsInv, NEW r \in Requests, Count(r) \/ CountFails(r) PROVE WindowsInv'
<1>. DEFINE p == requests[r]
            b == p.call.op
<1>1. /\ p.at = "count" /\ b \in Throttled /\ requests \in [Requests -> Records] /\ p \in Records
      /\ windows \in [Throttled -> WindowRows]
      /\ UNCHANGED windows \/ windows' = [windows EXCEPT ![b] = Counted(r)]
      BY RequestFacts DEF Count, CountFails, Call, RequestOk, AccountsInv, RequestsOk, WindowsInv
<1>2. OthersStay(r)
      BY <1>1, GoesAlone DEF Count, CountFails, LetThrough
<1>3. CASE UNCHANGED windows
      BY <1>1, <1>2, <1>3, CountersAlone
<1>4. CASE windows' = [windows EXCEPT ![b] = Counted(r)]
  <2>1. /\ Counted(r) \in WindowRows /\ windows[b].count \in Nat
        /\ Counted(r).expires = windows[b].expires
        /\ windows[b].count = 0 => Counted(r).opener = r
        /\ windows[b].count > 0 => Counted(r).opener = windows[b].opener
        BY <1>1, CountedFacts, Zenon DEF Call
  <2>2. windows' \in [Throttled -> WindowRows] /\ windows'[b] = Counted(r)
        BY <1>1, <1>4, <2>1
  <2>3. \A a \in Throttled : a # b => windows'[a] = windows[a]
        BY <1>1, <1>4
  <2>4. ASSUME NEW a \in Throttled, windows'[a].count > 0, ~windows'[a].expires
        PROVE  \E x \in Requests :
                 windows'[a].opener = x /\ requests'[x].call.op = a /\ LeavesOpen(requests'[x])
    <3>1. CASE a = b /\ windows[b].count = 0
      <4>1. Goto(r, "window") \/ Answer(r, "unavailable")
            BY <3>1 DEF Count, CountFails, Call
      <4>2. requests'[r].call = p.call /\ LeavesOpen(requests'[r])
            BY <1>1, <4>1 DEF Goto, Answer, Records, LeavesOpen
      <4>. QED BY <2>1, <2>2, <3>1, <4>2
    <3>2. CASE a # b \/ windows[b].count > 0
      <4>1. /\ windows[a].count > 0 /\ windows'[a].expires = windows[a].expires
            /\ windows'[a].opener = windows[a].opener
            BY <2>1, <2>2, <2>3, <2>4, <3>2, Zenon
      <4>2. ~windows[a].expires
            BY <2>4, <4>1, Zenon
      <4>. QED BY <1>1, <1>2, <4>1, <4>2, StillOpen
    <3>3. windows[b].count > 0 \/ windows[b].count = 0
          BY <2>1
    <3>. QED BY <3>1, <3>2, <3>3
  <2>. QED BY <2>2, <2>4 DEF WindowsInv, ThrottleExpires, Call
<1>. QED BY <1>1, <1>3, <1>4

\* A window that was opened has an end, or its opener was told 503.
LEMMA OpenKeeps ==
  ASSUME AccountsInv, WindowsInv, NEW r \in Requests, OpenWindow(r) \/ OpenWindowFails(r)
  PROVE  WindowsInv'
<1>. DEFINE p == requests[r]
            b == p.call.op
<1>1. /\ p.at = "window" /\ b \in Throttled /\ requests \in [Requests -> Records] /\ p \in Records
      /\ windows \in [Throttled -> WindowRows]
      /\ \/ windows' = [windows EXCEPT ![b].expires = TRUE]
         \/ UNCHANGED windows /\ Answer(r, "unavailable")
      BY RequestFacts DEF OpenWindow, OpenWindowFails, Call, RequestOk, AccountsInv, RequestsOk, WindowsInv
<1>2. OthersStay(r)
      BY <1>1, GoesAlone DEF OpenWindow, OpenWindowFails, LetThrough
<1>3. ASSUME NEW a \in Throttled, windows'[a] = windows[a], windows[a].count > 0, ~windows[a].expires,
             a # b \/ Answer(r, "unavailable")
      PROVE  \E x \in Requests :
               windows'[a].opener = x /\ requests'[x].call.op = a /\ LeavesOpen(requests'[x])
  <2>1. p.at = "window" /\ p.call.op = a => requests'[r].call.op = a /\ LeavesOpen(requests'[r])
        BY <1>1, <1>3 DEF Answer, Records, LeavesOpen
  <2>. QED BY <1>1, <1>2, <1>3, <2>1, StillOpen
<1>4. CASE windows' = [windows EXCEPT ![b].expires = TRUE]
  <2>1. windows' \in [Throttled -> WindowRows] /\ windows'[b].expires
    <3>. DEFINE w == [windows[b] EXCEPT !.expires = TRUE]
    <3>1. windows[b] \in WindowRows
          BY <1>1
    <3>2. w \in WindowRows /\ w.expires
          BY <3>1, Zenon DEF WindowRows
    <3>. HIDE DEF w
    <3>3. windows' = [windows EXCEPT ![b] = w]
          BY <1>4, Zenon DEF w
    <3>. QED BY <1>1, <3>2, <3>3, Zenon
  <2>2. \A a \in Throttled : a # b => windows'[a] = windows[a]
        BY <1>1, <1>4
  <2>3. ASSUME NEW a \in Throttled, windows'[a].count > 0, ~windows'[a].expires
        PROVE  \E x \in Requests :
                 windows'[a].opener = x /\ requests'[x].call.op = a /\ LeavesOpen(requests'[x])
    <3>1. a # b
          BY <2>1, <2>3, Zenon
    <3>2. windows'[a] = windows[a]
          BY <2>2, <3>1
    <3>3. windows[a].count > 0 /\ ~windows[a].expires
          BY <2>3, <3>2, Zenon
    <3>. QED BY <1>3, <3>1, <3>2, <3>3
  <2>. QED BY <2>1, <2>3 DEF WindowsInv, ThrottleExpires, Call
<1>5. CASE UNCHANGED windows /\ Answer(r, "unavailable")
      BY <1>1, <1>3, <1>5 DEF WindowsInv, ThrottleExpires, Call
<1>. QED BY <1>1, <1>4, <1>5

\* Every step keeps what is known of the counters.
LEMMA WindowsKeep ==
  ASSUME AccountsInv, WindowsInv, [Next]_vars PROVE WindowsInv'
<1>0. requests \in [Requests -> Records]
      BY DEF AccountsInv, RequestsOk
<1>1. ASSUME NEW r \in Requests,
             \/ Arrive(r) \/ RegisterRead(r) \/ RegisterCommit(r) \/ LoginRead(r) \/ LoginCommit(r)
             \/ Establish(r) \/ EstablishFails(r) \/ PasswordRead(r) \/ PasswordReread(r) \/ PasswordCommit(r)
             \/ Pop(r) \/ ExchangeFails(r) \/ GoogleRead(r) \/ GoogleRegisterCommit(r) \/ GoogleSignInCommit(r)
             \/ LinkRead(r) \/ LinkCommit(r) \/ SettingRead(r) \/ SettingCommit(r) \/ Collision(r)
      PROVE  WindowsInv'
      BY <1>0, <1>1, NotBetween, CountersAlone
<1>2. ASSUME NEW r \in Requests, Die(r)
      PROVE  WindowsInv'
  <2>1. /\ OthersStay(r) /\ UNCHANGED windows
        /\ requests'[r].at = requests[r].at /\ requests'[r].call = requests[r].call
        /\ requests[r].at # "done"
        BY <1>0, <1>2 DEF Die, OthersStay, Records
  <2>. QED BY <2>1, CountersAlone
<1>3. ASSUME NEW r \in Requests, Count(r) \/ CountFails(r) \/ OpenWindow(r) \/ OpenWindowFails(r)
      PROVE  WindowsInv'
      BY <1>3, CountKeeps, OpenKeeps
<1>4. ASSUME NEW a \in Throttled, WindowEnds(a)
      PROVE  WindowsInv'
  <2>1. windows' = [windows EXCEPT ![a] = NoWindow] /\ requests' = requests
        BY <1>4 DEF WindowEnds
  <2>2. NoWindow \in WindowRows /\ NoWindow.count = 0
        BY DEF NoWindow, WindowRows
  <2>3. windows' \in [Throttled -> WindowRows] /\ windows'[a] = NoWindow
        BY <2>1, <2>2, Zenon DEF WindowsInv
  <2>4. ThrottleExpires'
    <3>. SUFFICES ASSUME NEW b \in Throttled, windows'[b].count > 0, ~windows'[b].expires
                  PROVE  \E x \in Requests :
                           windows'[b].opener = x /\ requests[x].call.op = b /\ LeavesOpen(requests[x])
         BY <2>1 DEF ThrottleExpires, Call
    <3>1. b # a
          BY <2>2, <2>3
    <3>2. windows'[b] = windows[b]
          BY <2>1, <3>1 DEF WindowsInv
    <3>. QED BY <3>2 DEF WindowsInv, ThrottleExpires, Call
  <2>. QED BY <2>3, <2>4 DEF WindowsInv
<1>5. ASSUME NEW t \in Attempts, GoogleStart(t) \/ AttemptExpires(t)
      PROVE  WindowsInv'
  <2>1. UNCHANGED <<windows, requests>>
        BY <1>5 DEF GoogleStart, AttemptExpires
  <2>. QED BY <2>1 DEF WindowsInv, ThrottleExpires, Call
<1>6. CASE UNCHANGED vars
      BY <1>6 DEF vars, WindowsInv, ThrottleExpires, Call
<1>. QED BY <1>1, <1>2, <1>3, <1>4, <1>5, <1>6 DEF Next

\* Nothing has begun: one account at most, and its own ways in.
LEMMA InitInvariant == Init => IInv
<1>. SUFFICES ASSUME Init PROVE IInv
     OBVIOUS
<1>1. /\ users \in [Users -> UserRows] /\ members \subseteq Users
      /\ identities \in [Subjects -> Users \union {"none"}]
      /\ credentials \in [Users -> Passwords \union {"none"}]
      /\ sessions \in [SessionIds -> Users \union {"none"}]
      /\ \A s \in SessionIds : sessions[s] # "none" =>
           users[sessions[s]].email # "none" /\ sessions[s] \in members
      /\ \A g \in Subjects : identities[g] # "none" => users[identities[g]].email # "none"
      /\ \A r \in Requests : sessions[r] = "none"
  <2>1. \A r \in Requests : r # Earlier /\ r \in SessionIds
        BY AccountsAssumption DEF SessionIds
  <2>2. ASSUME NEW u \in Users, NEW e \in Emails, NEW p \in Passwords \union {"none"}, NEW G \in SUBSET Subjects,
               users = [v \in Users |-> IF v = u THEN [NoUser EXCEPT !.email = e] ELSE NoUser],
               members = {u},
               identities = [g \in Subjects |-> IF g \in G THEN u ELSE "none"],
               credentials = [v \in Users |-> IF v = u THEN p ELSE "none"],
               sessions = [s \in SessionIds |-> IF s = Earlier THEN u ELSE "none"]
        PROVE  <1>1!:
    <3>. DEFINE mine == [NoUser EXCEPT !.email = e]
    <3>1. mine \in UserRows /\ mine.email # "none" /\ NoUser \in UserRows
          BY RowFacts, NamesAreNotNone
    <3>2. users = [v \in Users |-> IF v = u THEN mine ELSE NoUser]
          BY <2>2
    <3>. HIDE DEF mine
    <3>. QED BY <2>1, <2>2, <3>1, <3>2
  <2>3. ASSUME users = [v \in Users |-> NoUser], members = {}, identities = [g \in Subjects |-> "none"],
               credentials = [v \in Users |-> "none"], sessions = [s \in SessionIds |-> "none"]
        PROVE  <1>1!:
        BY <2>1, <2>3, RowFacts
  <2>. QED BY <2>2, <2>3 DEF Init
<1>2. /\ known = [v \in Users |-> {credentials[v]} \ {"none"}]
      /\ attempts = [t \in Attempts |-> NoAttempt]
      /\ windows = [a \in Throttled |-> NoWindow]
      /\ settled = [u \in Users |-> [f \in Fields |-> "none"]]
      /\ requests = [r \in Requests |-> Idle]
      /\ faults = 0
      BY DEF Init
<1>3. TablesTyped
      BY <1>1, <1>2, AccountsAssumption DEF TablesTyped
<1>4. TablesOk
      BY <1>1, <1>2 DEF TablesOk
<1>5. AttemptsOk
      BY <1>2 DEF AttemptsOk, AttemptRows, NoAttempt
<1>6. Idle \in Records /\ Idle.at = "idle"
      BY RowFacts DEF Idle, Records, Places
<1>7. RequestsOk
      BY <1>2, <1>6 DEF RequestsOk, RequestOk, Licensed
<1>8. SessionsProven
      BY <1>1 DEF SessionsProven
<1>9. SettingsOk
      BY <1>2, <1>6 DEF SettingsOk, KeepsSettled
<1>10. WindowsInv
  <2>1. NoWindow \in WindowRows /\ NoWindow.count = 0
        BY DEF NoWindow, WindowRows
  <2>2. windows \in [Throttled -> WindowRows] /\ \A a \in Throttled : windows[a].count = 0
        BY <1>2, <2>1
  <2>. QED BY <2>2 DEF WindowsInv, ThrottleExpires
<1>. QED BY <1>3, <1>4, <1>5, <1>7, <1>8, <1>9, <1>10 DEF IInv, AccountsInv

\* The inductive invariant holds in every state of every behaviour.
THEOREM AccountsInvariant == Spec => []IInv
<1>1. ASSUME IInv, [Next]_vars
      PROVE  IInv'
      BY <1>1, AccountsKeep, WindowsKeep DEF IInv
<1>. QED BY InitInvariant, <1>1, PTL DEF Spec

-----------------------------------------------------------------------------
(* What follows from it *)

\* Every variable keeps its type: rows, identities, sessions, attempts, counters, requests.
THEOREM AccountsTyped == Spec => []TypeOK
<1>1. IInv => TypeOK
      BY DEF IInv, AccountsInv, WindowsInv, TablesTyped, AttemptsOk, RequestsOk, Records, TypeOK
<1>. QED BY AccountsInvariant, <1>1, PTL

\* Nobody is let into an account that was not proven to be theirs: the session of a password
\* sign-in belongs to a user who has had the password, the one of a Google sign-in to the user
\* its subject is linked to (LoginRead, GoogleRead and their commits).
THEOREM SessionsAreProven == Spec => []SessionIsProven
<1>1. IInv => SessionIsProven
      BY DEF IInv, AccountsInv, TablesOk, SessionsProven, Proves, SessionIsProven, SessionIds, Registered, Call
<1>. QED BY AccountsInvariant, <1>1, PTL

\* A setting that was saved while nobody else held a copy of the row survives all whole-row
\* writes of later sign-ins, links and changes of the other setting (SaveRow).
THEOREM SettingsStick == Spec => []SettingSticks
<1>1. IInv => SettingSticks
      BY DEF IInv, AccountsInv, SettingsOk, SettingSticks
<1>. QED BY AccountsInvariant, <1>1, PTL

\* A counter of the limiter without an end was started by a request that stands, or has died,
\* between INCR and EXPIRE, or that was told 503 because one of them failed (AuthRateLimiter.check).
THEOREM ThrottlesExpire == Spec => []ThrottleExpires
<1>1. IInv => ThrottleExpires
      BY DEF IInv, WindowsInv
<1>. QED BY AccountsInvariant, <1>1, PTL

\* A linked subject stays with its user: the constraint on the subject and the check of
\* _insert_linked_identity let no step hand it to another (InsertIdentity).
THEOREM SubjectsKeepUsers == Spec => SubjectKeepsUser
<1>1. ASSUME IInv, [Next]_vars
      PROVE  \A g \in Subjects : identities[g] # "none" => identities'[g] = identities[g]
  <2>1. CASE identities' = identities
        BY <2>1
  <2>2. ASSUME NEW h, NEW u, InsertIdentity(h, u)
        PROVE  \A g \in Subjects : identities[g] # "none" => identities'[g] = identities[g]
        BY <1>1, <2>2 DEF InsertIdentity, IInv, AccountsInv, TablesTyped
  <2>3. ASSUME NEW r \in Requests, GoogleRegisterCommit(r) \/ LinkCommit(r)
        PROVE  \E h, u : InsertIdentity(h, u)
        BY <2>3 DEF GoogleRegisterCommit, LinkCommit
  <2>4. ASSUME NEW r \in Requests,
               \/ Arrive(r) \/ Count(r) \/ CountFails(r) \/ OpenWindow(r) \/ OpenWindowFails(r)
               \/ RegisterRead(r) \/ RegisterCommit(r) \/ LoginRead(r) \/ LoginCommit(r)
               \/ Establish(r) \/ EstablishFails(r) \/ PasswordRead(r) \/ PasswordReread(r) \/ PasswordCommit(r)
               \/ Pop(r) \/ ExchangeFails(r) \/ GoogleRead(r) \/ GoogleSignInCommit(r) \/ LinkRead(r)
               \/ SettingRead(r) \/ SettingCommit(r) \/ Collision(r) \/ Die(r)
        PROVE  identities' = identities
        BY <2>4 DEF tables, Arrive, Count, CountFails, OpenWindow, OpenWindowFails, RegisterRead, RegisterCommit, LoginRead, LoginCommit, Establish,
                    EstablishFails, PasswordRead, PasswordReread, PasswordCommit, Pop, ExchangeFails, GoogleRead,
                    GoogleSignInCommit, LinkRead, SettingRead, SettingCommit, Collision, Collides, Die
  <2>5. ASSUME NEW a \in Throttled, WindowEnds(a)
        PROVE  identities' = identities
        BY <2>5 DEF WindowEnds, tables
  <2>6. ASSUME NEW t \in Attempts, GoogleStart(t) \/ AttemptExpires(t)
        PROVE  identities' = identities
        BY <2>6 DEF GoogleStart, AttemptExpires, tables
  <2>7. CASE UNCHANGED vars
        BY <2>1, <2>7 DEF vars, tables
  <2>. QED BY <1>1, <2>1, <2>2, <2>3, <2>4, <2>5, <2>6, <2>7 DEF Next
<1>2. IInv /\ [Next]_vars =>
        [\A g \in Subjects : identities[g] # "none" => identities'[g] = identities[g]]_vars
      BY <1>1
<1>. QED BY AccountsInvariant, <1>2, PTL DEF Spec, SubjectKeepsUser
=============================================================================
