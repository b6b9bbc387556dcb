------------------------- MODULE ReportScreensProofs ------------------------
(***************************************************************************)
(* The report screens post one report for each analysis screen, and what   *)
(* they show as completed has its PDF, for any number of screens, polls,   *)
(* calls and faults.                                                       *)
(***************************************************************************)
EXTENDS ReportScreens, TLAPS

-----------------------------------------------------------------------------
(* The inductive invariant *)

\* Reports R, of n screens: their keys, and the PDF of what is completed.
ReportsOk(R, n) ==
  /\ R \in Seq(Reports)
  /\ \A i \in DOMAIN R : R[i].key \in 1..n /\ (R[i].state = "COMPLETED" => R[i].pdf)
  /\ \A i, j \in DOMAIN R : R[i].key = R[j].key => i = j

DraftOk(d, R) ==
  /\ d \in Drafts /\ d.report <= Len(R)
  /\ d.view.state = "COMPLETED" => d.view.pdf

\* A call under way: an effect that creates has a screen's key, a wait has polls
\* left, and an answer is as complete as its report.
CallOk(c, n, R) ==
  /\ c \in Calls /\ c.key <= n /\ c.report <= Len(R)
  /\ c.at # "create" => c.report # 0
  /\ c.at \in {"create", "retry"} => c.first
  /\ c.at = "create" => c.key # 0 /\ c.view.state # "COMPLETED"
  /\ c.op = "finish" => ~c.first
  /\ ~c.first /\ c.at \in {"report", "run", "pdf", "answer"} => c.left # 0
  /\ c.at = "pdf" /\ c.view.state = "COMPLETED" => R[c.report].pdf
  /\ c.at = "answer" /\ c.view.state = "COMPLETED" => c.view.pdf

StackOk(s) == s \in Seq(Frames) /\ Len(s) \in 1..MaxStack

IInv ==
  /\ StackOk(stack)
  /\ opened \in 0..MaxScreens /\ error \in BOOLEAN /\ faults \in 0..MaxFaults
  /\ error => opened # 0
  /\ ReportsOk(reports, opened)
  /\ DraftOk(draft, reports)
  /\ \A c \in calls : CallOk(c, opened, reports)

-----------------------------------------------------------------------------
(* The parts of a step *)

\* Reports that come after R: none is lost, and no PDF.
Later(R, S) == Len(R) <= Len(S) /\ \A i \in DOMAIN R : R[i].pdf => S[i].pdf

\* What holds of a call goes on to hold while others work.
LEMMA CallKept ==
  ASSUME NEW n \in Nat, NEW m \in Nat, n <= m,
         NEW R \in Seq(Reports), NEW S \in Seq(Reports), Later(R, S),
         NEW c, CallOk(c, n, R)
  PROVE  CallOk(c, m, S)
<1>1. /\ c \in Calls /\ c.key \in Nat /\ c.report \in Nat
      /\ Len(R) \in Nat /\ Len(S) \in Nat
      BY DEF CallOk, Calls
<1>2. c.key <= m /\ c.report <= Len(S)
      BY <1>1 DEF CallOk, Later
<1>3. ASSUME c.at = "pdf", c.view.state = "COMPLETED"
      PROVE  S[c.report].pdf
  <2>1. c.report \in DOMAIN R /\ R[c.report].pdf
        BY <1>1, <1>3 DEF CallOk
  <2>. QED BY <2>1 DEF Later
<1>. QED BY <1>1, <1>2, <1>3 DEF CallOk

\* Aborting a call changes nothing else of it.
LEMMA AbortKeeps ==
  ASSUME NEW n, NEW R, NEW C, \A c \in C : CallOk(c, n, R)
  PROVE  \A c \in Aborted(C) : CallOk(c, n, R)
<1>. SUFFICES ASSUME NEW c \in C PROVE CallOk([c EXCEPT !.aborted = TRUE], n, R)
     BY DEF Aborted
<1>1. CallOk(c, n, R)
      OBVIOUS
<1>. QED BY <1>1 DEF CallOk, Calls

\* The effect of a screen that was opened, with the draft of the app.
LEMMA EffectOk ==
  ASSUME NEW n \in Nat, n <= MaxScreens, NEW key \in 1..n, NEW R \in Seq(Reports),
         NEW d, DraftOk(d, R)
  PROVE  CallOk(Effect(key, d), n, R)
<1>. DEFINE fresh == [NoCall EXCEPT !.key = key, !.first = TRUE, !.view = Fresh(d.voice)]
            retry == [fresh EXCEPT !.at = "retry", !.report = d.report]
<1>1. /\ d \in Drafts /\ d.voice \in BOOLEAN /\ d.report \in Nat /\ d.report <= Len(R)
      /\ key \in 0..MaxScreens /\ key # 0 /\ key <= n /\ Len(R) \in Nat /\ MaxPolls \in Nat
      BY ScreensAssumption DEF DraftOk, Drafts
<1>2. Fresh(d.voice) \in Views /\ Fresh(d.voice).state # "COMPLETED"
      BY <1>1 DEF Fresh, Views, RunStates
<1>3. fresh \in Calls
  <2>1. Told("REVIEW_PENDING") \in Views
        BY DEF Told, Views, RunStates
  <2>2. 0 \in 0..MaxScreens /\ 0 \in 0..MaxPolls
        BY ScreensAssumption
  <2>3. NoCall \in Calls
        BY <2>1, <2>2 DEF NoCall, Calls
  <2>. QED BY <1>1, <1>2, <2>3 DEF Calls
<1>4. CallOk(fresh, n, R)
      BY <1>1, <1>2, <1>3 DEF CallOk, NoCall
<1>5. ASSUME d.report # 0 PROVE CallOk(retry, n, R)
  <2>1. retry \in Calls
        BY <1>1, <1>3 DEF Calls
  <2>. QED BY <1>1, <1>5, <2>1 DEF CallOk, NoCall
<1>. QED BY <1>4, <1>5 DEF Effect

\* A report that changes without losing its key or its PDF.
LEMMA ReportChanged ==
  ASSUME NEW n, NEW R, ReportsOk(R, n), NEW i \in DOMAIN R, NEW r \in Reports,
         r.key = R[i].key, R[i].pdf => r.pdf, r.state = "COMPLETED" => r.pdf
  PROVE  /\ ReportsOk([R EXCEPT ![i] = r], n)
         /\ Later(R, [R EXCEPT ![i] = r])
<1>. DEFINE S == [R EXCEPT ![i] = r]
<1>1. R \in Seq(Reports)
      BY DEF ReportsOk
<1>2. S \in Seq(Reports) /\ Len(S) = Len(R) /\ DOMAIN S = DOMAIN R
      BY <1>1
<1>3. \A j \in DOMAIN R : S[j] = IF j = i THEN r ELSE R[j]
      BY <1>1
<1>4. Len(R) \in Nat
      BY <1>1
<1>5. Later(R, S)
      BY <1>2, <1>3, <1>4 DEF Later
<1>6. ReportsOk(S, n)
      BY <1>2, <1>3 DEF ReportsOk
<1>. QED BY <1>5, <1>6

\* Reports that stay.
LEMMA SameLater == ASSUME NEW R \in Seq(Reports) PROVE Later(R, R)
BY DEF Later

\* Other calls while a step is taken.
LEMMA OthersKept ==
  ASSUME IInv, NEW R, ReportsOk(R, opened), Later(reports, R)
  PROVE  /\ \A c \in calls : CallOk(c, opened, R)
         /\ DraftOk(draft, R)
<1>1. /\ opened \in Nat /\ opened <= opened /\ R \in Seq(Reports) /\ reports \in Seq(Reports)
      BY ScreensAssumption DEF IInv, ReportsOk
<1>2. \A c \in calls : CallOk(c, opened, R)
      BY <1>1, CallKept DEF IInv
<1>3. draft.report <= Len(R)
      BY <1>1 DEF IInv, DraftOk, Drafts, Later
<1>. QED BY <1>2, <1>3 DEF IInv, DraftOk

\* A step that takes the app to another screen.
LEMMA ShowKeeps ==
  ASSUME IInv, NEW s, StackOk(s), NEW d, NEW C,
         ReportsOk(reports', opened), DraftOk(d, reports'),
         \A c \in C : CallOk(c, opened, reports'),
         Show(s, d, C)
  PROVE  IInv'
<1>1. opened \in Nat /\ opened' \in 0..MaxScreens /\ opened' \in {opened, opened + 1} /\ opened <= opened'
      BY ScreensAssumption DEF IInv, Show
<1>2. error' = FALSE /\ StackOk(stack') /\ DraftOk(draft', reports')
      BY DEF Show
<1>3. faults' \in 0..MaxFaults
      BY ScreensAssumption DEF IInv, Show, Fault
<1>4. reports' \in Seq(Reports) /\ Later(reports', reports')
      BY SameLater DEF ReportsOk
<1>5. ReportsOk(reports', opened')
  <2>1. \A i \in DOMAIN reports' : reports'[i].key \in 1..opened'
        BY <1>1 DEF ReportsOk
  <2>. QED BY <2>1 DEF ReportsOk
<1>6. \A c \in C : CallOk(c, opened', reports')
      BY <1>1, <1>4, CallKept
<1>7. \A c \in Aborted(C) : CallOk(c, opened', reports')
      BY <1>6, AbortKeeps
<1>8. \A c \in calls' : CallOk(c, opened', reports')
  <2>1. CASE s[Len(s)].screen = "analysis"
    <3>1. calls' = Aborted(C) \union {Effect(opened + 1, d)} /\ opened' = opened + 1
          BY <2>1 DEF Show
    <3>2. CallOk(Effect(opened + 1, d), opened', reports')
      <4>1. opened' \in Nat /\ opened' <= MaxScreens /\ opened + 1 \in 1..opened'
            BY <1>1, <3>1, ScreensAssumption
      <4>. QED BY <1>4, <4>1, EffectOk
    <3>. QED BY <1>7, <3>1, <3>2
  <2>2. CASE s[Len(s)].screen # "analysis"
        BY <1>7, <2>2 DEF Show
  <2>. QED BY <2>1, <2>2
<1>. QED BY <1>1, <1>2, <1>3, <1>5, <1>8 DEF IInv

\* The screens the app goes to.
LEMMA FramesOk ==
  ASSUME IInv, NEW f \in Frames
  PROVE  /\ Len(Append(stack, f)) <= MaxStack => StackOk(Append(stack, f))
         /\ StackOk(Append(Below, f))
         /\ Len(stack) > 1 => StackOk(Below)
<1>1. stack \in Seq(Frames) /\ Len(stack) \in 1..MaxStack /\ MaxStack \in Nat
      BY ScreensAssumption DEF IInv, StackOk
<1>2. Below \in Seq(Frames) /\ Len(Below) = Len(stack) - 1
      BY <1>1 DEF Below
<1>3. /\ Append(stack, f) \in Seq(Frames) /\ Len(Append(stack, f)) = Len(stack) + 1
      /\ Append(Below, f) \in Seq(Frames) /\ Len(Append(Below, f)) = Len(stack)
      BY <1>1, <1>2
<1>. QED BY <1>1, <1>2, <1>3 DEF StackOk

\* A frame that hands the parked flag on.
LEMMA FrameOk == ASSUME IInv, NEW screen \in Screens PROVE Frame(screen) \in Frames
<1>1. Top \in Frames
      BY DEF IInv, StackOk, Top
<1>. QED BY <1>1 DEF Frame, Frames

\* Going to another screen, on top of this one or instead of it.
LEMMA NavigateKeeps ==
  ASSUME IInv, NEW f \in Frames, NEW d, NEW C,
         ReportsOk(reports', opened), DraftOk(d, reports'),
         \A c \in C : CallOk(c, opened, reports'),
         Navigate(f, d, C) \/ Replace(f, d, C)
  PROVE  IInv'
<1>1. CASE Navigate(f, d, C)
  <2>1. Show(Append(stack, f), d, C)
        BY <1>1 DEF Navigate
  <2>2. StackOk(Append(stack, f))
        BY <2>1, FramesOk DEF Show
  <2>. QED BY <2>1, <2>2, ShowKeeps
<1>2. CASE Replace(f, d, C)
  <2>1. Show(Append(Below, f), d, C)
        BY <1>2 DEF Replace
  <2>2. StackOk(Append(Below, f))
        BY FramesOk
  <2>. QED BY <2>1, <2>2, ShowKeeps
<1>. QED BY <1>1, <1>2

\* A step that stays on the screen.
LEMMA StayKeeps ==
  ASSUME IInv, NEW d, NEW C,
         ReportsOk(reports', opened), DraftOk(d, reports'),
         \A c \in C : CallOk(c, opened, reports'),
         Stay(d, C), error' \in BOOLEAN, error' => opened # 0,
         On("analysis") /\ d.notes # draft.notes => opened # 0
  PROVE  IInv'
<1>1. opened' = opened /\ stack' = stack /\ faults' = faults /\ draft' = d
      BY DEF Stay
<1>2. \A c \in calls' : CallOk(c, opened, reports')
  <2>1. CASE On("analysis") /\ d.notes # draft.notes
    <3>1. calls' = Aborted(C) \union {Effect(opened, d)}
          BY <2>1 DEF Stay
    <3>2. CallOk(Effect(opened, d), opened, reports')
      <4>1. opened \in Nat /\ opened <= MaxScreens /\ opened \in 1..opened
            BY <2>1, ScreensAssumption DEF IInv
      <4>. QED BY <4>1, EffectOk DEF ReportsOk
    <3>. QED BY <3>1, <3>2, AbortKeeps
  <2>2. CASE ~(On("analysis") /\ d.notes # draft.notes)
        BY <2>2 DEF Stay
  <2>. QED BY <2>1, <2>2
<1>. QED BY <1>1, <1>2 DEF IInv

\* A step of one call.
LEMMA GoOnKeeps ==
  ASSUME IInv, NEW c, NEW e,
         ReportsOk(reports', opened), Later(reports, reports'), CallOk(e, opened, reports'),
         GoOn(c, e)
  PROVE  IInv'
<1>1. (\A k \in calls : CallOk(k, opened, reports')) /\ DraftOk(draft, reports')
      BY OthersKept
<1>2. \A k \in calls' : CallOk(k, opened, reports')
      BY <1>1 DEF GoOn
<1>. QED BY <1>1, <1>2 DEF IInv, GoOn

\* The answer of a button's call is lost, or that of a wait.
LEMMA LostKeeps ==
  ASSUME IInv, NEW C, C \subseteq calls,
         ReportsOk(reports', opened), Later(reports, reports'), Lost(C)
  PROVE  IInv'
<1>1. (\A k \in calls : CallOk(k, opened, reports')) /\ DraftOk(draft, reports')
      BY OthersKept
<1>2. faults' \in 0..MaxFaults
      BY ScreensAssumption DEF IInv, Lost, Fault
<1>. QED BY <1>1, <1>2 DEF IInv, Lost

\* A wait that begins or goes on.
LEMMA WaitingOk ==
  ASSUME NEW n \in Nat, NEW R, NEW c, CallOk(c, n, R), c.report # 0
  PROVE  /\ CallOk(Waiting(c), n, R)
         /\ c.at = "answer" /\ ~c.first /\ c.left # 1 => CallOk(AskAgain(c), n, R)
<1>1. /\ c \in Calls /\ c.op \in {"analysis", "finish"} /\ c.aborted \in BOOLEAN
      /\ c.report \in Nat /\ c.report <= Len(R) /\ c.left \in 0..MaxPolls
      BY DEF CallOk, Calls
<1>2. 0 \in 0..MaxScreens /\ MaxPolls \in 0..MaxPolls /\ MaxPolls # 0 /\ MaxPolls \in Nat
      BY ScreensAssumption
<1>3. Told("REVIEW_PENDING") \in Views
      BY DEF Told, Views, RunStates
<1>4. Waiting(c) \in Calls
      BY <1>1, <1>2, <1>3 DEF Waiting, NoCall, Calls
<1>5. CallOk(Waiting(c), n, R)
      BY <1>1, <1>2, <1>4 DEF CallOk, Waiting, NoCall
<1>6. ASSUME c.at = "answer", ~c.first, c.left # 1
      PROVE  CallOk(AskAgain(c), n, R)
  <2>1. c.left # 0
        BY <1>6 DEF CallOk
  <2>2. c.left - 1 \in 0..MaxPolls /\ c.left - 1 # 0
        BY <1>1, <1>2, <1>6, <2>1
  <2>3. AskAgain(c) \in Calls
        BY <1>4, <2>2 DEF AskAgain, Calls
  <2>. QED BY <1>5, <2>2, <2>3 DEF CallOk, AskAgain, Waiting, NoCall
<1>. QED BY <1>5, <1>6

\* What the screens are told and what they take from an answer.
LEMMA DraftsOk ==
  ASSUME NEW R, NEW d, DraftOk(d, R)
  PROVE  /\ \A state \in RunStates \ {"COMPLETED"} : DraftOk([d EXCEPT !.view = Told(state)], R)
         /\ \A n, c : CallOk(c, n, R) /\ c.at = "answer" =>
              /\ DraftOk([d EXCEPT !.view = c.view], R)
              /\ DraftOk([d EXCEPT !.report = c.report, !.view = c.view], R)
              /\ DraftOk([d EXCEPT !.view = c.view,
                                   !.notes = IF c.heard THEN "transcript" ELSE @], R)
<1>1. d \in Drafts /\ d.report <= Len(R)
      BY DEF DraftOk
<1>2. ASSUME NEW state \in RunStates \ {"COMPLETED"}
      PROVE  DraftOk([d EXCEPT !.view = Told(state)], R)
  <2>1. Told(state) \in Views /\ Told(state).state # "COMPLETED"
        BY DEF Told, Views
  <2>. QED BY <1>1, <2>1 DEF DraftOk, Drafts
<1>3. ASSUME NEW n, NEW c, CallOk(c, n, R), c.at = "answer"
      PROVE  /\ DraftOk([d EXCEPT !.view = c.view], R)
             /\ DraftOk([d EXCEPT !.report = c.report, !.view = c.view], R)
             /\ DraftOk([d EXCEPT !.view = c.view,
                                  !.notes = IF c.heard THEN "transcript" ELSE @], R)
  <2>1. /\ c.view \in Views /\ c.report \in Nat /\ c.report <= Len(R)
        /\ c.view.state = "COMPLETED" => c.view.pdf
        BY <1>3 DEF CallOk, Calls
  <2>. QED BY <1>1, <2>1 DEF DraftOk, Drafts
<1>. QED BY <1>2, <1>3

-----------------------------------------------------------------------------
(* The actions *)

\* What the invariant says, as the steps need it: a call under way has a report,
\* unless it creates one, and an analysis screen was opened.
LEMMA Facts ==
  ASSUME IInv
  PROVE  /\ ReportsOk(reports, opened) /\ Later(reports, reports) /\ DraftOk(draft, reports)
         /\ reports \in Seq(Reports) /\ opened \in Nat /\ Len(reports) \in Nat
         /\ \A c \in calls : /\ CallOk(c, opened, reports) /\ opened # 0
                             /\ c.at # "create" => c.report \in DOMAIN reports
<1>1. reports \in Seq(Reports) /\ opened \in Nat
      BY ScreensAssumption DEF IInv, ReportsOk
<1>2. ASSUME NEW c \in calls, c.at # "create"
      PROVE  c.report \in DOMAIN reports
      BY <1>1, <1>2 DEF IInv, CallOk, Calls
<1>3. ASSUME NEW c \in calls PROVE opened # 0
  <2>1. CASE c.at = "create"
    <3>1. c.key \in Nat /\ c.key # 0 /\ c.key <= opened
          BY <2>1 DEF IInv, CallOk, Calls
    <3>. QED BY <1>1, <3>1
  <2>2. CASE c.at # "create"
    <3>1. reports[c.report].key \in 1..opened
          BY <1>2, <2>2 DEF IInv, ReportsOk
    <3>. QED BY <1>1, <3>1
  <2>. QED BY <2>1, <2>2
<1>. QED BY <1>1, <1>2, <1>3, SameLater DEF IInv

\* POST /reports adds a report for a key that has none.
LEMMA CreateKeeps == ASSUME IInv, NEW c \in calls, Create(c) PROVE IInv'
<1>. DEFINE known == {r \in DOMAIN reports : reports[r].key = c.key}
<1>1. /\ CallOk(c, opened, reports) /\ reports \in Seq(Reports) /\ opened \in Nat
      /\ ReportsOk(reports, opened) /\ Later(reports, reports) /\ Len(reports) \in Nat
      BY Facts
<1>2. /\ c \in Calls /\ c.first /\ c.key \in 1..opened /\ c.key \in Keys /\ c.at = "create"
      /\ c.view.state \in RunStates /\ c.view.state # "COMPLETED"
      BY <1>1 DEF Create, CallOk, Calls, Views, Keys
<1>3. CASE known = {}
  <2>. DEFINE r == [key |-> c.key, status |-> "draft", state |-> c.view.state,
                    confirmed |-> FALSE, transcript |-> FALSE, pdf |-> FALSE]
              R == Append(reports, r)
              e == [c EXCEPT !.at = "answer", !.report = Len(reports) + 1]
  <2>1. reports' = R /\ GoOn(c, e)
        BY <1>3 DEF Create
  <2>2. r \in Reports
        BY <1>2 DEF Reports, Statuses
  <2>3. /\ R \in Seq(Reports) /\ Len(R) = Len(reports) + 1 /\ R[Len(reports) + 1] = r
        /\ \A i \in DOMAIN reports : R[i] = reports[i] /\ i # Len(reports) + 1
        /\ DOMAIN R = DOMAIN reports \union {Len(reports) + 1}
        BY <1>1, <2>2
  <2>4. ReportsOk(R, opened)
    <3>1. \A i \in DOMAIN R : R[i].key \in 1..opened /\ (R[i].state = "COMPLETED" => R[i].pdf)
          BY <1>1, <1>2, <2>3 DEF ReportsOk
    <3>2. \A i \in DOMAIN reports : R[i].key # c.key
          BY <1>3, <2>3
    <3>3. \A i, j \in DOMAIN R : R[i].key = R[j].key => i = j
          BY <1>1, <2>3, <3>2 DEF ReportsOk
    <3>. QED BY <2>3, <3>1, <3>3 DEF ReportsOk
  <2>5. Later(reports, R)
        BY <1>1, <2>3 DEF Later
  <2>6. CallOk(e, opened, R)
    <3>1. Len(reports) + 1 \in Nat /\ Len(reports) + 1 # 0
          BY <1>1
    <3>2. e \in Calls
          BY <1>2, <3>1 DEF Calls
    <3>. QED BY <1>1, <1>2, <2>3, <3>1, <3>2 DEF CallOk
  <2>. QED BY <2>1, <2>4, <2>5, <2>6, GoOnKeeps
<1>4. CASE known # {}
  <2>1. PICK i \in known : i = CHOOSE r \in known : TRUE
        BY <1>4
  <2>2. reports' = reports /\ GoOn(c, [c EXCEPT !.at = "answer", !.report = i])
        BY <1>4, <2>1 DEF Create
  <2>3. i \in Nat /\ i # 0 /\ i <= Len(reports)
        BY <1>1
  <2>4. CallOk([c EXCEPT !.at = "answer", !.report = i], opened, reports)
        BY <1>1, <1>2, <2>3 DEF CallOk, Calls
  <2>. QED BY <1>1, <2>2, <2>4, GoOnKeeps
<1>. QED BY <1>3, <1>4

\* A retry leaves the report its key and its PDF.
LEMMA RetryKeeps == ASSUME IInv, NEW c \in calls, Retry(c) PROVE IInv'
<1>. DEFINE to == Resumed(reports[c.report], draft.voice)
            r == [reports[c.report] EXCEPT !.state = to]
            e == [c EXCEPT !.at = "run", !.view.confirmed = reports[c.report].confirmed]
<1>1. /\ CallOk(c, opened, reports) /\ reports \in Seq(Reports) /\ opened \in Nat
      /\ ReportsOk(reports, opened) /\ c.report \in DOMAIN reports /\ c.at = "retry"
      BY Facts DEF Retry
<1>2. to \in RunStates \ {"COMPLETED"}
      BY DEF Resumed, Fresh, RunStates
<1>3. reports[c.report] \in Reports
      BY <1>1
<1>4. r \in Reports /\ r.key = reports[c.report].key /\ r.pdf = reports[c.report].pdf /\ r.state = to
      BY <1>2, <1>3 DEF Reports
<1>5. reports' = [reports EXCEPT ![c.report] = r] /\ GoOn(c, e)
      BY <1>1 DEF Retry
<1>6. ReportsOk(reports', opened) /\ Later(reports, reports')
      BY <1>1, <1>2, <1>4, <1>5, ReportChanged
<1>7. CallOk(e, opened, reports)
  <2>1. reports[c.report].confirmed \in BOOLEAN
        BY <1>3 DEF Reports
  <2>2. e \in Calls
        BY <1>1, <2>1 DEF CallOk, Calls, Views
  <2>. QED BY <1>1, <2>2 DEF CallOk
<1>8. CallOk(e, opened, reports')
      BY <1>1, <1>6, <1>7, CallKept DEF ReportsOk
<1>. QED BY <1>5, <1>6, <1>8, GoOnKeeps

\* The three reads of a report: a run seen completed has its PDF in the next.
LEMMA ReadKeeps ==
  ASSUME IInv, NEW c \in calls, ReadReport(c) \/ ReadRun(c) \/ ReadPdf(c)
  PROVE  IInv'
<1>1. /\ CallOk(c, opened, reports) /\ reports \in Seq(Reports) /\ reports' = reports
      /\ ReportsOk(reports, opened) /\ Later(reports, reports)
      BY Facts DEF ReadReport, ReadRun, ReadPdf
<1>2. c.report \in DOMAIN reports
      BY Facts DEF ReadReport, ReadRun, ReadPdf
<1>3. /\ c \in Calls /\ reports[c.report] \in Reports
      /\ reports[c.report].state = "COMPLETED" => reports[c.report].pdf
      BY <1>1, <1>2 DEF CallOk, ReportsOk
<1>4. CASE ReadReport(c)
  <2>. DEFINE e == [c EXCEPT !.at = "run", !.view.confirmed = reports[c.report].confirmed]
  <2>1. e \in Calls
        BY <1>3 DEF Calls, Views, Reports
  <2>2. CallOk(e, opened, reports)
        BY <1>1, <1>3, <1>4, <2>1 DEF CallOk, ReadReport
  <2>. QED BY <1>1, <1>4, <2>2, GoOnKeeps DEF ReadReport
<1>5. CASE ReadRun(c)
  <2>. DEFINE e == [c EXCEPT !.at = "pdf", !.view.state = reports[c.report].state,
                             !.heard = reports[c.report].transcript]
  <2>1. e \in Calls
        BY <1>3 DEF Calls, Views, Reports
  <2>2. e.view.state = reports[c.report].state
        BY <1>3 DEF Calls, Views
  <2>3. CallOk(e, opened, reports)
        BY <1>1, <1>3, <1>5, <2>1, <2>2 DEF CallOk, ReadRun
  <2>. QED BY <1>1, <1>5, <2>3, GoOnKeeps DEF ReadRun
<1>6. CASE ReadPdf(c)
  <2>. DEFINE e == [c EXCEPT !.at = "answer", !.view.pdf = reports[c.report].pdf]
  <2>1. e \in Calls
        BY <1>3 DEF Calls, Views, Reports
  <2>2. e.view.state = c.view.state /\ e.view.pdf = reports[c.report].pdf
        BY <1>3 DEF Calls, Views
  <2>3. CallOk(e, opened, reports)
        BY <1>1, <1>3, <1>6, <2>1, <2>2 DEF CallOk, ReadPdf
  <2>. QED BY <1>1, <1>6, <2>3, GoOnKeeps DEF ReadPdf
<1>. QED BY <1>4, <1>5, <1>6

\* The app takes an answer, or the call ends without one.
LEMMA EffectEndsKeep ==
  ASSUME IInv, NEW c \in calls,
         Started(c) \/ Settled(c) \/ Failed(c) \/ NotYet(c) \/ Refused(c) \/ CallFails(c)
  PROVE  IInv'
<1>1. /\ CallOk(c, opened, reports) /\ ReportsOk(reports, opened) /\ DraftOk(draft, reports)
      /\ opened \in Nat /\ opened # 0 /\ reports \in Seq(Reports)
      /\ \A k \in calls : CallOk(k, opened, reports)
      BY Facts
<1>2. reports' = reports
      BY DEF Started, Settled, Failed, NotYet, Refused, CallFails, Ends
<1>3. ASSUME c.at = "answer"
      PROVE  c.report # 0
  BY <1>1, <1>3 DEF CallOk
<1>4. ASSUME c.at = "answer"
      PROVE  /\ DraftOk(Seen(c), reports)
             /\ DraftOk([draft EXCEPT !.report = c.report, !.view = c.view], reports)
  <2>1. DraftOk([draft EXCEPT !.view = c.view,
                              !.notes = IF c.heard THEN "transcript" ELSE @], reports)
        BY <1>1, <1>4, DraftsOk
  <2>. QED BY <1>1, <1>4, <2>1, DraftsOk DEF Seen
<1>5. CASE Started(c)
  <2>1. c.at = "answer" /\ CallOk(Waiting(c), opened, reports)
        BY <1>1, <1>3, <1>5, WaitingOk DEF Started
  <2>. DEFINE d == IF c.aborted THEN draft ELSE [draft EXCEPT !.report = c.report, !.view = c.view]
              C == (calls \ {c}) \union (IF c.aborted THEN {} ELSE {Waiting(c)})
  <2>2. Stay(d, C) /\ error' = error
        BY <1>5 DEF Started
  <2>3. DraftOk(d, reports) /\ \A k \in C : CallOk(k, opened, reports)
        BY <1>1, <1>4, <2>1
  <2>4. error' \in BOOLEAN
        BY <2>2 DEF IInv
  <2>. HIDE DEF d, C
  <2>. QED BY <1>1, <1>2, <1>3, <2>1, <2>2, <2>3, <2>4, StayKeeps
<1>6. CASE Settled(c)
  <2>. DEFINE f == IF c.view.state = "REVIEW_PENDING" THEN Frame("draft")
                   ELSE [screen |-> "edit", parked |-> TRUE]
  <2>1. Replace(f, Seen(c), calls \ {c}) /\ c.at = "answer"
        BY <1>6 DEF Settled, Polled
  <2>2. f \in Frames
    <3>1. Frame("draft") \in Frames
          BY FrameOk DEF Screens
    <3>. QED BY <3>1 DEF Frames, Screens
  <2>. HIDE DEF f
  <2>. QED BY <1>1, <1>2, <1>4, <2>1, <2>2, NavigateKeeps
<1>7. CASE Failed(c)
  <2>1. Stay(Seen(c), calls \ {c}) /\ error' \in BOOLEAN /\ c.at = "answer"
        BY <1>7 DEF Failed, Polled
  <2>. QED BY <1>1, <1>2, <1>3, <1>4, <2>1, StayKeeps
<1>8. CASE NotYet(c)
  <2>. DEFINE over == c.aborted \/ c.left = 1 \/ Seen(c).notes # draft.notes
              C == IF over THEN calls \ {c} ELSE (calls \ {c}) \union {AskAgain(c)}
  <2>1. Stay(Seen(c), C) /\ c.at = "answer" /\ ~c.first
        BY <1>8 DEF NotYet, Polled
  <2>2. error' \in BOOLEAN
        BY <1>8, Zenon DEF NotYet, IInv
  <2>3. \A k \in C : CallOk(k, opened, reports)
        BY <1>1, <1>3, <2>1, WaitingOk
  <2>. HIDE DEF C
  <2>. QED BY <1>1, <1>2, <1>3, <1>4, <2>1, <2>2, <2>3, StayKeeps
<1>9. CASE Refused(c) \/ CallFails(c)
  <2>1. Ends(c) /\ (faults' = faults \/ Fault)
        BY <1>9 DEF Refused, CallFails
  <2>2. error' \in BOOLEAN
        BY <2>1, Zenon DEF Ends, IInv
  <2>3. faults' \in 0..MaxFaults
        BY <2>1, ScreensAssumption DEF IInv, Fault
  <2>. QED BY <1>1, <2>1, <2>2, <2>3 DEF Ends, IInv
<1>. QED BY <1>5, <1>6, <1>7, <1>8, <1>9

\* The calls and the wait of the signature screen.
LEMMA WaitKeeps ==
  ASSUME IInv, NEW c \in calls, WaitStep(c)
  PROVE  IInv'
<1>1. /\ CallOk(c, opened, reports) /\ ReportsOk(reports, opened) /\ DraftOk(draft, reports)
      /\ opened \in Nat /\ reports \in Seq(Reports)
      /\ \A k \in calls : CallOk(k, opened, reports)
      BY Facts
<1>2. c.report \in DOMAIN reports /\ c.report # 0
      BY Facts DEF WaitStep, Ready, Sign, Completed, CallOk
<1>3. c \in Calls /\ reports[c.report] \in Reports
      BY <1>1, <1>2 DEF CallOk
<1>4. error \in BOOLEAN /\ opened # 0
      BY Facts DEF IInv
<1>5. ASSUME NEW r \in Reports, r.key = reports[c.report].key, r.pdf = reports[c.report].pdf,
             r.state # "COMPLETED", reports' = [reports EXCEPT ![c.report] = r]
      PROVE  /\ ReportsOk(reports', opened) /\ Later(reports, reports')
             /\ DraftOk(draft, reports') /\ \A k \in calls : CallOk(k, opened, reports')
  <2>1. ReportsOk(reports', opened) /\ Later(reports, reports')
        BY <1>1, <1>2, <1>5, ReportChanged
  <2>. QED BY <2>1, OthersKept
<1>6. CASE Ready(c)
  <2>. DEFINE r == [reports[c.report] EXCEPT !.status = "pending_signature", !.state = "SIGNATURE_PENDING"]
              d == [draft EXCEPT !.view = Told("SIGNATURE_PENDING")]
              e == [c EXCEPT !.at = "sign"]
              C == (calls \ {c}) \union {e}
  <2>1. /\ reports' = [reports EXCEPT ![c.report] = r] /\ c.at = "ready"
        /\ (Stay(d, C) /\ error' = error) \/ Lost(calls \ {c})
        BY <1>2, <1>6 DEF Ready
  <2>2. r \in Reports /\ r.key = reports[c.report].key /\ r.pdf = reports[c.report].pdf /\ r.state # "COMPLETED"
        BY <1>3 DEF Reports, Statuses, RunStates
  <2>3. /\ ReportsOk(reports', opened) /\ Later(reports, reports')
        /\ DraftOk(draft, reports') /\ \A k \in calls : CallOk(k, opened, reports')
        BY <1>5, <2>1, <2>2
  <2>4. DraftOk(d, reports')
        BY <2>3, DraftsOk DEF RunStates
  <2>5. CallOk(e, opened, reports')
    <3>1. e \in Calls
          BY <1>3 DEF Calls
    <3>. QED BY <1>3, <2>1, <2>3, <3>1 DEF CallOk
  <2>6. \A k \in C : CallOk(k, opened, reports')
        BY <2>3, <2>5
  <2>7. d.notes = draft.notes
        BY <1>1 DEF DraftOk, Drafts
  <2>. HIDE DEF C, d
  <2>. QED BY <1>4, <2>1, <2>3, <2>4, <2>6, <2>7, StayKeeps, LostKeeps
<1>7. CASE Sign(c)
  <2>. DEFINE r == [reports[c.report] EXCEPT !.status = "signed", !.state = "PDF_PENDING"]
              d == [draft EXCEPT !.view = Told("PDF_PENDING")]
              C == (calls \ {c}) \union {Waiting(c)}
  <2>1. /\ reports' = [reports EXCEPT ![c.report] = r] /\ c.at = "sign"
        /\ (Stay(d, C) /\ error' = error) \/ Lost(calls \ {c})
        BY <1>2, <1>7 DEF Sign
  <2>2. r \in Reports /\ r.key = reports[c.report].key /\ r.pdf = reports[c.report].pdf /\ r.state # "COMPLETED"
        BY <1>3 DEF Reports, Statuses, RunStates
  <2>3. /\ ReportsOk(reports', opened) /\ Later(reports, reports')
        /\ DraftOk(draft, reports') /\ \A k \in calls : CallOk(k, opened, reports')
        BY <1>5, <2>1, <2>2
  <2>4. DraftOk(d, reports')
        BY <2>3, DraftsOk DEF RunStates
  <2>5. \A k \in C : CallOk(k, opened, reports')
        BY <1>1, <1>2, <2>3, WaitingOk
  <2>6. d.notes = draft.notes
        BY <1>1 DEF DraftOk, Drafts
  <2>. HIDE DEF C, d
  <2>. QED BY <1>4, <2>1, <2>3, <2>4, <2>5, <2>6, StayKeeps, LostKeeps
<1>8. CASE Completed(c)
  <2>1. c.at = "answer" /\ ~c.first /\ reports' = reports
        BY <1>1, <1>8 DEF Completed, CallOk
  <2>2. DraftOk([draft EXCEPT !.view = c.view], reports)
        BY <1>1, <2>1, DraftsOk
  <2>3. [draft EXCEPT !.view = c.view].notes = draft.notes
        BY <1>1 DEF DraftOk, Drafts
  <2>4. CASE c.view.state = "COMPLETED"
    <3>1. Navigate(Frame("completed"), [draft EXCEPT !.view = c.view], calls \ {c})
          BY <1>8, <2>4 DEF Completed
    <3>2. Frame("completed") \in Frames
          BY FrameOk DEF Screens
    <3>. QED BY <1>1, <2>1, <2>2, <3>1, <3>2, NavigateKeeps
  <2>5. CASE c.view.state = "MANUAL_INPUT_REQUIRED"
    <3>1. Stay([draft EXCEPT !.view = c.view], calls \ {c}) /\ error' = error
          BY <1>8, <2>5 DEF Completed
    <3>. QED BY <1>1, <1>4, <2>1, <2>2, <2>3, <3>1, StayKeeps
  <2>6. CASE c.view.state \notin {"COMPLETED", "MANUAL_INPUT_REQUIRED"}
    <3>. DEFINE C == (calls \ {c}) \union IF c.left = 1 THEN {} ELSE {AskAgain(c)}
    <3>1. Stay(draft, C) /\ error' = error
          BY <1>8, <2>6 DEF Completed, AskAgain
    <3>2. \A k \in C : CallOk(k, opened, reports)
          BY <1>1, <1>2, <2>1, WaitingOk
    <3>. HIDE DEF C
    <3>. QED BY <1>1, <1>4, <2>1, <3>1, <3>2, StayKeeps
  <2>. QED BY <2>4, <2>5, <2>6
<1>. QED BY <1>6, <1>7, <1>8 DEF WaitStep

\* A button that only goes to another screen.
LEMMA MovesKeep ==
  ASSUME IInv, NEW f \in Frames, NEW d, DraftOk(d, reports), reports' = reports,
         Navigate(f, d, calls) \/ Replace(f, d, calls)
  PROVE  IInv'
BY Facts, NavigateKeeps

\* A button whose call changes the draft's report to r.
LEMMA PressedKeeps ==
  ASSUME IInv, draft.report # 0, NEW r \in Reports, r.key = Mine.key, r.pdf = Mine.pdf,
         r.state = "COMPLETED" => Mine.state = "COMPLETED",
         reports' = [reports EXCEPT ![draft.report] = r],
         NEW f \in Frames, NEW d, d = draft \/ DraftOk(d, reports),
         Navigate(f, d, calls) \/ Replace(f, d, calls) \/ Lost(calls)
  PROVE  IInv'
<1>1. /\ ReportsOk(reports, opened) /\ DraftOk(draft, reports) /\ reports \in Seq(Reports)
      BY Facts
<1>2. draft.report \in DOMAIN reports
      BY <1>1 DEF DraftOk, Drafts
<1>3. Mine.state = "COMPLETED" => Mine.pdf
      BY <1>1, <1>2 DEF ReportsOk, Mine
<1>4. ReportsOk(reports', opened) /\ Later(reports, reports')
      BY <1>1, <1>2, <1>3, ReportChanged DEF Mine
<1>5. DraftOk(d, reports') /\ \A k \in calls : CallOk(k, opened, reports')
  <2>1. DraftOk(draft, reports') /\ \A k \in calls : CallOk(k, opened, reports')
        BY <1>4, OthersKept
  <2>2. Len(reports') = Len(reports)
        BY <1>1
  <2>. QED BY <2>1, <2>2 DEF DraftOk
<1>. QED BY <1>4, <1>5, NavigateKeeps, LostKeeps

\* What the technician does without a call.
LEMMA ScreensKeep ==
  ASSUME IInv,
         \/ Continue \/ ReviewPhotos \/ WriteManually \/ TryAgain \/ Home \/ Back
         \/ SaveTyping \/ OpenEdit \/ SendLink \/ FinishReport
  PROVE  IInv'
<1>1. /\ ReportsOk(reports, opened) /\ DraftOk(draft, reports)
      /\ opened \in Nat /\ reports \in Seq(Reports) /\ reports' = reports
      /\ \A k \in calls : CallOk(k, opened, reports)
      BY Facts DEF Continue, ReviewPhotos, WriteManually, TryAgain, Home, Back, SaveTyping,
                   OpenEdit, SendLink, FinishReport
<1>2. \A screen \in Screens : Frame(screen) \in Frames
      BY FrameOk
<1>3. CASE Continue \/ ReviewPhotos \/ WriteManually \/ OpenEdit \/ SendLink
  <2>1. PICK screen \in Screens : Navigate(Frame(screen), draft, calls) \/ Replace(Frame(screen), draft, calls)
        BY <1>3 DEF Continue, ReviewPhotos, WriteManually, OpenEdit, SendLink, Screens
  <2>. QED BY <1>1, <1>2, <2>1, MovesKeep
<1>4. CASE TryAgain
  <2>1. opened # 0
    <3>1. error /\ On("analysis")
          BY <1>4 DEF TryAgain
    <3>. QED BY <3>1 DEF IInv
  <2>2. CallOk(Effect(opened, draft), opened, reports)
    <3>1. opened <= MaxScreens /\ opened \in 1..opened
          BY <1>1, <2>1, ScreensAssumption DEF IInv
    <3>. QED BY <1>1, <3>1, EffectOk
  <2>3. \A k \in calls' : CallOk(k, opened, reports)
        BY <1>1, <1>4, <2>2, AbortKeeps DEF TryAgain
  <2>. QED BY <1>1, <1>4, <2>3 DEF TryAgain, IInv
<1>5. CASE Home
  <2>. DEFINE s == <<[screen |-> "home", parked |-> FALSE]>>
  <2>1. StackOk(s)
        BY ScreensAssumption DEF StackOk, Frames, Screens
  <2>2. Show(s, draft, calls)
        BY <1>5 DEF Home
  <2>. QED BY <1>1, <2>1, <2>2, ShowKeeps
<1>6. CASE Back
  <2>1. StackOk(Below)
    <3>1. Frame("away") \in Frames
          BY <1>2 DEF Screens
    <3>. QED BY <1>6, <3>1, FramesOk DEF Back
  <2>2. Show(Below, draft, calls)
        BY <1>6 DEF Back
  <2>. QED BY <1>1, <2>1, <2>2, ShowKeeps
<1>7. CASE SaveTyping
  <2>1. PICK notes \in {"none", "typed"} : Replace(Frame("analysis"), [draft EXCEPT !.notes = notes], calls)
        BY <1>7 DEF SaveTyping
  <2>2. DraftOk([draft EXCEPT !.notes = notes], reports)
        BY <1>1 DEF DraftOk, Drafts
  <2>. QED BY <1>1, <1>2, <2>1, <2>2, MovesKeep DEF Screens
<1>8. CASE FinishReport
  <2>. DEFINE state == draft.view.state
              c == [NoCall EXCEPT !.op = "finish", !.report = draft.report,
                                  !.at = IF state = "SIGNATURE_PENDING" THEN "sign" ELSE "ready"]
              C == calls \union {IF state = "PDF_PENDING" THEN Waiting(c) ELSE c}
  <2>1. CASE state = "COMPLETED"
    <3>1. Navigate(Frame("completed"), draft, calls)
          BY <1>8, <2>1 DEF FinishReport
    <3>. QED BY <1>1, <1>2, <3>1, MovesKeep DEF Screens
  <2>2. CASE state # "COMPLETED"
    <3>1. Stay(draft, C) /\ error' = error /\ draft.report # 0
          BY <1>8, <2>2 DEF FinishReport
    <3>2. draft.report \in Nat /\ draft.report <= Len(reports)
          BY <1>1 DEF DraftOk, Drafts
    <3>3. CallOk(c, opened, reports)
      <4>1. 0 \in 0..MaxScreens /\ 0 \in 0..MaxPolls /\ Told("REVIEW_PENDING") \in Views
            BY ScreensAssumption DEF Told, Views, RunStates
      <4>2. c \in Calls
            BY <3>2, <4>1 DEF NoCall, Calls
      <4>. QED BY <1>1, <3>1, <3>2, <4>2 DEF CallOk, NoCall
    <3>4. c.report # 0
          BY <3>1 DEF NoCall
    <3>5. \A k \in C : CallOk(k, opened, reports)
          BY <1>1, <3>3, <3>4, WaitingOk
    <3>6. error' \in BOOLEAN /\ (error' => opened # 0)
          BY <3>1, Zenon DEF IInv
    <3>. HIDE DEF C
    <3>. QED BY <1>1, <3>1, <3>5, <3>6, StayKeeps
  <2>. QED BY <2>1, <2>2
<1>. QED BY <1>3, <1>4, <1>5, <1>6, <1>7, <1>8

\* The buttons that call the server at once.
LEMMA ButtonsKeep ==
  ASSUME IInv, RetryAnalysis \/ SaveParked \/ SaveEdit \/ ConfirmAndContinue
  PROVE  IInv'
<1>1. /\ DraftOk(draft, reports) /\ reports \in Seq(Reports) /\ draft.report \in Nat
      /\ draft.report <= Len(reports)
      BY Facts DEF DraftOk, Drafts
<1>2. draft.report # 0
      BY DEF RetryAnalysis, SaveParked, SaveEdit, ConfirmAndContinue
<1>3. Mine \in Reports
      BY <1>1, <1>2 DEF Mine
<1>4. Frame("analysis") \in Frames /\ Frame("draft") \in Frames /\ Frame("signature") \in Frames
      BY FrameOk DEF Screens
<1>5. DraftOk([draft EXCEPT !.view = Told("REVIEW_PENDING")], reports)
      BY <1>1, DraftsOk DEF RunStates
<1>6. CASE RetryAnalysis
  <2>. DEFINE to == Resumed(Mine, draft.voice)
              r == [Mine EXCEPT !.state = to]
  <2>1. /\ reports' = [reports EXCEPT ![draft.report] = r]
        /\ Replace(Frame("analysis"), draft, calls) \/ Lost(calls)
        BY <1>6 DEF RetryAnalysis, Pressed
  <2>2. to \in RunStates /\ to # "COMPLETED"
        BY DEF Resumed, Fresh, RunStates
  <2>3. r \in Reports /\ r.key = Mine.key /\ r.pdf = Mine.pdf /\ r.state # "COMPLETED"
        BY <1>3, <2>2 DEF Reports
  <2>. HIDE DEF r
  <2>. QED BY <1>1, <1>2, <1>4, <2>1, <2>3, PressedKeeps
<1>7. CASE SaveParked
  <2>. DEFINE r == [Mine EXCEPT !.state = "DRAFTING_PENDING"]
              view == [state |-> r.state, confirmed |-> r.confirmed, pdf |-> r.pdf]
              d == [draft EXCEPT !.notes = "typed", !.view = view]
  <2>1. /\ reports' = [reports EXCEPT ![draft.report] = r]
        /\ Replace(Frame("analysis"), d, calls) \/ Lost(calls)
        BY <1>7 DEF SaveParked, Pressed
  <2>2. r \in Reports /\ r.key = Mine.key /\ r.pdf = Mine.pdf /\ r.state = "DRAFTING_PENDING"
        BY <1>3 DEF Reports, RunStates
  <2>3. view \in Views /\ view.state # "COMPLETED"
        BY <2>2 DEF Views, Reports
  <2>4. DraftOk(d, reports)
        BY <1>1, <2>3 DEF DraftOk, Drafts
  <2>5. r.state # "COMPLETED"
        BY <2>2
  <2>. HIDE DEF r, d
  <2>. QED BY <1>2, <1>4, <2>1, <2>2, <2>4, <2>5, PressedKeeps
<1>8. CASE SaveEdit
  <2>. DEFINE edited == [Mine EXCEPT !.confirmed = FALSE,
                !.state = IF @ = "MANUAL_INPUT_REQUIRED" THEN "REVIEW_PENDING" ELSE @]
              r == [edited EXCEPT !.confirmed = TRUE]
              d == [draft EXCEPT !.view = Told("REVIEW_PENDING")]
  <2>1. /\ edited \in Reports /\ edited.key = Mine.key /\ edited.pdf = Mine.pdf
        /\ edited.state = "COMPLETED" => Mine.state = "COMPLETED"
        BY <1>3 DEF Reports, RunStates
  <2>2. r \in Reports /\ r.key = edited.key /\ r.pdf = edited.pdf /\ r.state = edited.state
        BY <2>1 DEF Reports
  <2>3. CASE reports' = [reports EXCEPT ![draft.report] = r] /\ (Replace(Frame("draft"), d, calls) \/ Lost(calls))
    <3>. HIDE DEF r, edited, d
    <3>1. DraftOk(d, reports)
          BY <1>5 DEF d
    <3>. QED BY <1>2, <1>4, <2>1, <2>2, <2>3, <3>1, PressedKeeps
  <2>4. CASE reports' = [reports EXCEPT ![draft.report] = edited] /\ Lost(calls)
    <3>. HIDE DEF edited
    <3>. QED BY <1>1, <1>2, <1>4, <2>1, <2>4, PressedKeeps
  <2>. QED BY <1>8, <2>3, <2>4 DEF SaveEdit, Pressed
<1>9. CASE ConfirmAndContinue
  <2>. DEFINE r == [Mine EXCEPT !.confirmed = TRUE]
              d == [draft EXCEPT !.view = Told("REVIEW_PENDING")]
  <2>1. CASE draft.view.confirmed
    <3>1. Navigate(Frame("signature"), draft, calls) /\ reports' = reports
          BY <1>9, <2>1 DEF ConfirmAndContinue
    <3>. QED BY <1>1, <1>4, <3>1, MovesKeep
  <2>2. CASE ~draft.view.confirmed
    <3>1. /\ reports' = [reports EXCEPT ![draft.report] = r]
          /\ Navigate(Frame("signature"), d, calls) \/ Lost(calls)
          BY <1>9, <2>2 DEF ConfirmAndContinue, Pressed
    <3>2. r \in Reports /\ r.key = Mine.key /\ r.pdf = Mine.pdf /\ r.state = Mine.state
          BY <1>3 DEF Reports
    <3>. HIDE DEF r, d
    <3>3. DraftOk(d, reports)
          BY <1>5 DEF d
    <3>. QED BY <1>2, <1>4, <3>1, <3>2, <3>3, PressedKeeps
  <2>. QED BY <2>1, <2>2
<1>. QED BY <1>6, <1>7, <1>8, <1>9

\* The workers complete a run together with its PDF.
LEMMA WorkKeeps == ASSUME IInv, NEW i \in DOMAIN reports, Work(i) PROVE IInv'
<1>1. PICK r \in Worked(reports[i]) : reports' = [reports EXCEPT ![i] = r]
      BY DEF Work
<1>2. ReportsOk(reports, opened) /\ reports \in Seq(Reports) /\ reports[i] \in Reports
      BY Facts
<1>3. r \in Reports /\ r.key = reports[i].key /\ (reports[i].pdf => r.pdf) /\ (r.state = "COMPLETED" => r.pdf)
  <2>. DEFINE q == reports[i]
  <2>1. CASE q.state = "TRANSCRIPTION_PENDING"
    <3>1. r = [q EXCEPT !.state = "DRAFTING_PENDING", !.transcript = TRUE]
          \/ r = [q EXCEPT !.state = "MANUAL_INPUT_REQUIRED"]
          BY <1>1, <2>1 DEF Worked
    <3>. QED BY <1>2, <3>1 DEF Reports, RunStates
  <2>2. CASE q.state = "DRAFTING_PENDING" /\ q.status = "draft"
    <3>1. PICK s \in Terminal : r = [q EXCEPT !.state = s]
          BY <1>1, <2>2 DEF Worked
    <3>. QED BY <1>2, <3>1 DEF Reports, RunStates, Terminal
  <2>3. CASE q.state = "PDF_PENDING"
    <3>1. r = Finished(q) \/ r = [q EXCEPT !.state = "MANUAL_INPUT_REQUIRED"]
          BY <1>1, <2>3 DEF Worked
    <3>. QED BY <1>2, <3>1 DEF Finished, Reports, RunStates, Statuses
  <2>4. q.state = "TRANSCRIPTION_PENDING" \/ (q.state = "DRAFTING_PENDING" /\ q.status = "draft")
        \/ q.state = "PDF_PENDING"
        BY <1>1 DEF Worked
  <2>. QED BY <2>1, <2>2, <2>3, <2>4
<1>4. ReportsOk(reports', opened) /\ Later(reports, reports')
      BY <1>1, <1>2, <1>3, ReportChanged
<1>5. (\A k \in calls : CallOk(k, opened, reports')) /\ DraftOk(draft, reports')
      BY <1>4, OthersKept
<1>6. faults' \in 0..MaxFaults
      BY ScreensAssumption DEF Work, Fault, IInv
<1>. QED BY <1>4, <1>5, <1>6 DEF Work, app, IInv

-----------------------------------------------------------------------------
(* The theorems *)

\* The app starts with no report and no call.
LEMMA InitInvariant == Init => IInv
<1>. SUFFICES ASSUME Init PROVE IInv
     OBVIOUS
<1>1. StackOk(stack)
      BY ScreensAssumption DEF Init, StackOk, Frames, Screens
<1>2. ReportsOk(reports, opened) /\ Len(reports) = 0
      BY DEF Init, ReportsOk
<1>3. DraftOk(draft, reports)
  <2>1. PICK voice \in BOOLEAN :
          draft = [report |-> 0, view |-> Fresh(voice), voice |-> voice,
                   notes |-> IF voice THEN "none" ELSE "typed"]
        BY DEF Init
  <2>2. Fresh(voice) \in Views /\ Fresh(voice).state # "COMPLETED"
        BY DEF Fresh, Views, RunStates
  <2>. QED BY <1>2, <2>1, <2>2 DEF DraftOk, Drafts
<1>4. opened \in 0..MaxScreens /\ faults \in 0..MaxFaults
      BY ScreensAssumption DEF Init
<1>5. error = FALSE /\ calls = {}
      BY DEF Init
<1>. QED BY <1>1, <1>2, <1>3, <1>4, <1>5 DEF IInv

\* Whatever is pressed, answered or lost, in any order, the state of the report
\* screens is what TypeOK says, and each completed report has its PDF.
THEOREM ScreensInvariant == Spec => []IInv
<1>1. IInv /\ [Next]_vars => IInv'
  <2>. SUFFICES ASSUME IInv, [Next]_vars PROVE IInv'
       OBVIOUS
  <2>1. ASSUME NEW c \in calls, EffectStep(c) \/ WaitStep(c) PROVE IInv'
        BY <2>1, CreateKeeps, RetryKeeps, ReadKeeps, EffectEndsKeep, WaitKeeps DEF EffectStep
  <2>2. CASE UserStep
        BY <2>2, ScreensKeep, ButtonsKeep DEF UserStep
  <2>3. ASSUME NEW i \in DOMAIN reports, Work(i) PROVE IInv'
        BY <2>3, WorkKeeps
  <2>4. CASE UNCHANGED vars
        BY <2>4 DEF vars, app, IInv
  <2>. QED BY <2>1, <2>2, <2>3, <2>4 DEF Next
<1>. QED BY <1>1, InitInvariant, PTL DEF Spec

\* Type correctness (TypeOK).
THEOREM ScreensTyped == Spec => []TypeOK
<1>1. IInv => TypeOK
  <2>. SUFFICES ASSUME IInv PROVE TypeOK
       OBVIOUS
  <2>1. /\ DraftOk(draft, reports) /\ reports \in Seq(Reports)
        /\ \A c \in calls : CallOk(c, opened, reports)
        BY Facts
  <2>2. draft \in Drafts /\ draft.report \in 0..Len(reports)
        BY <2>1 DEF DraftOk, Drafts
  <2>3. /\ calls \subseteq Calls
        /\ \A c \in calls : c.key <= opened /\ c.report <= Len(reports)
        /\ \A c \in calls : c.at \notin {"create"} => c.report # 0
        BY <2>1 DEF CallOk
  <2>. QED BY <2>1, <2>2, <2>3 DEF IInv, StackOk, TypeOK
<1>. QED BY <1>1, ScreensInvariant, PTL

\* An analysis screen posts one report, for any number of screens, tries, lost
\* answers and changes of the notes (OneReportPerScreen).
THEOREM OneReport == Spec => []OneReportPerScreen
<1>1. IInv => OneReportPerScreen
      BY DEF IInv, ReportsOk, OneReportPerScreen
<1>. QED BY <1>1, ScreensInvariant, PTL

\* What the app shows as completed has its PDF, however its reads fall between
\* the commits of the worker (CompletedHasPdf).
THEOREM CompletedReportHasPdf == Spec => []CompletedHasPdf
<1>1. IInv => CompletedHasPdf
      BY DEF IInv, DraftOk, CallOk, CompletedHasPdf
<1>. QED BY <1>1, ScreensInvariant, PTL
=============================================================================
