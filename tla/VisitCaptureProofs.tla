------------------------- MODULE VisitCaptureProofs -------------------------
(***************************************************************************)
(* What the app lists is real, and a report has evidence of its own visit, *)
(* for any customers, visits, photos, calls under way and hasty steps; and *)
(* who waits for every screen is asked for nothing more on the last one,   *)
(* and gets the analysis of what the screens showed.                       *)
(***************************************************************************)
EXTENDS VisitCapture, SequenceTheorems, FiniteSetTheorems, Functions, TLAPS

-----------------------------------------------------------------------------
(* The inductive invariant *)

Kinds == Phases \union {"audio"}
Assets == [visit : Visits, kind : Kinds, attached : BOOLEAN]
Reports == [visit : Visits, audio : AssetIds \union {0}, before : Photos, after : Photos,
            patient : BOOLEAN, late : BOOLEAN, analysed : BOOLEAN,
            pairs : SUBSET (AssetIds \X AssetIds)]

\* Asset a of m is an attached one of this kind.
IsAttached(a, kind, m) == a \in DOMAIN m /\ m[a].kind = kind /\ m[a].attached

\* So are all of a list.
Lists(s, kind, m) == \A i \in DOMAIN s : IsAttached(s[i], kind, m)

\* What a call carries: an upload its visit, the list it will extend and its asset.
TaskOk(t, m) ==
  /\ t \in Tasks
  /\ t.op \in {"customer", "start"} => t.customer \in Customers
  /\ t.op # "customer" => t.visit \in Visits
  /\ t.at = "read" => t.op \in {"gps", "notes"}
  /\ t.at \in {"recording", "ask", "put", "answer"} => t.op \in Kinds
  /\ t.at = "recording" => t.op = "audio"
  /\ t.op \in Phases => Lists(t.list, t.op, m) /\ Len(t.list) + t.left <= MaxBefore /\ t.left >= 1
  /\ t.at \in {"put", "answer"} => t.asset \in DOMAIN m /\ m[t.asset].kind = t.op /\ m[t.asset].visit = t.visit
  /\ t.at = "answer" => m[t.asset].attached

StackOk(s) == s \in Seq(Screens) /\ Len(s) \in 1..MaxStack

\* What the draft d lists is real.
DraftOk(d, m) ==
  /\ d \in Drafts
  /\ Lists(d.before, "before", m) /\ Lists(d.after, "after", m)
  /\ d.audio # 0 => IsAttached(d.audio, "audio", m)

TasksOk(T, m) == \A t \in T : TaskOk(t, m)
RecordsOk(c, v) == c \subseteq Customers /\ v \in [Visits -> Rows]
MediaOk(m) == m \in Seq(Assets) /\ Len(m) <= MaxAssets

\* The photos of a visit that the server lists for m.
PhotosOf(v, phase, m) == {i \in DOMAIN m : m[i] = [visit |-> v, kind |-> phase, attached |-> TRUE]}

\* A report's evidence, for assets m: pairs until a photo comes late.
HasEvidence(report, m) ==
  /\ PhotosOf(report.visit, "before", m) # {} /\ PhotosOf(report.visit, "after", m) # {}
  /\ ~report.late =>
       Cardinality(PhotosOf(report.visit, "before", m)) = Cardinality(PhotosOf(report.visit, "after", m))
  /\ report.audio # 0 => report.audio \in DOMAIN m /\ m[report.audio].visit = report.visit

ReportsOk(R, m) == R \in Seq(Reports) /\ \A r \in DOMAIN R : HasEvidence(R[r], m)

IInv ==
  /\ StackOk(stack) /\ uploading \in BOOLEAN /\ haste \in 0..MaxHaste
  /\ DraftOk(draft, media) /\ TasksOk(tasks, media)
  /\ RecordsOk(customers, visits) /\ MediaOk(media) /\ ReportsOk(reports, media)

-----------------------------------------------------------------------------
(* Lists of photos *)

\* A list of photos is a sequence of assets, no longer than a visit may have.
LEMMA PhotosAre ==
  \A s : s \in Photos <=> s \in Seq(AssetIds) /\ Len(s) <= MaxBefore
<1>1. ASSUME NEW s \in Photos
      PROVE  s \in Seq(AssetIds) /\ Len(s) <= MaxBefore
  <2>1. PICK n \in 0..MaxBefore : s \in [1..n -> AssetIds]
        BY DEF Photos
  <2>2. n \in Nat /\ n <= MaxBefore
        BY CaptureAssumption
  <2>3. s \in Seq(AssetIds)
        BY <2>1, <2>2, SeqDef
  <2>4. Len(s) = n
        BY <2>1, <2>2, <2>3, LenProperties
  <2>. QED BY <2>2, <2>3, <2>4
<1>2. ASSUME NEW s \in Seq(AssetIds), Len(s) <= MaxBefore
      PROVE  s \in Photos
  <2>1. Len(s) \in 0..MaxBefore /\ s \in [1..Len(s) -> AssetIds]
        BY <1>2, LenProperties, CaptureAssumption
  <2>. QED BY <2>1 DEF Photos
<1>. QED BY <1>1, <1>2

\* A list takes another attached photo of its phase.
LEMMA ListExtended ==
  ASSUME NEW s \in Photos, NEW a \in AssetIds, Len(s) < MaxBefore, NEW kind, NEW m,
         Lists(s, kind, m), IsAttached(a, kind, m)
  PROVE  /\ Append(s, a) \in Photos /\ Len(Append(s, a)) = Len(s) + 1
         /\ Lists(Append(s, a), kind, m)
<1>1. s \in Seq(AssetIds) /\ Len(s) \in Nat
      BY PhotosAre, LenProperties
<1>2. /\ Append(s, a) \in Seq(AssetIds) /\ Len(Append(s, a)) = Len(s) + 1
      /\ \A i \in 1..Len(s) : Append(s, a)[i] = s[i]
      /\ Append(s, a)[Len(s) + 1] = a
      BY <1>1, AppendProperties
<1>3. DOMAIN s = 1..Len(s) /\ DOMAIN Append(s, a) = 1..(Len(s) + 1)
  <2>1. DOMAIN s = 1..Len(s)
        BY <1>1, LenProperties
  <2>2. DOMAIN Append(s, a) = 1..Len(Append(s, a))
        BY <1>2, LenProperties
  <2>. QED BY <1>2, <2>1, <2>2
<1>4. Append(s, a) \in Photos
  <2>1. Len(Append(s, a)) <= MaxBefore
        BY <1>1, <1>2, CaptureAssumption
  <2>. QED BY <1>2, <2>1, PhotosAre, Zenon
<1>5. Lists(Append(s, a), kind, m)
  <2>. SUFFICES ASSUME NEW i \in 1..(Len(s) + 1) PROVE IsAttached(Append(s, a)[i], kind, m)
       BY <1>3 DEF Lists
  <2>1. CASE i \in 1..Len(s)
        BY <1>2, <1>3, <2>1 DEF Lists
  <2>2. CASE i = Len(s) + 1
        BY <1>2, <2>2
  <2>. QED BY <1>1, <2>1, <2>2
<1>. QED BY <1>2, <1>4, <1>5

\* A list loses a photo.
LEMMA ListShortened ==
  ASSUME NEW s \in Photos, NEW k \in DOMAIN s, NEW kind, NEW m, Lists(s, kind, m)
  PROVE  LET rest == SubSeq(s, 1, k - 1) \o SubSeq(s, k + 1, Len(s))
         IN rest \in Photos /\ Lists(rest, kind, m)
<1>. DEFINE n == Len(s)
            front == SubSeq(s, 1, k - 1)
            tail == SubSeq(s, k + 1, n)
            rest == front \o tail
<1>1. s \in Seq(AssetIds) /\ n \in Nat /\ n <= MaxBefore /\ DOMAIN s = 1..n /\ k \in 1..n
      BY PhotosAre, LenProperties
<1>2. \A i \in 1..n : s[i] \in AssetIds
      BY <1>1, ElementOfSeq
<1>3. /\ front \in Seq(AssetIds) /\ Len(front) = k - 1
      /\ \A i \in 1..k - 1 : front[i] = s[i]
  <2>1. \A i \in 1..k - 1 : s[i] \in AssetIds
        BY <1>1, <1>2
  <2>2. /\ front \in Seq(AssetIds) /\ Len(front) = IF 1 <= k - 1 THEN (k - 1) - 1 + 1 ELSE 0
        /\ \A i \in 1..(k - 1) - 1 + 1 : front[i] = s[1 + i - 1]
        BY <1>1, <2>1, SubSeqProperties
  <2>. QED BY <1>1, <2>2
<1>4. /\ tail \in Seq(AssetIds) /\ Len(tail) = n - k
      /\ \A i \in 1..n - k : tail[i] = s[k + i]
  <2>1. \A i \in k + 1..n : s[i] \in AssetIds
        BY <1>1, <1>2
  <2>2. /\ tail \in Seq(AssetIds) /\ Len(tail) = IF k + 1 <= n THEN n - (k + 1) + 1 ELSE 0
        /\ \A i \in 1..n - (k + 1) + 1 : tail[i] = s[(k + 1) + i - 1]
        BY <1>1, <2>1, SubSeqProperties
  <2>. QED BY <1>1, <2>2
<1>. HIDE DEF front, tail
<1>5. /\ rest \in Seq(AssetIds) /\ Len(rest) = n - 1
      /\ \A i \in 1..n - 1 : rest[i] = IF i <= k - 1 THEN s[i] ELSE s[i + 1]
  <2>1. /\ rest \in Seq(AssetIds) /\ Len(rest) = Len(front) + Len(tail)
        /\ \A i \in 1..Len(front) + Len(tail) :
             rest[i] = IF i <= Len(front) THEN front[i] ELSE tail[i - Len(front)]
        BY <1>3, <1>4, ConcatProperties
  <2>2. ASSUME NEW i \in 1..n - 1
        PROVE  rest[i] = IF i <= k - 1 THEN s[i] ELSE s[i + 1]
    <3>1. CASE i <= k - 1
          BY <1>1, <1>3, <1>4, <2>1, <3>1
    <3>2. CASE i > k - 1
      <4>1. i - (k - 1) \in 1..n - k /\ k + (i - (k - 1)) = i + 1
            BY <1>1, <3>2
      <4>2. rest[i] = tail[i - (k - 1)]
            BY <1>1, <1>3, <1>4, <2>1, <3>2
      <4>. QED BY <1>1, <1>4, <3>2, <4>1, <4>2
    <3>3. i <= k - 1 \/ i > k - 1
          BY <1>1
    <3>. QED BY <3>1, <3>2, <3>3, Zenon
  <2>. QED BY <1>1, <1>3, <1>4, <2>1, <2>2
<1>. HIDE DEF rest
<1>6. rest \in Photos
  <2>1. Len(rest) <= MaxBefore
        BY <1>1, <1>5, CaptureAssumption
  <2>. QED BY <1>5, <2>1, PhotosAre, Zenon
<1>7. Lists(rest, kind, m)
  <2>1. DOMAIN rest = 1..Len(rest)
        BY <1>5, LenProperties
  <2>2. ASSUME NEW i \in 1..n - 1
        PROVE  \E j \in 1..n : rest[i] = s[j]
    <3>1. CASE i <= k - 1
          BY <1>1, <1>5, <3>1
    <3>2. CASE i > k - 1
          BY <1>1, <1>5, <3>2
    <3>. QED BY <1>1, <3>1, <3>2
  <2>. QED BY <1>1, <1>5, <2>1, <2>2 DEF Lists
<1>. QED BY <1>6, <1>7 DEF front, tail, rest

-----------------------------------------------------------------------------
(* Assets come and are attached *)

\* n has the assets of m, and what is attached stays attached.
Extends(n, m) ==
  /\ DOMAIN m \subseteq DOMAIN n
  /\ \A a \in DOMAIN m : n[a].kind = m[a].kind /\ n[a].visit = m[a].visit /\ (m[a].attached => n[a].attached)

\* Lists, calls and drafts stay what they are.
LEMMA StillAttached ==
  ASSUME NEW m, NEW n, Extends(n, m)
  PROVE  /\ \A s, kind : Lists(s, kind, m) => Lists(s, kind, n)
         /\ \A t : TaskOk(t, m) => TaskOk(t, n)
         /\ \A d : DraftOk(d, m) => DraftOk(d, n)
         /\ \A T : TasksOk(T, m) => TasksOk(T, n)
<1>1. \A a, kind : IsAttached(a, kind, m) => IsAttached(a, kind, n)
      BY DEF Extends, IsAttached
<1>2. \A s, kind : Lists(s, kind, m) => Lists(s, kind, n)
      BY <1>1 DEF Lists
<1>3. ASSUME NEW t, TaskOk(t, m)
      PROVE  TaskOk(t, n)
      BY <1>2, <1>3 DEF TaskOk, Extends
<1>4. \A d : DraftOk(d, m) => DraftOk(d, n)
      BY <1>1, <1>2 DEF DraftOk
<1>. QED BY <1>2, <1>3, <1>4 DEF TasksOk

-----------------------------------------------------------------------------
(* Screens and drafts *)

\* The screens that a step may show.
LEMMA StackFacts ==
  ASSUME StackOk(stack)
  PROVE  /\ Len(stack) > 1 => SubSeq(stack, 1, Len(stack) - 1) \in Seq(Screens)
                              /\ Len(SubSeq(stack, 1, Len(stack) - 1)) >= 1
         /\ \A s \in Screens :
              /\ Append(stack, s) \in Seq(Screens) /\ Len(Append(stack, s)) >= 1
              /\ Append(SubSeq(stack, 1, Len(stack) - 1), s) \in Seq(Screens)
              /\ Len(Append(SubSeq(stack, 1, Len(stack) - 1), s)) >= 1
<1>. DEFINE n == Len(stack)
            below == SubSeq(stack, 1, n - 1)
<1>1. stack \in Seq(Screens) /\ n \in Nat /\ n >= 1
      BY LenProperties DEF StackOk
<1>2. below \in Seq(Screens) /\ Len(below) = n - 1
  <2>1. \A i \in 1..n - 1 : stack[i] \in Screens
        BY <1>1, ElementOfSeq
  <2>2. below \in Seq(Screens) /\ Len(below) = IF 1 <= n - 1 THEN (n - 1) - 1 + 1 ELSE 0
        BY <1>1, <2>1, SubSeqProperties
  <2>. HIDE DEF below
  <2>3. CASE 1 <= n - 1
        BY <1>1, <2>2, <2>3
  <2>4. CASE n = 1
        BY <2>2, <2>4
  <2>5. \A k \in Nat : k >= 1 => 1 <= k - 1 \/ k = 1
        OBVIOUS
  <2>. QED BY <1>1, <2>3, <2>4, <2>5, Zenon
<1>3. ASSUME NEW s \in Screens, NEW old \in Seq(Screens)
      PROVE  Append(old, s) \in Seq(Screens) /\ Len(Append(old, s)) >= 1
      BY AppendProperties, LenProperties
<1>. QED BY <1>1, <1>2, <1>3

\* A call that only forgets its screen carries what it did.
LEMMA SameTask ==
  ASSUME NEW m, NEW t, TaskOk(t, m), NEW q \in Tasks,
         q.op = t.op, q.at = t.at, q.customer = t.customer, q.visit = t.visit,
         q.list = t.list, q.left = t.left, q.asset = t.asset
  PROVE  TaskOk(q, m)
BY DEF TaskOk

\* Another screen comes on display, with some of the calls still under way.
LEMMA ShowKeeps ==
  ASSUME StackOk(stack), uploading \in BOOLEAN, NEW new \in Seq(Screens), Len(new) >= 1,
         NEW T, NEW m, TasksOk(T, m), Show(new, T)
  PROVE  StackOk(stack') /\ uploading' \in BOOLEAN /\ TasksOk(tasks', m)
<1>1. StackOk(stack') /\ uploading' \in BOOLEAN
  <2>1. stack' = new /\ Len(new) <= MaxStack
        BY DEF Show
  <2>2. Len(new) \in 1..MaxStack
        BY <2>1, LenProperties, CaptureAssumption
  <2>3. uploading' \in BOOLEAN
        BY Zenon DEF Show
  <2>. QED BY <2>1, <2>2, <2>3 DEF StackOk
<1>2. ASSUME NEW t \in T
      PROVE  TaskOk([t EXCEPT !.here = FALSE], m)
  <2>. DEFINE q == [t EXCEPT !.here = FALSE]
  <2>1. TaskOk(t, m) /\ t \in Tasks
        BY DEF TasksOk, TaskOk
  <2>2. q \in Tasks /\ q.op = t.op /\ q.at = t.at /\ q.customer = t.customer /\ q.visit = t.visit
        /\ q.list = t.list /\ q.left = t.left /\ q.asset = t.asset
        BY <2>1 DEF Tasks
  <2>. QED BY <2>1, <2>2, SameTask
<1>3. tasks' = T \/ tasks' = {[t EXCEPT !.here = FALSE] : t \in T}
      BY DEF Show, Unmounted
<1>. QED BY <1>1, <1>2, <1>3 DEF TasksOk

\* The screens the buttons lead to.
LEMMA NavigateKeeps ==
  ASSUME StackOk(stack), uploading \in BOOLEAN, NEW s \in Screens, NEW T, NEW m, TasksOk(T, m),
         Navigate(s, T) \/ Replace(s, T)
  PROVE  StackOk(stack') /\ uploading' \in BOOLEAN /\ TasksOk(tasks', m)
BY StackFacts, ShowKeeps DEF Navigate, Replace

\* A step may count as hasty.
LEMMA HastyKeeps ==
  ASSUME haste \in 0..MaxHaste, NEW c, Hasty(c) PROVE haste' \in 0..MaxHaste
<1>1. haste' = haste \/ (haste < MaxHaste /\ haste' = haste + 1)
      BY DEF Hasty
<1>. QED BY <1>1, CaptureAssumption

\* No photos are a list of photos.
LEMMA EmptyList ==
  <<>> \in Photos /\ \A kind, m : Lists(<<>>, kind, m)
<1>1. <<>> \in Seq(AssetIds) /\ Len(<<>>) = 0 /\ DOMAIN <<>> = {}
      BY EmptySeq
<1>2. Len(<<>>) <= MaxBefore
      BY <1>1, CaptureAssumption
<1>. QED BY <1>1, <1>2, PhotosAre, Zenon DEF Lists

\* The list of a phase in a draft.
LEMMA DraftLists ==
  ASSUME NEW d, NEW m, DraftOk(d, m), NEW phase \in Phases
  PROVE  /\ d[phase] \in Photos /\ Lists(d[phase], phase, m)
         /\ \A s \in Photos : Lists(s, phase, m) => DraftOk([d EXCEPT ![phase] = s], m)
         /\ \A s \in Photos : Lists(s, phase, m) => DraftOk([d EXCEPT !.after = <<>>, ![phase] = s], m)
<1>0. <<>> \in Photos /\ Lists(<<>>, "after", m)
      BY EmptyList
<1>1. CASE phase = "before"
      BY <1>0, <1>1 DEF DraftOk, Drafts
<1>2. CASE phase = "after"
      BY <1>0, <1>2 DEF DraftOk, Drafts
<1>. QED BY <1>1, <1>2 DEF Phases

\* Choosing a customer empties the lists; the recording stays.
LEMMA ChosenKeeps ==
  ASSUME NEW m, DraftOk(draft, m), NEW c \in Customers PROVE DraftOk(Chosen(c), m)
<1>1. <<>> \in Photos /\ Lists(<<>>, "before", m) /\ Lists(<<>>, "after", m)
      BY EmptyList
<1>. QED BY <1>1 DEF DraftOk, Drafts, Chosen

\* A step that leaves assets and reports alone.
LEMMA QuietKeeps ==
  ASSUME IInv, UNCHANGED <<media, reports>>, StackOk(stack'), uploading' \in BOOLEAN, haste' \in 0..MaxHaste,
         DraftOk(draft', media), TasksOk(tasks', media), RecordsOk(customers', visits')
  PROVE  IInv'
BY DEF IInv

\* Calls that leave, or come as what they are, keep the rest.
LEMMA TasksChange ==
  ASSUME NEW m, TasksOk(tasks, m), NEW t, NEW q, TaskOk(q, m)
  PROVE  /\ TasksOk(tasks \ {t}, m) /\ TasksOk(tasks \union {q}, m)
         /\ TasksOk((tasks \ {t}) \union {q}, m)
BY DEF TasksOk

-----------------------------------------------------------------------------
(* The buttons *)

\* The buttons that only lead to another screen.
LEMMA MovesKeep ==
  ASSUME IInv,
         \/ Back \/ Leave \/ OpenAddCustomer \/ KeepRecording \/ ReviewPhotos
         \/ \E c \in Customers : SelectCustomer(c)
         \/ \E phase \in Phases : Continue(phase)
  PROVE  IInv'
<1>1. /\ UNCHANGED server /\ \E c : Hasty(c)
      /\ \/ Len(stack) > 1 /\ Show(SubSeq(stack, 1, Len(stack) - 1), tasks)
         \/ Show(<<"customers">>, tasks)
         \/ \E s \in Screens : Navigate(s, tasks) \/ Replace(s, tasks)
      /\ draft' = draft \/ \E c \in Customers : draft' = Chosen(c)
  <2>1. CASE Back
        BY <2>1 DEF Back
  <2>2. CASE Leave
        BY <2>2 DEF Leave
  <2>3. CASE OpenAddCustomer \/ KeepRecording \/ ReviewPhotos
        BY <2>3 DEF OpenAddCustomer, KeepRecording, ReviewPhotos, Screens
  <2>4. ASSUME NEW c \in Customers, SelectCustomer(c)
        PROVE  <1>1!:
        BY <2>4 DEF SelectCustomer, Screens
  <2>5. ASSUME NEW phase \in Phases, Continue(phase)
        PROVE  <1>1!:
        BY <2>5 DEF Continue, Screens
  <2>. QED BY <2>1, <2>2, <2>3, <2>4, <2>5
<1>2. haste' \in 0..MaxHaste
      BY <1>1, HastyKeeps DEF IInv
<1>3. StackOk(stack') /\ uploading' \in BOOLEAN /\ TasksOk(tasks', media)
  <2>0. StackOk(stack) /\ uploading \in BOOLEAN /\ TasksOk(tasks, media)
        BY DEF IInv
  <2>1. CASE Len(stack) > 1 /\ Show(SubSeq(stack, 1, Len(stack) - 1), tasks)
        BY <2>0, <2>1, StackFacts, ShowKeeps
  <2>2. CASE Show(<<"customers">>, tasks)
    <3>1. <<"customers">> \in Seq(Screens) /\ Len(<<"customers">>) >= 1
          BY DEF Screens
    <3>. QED BY <2>0, <2>2, <3>1, ShowKeeps
  <2>3. ASSUME NEW s \in Screens, Navigate(s, tasks) \/ Replace(s, tasks)
        PROVE  <1>3!:
        BY <2>0, <2>3, NavigateKeeps
  <2>. QED BY <1>1, <2>1, <2>2, <2>3
<1>4. DraftOk(draft', media)
      BY <1>1, ChosenKeeps DEF IInv
<1>. QED BY <1>1, <1>2, <1>3, <1>4, QuietKeeps DEF IInv, server

\* A new call is a call.
LEMMA NoTaskFacts == NoTask \in Tasks /\ NoTask.at = "sent"
<1>1. NoTask.row \in Rows
      BY DEF NoTask, NoVisit, Rows
<1>2. <<>> \in Photos
      BY EmptyList
<1>3. 0 \in 0..MaxBefore
      BY CaptureAssumption
<1>. QED BY <1>1, <1>2, <1>3 DEF NoTask, Tasks, Phases

\* Calls that carry no upload.
LEMMA PlainTask ==
  ASSUME NEW m, NEW t \in Tasks, t.at = "sent", t.op \in {"customer", "start", "gps", "notes"},
         t.op \in {"customer", "start"} => t.customer \in Customers,
         t.op # "customer" => t.visit \in Visits
  PROVE  TaskOk(t, m)
<1>1. t.op \notin Phases
      BY DEF Phases
<1>. QED BY <1>1 DEF TaskOk

\* The buttons that send a call without an upload.
LEMMA SendsKeep ==
  ASSUME IInv,
         \/ \E c \in Customers : SaveCustomer(c)
         \/ \E v \in Visits : StartVisit(v)
         \/ ConfirmLocation \/ SaveNotes
  PROVE  IInv'
<1>0. draft.customer \in Customers \union {"none"} /\ draft.visit \in Visits \union {"none"}
      BY DEF IInv, DraftOk, Drafts
<1>1. ASSUME NEW t, TaskOk(t, media), Send(t), Stay, UNCHANGED <<draft, server>>, haste' \in 0..MaxHaste
      PROVE  IInv'
  <2>1. TasksOk(tasks', media)
        BY <1>1, TasksChange DEF Send, IInv
  <2>. QED BY <1>1, <2>1, QuietKeeps DEF IInv, Stay, server
<1>2. haste \in 0..MaxHaste
      BY DEF IInv
<1>3. ASSUME NEW c \in Customers, SaveCustomer(c)
      PROVE  IInv'
  <2>. DEFINE t == [NoTask EXCEPT !.op = "customer", !.customer = c]
  <2>1. t \in Tasks /\ t.at = "sent" /\ t.op = "customer" /\ t.customer = c
        BY NoTaskFacts DEF Tasks
  <2>2. Send(t)
        BY <1>3 DEF SaveCustomer
  <2>. HIDE DEF t
  <2>3. TaskOk(t, media)
        BY <2>1, PlainTask
  <2>. QED BY <1>1, <1>2, <1>3, <2>2, <2>3 DEF SaveCustomer
<1>4. ASSUME NEW v \in Visits, StartVisit(v)
      PROVE  IInv'
  <2>1. draft.customer \in Customers
        BY <1>0, <1>4 DEF StartVisit
  <2>. DEFINE t == [NoTask EXCEPT !.op = "start", !.customer = draft.customer, !.visit = v]
  <2>2. t \in Tasks /\ t.at = "sent" /\ t.op = "start" /\ t.customer = draft.customer /\ t.visit = v
        BY <2>1, NoTaskFacts DEF Tasks
  <2>3. haste' \in 0..MaxHaste
        BY <1>2, <1>4, HastyKeeps DEF StartVisit
  <2>4. Send(t)
        BY <1>4 DEF StartVisit
  <2>. HIDE DEF t
  <2>5. TaskOk(t, media)
        BY <2>1, <2>2, PlainTask
  <2>. QED BY <1>1, <1>4, <2>3, <2>4, <2>5 DEF StartVisit
<1>5. ASSUME NEW op \in {"gps", "notes"}, draft.visit # "none",
             Send([NoTask EXCEPT !.op = op, !.visit = draft.visit]), Stay, UNCHANGED <<draft, server, haste>>
      PROVE  IInv'
  <2>. DEFINE t == [NoTask EXCEPT !.op = op, !.visit = draft.visit]
  <2>1. draft.visit \in Visits
        BY <1>0, <1>5
  <2>2. t \in Tasks /\ t.at = "sent" /\ t.op = op /\ t.visit = draft.visit
        BY <2>1, NoTaskFacts DEF Tasks
  <2>3. Send(t)
        BY <1>5
  <2>. HIDE DEF t
  <2>4. TaskOk(t, media)
        BY <2>1, <2>2, PlainTask
  <2>. QED BY <1>1, <1>2, <1>5, <2>3, <2>4
<1>6. CASE ConfirmLocation
      BY <1>5, <1>6 DEF ConfirmLocation
<1>7. CASE SaveNotes
      BY <1>5, <1>7 DEF SaveNotes
<1>. QED BY <1>3, <1>4, <1>6, <1>7

\* The buttons of the photo and notes screens.
LEMMA NotesKeep ==
  ASSUME IInv,
         \/ ChooseTyped \/ ChooseVoice \/ RecordVoice
         \/ \E phase \in Phases : AddFiles(phase) \/ \E i \in 1..MaxBefore : RemoveAt(phase, i)
  PROVE  IInv'
<1>0. /\ StackOk(stack) /\ uploading \in BOOLEAN /\ haste \in 0..MaxHaste
      /\ DraftOk(draft, media) /\ TasksOk(tasks, media) /\ RecordsOk(customers, visits)
      /\ draft \in Drafts
      BY DEF IInv, DraftOk
<1>1. CASE ChooseTyped \/ ChooseVoice
  <2>1. DraftOk(draft', media)
        BY <1>0, <1>1 DEF ChooseTyped, ChooseVoice, DraftOk, Drafts
  <2>. QED BY <1>0, <1>1, <2>1, QuietKeeps DEF ChooseTyped, ChooseVoice, Stay, server
<1>2. CASE RecordVoice
  <2>. DEFINE t == [NoTask EXCEPT !.op = "audio", !.at = "recording", !.visit = draft.visit]
  <2>1. draft.visit \in Visits
        BY <1>0, <1>2 DEF RecordVoice, Drafts
  <2>2. t \in Tasks /\ t.at = "recording" /\ t.op = "audio" /\ t.visit = draft.visit
        BY <2>1, NoTaskFacts DEF Tasks
  <2>3. Send(t)
        BY <1>2 DEF RecordVoice
  <2>. HIDE DEF t
  <2>4. TaskOk(t, media)
        BY <2>1, <2>2 DEF TaskOk, Kinds, Phases
  <2>5. TasksOk(tasks', media)
        BY <1>0, <2>3, <2>4, TasksChange DEF Send
  <2>6. haste' \in 0..MaxHaste
        BY <1>0, <1>2, HastyKeeps DEF RecordVoice
  <2>. QED BY <1>0, <1>2, <2>5, <2>6, QuietKeeps DEF RecordVoice, Stay, server
<1>3. ASSUME NEW phase \in Phases, AddFiles(phase)
      PROVE  IInv'
  <2>1. PICK n \in 1..MaxBefore :
          /\ n + Len(draft[phase]) <= MaxPhotos(phase)
          /\ Send([NoTask EXCEPT !.op = phase, !.at = "ask", !.visit = draft.visit,
                     !.list = draft[phase], !.left = n])
        BY <1>3 DEF AddFiles
  <2>. DEFINE t == [NoTask EXCEPT !.op = phase, !.at = "ask", !.visit = draft.visit,
                      !.list = draft[phase], !.left = n]
  <2>2. draft.visit \in Visits
        BY <1>0, <1>3 DEF AddFiles, Drafts
  <2>3. draft[phase] \in Photos /\ Lists(draft[phase], phase, media)
        BY <1>0, DraftLists
  <2>4. n \in 0..MaxBefore /\ n >= 1
        BY CaptureAssumption
  <2>5. Len(draft[phase]) + n <= MaxBefore
    <3>1. MaxPhotos(phase) <= MaxBefore
      <4>1. draft.before \in Photos
            BY <1>0 DEF Drafts
      <4>. QED BY <4>1, PhotosAre, CaptureAssumption DEF MaxPhotos
    <3>2. MaxPhotos(phase) \in Nat
      <4>1. draft.before \in Photos
            BY <1>0 DEF Drafts
      <4>. QED BY <4>1, PhotosAre, LenProperties, CaptureAssumption DEF MaxPhotos
    <3>3. Len(draft[phase]) \in Nat
          BY <2>3, PhotosAre, LenProperties
    <3>. QED BY <2>1, <3>1, <3>2, <3>3, CaptureAssumption
  <2>6. /\ t \in Tasks /\ t.at = "ask" /\ t.op = phase /\ t.visit = draft.visit
        /\ t.list = draft[phase] /\ t.left = n
        BY <2>2, <2>3, <2>4, NoTaskFacts DEF Tasks
  <2>7. Send(t)
        BY <2>1
  <2>. HIDE DEF t
  <2>8. TaskOk(t, media)
        BY <2>2, <2>3, <2>4, <2>5, <2>6 DEF TaskOk, Kinds, Phases
  <2>9. TasksOk(tasks', media)
        BY <1>0, <2>7, <2>8, TasksChange DEF Send
  <2>10. haste' \in 0..MaxHaste /\ uploading' = TRUE /\ UNCHANGED <<stack, draft, server>>
        BY <1>0, <1>3, HastyKeeps DEF AddFiles
  <2>. QED BY <1>0, <2>9, <2>10, QuietKeeps DEF server
<1>4. ASSUME NEW phase \in Phases, NEW i \in 1..MaxBefore, RemoveAt(phase, i)
      PROVE  IInv'
  <2>. DEFINE rest == SubSeq(draft[phase], 1, i - 1) \o SubSeq(draft[phase], i + 1, Len(draft[phase]))
  <2>1. draft[phase] \in Photos /\ Lists(draft[phase], phase, media) /\ i \in DOMAIN draft[phase]
        BY <1>0, <1>4, DraftLists DEF RemoveAt
  <2>2. rest \in Photos /\ Lists(rest, phase, media)
        BY <2>1, ListShortened
  <2>3. draft' = [draft EXCEPT !.after = <<>>, ![phase] = rest]
        BY <1>4 DEF RemoveAt
  <2>. HIDE DEF rest
  <2>4. DraftOk(draft', media)
        BY <1>0, <2>2, <2>3, DraftLists
  <2>5. haste' \in 0..MaxHaste /\ UNCHANGED <<stack, uploading, tasks, server>>
        BY <1>0, <1>4, HastyKeeps DEF RemoveAt, Stay
  <2>. QED BY <1>0, <2>4, <2>5, QuietKeeps DEF server
<1>. QED BY <1>1, <1>2, <1>3, <1>4

-----------------------------------------------------------------------------
(* Calls go on *)

\* The answers of the calls that change customers and visits.
LEMMA AnswersKeep ==
  ASSUME IInv, NEW t \in tasks, CustomerSaved(t) \/ VisitStarted(t) \/ PatchRead(t) \/ PatchSaved(t)
  PROVE  IInv'
<1>0. /\ StackOk(stack) /\ uploading \in BOOLEAN /\ haste \in 0..MaxHaste
      /\ DraftOk(draft, media) /\ TasksOk(tasks, media) /\ RecordsOk(customers, visits)
      /\ draft \in Drafts /\ TaskOk(t, media) /\ t \in Tasks
      BY DEF IInv, DraftOk, TasksOk, TaskOk
<1>1. TasksOk(tasks \ {t}, media)
      BY <1>0 DEF TasksOk
<1>2. CASE CustomerSaved(t)
  <2>1. t.customer \in Customers
        BY <1>0, <1>2 DEF CustomerSaved, TaskOk
  <2>2. DraftOk(draft', media)
        BY <1>0, <1>2, <2>1, ChosenKeeps DEF CustomerSaved
  <2>3. RecordsOk(customers', visits')
        BY <1>0, <1>2, <2>1 DEF CustomerSaved, CreateCustomer, RecordsOk
  <2>4. StackOk(stack') /\ uploading' \in BOOLEAN /\ TasksOk(tasks', media)
        BY <1>0, <1>1, <1>2, NavigateKeeps DEF CustomerSaved, Screens
  <2>. QED BY <1>0, <1>2, <2>2, <2>3, <2>4, QuietKeeps DEF CustomerSaved
<1>3. CASE VisitStarted(t)
  <2>1. t.customer \in Customers /\ t.visit \in Visits
        BY <1>0, <1>3 DEF VisitStarted, TaskOk
  <2>2. DraftOk(draft', media)
        BY <1>0, <1>3, <2>1 DEF VisitStarted, DraftOk, Drafts
  <2>3. RecordsOk(customers', visits')
    <3>1. [NoVisit EXCEPT !.customer = t.customer] \in Rows
          BY <2>1 DEF NoVisit, Rows
    <3>. QED BY <1>0, <1>3, <2>1, <3>1 DEF VisitStarted, InsertVisit, RecordsOk
  <2>4. StackOk(stack') /\ uploading' \in BOOLEAN /\ TasksOk(tasks', media)
        BY <1>0, <1>1, <1>3, NavigateKeeps DEF VisitStarted, Screens
  <2>. QED BY <1>0, <1>3, <2>2, <2>3, <2>4, QuietKeeps DEF VisitStarted
<1>4. CASE PatchRead(t)
  <2>. DEFINE row == Updated(visits[t.visit], t.op)
              q == [t EXCEPT !.at = "read", !.row = row]
  <2>1. t.visit \in Visits /\ t.op \in {"gps", "notes"}
        BY <1>0, <1>4 DEF PatchRead, TaskOk
  <2>2. row \in Rows
        BY <1>0, <2>1 DEF Updated, RecordsOk, Rows
  <2>. HIDE DEF row
  <2>3. q \in Tasks /\ q.at = "read" /\ q.op = t.op /\ q.visit = t.visit
        BY <1>0, <2>2 DEF Tasks
  <2>4. tasks' = (tasks \ {t}) \union {q}
        BY <1>4 DEF PatchRead, row
  <2>. HIDE DEF q
  <2>5. q.op \notin Phases
        BY <2>1, <2>3 DEF Phases
  <2>6. TaskOk(q, media)
        BY <2>1, <2>3, <2>5 DEF TaskOk
  <2>7. TasksOk(tasks', media)
        BY <1>0, <2>4, <2>6, TasksChange
  <2>. QED BY <1>0, <1>4, <2>7, QuietKeeps DEF PatchRead, Stay, server
<1>5. CASE PatchSaved(t)
  <2>1. t.visit \in Visits /\ t.row \in Rows
        BY <1>0, <1>5 DEF PatchSaved, TaskOk, Tasks
  <2>2. DraftOk(draft', media)
        BY <1>0, <1>5 DEF PatchSaved, DraftOk, Drafts
  <2>3. RecordsOk(customers', visits')
        BY <1>0, <1>5, <2>1 DEF PatchSaved, SaveVisit, RecordsOk
  <2>4. Navigate("before", tasks \ {t}) \/ Navigate("after", tasks \ {t})
        BY <1>5 DEF PatchSaved
  <2>5. StackOk(stack') /\ uploading' \in BOOLEAN /\ TasksOk(tasks', media)
        BY <1>0, <1>1, <2>4, NavigateKeeps DEF Screens
  <2>6. haste' \in 0..MaxHaste
        BY <1>0, <1>5, HastyKeeps DEF PatchSaved
  <2>. QED BY <1>0, <1>5, <2>2, <2>3, <2>5, <2>6, QuietKeeps DEF PatchSaved
<1>. QED BY <1>2, <1>3, <1>4, <1>5

\* A call ends without an answer, or an upload goes on in the app.
LEMMA UploadsKeep ==
  ASSUME IInv, NEW t \in tasks,
         CallFails(t) \/ AnswerLost(t) \/ StopRecording(t) \/ Recorded(t) \/ Listed(t)
  PROVE  IInv'
<1>0. /\ StackOk(stack) /\ uploading \in BOOLEAN /\ haste \in 0..MaxHaste
      /\ DraftOk(draft, media) /\ TasksOk(tasks, media) /\ RecordsOk(customers, visits)
      /\ draft \in Drafts /\ TaskOk(t, media) /\ t \in Tasks
      BY DEF IInv, DraftOk, TasksOk, TaskOk
<1>1. TasksOk(tasks \ {t}, media)
      BY <1>0 DEF TasksOk
<1>2. CASE CallFails(t) \/ AnswerLost(t)
  <2>1. haste' \in 0..MaxHaste
        BY <1>0, <1>2, HastyKeeps DEF CallFails, AnswerLost
  <2>2. uploading' \in BOOLEAN
        BY <1>2, Zenon DEF CallFails, AnswerLost
  <2>. QED BY <1>0, <1>1, <1>2, <2>1, <2>2, QuietKeeps DEF CallFails, AnswerLost, server
<1>3. CASE StopRecording(t)
  <2>. DEFINE q == [t EXCEPT !.at = "ask"]
  <2>1. t.op = "audio" /\ t.visit \in Visits
        BY <1>0, <1>3 DEF StopRecording, TaskOk
  <2>2. q \in Tasks /\ q.at = "ask" /\ q.op = t.op /\ q.visit = t.visit
        BY <1>0 DEF Tasks
  <2>3. tasks' = (tasks \ {t}) \union {q}
        BY <1>3 DEF StopRecording
  <2>. HIDE DEF q
  <2>4. TaskOk(q, media)
        BY <2>1, <2>2 DEF TaskOk, Kinds, Phases
  <2>5. TasksOk(tasks', media)
        BY <1>0, <2>3, <2>4, TasksChange
  <2>. QED BY <1>0, <1>3, <2>5, QuietKeeps DEF StopRecording, Stay, server
<1>4. CASE Recorded(t)
  <2>1. IsAttached(t.asset, "audio", media) /\ t.asset \in AssetIds \union {0}
        BY <1>0, <1>4 DEF Recorded, TaskOk, IsAttached, Tasks
  <2>2. DraftOk(draft', media)
        BY <1>0, <1>4, <2>1 DEF Recorded, DraftOk, Drafts
  <2>. QED BY <1>0, <1>1, <1>4, <2>2, QuietKeeps DEF Recorded, Stay, server
<1>5. CASE Listed(t)
  <2>. DEFINE list == Append(t.list, t.asset)
              q == [t EXCEPT !.at = "ask", !.list = list, !.left = @ - 1, !.asset = 0]
  <2>1. t.op \in Phases /\ t.at = "answer"
        BY <1>5 DEF Listed
  <2>2. /\ t.list \in Photos /\ Lists(t.list, t.op, media) /\ IsAttached(t.asset, t.op, media)
        /\ t.left \in 0..MaxBefore /\ t.left >= 1 /\ Len(t.list) + t.left <= MaxBefore
        /\ t.visit \in Visits
        BY <1>0, <2>1 DEF TaskOk, IsAttached, Tasks, Phases
  <2>3. Len(t.list) \in Nat
        BY <2>2, PhotosAre, LenProperties
  <2>4. t.asset \in AssetIds
    <3>1. MediaOk(media)
          BY DEF IInv
    <3>. QED BY <2>2, <3>1, LenProperties, CaptureAssumption DEF MediaOk, IsAttached, AssetIds
  <2>5. Len(t.list) < MaxBefore
        BY <2>2, <2>3, CaptureAssumption
  <2>6. list \in Photos /\ Len(list) = Len(t.list) + 1 /\ Lists(list, t.op, media)
        BY <2>2, <2>4, <2>5, ListExtended
  <2>7. /\ draft' = [draft EXCEPT ![t.op] = list]
        /\ tasks' = (tasks \ {t}) \union (IF t.left = 1 THEN {} ELSE {q})
        /\ UNCHANGED <<stack, server, haste>>
        BY <1>5 DEF Listed
  <2>8. uploading' \in BOOLEAN
        BY <1>5, Zenon DEF Listed
  <2>. HIDE DEF list
  <2>9. DraftOk(draft', media)
        BY <1>0, <2>1, <2>6, <2>7, DraftLists
  <2>10. CASE t.left = 1
    <3>1. TasksOk(tasks', media)
          BY <1>1, <2>7, <2>10
    <3>. QED BY <1>0, <2>7, <2>8, <2>9, <3>1, QuietKeeps DEF server
  <2>11. CASE t.left # 1
    <3>1. t.left - 1 \in 0..MaxBefore /\ t.left - 1 >= 1
          BY <2>2, <2>11, CaptureAssumption
    <3>2. /\ q \in Tasks /\ q.at = "ask" /\ q.op = t.op /\ q.visit = t.visit
          /\ q.list = list /\ q.left = t.left - 1
          BY <1>0, <2>6, <3>1 DEF Tasks
    <3>3. tasks' = (tasks \ {t}) \union {q}
          BY <2>7, <2>11
    <3>. HIDE DEF q
    <3>4. Len(list) + (t.left - 1) <= MaxBefore
          BY <2>2, <2>3, <2>6, CaptureAssumption
    <3>5. TaskOk(q, media)
          BY <2>1, <2>2, <2>6, <3>1, <3>2, <3>4 DEF TaskOk, Kinds, Phases
    <3>6. TasksOk(tasks', media)
          BY <1>0, <3>3, <3>5, TasksChange
    <3>. QED BY <1>0, <2>7, <2>8, <2>9, <3>6, QuietKeeps DEF server
  <2>. QED BY <2>10, <2>11
<1>. QED BY <1>2, <1>3, <1>4, <1>5

-----------------------------------------------------------------------------
(* Evidence *)

\* Reports keep their evidence where no photo is attached.
LEMMA EvidenceKept ==
  ASSUME NEW m, NEW n, Extends(n, m), NEW report, HasEvidence(report, m),
         \A phase \in Phases : PhotosOf(report.visit, phase, n) = PhotosOf(report.visit, phase, m)
  PROVE  HasEvidence(report, n)
BY DEF HasEvidence, Extends, Phases

\* What asking for an asset changes: it is there, and not attached.
LEMMA AskFacts ==
  ASSUME IInv, NEW t \in tasks, Ask(t)
  PROVE  /\ Len(media) \in Nat /\ DOMAIN media = 1..Len(media)
         /\ media' \in Seq(Assets) /\ Len(media') = Len(media) + 1 /\ DOMAIN media' = 1..(Len(media) + 1)
         /\ \A i \in 1..Len(media) : media'[i] = media[i]
         /\ media'[Len(media) + 1].visit = t.visit /\ media'[Len(media) + 1].kind = t.op
         /\ Extends(media', media)
         /\ \A v, phase : PhotosOf(v, phase, media') = PhotosOf(v, phase, media)
<1>. DEFINE new == [visit |-> t.visit, kind |-> t.op, attached |-> FALSE]
            n == Len(media)
<1>1. TaskOk(t, media) /\ MediaOk(media)
      BY DEF IInv, TasksOk
<1>2. t.op \in Kinds /\ t.visit \in Visits /\ media' = Append(media, new)
      BY <1>1 DEF Ask, RequestUpload, TaskOk, Kinds, Phases
<1>3. new \in Assets /\ new.visit = t.visit /\ new.kind = t.op /\ ~new.attached
      BY <1>2 DEF Assets
<1>4. media \in Seq(Assets) /\ n \in Nat /\ DOMAIN media = 1..n
      BY <1>1, LenProperties DEF MediaOk
<1>. HIDE DEF new
<1>5. /\ media' \in Seq(Assets) /\ Len(media') = n + 1
      /\ \A i \in 1..n : media'[i] = media[i]
      /\ media'[n + 1] = new
      BY <1>2, <1>3, <1>4, AppendProperties
<1>6. DOMAIN media' = 1..(n + 1)
      BY <1>5, LenProperties
<1>7. Extends(media', media)
      BY <1>4, <1>5, <1>6 DEF Extends
<1>8. ASSUME NEW v, NEW phase
      PROVE  PhotosOf(v, phase, media') = PhotosOf(v, phase, media)
  <2>1. \A i \in 1..(n + 1) : i \in 1..n \/ i = n + 1
        BY <1>4
  <2>2. media'[n + 1] # [visit |-> v, kind |-> phase, attached |-> TRUE]
        BY <1>3, <1>5
  <2>3. 1..n \subseteq 1..(n + 1)
        BY <1>4
  <2>. QED BY <1>4, <1>5, <1>6, <2>1, <2>2, <2>3 DEF PhotosOf
<1>. QED BY <1>3, <1>4, <1>5, <1>6, <1>7, <1>8

\* An asset is asked for.
LEMMA AskKeeps ==
  ASSUME IInv, NEW t \in tasks, Ask(t) PROVE IInv'
<1>. DEFINE n == Len(media)
            q == [t EXCEPT !.at = "put", !.asset = n + 1]
<1>0. /\ StackOk(stack) /\ uploading \in BOOLEAN /\ haste \in 0..MaxHaste
      /\ DraftOk(draft, media) /\ TasksOk(tasks, media) /\ RecordsOk(customers, visits)
      /\ TaskOk(t, media) /\ t \in Tasks /\ ReportsOk(reports, media)
      BY DEF IInv, TasksOk, TaskOk
<1>1. /\ t.at = "ask" /\ n < MaxAssets /\ tasks' = (tasks \ {t}) \union {q}
      /\ UNCHANGED <<stack, uploading, draft, customers, visits, reports, haste>>
      BY DEF Ask, RequestUpload, Stay
<1>2. t.op \in Kinds
      BY <1>0, <1>1 DEF TaskOk, Kinds, Phases
<1>3. /\ n \in Nat /\ DOMAIN media' = 1..(n + 1) /\ Extends(media', media)
      /\ media' \in Seq(Assets) /\ Len(media') = n + 1
      /\ media'[n + 1].visit = t.visit /\ media'[n + 1].kind = t.op
      BY AskFacts
<1>4. MediaOk(media') /\ n + 1 \in AssetIds /\ n + 1 \in DOMAIN media'
      BY <1>1, <1>3, CaptureAssumption DEF MediaOk, AssetIds
<1>5. TasksOk(tasks', media')
  <2>1. /\ q \in Tasks /\ q.at = "put" /\ q.op = t.op /\ q.visit = t.visit /\ q.list = t.list /\ q.left = t.left
        /\ q.asset = n + 1
        BY <1>0, <1>4 DEF Tasks
  <2>. HIDE DEF q
  <2>2. TaskOk(t, media') /\ TasksOk(tasks, media')
        BY <1>0, <1>3, StillAttached
  <2>3. TaskOk(q, media')
        BY <1>2, <1>3, <1>4, <2>1, <2>2 DEF TaskOk, Kinds, Phases
  <2>. QED BY <1>1, <2>2, <2>3, TasksChange
<1>6. ReportsOk(reports, media')
      BY <1>0, AskFacts, EvidenceKept DEF ReportsOk
<1>7. DraftOk(draft', media')
      BY <1>0, <1>1, <1>3, StillAttached
<1>. QED BY <1>0, <1>1, <1>4, <1>5, <1>6, <1>7 DEF IInv

\* What attaching an asset changes: the photos of its visit and phase are one more.
LEMMA AttachFacts ==
  ASSUME IInv, NEW t \in tasks, Attach(t)
  PROVE  /\ t.asset \in DOMAIN media /\ t.op \in Kinds /\ t.visit \in Visits
         /\ media' \in Seq(Assets) /\ Len(media') = Len(media) /\ DOMAIN media' = DOMAIN media
         /\ Extends(media', media)
         /\ media'[t.asset].visit = t.visit /\ media'[t.asset].kind = t.op /\ media'[t.asset].attached
         /\ \A v, phase : PhotosOf(v, phase, media) \subseteq PhotosOf(v, phase, media')
         /\ \A v, phase : PhotosOf(v, phase, media') \subseteq PhotosOf(v, phase, media) \union {t.asset}
         /\ \A v, phase : ~(v = t.visit /\ phase = t.op) =>
                             PhotosOf(v, phase, media') = PhotosOf(v, phase, media)
<1>. DEFINE a == t.asset
            now == [media[a] EXCEPT !.attached = TRUE]
<1>0. TaskOk(t, media) /\ MediaOk(media)
      BY DEF IInv, TasksOk
<1>1. t.at = "put" /\ media' = [media EXCEPT ![a] = now]
      BY DEF Attach, AttachMedia
<1>2. /\ a \in DOMAIN media /\ media[a].kind = t.op /\ media[a].visit = t.visit
      /\ t.op \in Kinds /\ t.visit \in Visits
      BY <1>0, <1>1 DEF TaskOk, Kinds, Phases
<1>3. media \in Seq(Assets) /\ Len(media) \in Nat /\ DOMAIN media = 1..Len(media) /\ media[a] \in Assets
      BY <1>0, <1>2, LenProperties, ElementOfSeq DEF MediaOk
<1>4. now \in Assets /\ now.visit = t.visit /\ now.kind = t.op /\ now.attached
      BY <1>2, <1>3 DEF Assets
<1>. HIDE DEF now
<1>5. /\ media' \in Seq(Assets) /\ Len(media') = Len(media)
      /\ \A i \in 1..Len(media) : media'[i] = IF i = a THEN now ELSE media[i]
      BY <1>1, <1>2, <1>3, <1>4, ExceptSeq
<1>6. DOMAIN media' = DOMAIN media
      BY <1>3, <1>5, LenProperties
<1>7. Extends(media', media)
      BY <1>2, <1>3, <1>4, <1>5, <1>6 DEF Extends
<1>8. \A v, phase : PhotosOf(v, phase, media) \subseteq PhotosOf(v, phase, media')
  <2>. SUFFICES ASSUME NEW v, NEW phase, NEW i \in DOMAIN media,
                       media[i] = [visit |-> v, kind |-> phase, attached |-> TRUE]
                PROVE  media'[i] = [visit |-> v, kind |-> phase, attached |-> TRUE]
       BY <1>6 DEF PhotosOf
  <2>1. CASE i = a
    <3>1. now = media[a]
          BY <1>3, <1>4, <2>1 DEF now, Assets
    <3>. QED BY <1>3, <1>5, <2>1, <3>1
  <2>2. CASE i # a
        BY <1>3, <1>5, <2>2
  <2>. QED BY <2>1, <2>2
<1>9. ASSUME NEW v, NEW phase
      PROVE  PhotosOf(v, phase, media') \subseteq PhotosOf(v, phase, media) \union {a}
      BY <1>3, <1>5, <1>6 DEF PhotosOf
<1>10. ASSUME NEW v, NEW phase, ~(v = t.visit /\ phase = t.op)
       PROVE  PhotosOf(v, phase, media') = PhotosOf(v, phase, media)
  <2>1. media'[a] # [visit |-> v, kind |-> phase, attached |-> TRUE]
        BY <1>2, <1>3, <1>4, <1>5, <1>10
  <2>2. a \notin PhotosOf(v, phase, media')
        BY <2>1 DEF PhotosOf
  <2>. QED BY <1>8, <1>9, <2>2
<1>11. media'[a].visit = t.visit /\ media'[a].kind = t.op /\ media'[a].attached
       BY <1>2, <1>3, <1>4, <1>5
<1>. QED BY <1>2, <1>5, <1>6, <1>7, <1>8, <1>9, <1>10, <1>11

\* An asset is attached: a photo comes late for the reports of its visit.
LEMMA AttachKeeps ==
  ASSUME IInv, NEW t \in tasks, Attach(t) PROVE IInv'
<1>. DEFINE a == t.asset
            q == [t EXCEPT !.at = "answer"]
            After(report) == [report EXCEPT !.late = @ \/ (t.op \in Phases /\ report.visit = t.visit)]
<1>0. /\ StackOk(stack) /\ uploading \in BOOLEAN /\ haste \in 0..MaxHaste
      /\ DraftOk(draft, media) /\ TasksOk(tasks, media) /\ RecordsOk(customers, visits)
      /\ TaskOk(t, media) /\ t \in Tasks /\ MediaOk(media) /\ ReportsOk(reports, media)
      BY DEF IInv, TasksOk, TaskOk
<1>1. /\ t.at = "put" /\ tasks' = (tasks \ {t}) \union {q}
      /\ reports' = [r \in DOMAIN reports |-> After(reports[r])]
      /\ UNCHANGED <<stack, uploading, draft, customers, visits, haste>>
      BY DEF Attach, Stay
<1>2. /\ a \in DOMAIN media /\ t.op \in Kinds /\ t.visit \in Visits
      /\ media' \in Seq(Assets) /\ Len(media') = Len(media) /\ DOMAIN media' = DOMAIN media
      /\ Extends(media', media)
      /\ media'[a].visit = t.visit /\ media'[a].kind = t.op /\ media'[a].attached
      /\ \A v, phase : PhotosOf(v, phase, media) \subseteq PhotosOf(v, phase, media')
      /\ \A v, phase : ~(v = t.visit /\ phase = t.op) =>
                          PhotosOf(v, phase, media') = PhotosOf(v, phase, media)
      BY AttachFacts
<1>3. TasksOk(tasks', media')
  <2>1. /\ q \in Tasks /\ q.at = "answer" /\ q.op = t.op /\ q.visit = t.visit /\ q.list = t.list /\ q.left = t.left
        /\ q.asset = a
        BY <1>0 DEF Tasks
  <2>. HIDE DEF q
  <2>2. TaskOk(t, media') /\ TasksOk(tasks, media')
        BY <1>0, <1>2, StillAttached
  <2>3. TaskOk(q, media')
        BY <1>2, <2>1, <2>2 DEF TaskOk, Kinds, Phases
  <2>. QED BY <1>1, <2>2, <2>3, TasksChange
<1>4. ReportsOk(reports', media')
  <2>1. reports \in Seq(Reports) /\ Len(reports) \in Nat /\ DOMAIN reports = 1..Len(reports)
        /\ \A r \in 1..Len(reports) : reports[r] \in Reports
        BY <1>0, LenProperties, ElementOfSeq DEF ReportsOk
  <2>2. ASSUME NEW report \in Reports
        PROVE  /\ After(report) \in Reports /\ After(report).visit = report.visit /\ After(report).audio = report.audio
               /\ After(report).late <=> report.late \/ (t.op \in Phases /\ report.visit = t.visit)
    <3>1. (report.late \/ (t.op \in Phases /\ report.visit = t.visit)) \in BOOLEAN
          OBVIOUS
    <3>. QED BY <3>1, Zenon DEF Reports
  <2>. HIDE DEF After
  <2>3. DOMAIN reports' = 1..Len(reports) /\ \A r \in 1..Len(reports) : reports'[r] = After(reports[r])
        BY <1>1, <2>1
  <2>4. reports' \in [1..Len(reports) -> Reports]
        BY <1>1, <2>1, <2>2
  <2>5. reports' \in Seq(Reports)
        BY <2>1, <2>4, SeqDef
  <2>6. ASSUME NEW r \in 1..Len(reports)
        PROVE  HasEvidence(reports'[r], media')
    <3>. DEFINE old == reports[r]
                new == After(old)
    <3>1. /\ HasEvidence(old, media) /\ old \in Reports /\ reports'[r] = new
          /\ new.visit = old.visit /\ new.audio = old.audio
          /\ new.late <=> old.late \/ (t.op \in Phases /\ old.visit = t.visit)
          BY <1>0, <2>1, <2>2, <2>3 DEF ReportsOk
    <3>. HIDE DEF old, new
    <3>2. CASE t.op \in Phases /\ old.visit = t.visit
          BY <1>2, <3>1, <3>2 DEF HasEvidence, Extends
    <3>3. CASE ~(t.op \in Phases /\ old.visit = t.visit)
      <4>1. \A phase \in Phases : PhotosOf(old.visit, phase, media') = PhotosOf(old.visit, phase, media)
            BY <1>2, <3>3
      <4>2. HasEvidence(old, media')
            BY <1>2, <3>1, <4>1, EvidenceKept
      <4>. QED BY <3>1, <3>3, <4>2 DEF HasEvidence
    <3>. QED BY <3>2, <3>3
  <2>. QED BY <2>3, <2>5, <2>6 DEF ReportsOk
<1>5. DraftOk(draft', media')
      BY <1>0, <1>1, <1>2, StillAttached
<1>. QED BY <1>0, <1>1, <1>2, <1>3, <1>4, <1>5 DEF IInv, MediaOk

\* A report is accepted with the evidence of its visit.
LEMMA CreateKeeps == ASSUME IInv, CreateReport PROVE IInv'
<1>. DEFINE new == [visit |-> draft.visit, audio |-> draft.audio, before |-> draft.before, after |-> draft.after,
                    patient |-> haste = 0, late |-> FALSE, analysed |-> FALSE, pairs |-> {}]
<1>0. /\ DraftOk(draft, media) /\ draft \in Drafts /\ ReportsOk(reports, media)
      BY DEF IInv, DraftOk
<1>1. /\ draft.visit # "none" /\ Ready(draft.visit) /\ OwnRecording(draft.audio, draft.visit)
      /\ reports' = Append(reports, new)
      /\ UNCHANGED <<stack, uploading, draft, tasks, customers, visits, media, haste>>
      BY DEF CreateReport, AddReport, Stay
<1>2. new \in Reports
  <2>1. (haste = 0) \in BOOLEAN
        OBVIOUS
  <2>. QED BY <1>0, <1>1, <2>1 DEF Reports, Drafts
<1>3. HasEvidence(new, media)
  <2>1. \A phase : Attached(draft.visit, phase) = PhotosOf(draft.visit, phase, media)
        BY DEF Attached, PhotosOf
  <2>2. draft.audio # 0 => draft.audio \in DOMAIN media /\ media[draft.audio].visit = draft.visit
        BY <1>0, <1>1 DEF OwnRecording, DraftOk, IsAttached
  <2>. QED BY <1>1, <2>1, <2>2 DEF Ready, HasEvidence
<1>4. reports \in Seq(Reports) /\ Len(reports) \in Nat /\ DOMAIN reports = 1..Len(reports)
      BY <1>0, LenProperties DEF ReportsOk
<1>. HIDE DEF new
<1>5. /\ reports' \in Seq(Reports) /\ Len(reports') = Len(reports) + 1
      /\ \A r \in 1..Len(reports) : reports'[r] = reports[r]
      /\ reports'[Len(reports) + 1] = new
      BY <1>1, <1>2, <1>4, AppendProperties
<1>6. DOMAIN reports' = 1..(Len(reports) + 1)
      BY <1>5, LenProperties
<1>7. ReportsOk(reports', media)
  <2>1. ASSUME NEW r \in 1..(Len(reports) + 1)
        PROVE  HasEvidence(reports'[r], media)
    <3>1. CASE r \in 1..Len(reports)
          BY <1>0, <1>4, <1>5, <3>1 DEF ReportsOk
    <3>2. CASE r = Len(reports) + 1
          BY <1>3, <1>5, <3>2
    <3>3. r \in 1..Len(reports) \/ r = Len(reports) + 1
          BY <1>4
    <3>. QED BY <3>1, <3>2, <3>3
  <2>. QED BY <1>5, <1>6, <2>1 DEF ReportsOk
<1>. QED BY <1>1, <1>7 DEF IInv

\* The analysis pairs what it finds, and leaves the evidence alone.
LEMMA AnalyseKeeps == ASSUME IInv, NEW r \in DOMAIN reports, Analyse(r) PROVE IInv'
<1>. DEFINE old == reports[r]
            before == Attached(old.visit, "before")
            after == Attached(old.visit, "after")
            pairs == IF Cardinality(before) = Cardinality(after) THEN Paired(before, after) ELSE {}
            new == [old EXCEPT !.analysed = TRUE, !.pairs = pairs]
<1>0. MediaOk(media) /\ ReportsOk(reports, media)
      BY DEF IInv
<1>1. /\ reports' = [reports EXCEPT ![r] = new]
      /\ UNCHANGED <<stack, uploading, draft, tasks, customers, visits, media, haste>>
      BY DEF Analyse
<1>2. pairs \in SUBSET (AssetIds \X AssetIds)
  <2>1. media \in Seq(Assets) /\ Len(media) \in Nat /\ DOMAIN media = 1..Len(media) /\ Len(media) <= MaxAssets
        BY <1>0, LenProperties DEF MediaOk
  <2>2. DOMAIN media \subseteq AssetIds
        BY <2>1, CaptureAssumption DEF AssetIds
  <2>3. before \subseteq AssetIds /\ after \subseteq AssetIds
        BY <2>2 DEF Attached
  <2>. HIDE DEF before, after
  <2>4. Paired(before, after) \subseteq before \X after
        BY Zenon DEF Paired
  <2>. QED BY <2>3, <2>4
<1>3. reports \in Seq(Reports) /\ DOMAIN reports = 1..Len(reports) /\ old \in Reports
      BY <1>0, LenProperties, ElementOfSeq DEF ReportsOk
<1>. HIDE DEF pairs
<1>4. new \in Reports /\ new.visit = old.visit /\ new.audio = old.audio /\ new.late = old.late
      BY <1>2, <1>3 DEF Reports
<1>5. HasEvidence(new, media)
      BY <1>0, <1>4 DEF ReportsOk, HasEvidence
<1>. HIDE DEF new
<1>6. /\ reports' \in Seq(Reports) /\ Len(reports') = Len(reports)
      /\ \A s \in 1..Len(reports) : reports'[s] = IF s = r THEN new ELSE reports[s]
      BY <1>1, <1>3, <1>4, ExceptSeq
<1>7. DOMAIN reports' = DOMAIN reports
      BY <1>3, <1>6, LenProperties
<1>8. ReportsOk(reports', media)
      BY <1>0, <1>3, <1>5, <1>6, <1>7 DEF ReportsOk
<1>. QED BY <1>1, <1>8 DEF IInv

-----------------------------------------------------------------------------
(* The invariant and what follows from it *)

\* The app has just been opened.
LEMMA InitInvariant == Init => IInv
<1>. SUFFICES ASSUME Init PROVE IInv
     OBVIOUS
<1>1. StackOk(stack)
  <2>1. stack = <<"customers">> /\ "customers" \in Screens
        BY DEF Init, Screens
  <2>2. stack \in Seq(Screens) /\ Len(stack) = 1
        BY <2>1
  <2>. QED BY <2>2, CaptureAssumption DEF StackOk
<1>2. media = <<>> /\ MediaOk(media)
      BY EmptySeq, CaptureAssumption DEF Init, MediaOk
<1>3. DraftOk(draft, media)
      BY EmptyList DEF Init, DraftOk, Drafts
<1>4. TasksOk(tasks, media)
      BY DEF Init, TasksOk
<1>5. RecordsOk(customers, visits)
      BY CaptureAssumption DEF Init, RecordsOk, NoVisit, Rows
<1>6. ReportsOk(reports, media)
  <2>1. reports = <<>> /\ reports \in Seq(Reports) /\ DOMAIN reports = {}
        BY EmptySeq DEF Init
  <2>. QED BY <2>1 DEF ReportsOk
<1>7. uploading \in BOOLEAN
      BY DEF Init
<1>8. haste \in 0..MaxHaste
      BY CaptureAssumption DEF Init
<1>. QED BY <1>1, <1>2, <1>3, <1>4, <1>5, <1>6, <1>7, <1>8 DEF IInv

\* The inductive invariant holds in every state of every behaviour.
THEOREM CaptureInvariant == Spec => []IInv
<1>1. ASSUME IInv, [Next]_vars
      PROVE  IInv'
  <2>1. CASE \/ Back \/ Leave \/ OpenAddCustomer \/ KeepRecording \/ ReviewPhotos
             \/ \E c \in Customers : SelectCustomer(c)
             \/ \E phase \in Phases : Continue(phase)
        BY <1>1, <2>1, MovesKeep
  <2>2. CASE \/ \E c \in Customers : SaveCustomer(c)
             \/ \E v \in Visits : StartVisit(v)
             \/ ConfirmLocation \/ SaveNotes
        BY <1>1, <2>2, SendsKeep
  <2>3. CASE \/ ChooseTyped \/ ChooseVoice \/ RecordVoice
             \/ \E phase \in Phases : AddFiles(phase) \/ \E i \in 1..MaxBefore : RemoveAt(phase, i)
        BY <1>1, <2>3, NotesKeep
  <2>4. ASSUME NEW t \in tasks, CustomerSaved(t) \/ VisitStarted(t) \/ PatchRead(t) \/ PatchSaved(t)
        PROVE  IInv'
        BY <1>1, <2>4, AnswersKeep
  <2>5. ASSUME NEW t \in tasks, CallFails(t) \/ AnswerLost(t) \/ StopRecording(t) \/ Recorded(t) \/ Listed(t)
        PROVE  IInv'
        BY <1>1, <2>5, UploadsKeep
  <2>6. ASSUME NEW t \in tasks, Ask(t) \/ Attach(t)
        PROVE  IInv'
        BY <1>1, <2>6, AskKeeps, AttachKeeps
  <2>7. CASE CreateReport
        BY <1>1, <2>7, CreateKeeps
  <2>8. ASSUME NEW r \in DOMAIN reports, Analyse(r)
        PROVE  IInv'
        BY <1>1, <2>8, AnalyseKeeps
  <2>9. CASE UNCHANGED vars
        BY <1>1, <2>9 DEF vars, server, IInv
  <2>. QED BY <1>1, <2>1, <2>2, <2>3, <2>4, <2>5, <2>6, <2>7, <2>8, <2>9 DEF Next
<1>. QED BY InitInvariant, <1>1, PTL DEF Spec

\* Every variable keeps its type: screens, draft, calls, visits, assets, reports.
THEOREM CaptureTyped == Spec => []TypeOK
<1>1. IInv => TypeOK
      BY DEF IInv, StackOk, DraftOk, TasksOk, TaskOk, RecordsOk, MediaOk, ReportsOk, Assets, Kinds, Reports, TypeOK
<1>. QED BY CaptureInvariant, <1>1, PTL

\* However calls, customers and screens overlap, the photos and the recording that the draft lists
\* are attached ones (addFiles and recordVoice list them after attachMedia).
THEOREM ListsAreReal == Spec => []ListedIsAttached
<1>1. IInv => ListedIsAttached
  <2>. SUFFICES ASSUME IInv PROVE ListedIsAttached
       OBVIOUS
  <2>1. \A phase \in Phases : Lists(draft[phase], phase, media)
        BY DraftLists DEF IInv
  <2>2. draft.audio # 0 => IsAttached(draft.audio, "audio", media)
        BY DEF IInv, DraftOk
  <2>. QED BY <2>1, <2>2 DEF ListedIsAttached, Lists, IsAttached
<1>. QED BY CaptureInvariant, <1>1, PTL

\* A report has photos of both phases of its own visit, in pairs until one comes late, and a
\* recording that was made in it (CreateReportHandler.handle, AttachMediaHandler.handle).
THEOREM ReportsHaveEvidence == Spec => []ReportHasEvidence
<1>1. IInv => ReportHasEvidence
  <2>1. \A v, phase : Attached(v, phase) = PhotosOf(v, phase, media)
        BY DEF Attached, PhotosOf
  <2>. QED BY <2>1 DEF IInv, ReportsOk, HasEvidence, ReportHasEvidence
<1>. QED BY CaptureInvariant, <1>1, PTL

-----------------------------------------------------------------------------
(* Patience *)

\* A later entry of the list is a later photo.
Rising(s) == \A i, j \in DOMAIN s : i < j => s[i] < s[j]

\* The list s holds the set S, in order.
Shows(s, S) == Rising(s) /\ S = {s[i] : i \in DOMAIN s}

\* The screen a call is made from.
Home == [customer |-> "addCustomer", start |-> "visitStart", gps |-> "gps", before |-> "before",
         notes |-> "notes", audio |-> "notes", after |-> "after"]

\* How far a capture has come when this screen is on the stack.
Reached(s, d, rows) ==
  /\ s \in {"gps", "before", "notes", "after", "analysis"} => d.visit # "none"
  /\ s \in {"before", "notes", "after", "analysis"} => rows[d.visit].located
  /\ s \in {"notes", "after", "analysis"} => Len(d.before) >= 1

\* Customers are chosen at the bottom of the stack and nowhere else; the
\* analysis is on top of it.
Way(S, d, rows) ==
  \A i \in 1..Len(S) :
    /\ Reached(S[i], d, rows)
    /\ S[i] = "customers" <=> i = 1
    /\ S[i] = "addCustomer" => i = 2
    /\ S[i] = "analysis" => i = Len(S) /\ Len(d.after) = Len(d.before)

\* Everything there is has a visit of its own; a draft without one is empty.
Owned(d, rows, m) ==
  /\ d.visit = "none" => d.before = <<>> /\ d.after = <<>>
  /\ d.visit # "none" => rows[d.visit].customer # "none"
  /\ \A a \in DOMAIN m : rows[m[a].visit].customer # "none"

\* The draft lists its visit's attached photos in order, all but the one
\* whose upload is about to be answered.
InList(d, phase, T, m) ==
  /\ Rising(d[phase])
  /\ \A i \in DOMAIN d[phase] : m[d[phase][i]].visit = d.visit
  /\ \A a \in PhotosOf(d.visit, phase, m) :
       \/ \E i \in DOMAIN d[phase] : d[phase][i] = a
       \/ \E t \in T : t.at = "answer" /\ t.op = phase /\ t.asset = a

\* A call is still where and about what it was made for.
InPlace(t, screen, up, d, rows) ==
  /\ t.here /\ Home[t.op] = screen
  /\ t.op \notin {"customer", "start"} => d.visit # "none" /\ t.visit = d.visit
  /\ t.op = "start" => d.visit = "none" /\ rows[t.visit].customer = "none"
  /\ t.at = "read" => t.row = Updated(rows[t.visit], t.op)
  /\ t.op \in Phases => up /\ t.list = d[t.op]
  /\ t.op \in Phases /\ t.at \in {"put", "answer"} => \A i \in DOMAIN t.list : t.list[i] < t.asset

InOrder(S, up, d, T, rows, m) ==
  /\ Way(S, d, rows) /\ Owned(d, rows, m)
  /\ \A phase \in Phases : InList(d, phase, T, m)
  /\ \A t \in T : InPlace(t, S[Len(S)], up, d, rows)
  /\ \A t, u \in T : t.op = u.op => t = u

Ordered == InOrder(stack, uploading, draft, tasks, visits, media)

\* A technician who waits for every screen keeps the app in order.
Patient == haste = 0 => Ordered

\* A report that was captured patiently keeps the photos that it showed, in
\* pairs, until one comes late.
AsShown(report, m) ==
  report.patient /\ ~report.late =>
    /\ \A phase \in Phases : Shows(report[phase], PhotosOf(report.visit, phase, m))
    /\ Len(report.after) = Len(report.before)
    /\ report.analysed =>
         report.pairs = {<<report.before[i], report.after[i]>> : i \in DOMAIN report.before}

Shown == \A r \in DOMAIN reports : AsShown(reports[r], media)

-----------------------------------------------------------------------------
(* Lists in order *)

\* As many photos as places.
LEMMA RisingCount ==
  ASSUME NEW s \in Seq(Nat), Rising(s), NEW m \in 0..Len(s)
  PROVE  LET S == {s[k] : k \in 1..m} IN IsFiniteSet(S) /\ Cardinality(S) = m
<1>. DEFINE S == {s[k] : k \in 1..m}
            f == [k \in 1..m |-> s[k]]
<1>1. Len(s) \in Nat /\ DOMAIN s = 1..Len(s) /\ \A k \in 1..Len(s) : s[k] \in Nat
      BY LenProperties, ElementOfSeq
<1>2. m \in Nat /\ 1..m \subseteq 1..Len(s)
      BY <1>1
<1>3. \A i, j \in 1..m : s[i] = s[j] => i = j
  <2>1. \A i, j \in 1..m : i < j \/ j < i \/ i = j
        BY <1>2
  <2>2. \A i, j \in 1..m : i < j => s[i] < s[j]
        BY <1>1, <1>2 DEF Rising
  <2>3. \A i, j \in 1..m : i < j => s[i] # s[j]
        BY <1>1, <1>2, <2>2
  <2>. QED BY <2>1, <2>3, Zenon
<1>4. f \in Bijection(1..m, S)
      BY <1>3 DEF Bijection, Injection, Surjection, IsInjective
<1>5. ExistsBijection(1..m, S)
      BY <1>4 DEF ExistsBijection
<1>6. IsFiniteSet(1..m) /\ Cardinality(1..m) = m
  <2>1. 1 \in Int /\ m \in Int
        BY <1>2
  <2>2. IsFiniteSet(1..m) /\ Cardinality(1..m) = IF 1 > m THEN 0 ELSE m - 1 + 1
        BY <2>1, FS_Interval
  <2>. QED BY <1>2, <2>2
<1>. HIDE DEF S
<1>7. IsFiniteSet(S) /\ Cardinality(S) = m
      BY <1>5, <1>6, FS_Bijection
<1>. QED BY <1>7 DEF S

\* A list in order gives every photo its place.
LEMMA ShowsPlaces ==
  ASSUME NEW s \in Photos, NEW S, Shows(s, S)
  PROVE  /\ IsFiniteSet(S) /\ Cardinality(S) = Len(s)
         /\ \A i \in DOMAIN s : Place(S, s[i]) = i - 1
<1>1. s \in Seq(AssetIds) /\ Rising(s)
      BY PhotosAre DEF Shows
<1>2. AssetIds \subseteq Nat
      BY CaptureAssumption DEF AssetIds
<1>3. Len(s) \in Nat /\ DOMAIN s = 1..Len(s) /\ \A k \in 1..Len(s) : s[k] \in Nat
      BY <1>1, <1>2, LenProperties, ElementOfSeq
<1>4. s \in Seq(Nat)
      BY <1>3, <1>1, SeqDef
<1>5. S = {s[k] : k \in 1..Len(s)}
      BY <1>3 DEF Shows
<1>6. IsFiniteSet(S) /\ Cardinality(S) = Len(s)
  <2>1. Len(s) \in 0..Len(s)
        BY <1>3
  <2>. QED BY <1>1, <1>4, <1>5, <2>1, RisingCount
<1>7. ASSUME NEW i \in 1..Len(s) PROVE Place(S, s[i]) = i - 1
  <2>1. i - 1 \in 0..Len(s)
        BY <1>3
  <2>2. \A k \in 1..Len(s) : s[k] < s[i] <=> k \in 1..(i - 1)
    <3>1. \A k \in 1..Len(s) : k < i \/ k = i \/ i < k
          BY <1>3
    <3>2. \A k \in 1..Len(s) : /\ k < i => s[k] < s[i]
                               /\ i < k => s[i] < s[k]
          BY <1>1, <1>3 DEF Rising
    <3>3. \A k \in 1..Len(s) : s[k] < s[i] <=> k < i
          BY <1>3, <3>1, <3>2
    <3>4. \A k \in 1..Len(s) : k < i <=> k \in 1..(i - 1)
          BY <1>3
    <3>. QED BY <3>3, <3>4
  <2>3. 1..(i - 1) \subseteq 1..Len(s)
        BY <1>3
  <2>4. {j \in S : j < s[i]} = {s[k] : k \in 1..(i - 1)}
        BY <1>5, <2>2, <2>3
  <2>5. Cardinality({s[k] : k \in 1..(i - 1)}) = i - 1
        BY <1>1, <1>4, <2>1, RisingCount
  <2>. QED BY <2>4, <2>5 DEF Place
<1>. QED BY <1>3, <1>6, <1>7

\* The analysis pairs by place what the screens showed side by side.
LEMMA ShowsPairs ==
  ASSUME NEW b \in Photos, NEW B, Shows(b, B), NEW a \in Photos, NEW A, Shows(a, A), Len(a) = Len(b)
  PROVE  Paired(B, A) = {<<b[i], a[i]>> : i \in DOMAIN b}
<1>1. b \in Seq(AssetIds) /\ a \in Seq(AssetIds)
      BY PhotosAre
<1>2. DOMAIN b = 1..Len(b) /\ DOMAIN a = 1..Len(b) /\ Len(b) \in Nat
      BY <1>1, LenProperties
<1>3. /\ \A i \in 1..Len(b) : Place(B, b[i]) = i - 1
      /\ \A i \in 1..Len(b) : Place(A, a[i]) = i - 1
      BY <1>2, ShowsPlaces
<1>4. B = {b[i] : i \in 1..Len(b)} /\ A = {a[i] : i \in 1..Len(b)}
      BY <1>2 DEF Shows
<1>5. \A i, j \in 1..Len(b) : i - 1 = j - 1 => i = j
      BY <1>2
<1>6. ASSUME NEW pair \in B \X A, Place(B, pair[1]) = Place(A, pair[2])
      PROVE  \E i \in 1..Len(b) : pair = <<b[i], a[i]>>
  <2>1. PICK i \in 1..Len(b), j \in 1..Len(b) : pair = <<b[i], a[j]>>
        BY <1>4
  <2>2. i = j
        BY <1>3, <1>5, <1>6, <2>1
  <2>. QED BY <2>1, <2>2
<1>7. ASSUME NEW i \in 1..Len(b)
      PROVE  <<b[i], a[i]>> \in B \X A /\ Place(B, b[i]) = Place(A, a[i])
      BY <1>3, <1>4
<1>8. Paired(B, A) \subseteq {<<b[i], a[i]>> : i \in 1..Len(b)}
      BY <1>6 DEF Paired
<1>9. {<<b[i], a[i]>> : i \in 1..Len(b)} \subseteq Paired(B, A)
      BY <1>7 DEF Paired
<1>. QED BY <1>2, <1>8, <1>9

\* A later photo keeps a list in order.
LEMMA RisingExtended ==
  ASSUME NEW s \in Seq(Nat), Rising(s), NEW a \in Nat, \A i \in DOMAIN s : s[i] < a
  PROVE  /\ Rising(Append(s, a)) /\ Len(Append(s, a)) = Len(s) + 1 /\ Len(s) \in Nat
         /\ \A x : (\E i \in DOMAIN Append(s, a) : Append(s, a)[i] = x)
                     <=> x = a \/ \E i \in DOMAIN s : s[i] = x
<1>1. Len(s) \in Nat /\ DOMAIN s = 1..Len(s)
      BY LenProperties
<1>2. /\ Append(s, a) \in Seq(Nat) /\ Len(Append(s, a)) = Len(s) + 1
      /\ \A i \in 1..Len(s) : Append(s, a)[i] = s[i]
      /\ Append(s, a)[Len(s) + 1] = a
      BY AppendProperties
<1>3. DOMAIN Append(s, a) = 1..(Len(s) + 1)
      BY <1>2, LenProperties
<1>. DEFINE u == Append(s, a)
            n == Len(s)
<1>4. n \in Nat /\ DOMAIN s = 1..n /\ DOMAIN u = 1..(n + 1) /\ u[n + 1] = a
      /\ \A i \in 1..n : u[i] = s[i]
      BY <1>1, <1>2, <1>3
<1>. HIDE DEF u, n
<1>5. \A i \in 1..(n + 1) : i \in 1..n \/ i = n + 1
      BY <1>4
<1>6. ASSUME NEW i \in 1..(n + 1), NEW j \in 1..(n + 1), i < j
      PROVE  u[i] < u[j]
  <2>1. i \in 1..n
        BY <1>4, <1>6
  <2>2. CASE j \in 1..n
        BY <1>4, <1>6, <2>1, <2>2 DEF Rising
  <2>3. CASE j = n + 1
        BY <1>4, <2>1, <2>3
  <2>. QED BY <1>5, <2>2, <2>3
<1>7. 1..n \subseteq 1..(n + 1) /\ n + 1 \in 1..(n + 1)
      BY <1>4
<1>8. Rising(u)
      BY <1>4, <1>6 DEF Rising
<1>9. \A x : (\E i \in DOMAIN u : u[i] = x) <=> x = a \/ \E i \in DOMAIN s : s[i] = x
      BY <1>4, <1>5, <1>7
<1>. QED BY <1>1, <1>2, <1>8, <1>9 DEF u

-----------------------------------------------------------------------------
(* The way to the screen on display *)

\* What a call is, by the screen it is made from.
LEMMA HomeIs ==
  \A t \in Tasks :
    /\ Home[t.op] \notin {"customers", "analysis"}
    /\ t.op = "customer" <=> Home[t.op] = "addCustomer"
    /\ t.op = "start" <=> Home[t.op] = "visitStart"
    /\ t.op = "gps" <=> Home[t.op] = "gps"
    /\ \A phase \in Phases : t.op = phase <=> Home[t.op] = phase
    /\ t.op \in {"notes", "audio"} <=> Home[t.op] = "notes"
<1>. SUFFICES ASSUME NEW op \in {"customer", "start", "gps", "notes", "audio"} \union Phases
              PROVE  /\ Home[op] \notin {"customers", "analysis"}
                     /\ op = "customer" <=> Home[op] = "addCustomer"
                     /\ op = "start" <=> Home[op] = "visitStart"
                     /\ op = "gps" <=> Home[op] = "gps"
                     /\ \A phase \in Phases : op = phase <=> Home[op] = phase
                     /\ op \in {"notes", "audio"} <=> Home[op] = "notes"
     BY DEF Tasks
<1>1. /\ Home["customer"] = "addCustomer" /\ Home["start"] = "visitStart" /\ Home["gps"] = "gps"
      /\ Home["before"] = "before" /\ Home["notes"] = "notes" /\ Home["audio"] = "notes"
      /\ Home["after"] = "after"
      BY DEF Home
<1>2. op \in {"customer", "start", "gps", "notes", "audio", "before", "after"}
      BY DEF Phases
<1>. QED BY <1>1, <1>2 DEF Phases

\* One screen further.
LEMMA WayOn ==
  ASSUME NEW S \in Seq(Screens), Len(S) >= 1, NEW d, NEW rows, Way(S, d, rows), S[Len(S)] # "analysis",
         NEW s \in Screens, s # "customers", s = "addCustomer" => Len(S) = 1, Reached(s, d, rows),
         s = "analysis" => Len(d.after) = Len(d.before)
  PROVE  Way(Append(S, s), d, rows) /\ Append(S, s)[Len(Append(S, s))] = s
<1>. DEFINE n == Len(S)
            u == Append(S, s)
<1>1. n \in Nat /\ n >= 1
      BY LenProperties
<1>2. Len(u) = n + 1 /\ u[n + 1] = s /\ \A i \in 1..n : u[i] = S[i]
      BY AppendProperties
<1>. HIDE DEF u
<1>3. ASSUME NEW i \in 1..n
      PROVE  /\ Reached(u[i], d, rows)
             /\ u[i] = "customers" <=> i = 1
             /\ u[i] = "addCustomer" => i = 2
             /\ u[i] # "analysis"
      BY <1>1, <1>2, <1>3 DEF Way
<1>4. \A i \in 1..(n + 1) : i \in 1..n \/ i = n + 1
      BY <1>1
<1>5. n + 1 # 1 /\ (n = 1 => n + 1 = 2)
      BY <1>1
<1>6. ASSUME NEW i \in 1..(n + 1)
      PROVE  /\ Reached(u[i], d, rows)
             /\ u[i] = "customers" <=> i = 1
             /\ u[i] = "addCustomer" => i = 2
             /\ u[i] = "analysis" => i = n + 1 /\ Len(d.after) = Len(d.before)
  <2>1. CASE i \in 1..n
        BY <1>3, <2>1
  <2>2. CASE i = n + 1
        BY <1>2, <1>5, <2>2
  <2>. QED BY <1>4, <2>1, <2>2
<1>7. Way(u, d, rows)
      BY <1>2, <1>6 DEF Way
<1>. QED BY <1>2, <1>7 DEF u

\* One screen back.
LEMMA WayBack ==
  ASSUME NEW S \in Seq(Screens), Len(S) > 1, NEW d, NEW rows, Way(S, d, rows)
  PROVE  LET below == SubSeq(S, 1, Len(S) - 1)
         IN /\ below \in Seq(Screens) /\ Len(below) = Len(S) - 1 /\ Len(below) >= 1
            /\ Way(below, d, rows) /\ below[Len(below)] # "analysis"
<1>. DEFINE n == Len(S)
            below == SubSeq(S, 1, n - 1)
<1>1. n \in Nat /\ n > 1
      BY LenProperties
<1>2. /\ below \in Seq(Screens) /\ Len(below) = n - 1
      /\ \A i \in 1..n - 1 : below[i] = S[i]
  <2>1. \A i \in 1..n - 1 : S[i] \in Screens
        BY <1>1, ElementOfSeq
  <2>2. /\ below \in Seq(Screens) /\ Len(below) = IF 1 <= n - 1 THEN (n - 1) - 1 + 1 ELSE 0
        /\ \A i \in 1..(n - 1) - 1 + 1 : below[i] = S[1 + i - 1]
        BY <1>1, <2>1, SubSeqProperties
  <2>. QED BY <1>1, <2>2
<1>. HIDE DEF below
<1>3. ASSUME NEW i \in 1..n - 1
      PROVE  /\ Reached(below[i], d, rows)
             /\ below[i] = "customers" <=> i = 1
             /\ below[i] = "addCustomer" => i = 2
             /\ below[i] # "analysis"
  <2>1. i \in 1..n /\ i # n
        BY <1>1
  <2>. QED BY <1>2, <2>1 DEF Way
<1>4. Way(below, d, rows)
      BY <1>2, <1>3 DEF Way
<1>5. n - 1 \in 1..n - 1 /\ n - 1 >= 1
      BY <1>1
<1>. QED BY <1>2, <1>3, <1>4, <1>5 DEF below

\* The screens stay while draft and visits go on.
LEMMA WayStays ==
  ASSUME NEW S \in Seq(Screens), Len(S) >= 1, NEW d, NEW e, NEW rows, NEW past, Way(S, d, past),
         \A s \in Screens : Reached(s, d, past) => Reached(s, e, rows),
         S[Len(S)] = "analysis" => Len(e.after) = Len(e.before)
  PROVE  Way(S, e, rows)
<1>1. \A i \in 1..Len(S) : S[i] \in Screens
      BY ElementOfSeq
<1>. QED BY <1>1 DEF Way

\* The first screen is the choice of a customer; customers are added next to it.
LEMMA WayBegins ==
  ASSUME NEW S \in Seq(Screens), Len(S) >= 1, NEW d, NEW rows, Way(S, d, rows)
  PROVE  /\ S[Len(S)] = "customers" => Len(S) = 1
         /\ S[Len(S)] = "addCustomer" => Len(S) = 2
         /\ Reached(S[Len(S)], d, rows)
         /\ S[Len(S)] = "analysis" => Len(d.after) = Len(d.before)
         /\ Way(<<"customers">>, d, rows) /\ <<"customers">>[Len(<<"customers">>)] = "customers"
<1>1. Len(S) \in 1..Len(S)
      BY LenProperties
<1>2. Len(<<"customers">>) = 1 /\ <<"customers">>[1] = "customers"
      OBVIOUS
<1>3. Reached("customers", d, rows)
      BY DEF Reached
<1>4. \A i \in 1..1 : i = 1
      OBVIOUS
<1>5. Way(<<"customers">>, d, rows)
      BY <1>2, <1>3, <1>4 DEF Way
<1>. QED BY <1>1, <1>2, <1>5 DEF Way

\* With no call under way there is no more to keep.
LEMMA QuietOrder ==
  ASSUME NEW S, NEW d, NEW rows, NEW m, Way(S, d, rows), Owned(d, rows, m),
         \A phase \in Phases : InList(d, phase, {}, m), NEW up
  PROVE  InOrder(S, up, d, {}, rows, m)
BY DEF InOrder

\* No calls are none on another screen either.
LEMMA ShowQuiet ==
  ASSUME NEW new, Show(new, {}) PROVE stack' = new /\ tasks' = {}
BY DEF Show, Unmounted

-----------------------------------------------------------------------------
(* A patient technician *)

\* A step that is not hasty does not meet the condition.
LEMMA NotHasty ==
  ASSUME haste = 0, haste' = 0, NEW c \in BOOLEAN, Hasty(c) PROVE ~c
BY DEF Hasty

\* What is used of the invariant.
LEMMA OrderFacts ==
  ASSUME IInv, Ordered
  PROVE  /\ stack \in Seq(Screens) /\ Len(stack) >= 1 /\ Len(stack) \in Nat
         /\ draft \in Drafts /\ draft.before \in Photos /\ draft.after \in Photos
         /\ visits \in [Visits -> Rows] /\ tasks \subseteq Tasks
         /\ Way(stack, draft, visits) /\ Owned(draft, visits, media)
         /\ \A phase \in Phases : InList(draft, phase, tasks, media)
         /\ \A t \in tasks : TaskOk(t, media) /\ InPlace(t, Top, uploading, draft, visits)
         /\ \A t, u \in tasks : t.op = u.op => t = u
<1>1. /\ StackOk(stack) /\ DraftOk(draft, media) /\ TasksOk(tasks, media) /\ RecordsOk(customers, visits)
      BY DEF IInv
<1>2. stack \in Seq(Screens) /\ Len(stack) >= 1 /\ Len(stack) \in Nat
      BY <1>1, LenProperties DEF StackOk
<1>3. draft \in Drafts /\ draft.before \in Photos /\ draft.after \in Photos
      BY <1>1 DEF DraftOk, Drafts
<1>4. visits \in [Visits -> Rows] /\ tasks \subseteq Tasks /\ \A t \in tasks : TaskOk(t, media)
      BY <1>1 DEF RecordsOk, TasksOk, TaskOk
<1>. QED BY <1>2, <1>3, <1>4 DEF Ordered, InOrder, Top

\* A draft in which a customer has been chosen is as good as new.
LEMMA ChosenInOrder ==
  ASSUME draft \in Drafts, NEW c, NEW rows, NEW m, Owned(draft, rows, m)
  PROVE  /\ Owned(Chosen(c), rows, m) /\ Chosen(c).visit = "none"
         /\ \A phase \in Phases : Chosen(c)[phase] = <<>>
<1>1. /\ Chosen(c).visit = "none" /\ Chosen(c).before = <<>> /\ Chosen(c).after = <<>>
      BY DEF Chosen, Drafts
<1>. QED BY <1>1 DEF Owned, Phases

\* Such a draft lists what its visit has: nothing.
LEMMA NothingListed ==
  ASSUME NEW d, NEW phase, d[phase] = <<>>, NEW m, NEW T, PhotosOf(d.visit, phase, m) = {}
  PROVE  InList(d, phase, T, m)
<1>1. DOMAIN <<>> = {}
      BY EmptySeq
<1>. QED BY <1>1 DEF InList, Rising

\* Every asset is of a visit.
LEMMA AssetsAre ==
  ASSUME MediaOk(media)
  PROVE  /\ media \in Seq(Assets) /\ DOMAIN media = 1..Len(media) /\ Len(media) \in Nat /\ Len(media) <= MaxAssets
         /\ \A a \in DOMAIN media : media[a] \in Assets /\ media[a].visit \in Visits /\ media[a].visit # "none"
<1>1. /\ media \in Seq(Assets) /\ DOMAIN media = 1..Len(media) /\ Len(media) \in Nat
      /\ Len(media) <= MaxAssets
      BY LenProperties DEF MediaOk
<1>2. ASSUME NEW a \in DOMAIN media PROVE media[a] \in Assets
      BY <1>1, ElementOfSeq
<1>. QED BY <1>1, <1>2, CaptureAssumption DEF Assets

\* No photo is of no visit.
LEMMA NoneHasNone ==
  ASSUME MediaOk(media), NEW phase PROVE PhotosOf("none", phase, media) = {}
BY AssetsAre DEF PhotosOf

\* The buttons that lead to another screen, with no call under way.
LEMMA MovesInOrder ==
  ASSUME IInv, Ordered, haste = 0, haste' = 0,
         \/ Back \/ Leave \/ OpenAddCustomer \/ KeepRecording \/ ReviewPhotos
         \/ \E c \in Customers : SelectCustomer(c)
         \/ \E phase \in Phases : Continue(phase)
  PROVE  Ordered'
<1>0. /\ stack \in Seq(Screens) /\ Len(stack) >= 1 /\ Len(stack) \in Nat
      /\ draft \in Drafts /\ Way(stack, draft, visits) /\ Owned(draft, visits, media)
      /\ \A phase \in Phases : InList(draft, phase, tasks, media)
      BY OrderFacts
<1>1. tasks = {} /\ UNCHANGED <<visits, media>>
  <2>1. (tasks # {}) \in BOOLEAN
        OBVIOUS
  <2>2. Hasty(tasks # {}) /\ UNCHANGED server
        BY DEF Back, Leave, OpenAddCustomer, KeepRecording, ReviewPhotos, SelectCustomer, Continue
  <2>. QED BY <2>1, <2>2, NotHasty DEF server
<1>2. ASSUME NEW new, Show(new, tasks), Way(new, draft', visits), Owned(draft', visits, media),
             \A phase \in Phases : InList(draft', phase, {}, media)
      PROVE  Ordered'
  <2>1. stack' = new /\ tasks' = {}
        BY <1>1, <1>2, ShowQuiet
  <2>2. InOrder(new, uploading', draft', {}, visits, media)
        BY <1>2, QuietOrder
  <2>. QED BY <1>1, <2>1, <2>2 DEF Ordered
<1>3. ASSUME NEW new, Show(new, tasks), Way(new, draft, visits), draft' = draft
      PROVE  Ordered'
      BY <1>0, <1>1, <1>2, <1>3
<1>4. ASSUME NEW s \in Screens, s # "customers", s = "addCustomer" => Len(stack) = 1, Top # "analysis",
             Reached(s, draft, visits), s = "analysis" => Len(draft.after) = Len(draft.before),
             Navigate(s, tasks), draft' = draft
      PROVE  Ordered'
  <2>1. Way(Append(stack, s), draft, visits)
        BY <1>0, <1>4, WayOn DEF Top
  <2>. QED BY <1>3, <1>4, <2>1 DEF Navigate
<1>5. Reached(Top, draft, visits) /\ (Top = "customers" => Len(stack) = 1)
      BY <1>0, WayBegins DEF Top
<1>6. CASE Back
  <2>1. Way(SubSeq(stack, 1, Len(stack) - 1), draft, visits)
        BY <1>0, <1>6, WayBack DEF Back
  <2>. QED BY <1>3, <1>6, <2>1 DEF Back
<1>7. CASE Leave
  <2>1. Way(<<"customers">>, draft, visits)
        BY <1>0, WayBegins
  <2>. QED BY <1>3, <1>7, <2>1 DEF Leave
<1>8. CASE OpenAddCustomer
  <2>1. Reached("addCustomer", draft, visits)
        BY DEF Reached
  <2>. QED BY <1>4, <1>5, <1>8, <2>1 DEF OpenAddCustomer, Screens
<1>9. CASE KeepRecording
  <2>1. Reached("after", draft, visits) /\ Top = "notes"
        BY <1>5, <1>9 DEF KeepRecording, Reached
  <2>. QED BY <1>4, <1>9, <2>1 DEF KeepRecording, Screens
<1>10. CASE ReviewPhotos
  <2>. DEFINE below == SubSeq(stack, 1, Len(stack) - 1)
  <2>1. Top = "analysis" /\ Show(Append(below, "after"), tasks) /\ draft' = draft
        BY <1>10 DEF ReviewPhotos, Replace
  <2>2. Len(stack) > 1
    <3>1. Len(stack) = 1 => stack[1] = "customers"
          BY <1>0 DEF Way
    <3>2. stack[Len(stack)] = "analysis"
          BY <2>1 DEF Top
    <3>3. Len(stack) # 1
          BY <3>1, <3>2
    <3>4. \A k \in Nat : k >= 1 /\ k # 1 => k > 1
          OBVIOUS
    <3>. QED BY <1>0, <3>3, <3>4, Zenon
  <2>3. below \in Seq(Screens) /\ Len(below) >= 1 /\ Way(below, draft, visits) /\ below[Len(below)] # "analysis"
        BY <1>0, <2>2, WayBack
  <2>4. Reached("after", draft, visits)
        BY <1>5, <2>1 DEF Reached
  <2>. HIDE DEF below
  <2>5. Way(Append(below, "after"), draft, visits)
        BY <2>3, <2>4, WayOn DEF Screens
  <2>. QED BY <1>3, <2>1, <2>5
<1>11. ASSUME NEW c \in Customers, SelectCustomer(c)
       PROVE  Ordered'
  <2>1. Top = "customers" /\ draft' = Chosen(c) /\ Show(Append(stack, "visitStart"), tasks)
        BY <1>11 DEF SelectCustomer, Navigate
  <2>. DEFINE d == Chosen(c)
  <2>2. Owned(d, visits, media) /\ d.visit = "none" /\ \A phase \in Phases : d[phase] = <<>>
        BY <1>0, ChosenInOrder
  <2>. HIDE DEF d
  <2>3. \A phase \in Phases : InList(d, phase, {}, media)
        BY <2>2, NoneHasNone, NothingListed DEF IInv
  <2>4. Way(stack, d, visits)
    <3>1. Len(stack) = 1
          BY <1>5, <2>1
    <3>2. stack[1] = "customers"
          BY <2>1, <3>1, Zenon DEF Top
    <3>3. \A i \in 1..Len(stack) : i = 1
          BY <3>1
    <3>. QED BY <3>2, <3>3 DEF Way, Reached
  <2>5. Way(Append(stack, "visitStart"), d, visits)
    <3>1. Reached("visitStart", d, visits)
          BY DEF Reached
    <3>. QED BY <1>0, <2>1, <2>4, <3>1, WayOn DEF Screens, Top
  <2>. QED BY <1>2, <2>1, <2>2, <2>3, <2>5 DEF d
<1>12. ASSUME NEW phase \in Phases, Continue(phase)
       PROVE  Ordered'
  <2>1. CASE phase = "before"
    <3>1. Top = "before" /\ Len(draft.before) >= 1 /\ Navigate("notes", tasks) /\ draft' = draft
          BY <1>12, <2>1 DEF Continue
    <3>2. Reached("notes", draft, visits)
          BY <1>5, <3>1 DEF Reached
    <3>. QED BY <1>4, <3>1, <3>2 DEF Screens
  <2>2. CASE phase = "after"
    <3>1. /\ Top = "after" /\ Len(draft.after) = Len(draft.before) /\ Navigate("analysis", tasks)
          /\ draft' = draft
          BY <1>12, <2>2 DEF Continue
    <3>2. Reached("analysis", draft, visits)
          BY <1>5, <3>1 DEF Reached
    <3>. QED BY <1>4, <3>1, <3>2 DEF Screens
  <2>. QED BY <2>1, <2>2 DEF Phases
<1>. QED BY <1>6, <1>7, <1>8, <1>9, <1>10, <1>11, <1>12

\* A call is sent from the screen that it is made from, and no other of its kind is under way.
LEMMA SendInOrder ==
  ASSUME Ordered, NEW q, Send(q), UNCHANGED <<stack, draft, visits, media>>, uploading => uploading',
         InPlace(q, Top, uploading', draft, visits), \A u \in tasks : u.op # q.op
  PROVE  Ordered'
<1>1. tasks' = tasks \union {q}
      BY DEF Send
<1>2. \A phase \in Phases : InList(draft, phase, tasks', media)
      BY <1>1 DEF Ordered, InOrder, InList
<1>3. \A t \in tasks : InPlace(t, Top, uploading', draft, visits)
      BY DEF Ordered, InOrder, InPlace, Top
<1>4. \A t \in tasks' : InPlace(t, Top, uploading', draft, visits)
      BY <1>1, <1>3
<1>5. \A t, u \in tasks' : t.op = u.op => t = u
      BY <1>1 DEF Ordered, InOrder
<1>. QED BY <1>2, <1>4, <1>5 DEF Ordered, InOrder, Top

\* A call that carries no photos is in place on its screen.
LEMMA PlainInPlace ==
  ASSUME NEW t, t.here, t.op \in {"customer", "start", "gps", "notes", "audio"}, t.at # "read",
         NEW screen, Home[t.op] = screen, NEW d, NEW rows,
         t.op \notin {"customer", "start"} => d.visit # "none" /\ t.visit = d.visit,
         t.op = "start" => d.visit = "none" /\ rows[t.visit].customer = "none", NEW up
  PROVE  InPlace(t, screen, up, d, rows)
<1>1. t.op \notin Phases
      BY DEF Phases
<1>. QED BY <1>1 DEF InPlace

\* The buttons that send a call.
LEMMA SendsInOrder ==
  ASSUME IInv, Ordered, haste = 0, haste' = 0,
         \/ \E c \in Customers : SaveCustomer(c)
         \/ \E v \in Visits : StartVisit(v)
         \/ ConfirmLocation \/ SaveNotes \/ RecordVoice
         \/ \E phase \in Phases : AddFiles(phase)
  PROVE  Ordered'
<1>0. /\ draft \in Drafts /\ draft.visit \in Visits \union {"none"} /\ draft.customer \in Customers \union {"none"}
      /\ \A t \in tasks : t.here /\ InPlace(t, Top, uploading, draft, visits)
      BY OrderFacts DEF Drafts, InPlace
<1>1. \A op : Idle(op) => \A u \in tasks : u.op # op
      BY <1>0 DEF Idle
<1>2. NoTask \in Tasks /\ NoTask.here /\ NoTask.at = "sent"
      BY NoTaskFacts DEF NoTask
<1>3. ASSUME NEW c \in Customers, SaveCustomer(c)
      PROVE  Ordered'
  <2>. DEFINE q == [NoTask EXCEPT !.op = "customer", !.customer = c]
  <2>1. q.here /\ q.op = "customer" /\ q.at = "sent"
        BY <1>2 DEF Tasks
  <2>2. Send(q) /\ Top = "addCustomer" /\ Idle("customer") /\ UNCHANGED <<stack, uploading, draft, visits, media>>
        BY <1>3 DEF SaveCustomer, Stay, server
  <2>. HIDE DEF q
  <2>3. Home[q.op] = Top
        BY <2>1, <2>2 DEF Home
  <2>4. InPlace(q, Top, uploading', draft, visits)
        BY <2>1, <2>3, PlainInPlace
  <2>. QED BY <1>1, <2>1, <2>2, <2>4, SendInOrder
<1>4. ASSUME NEW v \in Visits, StartVisit(v)
      PROVE  Ordered'
  <2>. DEFINE q == [NoTask EXCEPT !.op = "start", !.customer = draft.customer, !.visit = v]
  <2>1. q.here /\ q.op = "start" /\ q.at = "sent" /\ q.visit = v
        BY <1>2 DEF Tasks
  <2>2. /\ Send(q) /\ Top = "visitStart" /\ Idle("start") /\ UNCHANGED <<stack, uploading, draft, visits, media>>
        /\ visits[v] = NoVisit /\ Hasty(draft.visit # "none")
        BY <1>4 DEF StartVisit, Stay, server
  <2>. HIDE DEF q
  <2>3. draft.visit = "none"
    <3>1. (draft.visit # "none") \in BOOLEAN
          OBVIOUS
    <3>. QED BY <2>2, <3>1, NotHasty
  <2>4. visits[v].customer = "none"
        BY <2>2 DEF NoVisit
  <2>5. InPlace(q, Top, uploading', draft, visits)
        BY <2>1, <2>2, <2>3, <2>4, PlainInPlace DEF Home
  <2>. QED BY <1>1, <2>1, <2>2, <2>5, SendInOrder
<1>5. ASSUME NEW op \in {"gps", "notes", "audio"}, draft.visit # "none", Idle(op), Home[op] = Top,
             NEW q, q.here, q.op = op, q.at # "read", q.visit = draft.visit, Send(q),
             UNCHANGED <<stack, uploading, draft, visits, media>>
      PROVE  Ordered'
  <2>1. InPlace(q, Top, uploading', draft, visits)
        BY <1>5, PlainInPlace
  <2>. QED BY <1>1, <1>5, <2>1, SendInOrder
<1>6. ASSUME NEW op \in {"gps", "notes"}
      PROVE  LET q == [NoTask EXCEPT !.op = op, !.visit = draft.visit]
             IN q.here /\ q.op = op /\ q.at = "sent" /\ q.visit = draft.visit
      BY <1>2 DEF Tasks
<1>7. CASE ConfirmLocation
  <2>1. /\ Top = "gps" /\ draft.visit # "none" /\ Idle("gps")
        /\ Send([NoTask EXCEPT !.op = "gps", !.visit = draft.visit])
        /\ UNCHANGED <<stack, uploading, draft, visits, media>>
        BY <1>7 DEF ConfirmLocation, Stay, server
  <2>2. Home["gps"] = Top
        BY <2>1 DEF Home
  <2>. QED BY <1>5, <1>6, <2>1, <2>2
<1>8. CASE SaveNotes
  <2>1. /\ Top = "notes" /\ draft.visit # "none" /\ Idle("notes")
        /\ Send([NoTask EXCEPT !.op = "notes", !.visit = draft.visit])
        /\ UNCHANGED <<stack, uploading, draft, visits, media>>
        BY <1>8 DEF SaveNotes, Stay, server
  <2>2. Home["notes"] = Top
        BY <2>1 DEF Home
  <2>. QED BY <1>5, <1>6, <2>1, <2>2
<1>9. CASE RecordVoice
  <2>. DEFINE q == [NoTask EXCEPT !.op = "audio", !.at = "recording", !.visit = draft.visit]
  <2>1. /\ Top = "notes" /\ draft.visit # "none" /\ Send(q) /\ Hasty(~Idle("audio"))
        /\ UNCHANGED <<stack, uploading, draft, visits, media>>
        BY <1>9 DEF RecordVoice, Stay, server
  <2>2. Home["audio"] = Top
        BY <2>1 DEF Home
  <2>3. q.here /\ q.op = "audio" /\ q.at = "recording" /\ q.visit = draft.visit
        BY <1>2 DEF Tasks
  <2>. HIDE DEF q
  <2>4. Idle("audio")
        BY <2>1, NotHasty DEF Idle
  <2>. QED BY <1>5, <2>1, <2>2, <2>3, <2>4
<1>10. ASSUME NEW phase \in Phases, AddFiles(phase)
       PROVE  Ordered'
  <2>1. PICK n \in 1..MaxBefore :
          Send([NoTask EXCEPT !.op = phase, !.at = "ask", !.visit = draft.visit, !.list = draft[phase], !.left = n])
        BY <1>10 DEF AddFiles
  <2>. DEFINE q == [NoTask EXCEPT !.op = phase, !.at = "ask", !.visit = draft.visit,
                      !.list = draft[phase], !.left = n]
  <2>2. q.here /\ q.op = phase /\ q.at = "ask" /\ q.visit = draft.visit /\ q.list = draft[phase]
        BY <1>2 DEF Tasks
  <2>3. Send(q)
        BY <2>1
  <2>. HIDE DEF q
  <2>4. /\ Top = phase /\ draft.visit # "none" /\ uploading' = TRUE /\ Hasty(uploading)
        /\ UNCHANGED <<stack, draft, visits, media>>
        BY <1>10 DEF AddFiles, server
  <2>5. ~uploading
    <3>1. uploading \in BOOLEAN
          BY DEF IInv
    <3>. QED BY <2>4, <3>1, NotHasty
  <2>6. \A u \in tasks : u.op # q.op
        BY <1>0, <2>2, <2>5 DEF InPlace
  <2>7. InPlace(q, Top, uploading', draft, visits)
    <3>1. Home[phase] = phase
          BY DEF Home, Phases
    <3>2. phase \notin {"customer", "start"}
          BY DEF Phases
    <3>. QED BY <2>2, <2>4, <3>1, <3>2 DEF InPlace
  <2>. QED BY <2>3, <2>4, <2>6, <2>7, SendInOrder
<1>. QED BY <1>3, <1>4, <1>7, <1>8, <1>9, <1>10

\* Only the notes screen has calls of two kinds.
LEMMA Alone ==
  ASSUME IInv, Ordered, NEW t \in tasks, t.op \in {"customer", "start", "gps"} \union Phases
  PROVE  tasks = {t}
<1>1. /\ tasks \subseteq Tasks /\ \A u \in tasks : Home[u.op] = Top
      /\ \A u, v \in tasks : u.op = v.op => u = v
      BY OrderFacts DEF InPlace
<1>2. ASSUME NEW u \in tasks PROVE u.op = t.op
      BY <1>1, HomeIs DEF Phases
<1>. QED BY <1>1, <1>2

\* A call goes on to its next stage.
LEMMA GoesOn ==
  ASSUME Ordered, NEW t \in tasks, NEW q, q.op = t.op, tasks' = (tasks \ {t}) \union {q},
         UNCHANGED <<stack, draft>>, uploading' = uploading,
         \A u \in tasks \ {t} : InPlace(u, Top, uploading, draft, visits'),
         InPlace(q, Top, uploading, draft, visits'),
         Way(stack, draft, visits'), Owned(draft, visits', media'),
         \A phase \in Phases : InList(draft, phase, tasks', media')
  PROVE  Ordered'
<1>1. \A u \in tasks' : InPlace(u, Top, uploading, draft, visits')
      OBVIOUS
<1>2. \A u, v \in tasks' : u.op = v.op => u = v
      BY DEF Ordered, InOrder
<1>. QED BY <1>1, <1>2 DEF Ordered, InOrder, Top

\* The answers of the calls that change customers and visits.
LEMMA AnswersInOrder ==
  ASSUME IInv, Ordered, haste = 0, haste' = 0, NEW t \in tasks,
         CustomerSaved(t) \/ VisitStarted(t) \/ PatchRead(t) \/ PatchSaved(t)
  PROVE  Ordered'
<1>0. /\ stack \in Seq(Screens) /\ Len(stack) >= 1 /\ Len(stack) \in Nat
      /\ draft \in Drafts /\ visits \in [Visits -> Rows]
      /\ Way(stack, draft, visits) /\ Owned(draft, visits, media)
      /\ TaskOk(t, media) /\ t \in Tasks /\ InPlace(t, Top, uploading, draft, visits)
      /\ \A phase \in Phases : InList(draft, phase, tasks, media)
      BY OrderFacts
<1>1. ASSUME NEW new, Show(new, tasks \ {t}), tasks = {t}, Way(new, draft', visits'),
             Owned(draft', visits', media'), \A phase \in Phases : InList(draft', phase, {}, media')
      PROVE  Ordered'
  <2>1. tasks \ {t} = {}
        BY <1>1
  <2>2. stack' = new /\ tasks' = {}
        BY <1>1, <2>1, ShowQuiet
  <2>3. InOrder(new, uploading', draft', {}, visits', media')
        BY <1>1, QuietOrder
  <2>. QED BY <2>2, <2>3 DEF Ordered
<1>2. CASE CustomerSaved(t)
  <2>. DEFINE below == SubSeq(stack, 1, Len(stack) - 1)
              d == Chosen(t.customer)
  <2>1. /\ t.op = "customer" /\ draft' = d /\ Show(Append(below, "visitStart"), tasks \ {t})
        /\ UNCHANGED <<visits, media>>
        BY <1>2 DEF CustomerSaved, Replace
  <2>2. tasks = {t} /\ Top = "addCustomer"
        BY <1>0, <2>1, Alone, HomeIs DEF InPlace
  <2>3. Len(stack) = 2
        BY <1>0, <2>2, WayBegins DEF Top
  <2>4. below \in Seq(Screens) /\ Len(below) = 1 /\ Way(below, draft, visits) /\ below[Len(below)] # "analysis"
    <3>1. Len(stack) > 1 /\ Len(stack) - 1 = 1
          BY <2>3
    <3>2. /\ below \in Seq(Screens) /\ Len(below) = Len(stack) - 1
          /\ Way(below, draft, visits) /\ below[Len(below)] # "analysis"
          BY <1>0, <3>1, WayBack
    <3>. QED BY <3>1, <3>2, Zenon
  <2>5. Owned(d, visits, media) /\ d.visit = "none" /\ \A phase \in Phases : d[phase] = <<>>
        BY <1>0, ChosenInOrder
  <2>. HIDE DEF below, d
  <2>6. \A phase \in Phases : InList(d, phase, {}, media)
        BY <2>5, NoneHasNone, NothingListed DEF IInv
  <2>7. Way(below, d, visits)
    <3>1. \A i \in 1..Len(below) : i = 1
          BY <2>4
    <3>2. below[1] = "customers"
          BY <2>4 DEF Way
    <3>. QED BY <3>1, <3>2 DEF Way, Reached
  <2>8. Way(Append(below, "visitStart"), d, visits)
    <3>1. Reached("visitStart", d, visits)
          BY DEF Reached
    <3>. QED BY <2>4, <2>7, <3>1, WayOn DEF Screens
  <2>. QED BY <1>1, <2>1, <2>2, <2>5, <2>6, <2>8
<1>3. CASE VisitStarted(t)
  <2>. DEFINE d == [draft EXCEPT !.visit = t.visit]
  <2>1. /\ t.op = "start" /\ draft' = d /\ Show(Append(stack, "gps"), tasks \ {t}) /\ media' = media
        /\ visits' = [visits EXCEPT ![t.visit] = [NoVisit EXCEPT !.customer = t.customer]]
        BY <1>3 DEF VisitStarted, InsertVisit, Navigate
  <2>2. tasks = {t} /\ Top = "visitStart"
        BY <1>0, <2>1, Alone, HomeIs DEF InPlace
  <2>3. /\ draft.visit = "none" /\ visits[t.visit].customer = "none"
        /\ draft.before = <<>> /\ draft.after = <<>>
        BY <1>0, <2>1 DEF InPlace, Owned
  <2>4. t.visit \in Visits /\ t.visit # "none" /\ t.customer # "none"
        BY <1>0, <2>1, CaptureAssumption DEF TaskOk
  <2>5. /\ visits'[t.visit].customer = t.customer
        /\ \A v \in Visits : visits'[v].customer = "none" => visits[v].customer = "none"
        BY <1>0, <2>1, <2>4 DEF NoVisit, Rows
  <2>6. d.visit = t.visit /\ d.before = <<>> /\ d.after = <<>>
        BY <1>0, <2>3 DEF Drafts
  <2>. HIDE DEF d
  <2>7. \A a \in DOMAIN media : media[a].visit \in Visits /\ media[a].visit # t.visit
    <3>1. \A a \in DOMAIN media : media[a].visit \in Visits
          BY AssetsAre DEF IInv
    <3>. QED BY <1>0, <2>3, <3>1 DEF Owned
  <2>8. Owned(d, visits', media)
        BY <1>0, <2>4, <2>5, <2>6, <2>7 DEF Owned
  <2>9. \A phase \in Phases : InList(d, phase, {}, media)
    <3>1. ASSUME NEW phase \in Phases PROVE d[phase] = <<>> /\ PhotosOf(d.visit, phase, media) = {}
          BY <2>6, <2>7 DEF PhotosOf, Phases
    <3>. QED BY <3>1, NothingListed
  <2>10. Way(stack, d, visits')
    <3>1. \A s \in Screens : Reached(s, draft, visits) => Reached(s, d, visits')
          BY <2>3, <2>4, <2>6 DEF Reached
    <3>2. stack[Len(stack)] # "analysis"
          BY <2>2 DEF Top
    <3>. QED BY <1>0, <3>1, <3>2, WayStays
  <2>11. Way(Append(stack, "gps"), d, visits')
    <3>1. Reached("gps", d, visits')
          BY <2>4, <2>6 DEF Reached
    <3>2. stack[Len(stack)] # "analysis"
          BY <2>2 DEF Top
    <3>. QED BY <1>0, <2>10, <3>1, <3>2, WayOn DEF Screens
  <2>. QED BY <1>1, <2>1, <2>2, <2>8, <2>9, <2>11
<1>4. CASE PatchRead(t)
  <2>. DEFINE row == Updated(visits[t.visit], t.op)
              q == [t EXCEPT !.at = "read", !.row = row]
  <2>1. /\ t.op \in {"gps", "notes"} /\ t.at = "sent" /\ tasks' = (tasks \ {t}) \union {q}
        /\ UNCHANGED <<stack, uploading, draft, visits, media>>
        BY <1>4 DEF PatchRead, Stay, server
  <2>2. q.here = t.here /\ q.op = t.op /\ q.at = "read" /\ q.visit = t.visit /\ q.row = row
        BY <1>0 DEF Tasks
  <2>3. t.op \notin Phases /\ t.op \notin {"customer", "start"}
        BY <2>1 DEF Phases
  <2>. HIDE DEF q
  <2>4. InPlace(q, Top, uploading, draft, visits)
        BY <1>0, <2>2, <2>3 DEF InPlace
  <2>5. \A phase \in Phases : InList(draft, phase, tasks', media)
        BY <1>0, <2>1 DEF InList
  <2>6. \A u \in tasks \ {t} : InPlace(u, Top, uploading, draft, visits)
        BY OrderFacts
  <2>. QED BY <1>0, <2>1, <2>2, <2>4, <2>5, <2>6, GoesOn
<1>5. CASE PatchSaved(t)
  <2>1. /\ t.at = "read" /\ visits' = [visits EXCEPT ![t.visit] = t.row] /\ media' = media
        /\ draft' = [draft EXCEPT !.notes = @ \/ t.op = "notes"]
        /\ Show(Append(stack, IF t.op = "gps" THEN "before" ELSE "after"), tasks \ {t})
        /\ Hasty(tasks # {t})
        BY <1>5 DEF PatchSaved, SaveVisit, Navigate
  <2>2. tasks = {t}
    <3>1. (tasks # {t}) \in BOOLEAN
          OBVIOUS
    <3>. QED BY <2>1, <3>1, NotHasty
  <2>3. t.op \in {"gps", "notes"} /\ t.visit \in Visits /\ t.row = Updated(visits[t.visit], t.op)
        /\ draft.visit # "none" /\ t.visit = draft.visit
        BY <1>0, <2>1 DEF TaskOk, InPlace
  <2>4. /\ draft'.visit = draft.visit /\ draft'.before = draft.before /\ draft'.after = draft.after
        /\ \A phase \in Phases : draft'[phase] = draft[phase]
        BY <1>0, <2>1 DEF Drafts, Phases
  <2>5. /\ \A v \in Visits : visits'[v].customer = visits[v].customer /\ (visits[v].located => visits'[v].located)
        /\ t.op = "gps" => visits'[t.visit].located
    <3>1. visits[t.visit] \in Rows
          BY <1>0, <2>3
    <3>2. /\ t.row.customer = visits[t.visit].customer /\ (visits[t.visit].located => t.row.located)
          /\ t.op = "gps" => t.row.located
          BY <2>3, <3>1 DEF Updated, Rows
    <3>. QED BY <1>0, <2>1, <2>3, <3>2
  <2>6. Owned(draft', visits', media)
    <3>1. \A a \in DOMAIN media : media[a].visit \in Visits
          BY AssetsAre DEF IInv
    <3>. QED BY <1>0, <2>3, <2>4, <2>5, <3>1 DEF Owned
  <2>7. \A phase \in Phases : InList(draft', phase, {}, media)
    <3>1. t.at # "answer"
          BY <2>1
    <3>. QED BY <1>0, <2>2, <2>4, <3>1 DEF InList
  <2>8. Top # "analysis" /\ (t.op = "notes" => Top = "notes") /\ (t.op = "gps" => Top = "gps")
        BY <1>0, <2>3, HomeIs DEF InPlace
  <2>9. \A s \in Screens : Reached(s, draft, visits) => Reached(s, draft', visits')
        BY <2>3, <2>4, <2>5 DEF Reached
  <2>10. Way(stack, draft', visits')
        BY <1>0, <2>8, <2>9, WayStays DEF Top
  <2>11. Reached(Top, draft', visits')
        BY <1>0, <2>10, WayBegins DEF Top
  <2>. DEFINE s == IF t.op = "gps" THEN "before" ELSE "after"
  <2>12. Reached(s, draft', visits') /\ s \in Screens /\ s \notin {"customers", "addCustomer", "analysis"}
    <3>1. CASE t.op = "gps"
          BY <2>3, <2>4, <2>5, <3>1 DEF Reached, Screens
    <3>2. CASE t.op = "notes"
          BY <2>8, <2>11, <3>2 DEF Reached, Screens
    <3>. QED BY <2>3, <3>1, <3>2
  <2>. HIDE DEF s
  <2>13. Way(Append(stack, s), draft', visits')
        BY <1>0, <2>8, <2>10, <2>12, WayOn DEF Top
  <2>14. Show(Append(stack, s), tasks \ {t}) /\ media' = media
        BY <2>1 DEF s
  <2>. QED BY <1>1, <2>2, <2>6, <2>7, <2>13, <2>14
<1>. QED BY <1>2, <1>3, <1>4, <1>5

\* What the order says of the draft, it says of any with the same visit and lists.
LEMMA SameLists ==
  ASSUME NEW S, NEW up, NEW d, NEW e, NEW T, NEW rows, NEW m, InOrder(S, up, d, T, rows, m),
         e.visit = d.visit, e.before = d.before, e.after = d.after, \A phase \in Phases : e[phase] = d[phase]
  PROVE  InOrder(S, up, e, T, rows, m)
<1>1. Way(S, e, rows)
      BY DEF InOrder, Way, Reached
<1>2. Owned(e, rows, m)
      BY DEF InOrder, Owned
<1>3. \A phase \in Phases : InList(e, phase, T, m)
      BY DEF InOrder, InList
<1>4. \A t \in T : InPlace(t, S[Len(S)], up, e, rows)
      BY DEF InOrder, InPlace
<1>. QED BY <1>1, <1>2, <1>3, <1>4 DEF InOrder

\* A call ends that no list waits for.
LEMMA Ends ==
  ASSUME IInv, Ordered, NEW t \in tasks, t.at = "answer" => t.op \notin Phases,
         NEW up, uploading /\ t.op \notin Phases => up
  PROVE  InOrder(stack, up, draft, tasks \ {t}, visits, media)
<1>1. \A phase \in Phases : InList(draft, phase, tasks \ {t}, media)
      BY DEF Ordered, InOrder, InList
<1>2. ASSUME NEW u \in tasks \ {t} PROVE InPlace(u, Top, up, draft, visits)
  <2>1. InPlace(u, Top, uploading, draft, visits)
        BY OrderFacts
  <2>2. u.op \in Phases => t.op \notin Phases
        BY Alone
  <2>. QED BY <2>1, <2>2 DEF InPlace
<1>. QED BY <1>1, <1>2 DEF Ordered, InOrder, Top

\* The buttons and calls that leave the lists alone.
LEMMA QuietStepsInOrder ==
  ASSUME IInv, Ordered,
         \/ ChooseTyped \/ ChooseVoice \/ CreateReport
         \/ \E r \in DOMAIN reports : Analyse(r)
         \/ \E t \in tasks : CallFails(t) \/ Recorded(t) \/ StopRecording(t)
         \/ UNCHANGED vars
  PROVE  Ordered'
<1>0. draft \in Drafts /\ tasks \subseteq Tasks
      BY OrderFacts
<1>1. CASE ChooseTyped \/ ChooseVoice
  <2>1. /\ draft'.visit = draft.visit /\ draft'.before = draft.before /\ draft'.after = draft.after
        /\ \A phase \in Phases : draft'[phase] = draft[phase]
        BY <1>0, <1>1 DEF ChooseTyped, ChooseVoice, Drafts, Phases
  <2>2. InOrder(stack, uploading, draft', tasks, visits, media)
        BY <2>1, SameLists DEF Ordered
  <2>. QED BY <1>1, <2>2 DEF ChooseTyped, ChooseVoice, Stay, server, Ordered
<1>2. CASE CreateReport \/ (\E r \in DOMAIN reports : Analyse(r)) \/ UNCHANGED vars
      BY <1>2 DEF CreateReport, AddReport, Analyse, Stay, vars, server, Ordered
<1>3. ASSUME NEW t \in tasks, CallFails(t)
      PROVE  Ordered'
  <2>1. /\ t.at # "answer" /\ tasks' = tasks \ {t} /\ (uploading /\ t.op \notin Phases => uploading')
        /\ UNCHANGED <<stack, draft, visits, media>>
        BY <1>3 DEF CallFails, server
  <2>2. InOrder(stack, uploading', draft, tasks \ {t}, visits, media)
        BY <2>1, Ends
  <2>. QED BY <2>1, <2>2 DEF Ordered
<1>4. ASSUME NEW t \in tasks, Recorded(t)
      PROVE  Ordered'
  <2>1. /\ t.op \notin Phases /\ tasks' = tasks \ {t}
        /\ UNCHANGED <<stack, uploading, visits, media>>
        BY <1>4 DEF Recorded, Stay, server, Phases
  <2>2. InOrder(stack, uploading, draft, tasks \ {t}, visits, media)
        BY <2>1, Ends
  <2>3. /\ draft'.visit = draft.visit /\ draft'.before = draft.before /\ draft'.after = draft.after
        /\ \A phase \in Phases : draft'[phase] = draft[phase]
        BY <1>0, <1>4 DEF Recorded, Drafts, Phases
  <2>4. InOrder(stack, uploading, draft', tasks \ {t}, visits, media)
        BY <2>2, <2>3, SameLists
  <2>. QED BY <2>1, <2>4 DEF Ordered
<1>5. ASSUME NEW t \in tasks, StopRecording(t)
      PROVE  Ordered'
  <2>. DEFINE q == [t EXCEPT !.at = "ask"]
  <2>1. /\ t.at = "recording" /\ tasks' = (tasks \ {t}) \union {q}
        /\ UNCHANGED <<stack, uploading, draft, visits, media>>
        BY <1>5 DEF StopRecording, Stay, server
  <2>2. q.at = "ask" /\ q.op = t.op /\ q.here = t.here /\ q.visit = t.visit /\ q.list = t.list
        BY <1>0 DEF Tasks
  <2>. HIDE DEF q
  <2>3. InPlace(q, Top, uploading, draft, visits)
    <3>1. InPlace(t, Top, uploading, draft, visits)
          BY OrderFacts
    <3>. QED BY <2>2, <3>1 DEF InPlace
  <2>4. \A phase \in Phases : InList(draft, phase, tasks', media)
        BY <2>1 DEF Ordered, InOrder, InList
  <2>5. \A u \in tasks \ {t} : InPlace(u, Top, uploading, draft, visits)
        BY OrderFacts
  <2>6. Way(stack, draft, visits) /\ Owned(draft, visits, media)
        BY OrderFacts
  <2>. QED BY <2>1, <2>2, <2>3, <2>4, <2>5, <2>6, GoesOn
<1>. QED BY <1>1, <1>2, <1>3, <1>4, <1>5

\* An asset is asked for: it is later than all that the draft lists.
LEMMA AskInOrder ==
  ASSUME IInv, Ordered, NEW t \in tasks, Ask(t) PROVE Ordered'
<1>. DEFINE n == Len(media)
            q == [t EXCEPT !.at = "put", !.asset = n + 1]
<1>0. /\ draft \in Drafts /\ DraftOk(draft, media) /\ t \in Tasks /\ TaskOk(t, media)
      /\ Way(stack, draft, visits) /\ Owned(draft, visits, media)
      /\ \A phase \in Phases : InList(draft, phase, tasks, media)
      /\ \A u \in tasks : InPlace(u, Top, uploading, draft, visits)
      BY OrderFacts DEF IInv
<1>1. /\ t.at = "ask" /\ tasks' = (tasks \ {t}) \union {q}
      /\ UNCHANGED <<stack, uploading, draft, visits>>
      BY DEF Ask, Stay
<1>2. q.at = "put" /\ q.op = t.op /\ q.here = t.here /\ q.visit = t.visit /\ q.list = t.list /\ q.asset = n + 1
      BY <1>0 DEF Tasks
<1>. HIDE DEF q
<1>3. /\ n \in Nat /\ DOMAIN media = 1..n /\ DOMAIN media' = 1..(n + 1)
      /\ \A i \in 1..n : media'[i] = media[i]
      /\ media'[n + 1].visit = t.visit
      /\ \A v, phase : PhotosOf(v, phase, media') = PhotosOf(v, phase, media)
      BY AskFacts
<1>4. InPlace(q, Top, uploading, draft, visits)
  <2>1. ASSUME t.op \in Phases, NEW i \in DOMAIN t.list
        PROVE  t.list[i] < n + 1
    <3>1. t.list[i] \in 1..n
          BY <1>0, <1>3, <2>1 DEF TaskOk, Lists, IsAttached
    <3>. QED BY <1>3, <3>1
  <2>2. InPlace(t, Top, uploading, draft, visits)
        BY <1>0
  <2>. QED BY <1>2, <2>1, <2>2 DEF InPlace
<1>5. Owned(draft, visits, media')
  <2>1. t.op \notin {"customer", "start"} /\ t.visit = draft.visit /\ draft.visit # "none"
        BY <1>0, <1>1 DEF TaskOk, InPlace, Kinds, Phases
  <2>2. visits[t.visit].customer # "none"
        BY <1>0, <2>1 DEF Owned
  <2>3. \A i \in 1..(n + 1) : i \in 1..n \/ i = n + 1
        BY <1>3
  <2>. QED BY <1>0, <1>3, <2>2, <2>3 DEF Owned
<1>6. ASSUME NEW phase \in Phases PROVE InList(draft, phase, tasks', media')
  <2>1. Lists(draft[phase], phase, media)
        BY <1>0, DraftLists
  <2>2. \A i \in DOMAIN draft[phase] : media'[draft[phase][i]] = media[draft[phase][i]]
        BY <1>3, <2>1 DEF Lists, IsAttached
  <2>. QED BY <1>0, <1>1, <1>3, <2>2 DEF InList
<1>. QED BY <1>0, <1>1, <1>2, <1>4, <1>5, <1>6, GoesOn

\* An asset is attached: its call is about to be answered.
LEMMA AttachInOrder ==
  ASSUME IInv, Ordered, NEW t \in tasks, Attach(t) PROVE Ordered'
<1>. DEFINE a == t.asset
            q == [t EXCEPT !.at = "answer"]
<1>0. /\ draft \in Drafts /\ DraftOk(draft, media) /\ t \in Tasks /\ TaskOk(t, media)
      /\ Way(stack, draft, visits) /\ Owned(draft, visits, media)
      /\ \A phase \in Phases : InList(draft, phase, tasks, media)
      /\ \A u \in tasks : InPlace(u, Top, uploading, draft, visits)
      BY OrderFacts DEF IInv
<1>1. /\ t.at = "put" /\ tasks' = (tasks \ {t}) \union {q}
      /\ UNCHANGED <<stack, uploading, draft, visits>>
      BY DEF Attach, Stay
<1>2. q.at = "answer" /\ q.op = t.op /\ q.here = t.here /\ q.visit = t.visit /\ q.list = t.list /\ q.asset = a
      BY <1>0 DEF Tasks
<1>. HIDE DEF q
<1>3. /\ DOMAIN media' = DOMAIN media /\ Extends(media', media)
      /\ \A v, phase : PhotosOf(v, phase, media') \subseteq PhotosOf(v, phase, media) \union {a}
      /\ \A v, phase : ~(v = t.visit /\ phase = t.op) =>
                          PhotosOf(v, phase, media') = PhotosOf(v, phase, media)
      BY AttachFacts
<1>4. InPlace(q, Top, uploading, draft, visits)
      BY <1>0, <1>1, <1>2 DEF InPlace
<1>5. Owned(draft, visits, media')
      BY <1>0, <1>3 DEF Owned, Extends
<1>6. ASSUME NEW phase \in Phases PROVE InList(draft, phase, tasks', media')
  <2>1. Lists(draft[phase], phase, media)
        BY <1>0, DraftLists
  <2>2. \A i \in DOMAIN draft[phase] : media'[draft[phase][i]].visit = media[draft[phase][i]].visit
        BY <1>3, <2>1 DEF Lists, IsAttached, Extends
  <2>3. ASSUME NEW b \in PhotosOf(draft.visit, phase, media')
        PROVE  \/ \E i \in DOMAIN draft[phase] : draft[phase][i] = b
               \/ \E u \in tasks' : u.at = "answer" /\ u.op = phase /\ u.asset = b
    <3>1. CASE b \in PhotosOf(draft.visit, phase, media)
          BY <1>0, <1>1, <3>1 DEF InList
    <3>2. CASE b \notin PhotosOf(draft.visit, phase, media)
      <4>1. b = a /\ phase = t.op
            BY <1>3, <2>3, <3>2
      <4>. QED BY <1>1, <1>2, <4>1
    <3>. QED BY <3>1, <3>2
  <2>. QED BY <1>0, <2>2, <2>3 DEF InList
<1>. QED BY <1>0, <1>1, <1>2, <1>4, <1>5, <1>6, GoesOn

\* A photo is listed: behind all the others, and now none is left out.
LEMMA ListedInOrder ==
  ASSUME IInv, Ordered, NEW t \in tasks, Listed(t) PROVE Ordered'
<1>. DEFINE phase == t.op
            list == Append(t.list, t.asset)
            d == [draft EXCEPT ![phase] = list]
            q == [t EXCEPT !.at = "ask", !.list = list, !.left = @ - 1, !.asset = 0]
<1>0. /\ stack \in Seq(Screens) /\ Len(stack) >= 1
      /\ draft \in Drafts /\ draft.before \in Photos /\ t \in Tasks /\ TaskOk(t, media)
      /\ Way(stack, draft, visits) /\ Owned(draft, visits, media)
      /\ \A p \in Phases : InList(draft, p, tasks, media)
      /\ InPlace(t, Top, uploading, draft, visits)
      BY OrderFacts
<1>1. /\ t.at = "answer" /\ phase \in Phases /\ draft' = d
      /\ tasks' = (tasks \ {t}) \union (IF t.left = 1 THEN {} ELSE {q})
      /\ (t.left # 1 /\ uploading => uploading') /\ UNCHANGED <<stack, visits, media>>
      BY DEF Listed, server
<1>2. /\ tasks = {t} /\ Top = phase /\ uploading /\ t.list = draft[phase] /\ t.visit = draft.visit
      /\ draft.visit # "none" /\ t.here
      /\ \A i \in DOMAIN t.list : t.list[i] < t.asset
  <2>1. Home[phase] = phase /\ phase \notin {"customer", "start"}
        BY <1>1 DEF Home, Phases
  <2>. QED BY <1>0, <1>1, <2>1, Alone DEF InPlace
<1>3. /\ t.list \in Seq(Nat) /\ t.asset \in Nat /\ media[t.asset].visit = t.visit
  <2>1. t.list \in Seq(AssetIds) /\ t.asset \in AssetIds \union {0}
        BY <1>0, PhotosAre DEF Tasks
  <2>2. AssetIds \subseteq Nat /\ t.asset \in Nat
        BY <2>1, CaptureAssumption DEF AssetIds
  <2>3. DOMAIN t.list = 1..Len(t.list) /\ Len(t.list) \in Nat /\ \A k \in 1..Len(t.list) : t.list[k] \in Nat
        BY <2>1, <2>2, LenProperties, ElementOfSeq
  <2>4. t.list \in Seq(Nat)
        BY <2>1, <2>3, SeqDef
  <2>. QED BY <1>0, <1>1, <2>2, <2>4 DEF TaskOk
<1>4. /\ Rising(list) /\ Len(list) = Len(t.list) + 1 /\ Len(t.list) \in Nat
      /\ \A x : (\E i \in DOMAIN list : list[i] = x) <=> x = t.asset \/ \E i \in DOMAIN t.list : t.list[i] = x
  <2>1. Rising(t.list)
        BY <1>0, <1>1, <1>2 DEF InList
  <2>. HIDE DEF d, q
  <2>. QED BY <1>2, <1>3, <2>1, RisingExtended
<1>. HIDE DEF list
<1>5. /\ d.visit = draft.visit /\ d[phase] = list
      /\ \A p \in Phases \ {phase} : d[p] = draft[p]
      BY <1>0, <1>1 DEF Drafts, Phases
<1>6. /\ d.before = IF phase = "before" THEN list ELSE draft.before
      /\ q.at = "ask" /\ q.op = phase /\ q.here = t.here /\ q.visit = t.visit /\ q.list = list
      BY <1>0, <1>1 DEF Drafts, Phases, Tasks
<1>. HIDE DEF d, q
<1>7. Way(stack, d, visits)
  <2>1. Len(draft.before) >= 1 => Len(d.before) >= 1
        BY <1>1, <1>2, <1>4, <1>6 DEF Phases
  <2>2. \A s \in Screens : Reached(s, draft, visits) => Reached(s, d, visits)
        BY <1>5, <2>1 DEF Reached
  <2>3. stack[Len(stack)] # "analysis"
        BY <1>1, <1>2 DEF Top, Phases
  <2>. QED BY <1>0, <2>2, <2>3, WayStays
<1>8. Owned(d, visits, media)
      BY <1>0, <1>2, <1>5 DEF Owned
<1>9. \A T : \A p \in Phases : InList(d, p, T, media)
  <2>1. ASSUME NEW T PROVE InList(d, phase, T, media)
    <3>0. InList(draft, phase, {t}, media)
          BY <1>0, <1>1, <1>2
    <3>1. ASSUME NEW a \in PhotosOf(draft.visit, phase, media)
          PROVE  \E i \in DOMAIN list : list[i] = a
      <4>1. a = t.asset \/ \E i \in DOMAIN t.list : t.list[i] = a
            BY <1>2, <3>0 DEF InList
      <4>. QED BY <1>4, <4>1
    <3>2. ASSUME NEW i \in DOMAIN list
          PROVE  media[list[i]].visit = draft.visit
      <4>1. list[i] = t.asset \/ \E j \in DOMAIN t.list : t.list[j] = list[i]
            BY <1>4
      <4>. QED BY <1>2, <1>3, <3>0, <4>1 DEF InList
    <3>. QED BY <1>4, <1>5, <3>1, <3>2 DEF InList
  <2>2. ASSUME NEW p \in Phases \ {phase}, NEW T PROVE InList(d, p, T, media)
    <3>1. \A u \in tasks : u.op # p
          BY <1>2
    <3>. QED BY <1>0, <1>5, <3>1 DEF InList
  <2>. QED BY <2>1, <2>2
<1>10. CASE t.left = 1
  <2>1. tasks' = {}
        BY <1>1, <1>2, <1>10
  <2>2. InOrder(stack, uploading', d, {}, visits, media)
        BY <1>7, <1>8, <1>9, QuietOrder
  <2>. QED BY <1>1, <2>1, <2>2 DEF Ordered
<1>11. CASE t.left # 1
  <2>1. tasks' = {q} /\ uploading'
        BY <1>1, <1>2, <1>11
  <2>2. InPlace(q, Top, uploading', d, visits)
    <3>1. Home[phase] = phase /\ phase \notin {"customer", "start"}
          BY <1>1 DEF Home, Phases
    <3>. QED BY <1>2, <1>5, <1>6, <2>1, <3>1 DEF InPlace
  <2>3. InOrder(stack, uploading', d, {q}, visits, media)
        BY <1>7, <1>8, <1>9, <2>2 DEF InOrder, Top
  <2>. QED BY <1>1, <2>1, <2>3 DEF Ordered
<1>. QED BY <1>10, <1>11

\* The app has just been opened.
LEMMA InitInOrder == Init => Ordered
<1>. SUFFICES ASSUME Init PROVE Ordered
     OBVIOUS
<1>1. /\ stack = <<"customers">> /\ tasks = {} /\ media = <<>> /\ draft.visit = "none"
      /\ draft.before = <<>> /\ draft.after = <<>>
      BY DEF Init
<1>2. DOMAIN media = {}
      BY <1>1, EmptySeq
<1>3. Way(stack, draft, visits)
  <2>1. Len(stack) = 1 /\ stack[1] = "customers" /\ \A i \in 1..1 : i = 1
        BY <1>1
  <2>. QED BY <2>1 DEF Way, Reached
<1>4. Owned(draft, visits, media)
      BY <1>1, <1>2 DEF Owned
<1>5. ASSUME NEW phase \in Phases PROVE InList(draft, phase, {}, media)
  <2>1. draft[phase] = <<>>
        BY <1>1 DEF Phases
  <2>2. PhotosOf(draft.visit, phase, media) = {}
        BY <1>2 DEF PhotosOf
  <2>. QED BY <2>1, <2>2, NothingListed
<1>. QED BY <1>1, <1>3, <1>4, <1>5, QuietOrder DEF Ordered

\* Patience keeps the app in order, whatever step comes next.
LEMMA PatienceKept ==
  ASSUME IInv, Patient, [Next]_vars PROVE Patient'
<1>1. haste' = 0 => haste = 0
  <2>1. haste \in Nat
        BY CaptureAssumption DEF IInv
  <2>2. haste' = haste \/ haste' = haste + 1
        BY DEF Next, vars, server, Hasty, Back, Leave, OpenAddCustomer, SelectCustomer, SaveCustomer, StartVisit,
             ConfirmLocation, AddFiles, Continue, RemoveAt, ChooseTyped, ChooseVoice, RecordVoice, SaveNotes,
             KeepRecording, CreateReport, ReviewPhotos, Analyse, CustomerSaved, VisitStarted, PatchRead, PatchSaved,
             Ask, Attach, Listed, StopRecording, Recorded, CallFails, AnswerLost
  <2>. QED BY <2>1, <2>2
<1>. SUFFICES ASSUME haste' = 0 PROVE Ordered'
     BY DEF Patient
<1>2. haste = 0 /\ Ordered
      BY <1>1 DEF Patient
<1>3. CASE \/ Back \/ Leave \/ OpenAddCustomer \/ KeepRecording \/ ReviewPhotos
           \/ \E c \in Customers : SelectCustomer(c)
           \/ \E phase \in Phases : Continue(phase)
      BY <1>2, <1>3, MovesInOrder
<1>4. CASE \/ \E c \in Customers : SaveCustomer(c)
           \/ \E v \in Visits : StartVisit(v)
           \/ ConfirmLocation \/ SaveNotes \/ RecordVoice
           \/ \E phase \in Phases : AddFiles(phase)
      BY <1>2, <1>4, SendsInOrder
<1>5. ASSUME NEW t \in tasks, CustomerSaved(t) \/ VisitStarted(t) \/ PatchRead(t) \/ PatchSaved(t)
      PROVE  Ordered'
      BY <1>2, <1>5, AnswersInOrder
<1>6. CASE \/ ChooseTyped \/ ChooseVoice \/ CreateReport
           \/ \E r \in DOMAIN reports : Analyse(r)
           \/ \E t \in tasks : CallFails(t) \/ Recorded(t) \/ StopRecording(t)
           \/ UNCHANGED vars
      BY <1>2, <1>6, QuietStepsInOrder
<1>7. ASSUME NEW t \in tasks, Ask(t) \/ Attach(t) \/ Listed(t)
      PROVE  Ordered'
      BY <1>2, <1>7, AskInOrder, AttachInOrder, ListedInOrder
<1>8. ASSUME \/ \E t \in tasks : AnswerLost(t)
             \/ \E phase \in Phases : \E i \in 1..MaxBefore : RemoveAt(phase, i)
      PROVE  FALSE
  <2>1. Hasty(TRUE)
        BY <1>8 DEF AnswerLost, RemoveAt
  <2>. QED BY <1>2, <2>1, NotHasty
<1>. QED BY <1>3, <1>4, <1>5, <1>6, <1>7, <1>8 DEF Next

\* In order, the analysis screen has nothing to wait for, and shows what the server has.
LEMMA AnalysisShows ==
  ASSUME IInv, Ordered, Top = "analysis"
  PROVE  /\ draft.visit # "none" /\ visits[draft.visit].customer # "none" /\ visits[draft.visit].located
         /\ Len(draft.after) = Len(draft.before) /\ Len(draft.before) >= 1
         /\ \A phase \in Phases : /\ draft[phase] \in Photos
                                  /\ Shows(draft[phase], PhotosOf(draft.visit, phase, media))
<1>0. /\ stack \in Seq(Screens) /\ Len(stack) >= 1
      /\ tasks \subseteq Tasks /\ Way(stack, draft, visits) /\ Owned(draft, visits, media)
      /\ \A phase \in Phases : InList(draft, phase, tasks, media)
      /\ \A t \in tasks : InPlace(t, Top, uploading, draft, visits)
      BY OrderFacts
<1>1. tasks = {}
      BY <1>0, HomeIs DEF InPlace
<1>2. Reached("analysis", draft, visits) /\ Len(draft.after) = Len(draft.before)
      BY <1>0, WayBegins DEF Top
<1>3. draft.visit # "none" /\ visits[draft.visit].located /\ Len(draft.before) >= 1
      BY <1>2 DEF Reached
<1>4. visits[draft.visit].customer # "none"
      BY <1>0, <1>3 DEF Owned
<1>5. ASSUME NEW phase \in Phases
      PROVE  draft[phase] \in Photos /\ Shows(draft[phase], PhotosOf(draft.visit, phase, media))
  <2>1. draft[phase] \in Photos /\ Lists(draft[phase], phase, media)
        BY DraftLists DEF IInv
  <2>2. InList(draft, phase, {}, media)
        BY <1>0, <1>1
  <2>3. ASSUME NEW i \in DOMAIN draft[phase]
        PROVE  draft[phase][i] \in PhotosOf(draft.visit, phase, media)
    <3>1. /\ draft[phase][i] \in DOMAIN media /\ media[draft[phase][i]].kind = phase
          /\ media[draft[phase][i]].attached /\ media[draft[phase][i]].visit = draft.visit
          BY <2>1, <2>2 DEF Lists, IsAttached, InList
    <3>2. media[draft[phase][i]] \in Assets
          BY <3>1, AssetsAre DEF IInv
    <3>3. media[draft[phase][i]] = [visit |-> draft.visit, kind |-> phase, attached |-> TRUE]
          BY <3>1, <3>2 DEF Assets
    <3>. QED BY <3>1, <3>3 DEF PhotosOf
  <2>4. \A a \in PhotosOf(draft.visit, phase, media) : \E i \in DOMAIN draft[phase] : draft[phase][i] = a
        BY <2>2 DEF InList
  <2>. QED BY <2>1, <2>2, <2>3, <2>4 DEF Shows, InList
<1>. QED BY <1>2, <1>3, <1>4, <1>5

\* What a report showed goes on being what its visit has.
LEMMA ShownKept ==
  ASSUME IInv, Patient, Shown, [Next]_vars PROVE Shown'
<1>0. /\ reports \in Seq(Reports) /\ Len(reports) \in Nat /\ DOMAIN reports = 1..Len(reports)
      /\ \A r \in 1..Len(reports) : reports[r] \in Reports /\ AsShown(reports[r], media)
      BY LenProperties, ElementOfSeq DEF IInv, ReportsOk, Shown
<1>1. ASSUME NEW report, NEW n, AsShown(report, media),
             \A phase \in Phases : PhotosOf(report.visit, phase, n) = PhotosOf(report.visit, phase, media)
      PROVE  AsShown(report, n)
      BY <1>1 DEF AsShown
<1>2. CASE UNCHANGED <<media, reports>>
      BY <1>2 DEF Shown
<1>3. ASSUME NEW t \in tasks, Ask(t)
      PROVE  Shown'
  <2>1. reports' = reports /\ \A v, phase : PhotosOf(v, phase, media') = PhotosOf(v, phase, media)
        BY <1>3, AskFacts DEF Ask
  <2>. QED BY <1>0, <1>1, <2>1 DEF Shown
<1>4. ASSUME NEW t \in tasks, Attach(t)
      PROVE  Shown'
  <2>. DEFINE After(report) == [report EXCEPT !.late = @ \/ (t.op \in Phases /\ report.visit = t.visit)]
  <2>1. /\ reports' = [r \in DOMAIN reports |-> After(reports[r])]
        /\ \A v, phase : ~(v = t.visit /\ phase = t.op) => PhotosOf(v, phase, media') = PhotosOf(v, phase, media)
        BY <1>4, AttachFacts DEF Attach
  <2>2. ASSUME NEW report \in Reports, AsShown(report, media)
        PROVE  AsShown(After(report), media')
    <3>. DEFINE new == After(report)
    <3>1. /\ new.visit = report.visit /\ new.before = report.before /\ new.after = report.after
          /\ new.patient = report.patient /\ new.analysed = report.analysed /\ new.pairs = report.pairs
          /\ \A phase \in Phases : new[phase] = report[phase]
          /\ new.late <=> report.late \/ (t.op \in Phases /\ report.visit = t.visit)
          BY DEF Reports, Phases
    <3>. HIDE DEF new
    <3>2. ASSUME t.op \in Phases /\ report.visit = t.visit
          PROVE  AsShown(new, media')
          BY <3>1, <3>2 DEF AsShown
    <3>3. ASSUME ~(t.op \in Phases /\ report.visit = t.visit)
          PROVE  AsShown(new, media')
      <4>1. \A phase \in Phases : PhotosOf(report.visit, phase, media') = PhotosOf(report.visit, phase, media)
            BY <2>1, <3>3
      <4>2. AsShown(report, media')
            BY <1>1, <2>2, <4>1
      <4>. QED BY <3>1, <3>3, <4>2 DEF AsShown
    <3>4. AsShown(new, media')
          BY <3>2, <3>3
    <3>. QED BY <3>4 DEF new
  <2>. HIDE DEF After
  <2>3. \A r \in 1..Len(reports) : AsShown(After(reports[r]), media')
        BY <1>0, <2>2
  <2>. QED BY <1>0, <2>1, <2>3 DEF Shown
<1>5. CASE CreateReport
  <2>. DEFINE new == [visit |-> draft.visit, audio |-> draft.audio, before |-> draft.before, after |-> draft.after,
                      patient |-> haste = 0, late |-> FALSE, analysed |-> FALSE, pairs |-> {}]
  <2>1. Top = "analysis" /\ reports' = Append(reports, new) /\ media' = media
        BY <1>5 DEF CreateReport, AddReport
  <2>2. AsShown(new, media)
    <3>1. /\ new.visit = draft.visit /\ new.before = draft.before /\ new.after = draft.after
          /\ (new.patient <=> haste = 0) /\ ~new.analysed
          /\ new["before"] = draft["before"] /\ new["after"] = draft["after"]
          OBVIOUS
    <3>2. \A phase \in Phases : new[phase] = draft[phase]
          BY <3>1 DEF Phases
    <3>. HIDE DEF new
    <3>3. ASSUME haste = 0
          PROVE  /\ Len(draft.after) = Len(draft.before)
                 /\ \A phase \in Phases : Shows(draft[phase], PhotosOf(draft.visit, phase, media))
      <4>1. Ordered
            BY <3>3 DEF Patient
      <4>. QED BY <2>1, <4>1, AnalysisShows
    <3>. QED BY <3>1, <3>2, <3>3 DEF AsShown
  <2>3. new \in Reports
    <3>1. (haste = 0) \in BOOLEAN
          OBVIOUS
    <3>2. draft \in Drafts /\ draft.visit # "none"
          BY <1>5 DEF IInv, DraftOk, CreateReport
    <3>. QED BY <3>1, <3>2 DEF Reports, Drafts
  <2>. HIDE DEF new
  <2>4. /\ reports' \in Seq(Reports) /\ Len(reports') = Len(reports) + 1
        /\ \A r \in 1..Len(reports) : reports'[r] = reports[r]
        /\ reports'[Len(reports) + 1] = new
        BY <1>0, <2>1, <2>3, AppendProperties
  <2>5. DOMAIN reports' = 1..(Len(reports) + 1)
        BY <2>4, LenProperties
  <2>6. \A r \in 1..(Len(reports) + 1) : r \in 1..Len(reports) \/ r = Len(reports) + 1
        BY <1>0
  <2>. QED BY <1>0, <2>1, <2>2, <2>4, <2>5, <2>6 DEF Shown
<1>6. ASSUME NEW r \in DOMAIN reports, Analyse(r)
      PROVE  Shown'
  <2>. DEFINE old == reports[r]
              before == Attached(old.visit, "before")
              after == Attached(old.visit, "after")
              pairs == IF Cardinality(before) = Cardinality(after) THEN Paired(before, after) ELSE {}
              new == [old EXCEPT !.analysed = TRUE, !.pairs = pairs]
  <2>1. reports' = [reports EXCEPT ![r] = new] /\ media' = media
        BY <1>6 DEF Analyse
  <2>2. old \in Reports /\ AsShown(old, media)
        BY <1>0
  <2>3. ASSUME old.patient, ~old.late
        PROVE  pairs = {<<old.before[i], old.after[i]>> : i \in DOMAIN old.before}
    <3>0. before = PhotosOf(old.visit, "before", media) /\ after = PhotosOf(old.visit, "after", media)
          BY DEF Attached, PhotosOf
    <3>. HIDE DEF before, after
    <3>1. /\ old.before \in Photos /\ old.after \in Photos
          /\ Shows(old.before, before) /\ Shows(old.after, after) /\ Len(old.after) = Len(old.before)
          BY <2>2, <2>3, <3>0 DEF AsShown, Reports, Phases
    <3>2. Cardinality(before) = Len(old.before) /\ Cardinality(after) = Len(old.after)
          BY <3>1, ShowsPlaces
    <3>3. Paired(before, after) = {<<old.before[i], old.after[i]>> : i \in DOMAIN old.before}
          BY <3>1, ShowsPairs
    <3>. QED BY <3>1, <3>2, <3>3
  <2>. HIDE DEF pairs
  <2>4. /\ new.visit = old.visit /\ new.before = old.before /\ new.after = old.after
        /\ new.patient = old.patient /\ new.late = old.late /\ new.pairs = pairs
        /\ \A phase \in Phases : new[phase] = old[phase]
        BY <2>2 DEF Reports, Phases
  <2>5. AsShown(new, media)
        BY <2>2, <2>3, <2>4 DEF AsShown
  <2>. HIDE DEF new
  <2>6. \A s \in DOMAIN reports : AsShown(reports'[s], media)
        BY <1>0, <2>1, <2>5
  <2>7. DOMAIN reports' = DOMAIN reports
        BY <2>1
  <2>. QED BY <2>1, <2>6, <2>7 DEF Shown
<1>7. \/ UNCHANGED <<media, reports>>
      \/ CreateReport \/ \E r \in DOMAIN reports : Analyse(r)
      \/ \E t \in tasks : Ask(t) \/ Attach(t)
      BY DEF Next, vars, server, Back, Leave, OpenAddCustomer, SelectCustomer, SaveCustomer, StartVisit,
             ConfirmLocation, AddFiles, Continue, RemoveAt, ChooseTyped, ChooseVoice, RecordVoice, SaveNotes,
             KeepRecording, ReviewPhotos, CustomerSaved, VisitStarted, PatchRead, PatchSaved,
             Listed, StopRecording, Recorded, CallFails, AnswerLost
<1>. QED BY <1>2, <1>3, <1>4, <1>5, <1>6, <1>7

\* A patient capture is in order, and its reports go on showing what they showed.
THEOREM PatienceInvariant == Spec => [](Patient /\ Shown)
<1>1. Init => Patient /\ Shown
  <2>1. Init => DOMAIN reports = {}
        BY EmptySeq DEF Init
  <2>. QED BY <2>1, InitInOrder DEF Patient, Shown
<1>2. IInv /\ Patient /\ Shown /\ [Next]_vars => (Patient /\ Shown)'
      BY PatienceKept, ShownKept
<1>. QED BY CaptureInvariant, <1>1, <1>2, PTL DEF Spec

\* Who waits for every screen finds the analysis screen with what the server needs: the visit has
\* its customer and location, and its attached photos are the listed ones in their order
\* (VisitReadiness.is_ready; the screens of flow.tsx).
THEOREM PatienceIsEnough == Spec => []PatienceSuffices
<1>1. IInv /\ Patient => PatienceSuffices
  <2>. SUFFICES ASSUME IInv, Patient, haste = 0, Top = "analysis"
                PROVE  /\ draft.visit # "none" /\ Ready(draft.visit)
                       /\ \A phase \in Phases : LET photos == Attached(draft.visit, phase) IN
                            /\ photos = {draft[phase][i] : i \in DOMAIN draft[phase]}
                            /\ \A i \in DOMAIN draft[phase] : Place(photos, draft[phase][i]) = i - 1
       BY DEF PatienceSuffices
  <2>1. Ordered
        BY DEF Patient
  <2>2. \A phase : Attached(draft.visit, phase) = PhotosOf(draft.visit, phase, media)
        BY DEF Attached, PhotosOf
  <2>3. ASSUME NEW phase \in Phases
        PROVE  LET photos == Attached(draft.visit, phase)
               IN /\ photos = {draft[phase][i] : i \in DOMAIN draft[phase]}
                  /\ Cardinality(photos) = Len(draft[phase])
                  /\ \A i \in DOMAIN draft[phase] : Place(photos, draft[phase][i]) = i - 1
        BY <2>1, <2>2, AnalysisShows, ShowsPlaces DEF Shows
  <2>4. Ready(draft.visit)
    <3>1. /\ visits[draft.visit].customer # "none" /\ visits[draft.visit].located
          /\ Len(draft.after) = Len(draft.before) /\ Len(draft.before) >= 1
          /\ draft.before \in Photos /\ draft.after \in Photos
          BY <2>1, AnalysisShows, DraftLists DEF Phases, IInv, DraftOk, Drafts
    <3>2. /\ 1 \in DOMAIN draft.before /\ 1 \in DOMAIN draft.after
          BY <3>1, PhotosAre, LenProperties
    <3>3. /\ Attached(draft.visit, "before") = {draft.before[i] : i \in DOMAIN draft.before}
          /\ Attached(draft.visit, "after") = {draft.after[i] : i \in DOMAIN draft.after}
          /\ Cardinality(Attached(draft.visit, "after")) = Cardinality(Attached(draft.visit, "before"))
          BY <2>3, <3>1 DEF Phases
    <3>4. Attached(draft.visit, "before") # {} /\ Attached(draft.visit, "after") # {}
      <4>1. /\ draft.before[1] \in {draft.before[i] : i \in DOMAIN draft.before}
            /\ draft.after[1] \in {draft.after[i] : i \in DOMAIN draft.after}
            BY <3>2
      <4>. QED BY <3>3, <4>1
    <3>. QED BY <3>1, <3>3, <3>4 DEF Ready
  <2>. QED BY <2>1, <2>3, <2>4, AnalysisShows
<1>. QED BY CaptureInvariant, PatienceInvariant, <1>1, PTL

\* The analysis of a report that was captured patiently pairs the photos that the screens showed
\* side by side, unless one was attached later (run_report_analysis.py reads them when it starts).
THEOREM AnalysisIsAsShown == Spec => []AnalysedAsShown
<1>1. Shown => AnalysedAsShown
      BY DEF Shown, AsShown, AnalysedAsShown
<1>. QED BY PatienceInvariant, <1>1, PTL
=============================================================================
