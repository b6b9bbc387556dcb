---------------------------- MODULE VisitCapture ----------------------------
(***************************************************************************)
(* Capturing a visit: the web app's screens from the choice of a customer  *)
(* to the request for a report (flow.tsx, main.tsx, store.tsx, media.ts),  *)
(* the endpoints they call (customers, visits, media) and what the         *)
(* analysis later reads of it.                                             *)
(*                                                                         *)
(* The app is one thread; every call it awaits is a task, and what comes   *)
(* after the await runs in whatever state the app is in by then, with the  *)
(* values the task was started with.  Leaving a screen cancels no task.    *)
(* "Haste" counts what a patient technician does not do: leaving a screen  *)
(* under a task, a second choice of files during an upload, a recording    *)
(* before the last one is uploaded, taking a photo back, starting the same *)
(* visit again; an answer that is lost counts too.                         *)
(***************************************************************************)
EXTENDS Naturals, Sequences, FiniteSets

CONSTANTS
    Visits,       \* visit ids, made by the app (crypto.randomUUID)
    Customers,    \* customer ids
    Known,        \* the customers the organization has from before
    MaxBefore,    \* before photos a visit may have (6 in the app)
    MaxAssets,    \* bound on media assets
    MaxTasks,     \* bound on calls under way at a time
    MaxStack,     \* bound on the navigation stack
    MaxReports,   \* bound on reports
    MaxHaste      \* bound on hasty steps

ASSUME CaptureAssumption ==
    /\ Known \subseteq Customers /\ "none" \notin Visits \union Customers
    /\ MaxBefore \in Nat /\ MaxAssets \in Nat /\ MaxTasks \in Nat
    /\ MaxStack \in Nat \ {0} /\ MaxReports \in Nat /\ MaxHaste \in Nat

VARIABLES
    stack,      \* the navigation stack; the last screen is on display
    uploading,  \* the photo screen on display shows an upload (PhotosScreen)
    draft,      \* the app's draft (DraftState)
    tasks,      \* calls under way
    customers,  \* customers.customers
    visits,     \* operations.visits
    media,      \* operations.media_assets, in the order of captured_at
    reports,    \* the reports created, what was on display, what the analysis read
    haste       \* hasty steps so far

server == <<customers, visits, media, reports>>
vars == <<stack, uploading, draft, tasks, server, haste>>

Phases == {"before", "after"}
Screens == {"customers", "addCustomer", "visitStart", "gps", "before", "notes", "after", "analysis"}
AssetIds == 1..MaxAssets
Photos == UNION {[1..n -> AssetIds] : n \in 0..MaxBefore}

NoVisit == [customer |-> "none", located |-> FALSE]
Rows == [customer : Customers \union {"none"}, located : BOOLEAN]

\* notes: the draft holds typed notes; audio: 0 if it names no recording.
Drafts == [customer : Customers \union {"none"}, visit : Visits \union {"none"},
           before : Photos, after : Photos, source : {"typed", "voice"},
           notes : BOOLEAN, audio : AssetIds \union {0}]

\* here: the screen that started the task is still on display.
Tasks == [op : {"customer", "start", "gps", "notes", "audio"} \union Phases,
          at : {"sent", "read", "recording", "ask", "put", "answer"}, here : BOOLEAN,
          customer : Customers \union {"none"}, visit : Visits \union {"none"},
          row : Rows, list : Photos, left : 0..MaxBefore, asset : AssetIds \union {0}]
NoTask == [op |-> "start", at |-> "sent", here |-> TRUE, customer |-> "none", visit |-> "none",
           row |-> NoVisit, list |-> <<>>, left |-> 0, asset |-> 0]

TypeOK ==
    /\ stack \in Seq(Screens) /\ Len(stack) \in 1..MaxStack
    /\ uploading \in BOOLEAN
    /\ draft \in Drafts
    /\ tasks \subseteq Tasks
    /\ customers \subseteq Customers
    /\ visits \in [Visits -> Rows]
    /\ media \in Seq([visit : Visits, kind : Phases \union {"audio"}, attached : BOOLEAN])
    /\ Len(media) <= MaxAssets
    /\ reports \in Seq([visit : Visits, audio : AssetIds \union {0}, before : Photos, after : Photos,
                        patient : BOOLEAN, late : BOOLEAN, analysed : BOOLEAN,
                        pairs : SUBSET (AssetIds \X AssetIds)])
    /\ haste \in 0..MaxHaste

Init ==
    /\ stack = <<"customers">>
    /\ uploading = FALSE
    /\ draft = [customer |-> "none", visit |-> "none", before |-> <<>>, after |-> <<>>,
                source |-> "typed", notes |-> FALSE, audio |-> 0]
    /\ tasks = {}
    /\ customers = Known
    /\ visits = [v \in Visits |-> NoVisit]
    /\ media = <<>>
    /\ reports = <<>>
    /\ haste = 0

(* ------------------------------ navigation ------------------------------ *)

Top == stack[Len(stack)]

\* What React keeps mounted: both phases are one component at one place.
Component(s) == IF s \in Phases THEN "photos" ELSE s

\* The tasks left when T is under way and screen s comes on display.
Unmounted(T, s) ==
    IF Component(s) = Component(Top) THEN T ELSE {[t EXCEPT !.here = FALSE] : t \in T}

\* navigate, replace and back of NavProvider, with T the tasks under way.
\* The upload flag is local to the photo screen and starts as false.
Show(newStack, T) ==
    LET s == newStack[Len(newStack)] IN
    /\ Len(newStack) <= MaxStack
    /\ stack' = newStack
    /\ tasks' = Unmounted(T, s)
    /\ uploading' = (uploading /\ Component(s) = Component(Top))

Navigate(s, T) == Show(Append(stack, s), T)
Replace(s, T) == Show(Append(SubSeq(stack, 1, Len(stack) - 1), s), T)
Stay == UNCHANGED <<stack, uploading>>

\* The step is hasty if the condition holds.
Hasty(condition) ==
    IF condition THEN haste < MaxHaste /\ haste' = haste + 1 ELSE haste' = haste

\* A button that is disabled while its own call is under way.
Idle(op) == \A t \in tasks : ~(t.here /\ t.op = op)

\* A call is sent.
Send(t) ==
    /\ Cardinality(tasks) < MaxTasks
    /\ tasks' = tasks \union {t}

\* Every screen but the first has a way back, whatever is under way.
Back ==
    /\ Len(stack) > 1 /\ Top # "analysis"
    /\ Show(SubSeq(stack, 1, Len(stack) - 1), tasks)
    /\ Hasty(tasks # {})
    /\ UNCHANGED <<draft, server>>

\* "Return to workspace" and on to the list of customers.
Leave ==
    /\ Top = "analysis"
    /\ Show(<<"customers">>, tasks)
    /\ Hasty(tasks # {})
    /\ UNCHANGED <<draft, server>>

\* The call fails before it has an effect, and the screen shows an error.
CallFails(t) ==
    /\ t.at \in {"sent", "read", "recording", "ask", "put"}
    /\ tasks' = tasks \ {t}
    /\ uploading' = (uploading /\ ~(t.here /\ t.op \in Phases))
    /\ UNCHANGED <<stack, draft, server, haste>>

(* --------------------------- customer and visit ------------------------- *)

\* What choosing a customer resets.  Source and recording are not in the list.
Chosen(c) ==
    [draft EXCEPT !.customer = c, !.visit = "none", !.notes = FALSE,
                  !.before = <<>>, !.after = <<>>]

\* CustomersScreen.handleSelect.
SelectCustomer(c) ==
    /\ Top = "customers" /\ c \in customers
    /\ draft' = Chosen(c)
    /\ Navigate("visitStart", tasks)
    /\ Hasty(tasks # {})
    /\ UNCHANGED server

OpenAddCustomer ==
    /\ Top = "customers"
    /\ Navigate("addCustomer", tasks)
    /\ Hasty(tasks # {})
    /\ UNCHANGED <<draft, server>>

\* AddCustomerScreen.saveCustomer, until the await.
SaveCustomer(c) ==
    /\ Top = "addCustomer" /\ Idle("customer")
    /\ c \notin customers /\ \A t \in tasks : t.customer # c
    /\ Send([NoTask EXCEPT !.op = "customer", !.customer = c])
    /\ Stay /\ UNCHANGED <<draft, server, haste>>

\* CreateCustomerHandler.handle.
CreateCustomer(c) == customers' = customers \union {c}

\* The rest of saveCustomer.
CustomerSaved(t) ==
    /\ t.op = "customer"
    /\ CreateCustomer(t.customer)
    /\ draft' = Chosen(t.customer)
    /\ Replace("visitStart", tasks \ {t})
    /\ UNCHANGED <<visits, media, reports, haste>>

\* VisitStartScreen.startVisit: the app chooses the id, once for each time the
\* screen is opened.  A visit the draft already has is replaced, its photos stay.
StartVisit(v) ==
    /\ Top = "visitStart" /\ draft.customer # "none" /\ Idle("start")
    /\ visits[v] = NoVisit /\ \A t \in tasks : t.visit # v
    /\ Send([NoTask EXCEPT !.op = "start", !.customer = draft.customer, !.visit = v])
    /\ Hasty(draft.visit # "none")
    /\ Stay /\ UNCHANGED <<draft, server>>

\* StartVisitHandler.handle: the customer has to be the organization's.
InsertVisit(v, c) ==
    /\ c \in customers
    /\ visits' = [visits EXCEPT ![v] = [NoVisit EXCEPT !.customer = c]]

\* The rest of startVisit.
VisitStarted(t) ==
    /\ t.op = "start"
    /\ InsertVisit(t.visit, t.customer)
    /\ draft' = [draft EXCEPT !.visit = t.visit]
    /\ Navigate("gps", tasks \ {t})
    /\ UNCHANGED <<customers, media, reports, haste>>

\* GpsScreen.confirmLocation, once the browser has found the place.
ConfirmLocation ==
    /\ Top = "gps" /\ draft.visit # "none" /\ Idle("gps")
    /\ Send([NoTask EXCEPT !.op = "gps", !.visit = draft.visit])
    /\ Stay /\ UNCHANGED <<draft, server, haste>>

\* Visit.update_capture_state: what the request does not name stays.  The text
\* of the notes is left out: no guard reads it, only that the row is written.
Updated(row, op) ==
    [row EXCEPT !.located = @ \/ op = "gps"]

\* UpdateVisitCaptureStateHandler.handle reads the row and changes a field.
PatchRead(t) ==
    /\ t.op \in {"gps", "notes"} /\ t.at = "sent"
    /\ tasks' = (tasks \ {t}) \union {[t EXCEPT !.at = "read", !.row = Updated(visits[t.visit], t.op)]}
    /\ Stay /\ UNCHANGED <<draft, server, haste>>

\* VisitRepository.save writes the whole row.
SaveVisit(v, row) == visits' = [visits EXCEPT ![v] = row]

\* The rest of confirmLocation and saveNotes: the app goes on, from whatever
\* screen it shows by then.
PatchSaved(t) ==
    /\ t.at = "read"
    /\ SaveVisit(t.visit, t.row)
    /\ draft' = [draft EXCEPT !.notes = @ \/ t.op = "notes"]
    /\ Navigate(IF t.op = "gps" THEN "before" ELSE "after", tasks \ {t})
    /\ Hasty(tasks # {t})
    /\ UNCHANGED <<customers, media, reports>>

(* -------------------------------- photos -------------------------------- *)

MaxPhotos(phase) == IF phase = "before" THEN MaxBefore ELSE Len(draft.before)

\* Mutant: the choice of files is not cut to what the visit may have.
AddFilesUncut(phase) ==
    /\ Top = phase /\ draft.visit # "none"
    /\ \E n \in 1..2 : Send([NoTask EXCEPT !.op = phase, !.at = "ask", !.visit = draft.visit,
                               !.list = draft[phase], !.left = n])
    /\ uploading' = TRUE
    /\ Hasty(uploading)
    /\ UNCHANGED <<stack, draft, server>>

\* PhotosScreen.addFiles: the list it extends is the one on display now.
AddFiles(phase) ==
    /\ Top = phase /\ draft.visit # "none"
    /\ \E n \in 1..MaxBefore :
         /\ n + Len(draft[phase]) <= MaxPhotos(phase)
         /\ Send([NoTask EXCEPT !.op = phase, !.at = "ask", !.visit = draft.visit,
                    !.list = draft[phase], !.left = n])
    /\ uploading' = TRUE
    /\ Hasty(uploading)
    /\ UNCHANGED <<stack, draft, server>>

\* RequestMediaUploadHandler.handle: a pending asset with the time of the request.
RequestUpload(v, kind) ==
    /\ Len(media) < MaxAssets
    /\ media' = Append(media, [visit |-> v, kind |-> kind, attached |-> FALSE])

\* AttachMediaHandler.handle, once the object is what was announced.
AttachMedia(a) == media' = [media EXCEPT ![a].attached = TRUE]

\* Mutant: the asset is listed without being uploaded and attached.
AskIsEnough(t) ==
    /\ t.at = "ask" /\ RequestUpload(t.visit, t.op)
    /\ tasks' = (tasks \ {t}) \union {[t EXCEPT !.at = "answer", !.asset = Len(media) + 1]}
    /\ Stay /\ UNCHANGED <<draft, customers, visits, reports, haste>>

\* uploadVisitPhoto and uploadVisitAudio ask for a place to put the object.
Ask(t) ==
    /\ t.at = "ask" /\ RequestUpload(t.visit, t.op)
    /\ tasks' = (tasks \ {t}) \union {[t EXCEPT !.at = "put", !.asset = Len(media) + 1]}
    /\ Stay /\ UNCHANGED <<draft, customers, visits, reports, haste>>

\* The object is put into the store, and then attached.
\* The photo is late for a report of the visit that is not analysed yet.
Attach(t) ==
    /\ t.at = "put"
    /\ AttachMedia(t.asset)
    /\ tasks' = (tasks \ {t}) \union {[t EXCEPT !.at = "answer"]}
    /\ reports' = [r \in DOMAIN reports |->
         [reports[r] EXCEPT !.late = @ \/ (t.op \in Phases /\ reports[r].visit = t.visit)]]
    /\ Stay /\ UNCHANGED <<draft, customers, visits, haste>>

\* The rest of addFiles: the draft's list becomes the task's list and the new
\* photo, and the next file follows.
Listed(t) ==
    LET list == Append(t.list, t.asset) IN
    /\ t.at = "answer" /\ t.op \in Phases
    /\ draft' = [draft EXCEPT ![t.op] = list]
    /\ tasks' = (tasks \ {t}) \union
                  (IF t.left = 1 THEN {}
                   ELSE {[t EXCEPT !.at = "ask", !.list = list, !.left = @ - 1, !.asset = 0]})
    /\ uploading' = (uploading /\ ~(t.here /\ t.left = 1))
    /\ UNCHANGED <<stack, server, haste>>

\* The asset is attached, but the app never learns it.
AnswerLost(t) ==
    /\ t.at = "answer"
    /\ tasks' = tasks \ {t}
    /\ uploading' = (uploading /\ ~(t.here /\ t.op \in Phases))
    /\ Hasty(TRUE)
    /\ UNCHANGED <<stack, draft, server>>

\* PhotosScreen.removeAt: the server is not told.
RemoveAt(phase, i) ==
    /\ Top = phase /\ i \in DOMAIN draft[phase]
    /\ LET rest == SubSeq(draft[phase], 1, i - 1) \o SubSeq(draft[phase], i + 1, Len(draft[phase]))
       IN draft' = [draft EXCEPT !.after = <<>>, ![phase] = rest]
    /\ Hasty(TRUE)
    /\ Stay /\ UNCHANGED <<tasks, server>>

\* Mutant: one after photo is enough.
ContinueUnpaired(phase) ==
    /\ Top = phase /\ ~uploading
    /\ Len(draft[phase]) >= 1
    /\ Navigate(IF phase = "before" THEN "notes" ELSE "analysis", tasks)
    /\ Hasty(tasks # {})
    /\ UNCHANGED <<draft, server>>

\* PhotosScreen.continueFlow: enabled by pairCountValid and no upload.
Continue(phase) ==
    /\ Top = phase /\ ~uploading
    /\ IF phase = "before" THEN Len(draft.before) >= 1 ELSE Len(draft.after) = Len(draft.before)
    /\ Navigate(IF phase = "before" THEN "notes" ELSE "analysis", tasks)
    /\ Hasty(tasks # {})
    /\ UNCHANGED <<draft, server>>

(* -------------------------------- notes --------------------------------- *)

\* NotesScreen.chooseTyped, and switchToTyped for every key that is pressed.
ChooseTyped ==
    /\ Top = "notes"
    /\ draft' = [draft EXCEPT !.source = "typed", !.audio = 0]
    /\ Stay /\ UNCHANGED <<tasks, server, haste>>

ChooseVoice ==
    /\ Top = "notes"
    /\ draft' = [draft EXCEPT !.source = "voice", !.notes = FALSE]
    /\ Stay /\ UNCHANGED <<tasks, server, haste>>

\* NotesScreen.recordVoice, until the recorder has stopped.  The button can be
\* pressed again while the browser asks for permission, and choosing to type and
\* back makes it ready under an upload; whether it is one of these two is not kept.
RecordVoice ==
    /\ Top = "notes" /\ draft.source = "voice" /\ draft.visit # "none"
    /\ Send([NoTask EXCEPT !.op = "audio", !.at = "recording", !.visit = draft.visit])
    /\ Hasty(~Idle("audio"))
    /\ Stay /\ UNCHANGED <<draft, server>>

\* A second tap, the time limit, or the release when the screen is left or
\* typing begins: the recorder stops, and what it has is uploaded.
StopRecording(t) ==
    /\ t.at = "recording"
    /\ tasks' = (tasks \ {t}) \union {[t EXCEPT !.at = "ask"]}
    /\ Stay /\ UNCHANGED <<draft, server, haste>>

\* The rest of recordVoice.
Recorded(t) ==
    /\ t.at = "answer" /\ t.op = "audio"
    /\ draft' = [draft EXCEPT !.audio = t.asset, !.source = "voice", !.notes = FALSE]
    /\ tasks' = tasks \ {t}
    /\ Stay /\ UNCHANGED <<server, haste>>

\* NotesScreen.saveNotes with typed notes, until the await.
SaveNotes ==
    /\ Top = "notes" /\ draft.visit # "none" /\ draft.source = "typed" /\ Idle("notes")
    /\ Send([NoTask EXCEPT !.op = "notes", !.visit = draft.visit])
    /\ Stay /\ UNCHANGED <<draft, server, haste>>

\* saveNotes with a recording; whose visit it is of, the screen does not know.
KeepRecording ==
    /\ Top = "notes" /\ draft.visit # "none" /\ draft.source = "voice" /\ draft.audio # 0
    /\ Navigate("after", tasks)
    /\ Hasty(tasks # {})
    /\ UNCHANGED <<draft, server>>

(* -------------------------------- report -------------------------------- *)

\* Mutant: the status is not asked for.
Requested(v, phase) ==
    {i \in DOMAIN media : media[i].visit = v /\ media[i].kind = phase}

\* MediaAssetRepository.list_attached_by_visit_and_phase.
Attached(v, phase) ==
    {i \in DOMAIN media : media[i] = [visit |-> v, kind |-> phase, attached |-> TRUE]}

\* How many of S were captured before i; media is in capture order.
Place(S, i) == Cardinality({j \in S : j < i})

\* VisitReadiness.is_ready.
Ready(v) ==
    LET before == Attached(v, "before")
        after == Attached(v, "after")
    IN /\ visits[v].customer # "none" /\ visits[v].located
       /\ before # {} /\ after # {} /\ Cardinality(after) = Cardinality(before)

\* Mutant: the recording only has to be an attached one.
AnyRecording(a, v) ==
    a # 0 => media[a].kind = "audio" /\ media[a].attached

\* The recording is attached and of this visit.
OwnRecording(a, v) ==
    a # 0 => media[a] = [visit |-> v, kind |-> "audio", attached |-> TRUE]

\* CreateReportHandler.handle accepts the request.  Its reads of the visit, of the
\* photos of each phase and of the recording are separate statements, one step
\* here: an attachment between two of them counts as before or behind them all.
AddReport(v, a) ==
    /\ Ready(v) /\ OwnRecording(a, v)
    /\ reports' = Append(reports,
         [visit |-> v, audio |-> a, before |-> draft.before, after |-> draft.after,
          patient |-> haste = 0, late |-> FALSE, analysed |-> FALSE, pairs |-> {}])

\* runAnalysis posts the report if the draft looks complete.  When it does not,
\* or the server refuses, the screen shows an error and nothing has changed.
CreateReport ==
    /\ Top = "analysis" /\ draft.visit # "none"
    /\ draft.notes \/ draft.audio # 0
    /\ Len(draft.before) > 0 /\ Len(draft.before) = Len(draft.after)
    /\ Len(reports) < MaxReports
    /\ AddReport(draft.visit, draft.audio)
    /\ Stay /\ UNCHANGED <<draft, tasks, customers, visits, media, haste>>

\* "Review photos" on the error screen.
ReviewPhotos ==
    /\ Top = "analysis"
    /\ Replace("after", tasks)
    /\ Hasty(tasks # {})
    /\ UNCHANGED <<draft, server>>

\* The Nth before photo with the Nth after photo.
Paired(before, after) ==
    {pair \in before \X after : Place(before, pair[1]) = Place(after, pair[2])}

\* The worker reads the evidence when it picks the report up: pairs by capture
\* order, or none at all if the numbers differ by now.  It takes six pairs at
\* most, the MaxBefore of the app.
Analyse(r) ==
    LET before == Attached(reports[r].visit, "before")
        after == Attached(reports[r].visit, "after")
    IN /\ ~reports[r].analysed
       /\ reports' = [reports EXCEPT ![r].analysed = TRUE,
            ![r].pairs = IF Cardinality(before) = Cardinality(after) THEN Paired(before, after) ELSE {}]
       /\ UNCHANGED <<stack, uploading, draft, tasks, customers, visits, media, haste>>

(* ---------------------------- specification ----------------------------- *)

Next ==
    \/ Back \/ Leave \/ OpenAddCustomer
    \/ \E c \in Customers : SelectCustomer(c) \/ SaveCustomer(c)
    \/ \E v \in Visits : StartVisit(v)
    \/ ConfirmLocation
    \/ \E phase \in Phases :
         \/ AddFiles(phase) \/ Continue(phase)
         \/ \E i \in 1..MaxBefore : RemoveAt(phase, i)
    \/ ChooseTyped \/ ChooseVoice \/ RecordVoice \/ SaveNotes \/ KeepRecording
    \/ CreateReport \/ ReviewPhotos
    \/ \E r \in DOMAIN reports : Analyse(r)
    \/ \E t \in tasks :
         \/ CustomerSaved(t) \/ VisitStarted(t) \/ PatchRead(t) \/ PatchSaved(t)
         \/ Ask(t) \/ Attach(t) \/ Listed(t) \/ StopRecording(t) \/ Recorded(t)
         \/ CallFails(t) \/ AnswerLost(t)

Spec == Init /\ [][Next]_vars

(* ------------------------------ properties ------------------------------ *)

\* However tasks, customers and screens overlap, what the draft lists is real:
\* each photo is an attached asset of its phase, and the recording it names is
\* an attached recording (store.tsx: "Real attached uploads").  Of the draft's
\* own visit they need not be.
ListedIsAttached ==
    /\ \A phase \in Phases : \A i \in DOMAIN draft[phase] :
         /\ draft[phase][i] \in DOMAIN media
         /\ media[draft[phase][i]].kind = phase /\ media[draft[phase][i]].attached
    /\ draft.audio # 0 =>
         draft.audio \in DOMAIN media /\ media[draft.audio].kind = "audio" /\ media[draft.audio].attached

\* Whatever the draft carried over from another customer's visit, a report has
\* evidence of its own visit: photos of both phases, in pairs until a photo is
\* attached late, and a recording that was made in it.
ReportHasEvidence ==
    \A r \in DOMAIN reports :
        LET before == Attached(reports[r].visit, "before")
            after == Attached(reports[r].visit, "after")
        IN /\ before # {} /\ after # {}
           /\ ~reports[r].late => Cardinality(before) = Cardinality(after)
           /\ reports[r].audio # 0 => media[reports[r].audio].visit = reports[r].visit

\* Who waits for every screen is never refused for the location or the photos
\* (VisitReadiness): on the analysis screen the server has the location and
\* exactly the photos that the draft lists, in their order.  Of the recording it
\* does not speak: one carried over from the last customer enables Continue and
\* is refused.
PatienceSuffices ==
    haste = 0 /\ Top = "analysis" =>
        /\ draft.visit # "none" /\ Ready(draft.visit)
        /\ \A phase \in Phases : LET photos == Attached(draft.visit, phase) IN
             /\ photos = {draft[phase][i] : i \in DOMAIN draft[phase]}
             /\ \A i \in DOMAIN draft[phase] : Place(photos, draft[phase][i]) = i - 1

\* The analysis of a report that was captured patiently compares the photos
\* that were next to each other on the screen, unless one was attached after
\* the report was created (run_report_analysis.py reads them when it starts).
AnalysedAsShown ==
    \A r \in DOMAIN reports :
        reports[r].analysed /\ reports[r].patient /\ ~reports[r].late =>
            reports[r].pairs = {<<reports[r].before[i], reports[r].after[i]>> :
                                  i \in DOMAIN reports[r].before}
=============================================================================
