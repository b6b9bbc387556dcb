---------------------------- MODULE ReportRecord ----------------------------
(***************************************************************************)
(* The Report aggregate with its one revision, and the domain methods that *)
(* change it.  A method that raises is a guard here.                       *)
(*                                                                         *)
(* "content" stands for work_completed, materials and amount together: the *)
(* properties only ask whether the text and amount somebody vouched for    *)
(* are the ones that were signed.  "confirmed" is the pair                 *)
(* confirmed_by_user_at / amount_confirmed_at, which the code always sets  *)
(* and clears together.  Two fields are history, not stored by the program *)
(* and read by no action: "vouched" is the content of the revision that    *)
(* the last confirmation was applied to, "reviewed" says that this was     *)
(* done while the run was up for review.  The signature rows are a table   *)
(* of their own.                                                           *)
(***************************************************************************)

CONSTANTS Drafts, \* what an AI provider may propose
          Edits   \* what a technician may type

Blank    == "blank"     \* the revision a report is created with
Template == "template"  \* the fallback text when no provider answers

Content == {Blank, Template} \union Drafts \union Edits

Status == {"draft", "pending_signature", "signed", "completed"}

Report == [status    : Status \union {"absent"},
           content   : Content,
           confirmed : BOOLEAN,
           frozen    : BOOLEAN,
           vouched   : Content,
           reviewed  : BOOLEAN]

NoReport == [status |-> "absent", content |-> Blank, confirmed |-> FALSE,
             frozen |-> FALSE, vouched |-> Blank, reviewed |-> FALSE]

CreateDraft == [NoReport EXCEPT !.status = "draft"]

\* Mutant: a frozen revision may still be edited.
EditableUntilSigned(r) == r.status \in {"draft", "pending_signature"}

Editable(r) == r.status = "draft" /\ ~r.frozen

\* The confirmation flags survive an AI result.
ApplyAiUnifiedResult(r, draft) == [r EXCEPT !.content = draft]

\* Mutant: an edit keeps the confirmation of what it replaces.
UpdateRevisionStillConfirmed(r, text) == [r EXCEPT !.content = text]

UpdateRevision(r, text) ==
  [r EXCEPT !.content = text, !.confirmed = FALSE, !.vouched = Blank,
            !.reviewed = FALSE]

Confirm(r, inReview) ==
  [r EXCEPT !.confirmed = TRUE, !.vouched = r.content, !.reviewed = inReview]

MayMarkReady(r) == Editable(r) /\ r.confirmed

MarkReadyForSignature(r) ==
  [r EXCEPT !.frozen = TRUE, !.status = "pending_signature"]

MaySign(r) == r.status = "pending_signature" /\ r.frozen

Sign(r) == [r EXCEPT !.status = "signed"]

MayComplete(r) == r.status = "signed"

Complete(r) == [r EXCEPT !.status = "completed"]
=============================================================================
