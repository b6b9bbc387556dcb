--------------------------- MODULE ReportLifecycle ---------------------------
(***************************************************************************)
(* What the fulfillment of a report promises, whoever calls whom and in    *)
(* whichever order: the report is edited while it is a draft, frozen once, *)
(* signed once, delivered once, and never touched again after it has been  *)
(* frozen except to move forward.                                          *)
(***************************************************************************)
EXTENDS Naturals

CONSTANTS Text \* possible contents of a report

VARIABLES status, text, signatures, documents

lifecycle == <<status, text, signatures, documents>>

LifecycleInit ==
  /\ status = "absent"
  /\ text \in Text
  /\ signatures = 0
  /\ documents = 0

Open ==
  /\ status = "absent"
  /\ status' = "draft"
  /\ UNCHANGED <<text, signatures, documents>>

Edit ==
  /\ status = "draft"
  /\ text' \in Text
  /\ UNCHANGED <<status, signatures, documents>>

\* Freezing settles the text: the one the freezing request had read.
Freeze ==
  /\ status = "draft"
  /\ status' = "pending_signature"
  /\ text' \in Text
  /\ UNCHANGED <<signatures, documents>>

SignOff ==
  /\ status = "pending_signature"
  /\ status' = "signed"
  /\ signatures' = signatures + 1
  /\ UNCHANGED <<text, documents>>

Deliver ==
  /\ status = "signed"
  /\ status' = "completed"
  /\ documents' = documents + 1
  /\ UNCHANGED <<text, signatures>>

LifecycleNext == Open \/ Edit \/ Freeze \/ SignOff \/ Deliver

LifecycleSpec == LifecycleInit /\ [][LifecycleNext]_lifecycle
=============================================================================
