------------------------- MODULE MCReportFulfillment -------------------------
(* Small instances of ReportFulfillment for TLC. *)
EXTENDS ReportFulfillment, TLC

\* Clients are interchangeable, and so are workers of one kind.
Symmetry ==
  Permutations(Clients) \union Permutations(Workers) \union Permutations(SttWorkers)
=============================================================================
