--------------------------- MODULE MCVisitCapture ---------------------------
(***************************************************************************)
(* A small instance of VisitCapture: a known and a new customer, a visit   *)
(* each, or two visits of the same one.                                    *)
(***************************************************************************)
EXTENDS VisitCapture, TLC

Symmetry == Permutations(Visits)
=============================================================================
