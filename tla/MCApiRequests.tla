--------------------------- MODULE MCApiRequests ---------------------------
(***************************************************************************)
(* A small instance of ApiRequests: three requests, one session and one    *)
(* key, which is what a client that retries and signs out meanwhile needs. *)
(* There is no symmetry, since the run checks liveness.                    *)
(***************************************************************************)
EXTENDS ApiRequests
=============================================================================
