--------------------------- MODULE MCCaptureService ---------------------------
(***************************************************************************)
(* CaptureService for TLC.  Two clients, so that calls of the frontend     *)
(* overlap; two sessions, so that goroutines of the first one may still   *)
(* be around when the second one starts.                                   *)
(***************************************************************************)
EXTENDS CaptureService, TLC

\* Clients are interchangeable goroutines.
ClientSymmetry == Permutations(Clients)
===============================================================================
