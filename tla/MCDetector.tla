------------------------------ MODULE MCDetector ------------------------------
(***************************************************************************)
(* Detector for TLC.  A private source contacts three ports, and a source  *)
(* that is not private one port on two peers.                              *)
(***************************************************************************)
EXTENDS Detector, TLC

Flow(s, d, p) == [src |-> s, dst |-> d, port |-> p]

MCKey == {Flow("a", "x", 1), Flow("a", "x", 2), Flow("a", "x", 3),
          Flow("b", "x", 1), Flow("b", "y", 1)}

\* Devices may be exchanged: nothing is said of one that is not said of all.
MCSymmetry == Permutations(MAC)
===============================================================================
