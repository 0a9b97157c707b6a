---------------------------- MODULE MCOnceEvent ----------------------------
(* OnceEvent with its wakers interchangeable, for the runs without liveness. *)
EXTENDS OnceEvent, TLC

WakerSymmetry == Permutations(Wakers)
=============================================================================
