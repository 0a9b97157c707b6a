--------------------------- MODULE MCFutureDeque ---------------------------
(* FutureDeque with interchangeable futures, blocks, threads and tasks. *)
EXTENDS FutureDeque, TLC

Interchangeable ==
    Permutations(Futures) \cup Permutations(Metas)
        \cup Permutations(Threads) \cup Permutations(Parents)
=============================================================================
