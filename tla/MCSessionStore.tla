--------------------------- MODULE MCSessionStore ---------------------------
(* SessionStore with interchangeable pids.  Each scenario lets one side of   *)
(* the system act freely: startups that fail beside a single command, and    *)
(* two commands beside a session that ends and one that takes its id.        *)
EXTENDS SessionStore, TLC
CONSTANTS s1, s2, c1, c2

Starts == {
    [serving |-> {}, lists |-> {c1}, names |-> {c1}, failures |-> TRUE],
    [serving |-> {s1}, lists |-> {c1}, names |-> {c1}, failures |-> TRUE],
    [serving |-> {s1}, lists |-> {c1}, names |-> {c2}, failures |-> FALSE],
    [serving |-> {s1}, lists |-> {}, names |-> {c1, c2}, failures |-> FALSE]}

Interchangeable == Permutations(Pids)
=============================================================================
