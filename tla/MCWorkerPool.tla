---------------------------- MODULE MCWorkerPool ----------------------------
(* Topologies for the model-checking runs of WorkerPool. *)
EXTENDS WorkerPool, TLC

\* Submissions from anywhere; urgent ones from one processor only, which loses
\* nothing where the processors are alike.
Anywhere == [t \in Tasks |-> Processors]
UrgentStay == [t \in Tasks |-> IF t \in Urgent THEN {CHOOSE p \in Processors : TRUE} ELSE Processors]

\* One group for all processors, and all workers in it.
OneGroup == [p \in Processors |-> CHOOSE g \in Groups : TRUE]
OneTeam == [w \in Workers |-> CHOOSE g \in Groups : TRUE]

\* Each processor is its own group; for sets of equal size.
GroupPerProcessor == CHOOSE f \in [Processors -> Groups] :
    \A p, q \in Processors : f[p] = f[q] => p = q

\* Every group has a worker, and one has the rest.
SpareWorker == CHOOSE f \in [Workers -> Groups] :
    \A g \in Groups : \E w \in Workers : f[w] = g

\* Workers of one group are alike, and so are tasks of one priority.
WorkerSymmetry == {f \in Permutations(Workers) : \A w \in Workers : HomeOf[f[w]] = HomeOf[w]}
TaskSymmetry == {f \in Permutations(Tasks) : \A t \in Tasks : f[t] \in Urgent <=> t \in Urgent}
PoolSymmetry == WorkerSymmetry \cup TaskSymmetry
=============================================================================
