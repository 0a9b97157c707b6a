-------------------------- MODULE SessionStoreProofs --------------------------
(***************************************************************************)
(* Proofs about the session store, for any number of supervisors, commands *)
(* and pids and any bound on ids: no command and no startup takes from a   *)
(* live session its id, a run that failed leaves no session behind, kill   *)
(* ends what it was asked to end, and what a command answers is true.      *)
(*                                                                         *)
(* Most steps change one supervisor's or one command's place and nothing   *)
(* that another relies on: QuietSupervisor and QuietCommand say once what  *)
(* such a step has to respect.  Each step that touches a file or a handle  *)
(* has a lemma of its own.  The answers come last: each command keeps an   *)
(* account of its own (Answered), and what others do is Steady for it.     *)
(***************************************************************************)
EXTENDS SessionStore, TLAPS

\* The initial states: some sessions serve, each under an id of its own.
LEMMA InitIInv == Init => IInv
<1> SUFFICES ASSUME Init PROVE IInv
  OBVIOUS
<1> USE StoreAssumption
<1>1. scenario.serving \subseteq Supervisors
  BY DEF Init
<1>2. PICK at \in Places(scenario.serving) :
        /\ sv = [s \in Supervisors |-> IF s \in scenario.serving THEN "serve" ELSE "unborn"]
        /\ run = [s \in Supervisors |-> IF s \in scenario.serving THEN "announced" ELSE "new"]
        /\ id = [s \in Supervisors |-> IF s \in scenario.serving THEN at[s][1] ELSE 1]
        /\ pid = [s \in Supervisors |-> IF s \in scenario.serving THEN at[s][2] ELSE Nobody]
        /\ file = [i \in Ids |-> IF \E s \in scenario.serving : at[s][1] = i
                     THEN [owner |-> CHOOSE s \in scenario.serving : at[s][1] = i, published |-> TRUE]
                     ELSE NoFile]
  BY DEF Init
<1>3. /\ \A s \in scenario.serving : at[s][1] \in Ids /\ at[s][2] \in Pids
      /\ \A s, t \in scenario.serving : at[s][1] = at[t][1] => s = t
  BY DEF Places
<1>4. 1 \in Ids
  BY DEF Ids
<1>5. \A i \in Ids : \/ file[i] = NoFile /\ \A s \in scenario.serving : at[s][1] # i
                     \/ \E s \in scenario.serving :
                           at[s][1] = i /\ file[i] = [owner |-> s, published |-> TRUE]
  <2> SUFFICES ASSUME NEW i \in Ids, NEW s \in scenario.serving, at[s][1] = i
               PROVE  file[i] = [owner |-> s, published |-> TRUE]
    BY <1>2
  <2>1. (CHOOSE t \in scenario.serving : at[t][1] = i) = s
    BY <1>3
  <2> QED
    BY <1>2, <2>1
<1>6. TypeOK
  <2>1. file \in [Ids -> Files]
    <3>1. NoFile \in Files /\ \A s \in Supervisors : [owner |-> s, published |-> TRUE] \in Files
      BY DEF Files, NoFile
    <3>2. ASSUME NEW i \in Ids PROVE file[i] \in Files
      <4>1. CASE file[i] = NoFile
        BY <3>1, <4>1
      <4>2. ASSUME NEW s \in scenario.serving, file[i] = [owner |-> s, published |-> TRUE]
            PROVE  file[i] \in Files
        BY <1>1, <3>1, <4>2, Zenon
      <4> QED
        BY <1>5, <4>1, <4>2
    <3> QED
      BY <1>2, <3>2
  <2>2. handle \in [Procs -> Handles]
    BY <1>4 DEF Init, NoHandle, Handles
  <2>3. sv \in [Supervisors -> {"unborn", "serve"}] /\ run \in [Supervisors -> {"new", "announced"}]
    BY <1>2
  <2>4. pid \in [Supervisors -> Pids \cup {Nobody}] /\ id \in [Supervisors -> Ids]
    BY <1>2, <1>3, <1>4
  <2> QED
    BY <2>1, <2>2, <2>3, <2>4 DEF Init, TypeOK, Claimed, Over, Finished
<1>7. RunKnows /\ LinkedIsCurrent
  BY <1>2 DEF Init, RunKnows, LinkedIsCurrent, NoHandle
<1>8. \A i \in Ids, s \in Supervisors : file[i].owner = s =>
          s \in scenario.serving /\ at[s][1] = i /\ file[i].published
  <2> SUFFICES ASSUME NEW i \in Ids, NEW s \in Supervisors, file[i].owner = s
               PROVE  s \in scenario.serving /\ at[s][1] = i /\ file[i].published
    OBVIOUS
  <2>1. file[i] # NoFile
    BY DEF NoFile
  <2>2. PICK t \in scenario.serving : at[t][1] = i /\ file[i] = [owner |-> t, published |-> TRUE]
    BY <1>5, <2>1
  <2> QED
    BY <2>2
<1>9. OwnersKeepTheirIds
  BY <1>1, <1>2, <1>3, <1>5, <1>8 DEF OwnersKeepTheirIds, Claimed
<1>10. FilesAreWhereTheyBelong
  <2> SUFFICES ASSUME NEW i \in Ids
               PROVE  /\ file[i].published => file[i].owner \in Supervisors
                      /\ file[i].owner \in Supervisors =>
                            /\ sv[file[i].owner] = "serve" /\ i = id[file[i].owner]
                            /\ \A j \in Ids : file[j].owner = file[i].owner => j = i
    BY DEF FilesAreWhereTheyBelong, Claimed
  <2> QED
    BY <1>1, <1>2, <1>5, <1>8 DEF NoFile
<1>11. KnowledgeIsSettled /\ OnlyTheDeadAreReaped /\ DeletesReach /\ OnlyNamedSessionsDoomed
  BY <1>2
     DEF Init, KnowledgeIsSettled, Knows, OnlyTheDeadAreReaped, Reaps, DeletesReach,
         OnlyNamedSessionsDoomed
<1> QED
  BY <1>6, <1>7, <1>9, <1>10, <1>11 DEF IInv

----------------------------------------------------------------------------
(* Steps that touch no file and no handle. *)

\* The moves of a supervisor that neither claims, publishes nor deletes.
QuietMoves ==
    {<<"unborn", "connect">>, <<"connect", "claim">>, <<"connect", "gone">>, <<"claim", "gone">>,
     <<"publish", "leave">>, <<"offer", "await">>, <<"offer", "leave">>, <<"await", "leave">>,
     <<"await", "serve">>, <<"serve", "leave">>}

\* Such a move disturbs nobody: ids and files keep their owners, what is dead
\* stays dead, and what was settled stays settled.
LEMMA QuietSupervisor ==
    ASSUME IInv, TypeOK', RunKnows', NEW s \in Supervisors,
           UNCHANGED <<file, handle, id, doomed, cmd, workVars>>,
           sv' = sv \/ \E to : SvGoto(s, to) /\ <<sv[s], to>> \in QuietMoves
    PROVE  IInv'
<1>1. UNCHANGED <<wanted, found, subject, back>>
  BY DEF workVars
<1>2. /\ \A t \in Supervisors : t # s => sv'[t] = sv[t]
      /\ sv'[s] = sv[s] \/ <<sv[s], sv'[s]>> \in QuietMoves
  BY DEF SvGoto, IInv, TypeOK
<1>3. \A t \in Supervisors :
        /\ sv'[t] \in Claimed => sv[t] \in Claimed /\ (sv'[t] = "publish" <=> sv[t] = "publish")
        /\ sv[t] \in Over => sv'[t] \in Over
        /\ sv[t] \notin {"unborn", "connect", "claim"} => sv'[t] \notin {"unborn", "connect", "claim"}
        /\ sv'[t] = "drop" => sv[t] = "drop"
        /\ sv[t] \in Claimed \cup {"leave", "drop", "crashed"} =>
              sv'[t] \in Claimed \cup {"leave", "drop", "crashed"}
        /\ sv'[t] # "crashed" => sv[t] # "crashed"
  BY <1>2 DEF QuietMoves, Claimed, Over
<1>4. LinkedIsCurrent' /\ OnlyNamedSessionsDoomed'
  BY <1>1 DEF IInv, LinkedIsCurrent, OnlyNamedSessionsDoomed
<1>5. OwnersKeepTheirIds'
  BY <1>3 DEF IInv, OwnersKeepTheirIds
<1>6. FilesAreWhereTheyBelong'
  BY <1>3 DEF IInv, FilesAreWhereTheyBelong
<1>7. KnowledgeIsSettled'
  BY <1>1, <1>3 DEF IInv, TypeOK, KnowledgeIsSettled, Knows, Settled
<1>8. OnlyTheDeadAreReaped'
  BY <1>1, <1>3 DEF IInv, TypeOK, KnowledgeIsSettled, Knows, OnlyTheDeadAreReaped, Reaps
<1>9. DeletesReach'
  BY <1>1, <1>3 DEF IInv, DeletesReach, Addresses
<1> QED
  BY <1>4, <1>5, <1>6, <1>7, <1>8, <1>9 DEF IInv

\* The steps of a `run` and of a supervisor that are of that kind.
LEMMA QuietSupervisorSteps ==
    ASSUME IInv, NEW s \in Supervisors,
           \/ Starting(s) \/ Connect(s) \/ Fail(s) \/ Offer(s)
           \/ Committed(s) \/ NotCommitted(s) \/ Retire(s)
    PROVE  IInv'
<1>1. UNCHANGED <<file, handle, id, doomed, cmd, workVars>>
  BY DEF Starting, Spawn, RunReceives, RunCommits, RunFails, Connect, Fail, Offer, Committed,
         NotCommitted, Retire, runVars, procVars
<1>2. CASE \E p \in Pids : Spawn(s, p)
  <2>1. sv[s] = "unborn" /\ SvGoto(s, "connect") /\ RunGoto(s, "waiting")
    BY <1>2 DEF Spawn, IInv, RunKnows
  <2>2. TypeOK'
    BY <1>1, <1>2 DEF Spawn, SvGoto, RunGoto, IInv, TypeOK, workVars
  <2>3. RunKnows'
    BY <1>2, <2>1 DEF Spawn, SvGoto, RunGoto, IInv, TypeOK, RunKnows
  <2> QED
    BY <1>1, <2>1, <2>2, <2>3, QuietSupervisor DEF QuietMoves
<1>3. CASE RunReceives(s) \/ RunCommits(s) \/ RunFails(s)
  <2>1. TypeOK' /\ sv' = sv
    BY <1>1, <1>3 DEF RunReceives, RunCommits, RunFails, RunGoto, IInv, TypeOK, workVars, procVars
  <2>2. RunKnows'
    BY <1>3 DEF RunReceives, RunCommits, RunFails, RunGoto, procVars, IInv, TypeOK, RunKnows
  <2> QED
    BY <1>1, <2>1, <2>2, QuietSupervisor
<1>4. CASE Connect(s) \/ Fail(s) \/ Offer(s) \/ Retire(s)
  <2>1. \E to : SvGoto(s, to) /\ <<sv[s], to>> \in QuietMoves /\ to # "serve" /\ sv[s] # "unborn"
    BY <1>4 DEF Connect, Fail, Offer, Retire, QuietMoves
  <2>2. TypeOK'
    BY <1>1, <1>4
       DEF Connect, Fail, Offer, Retire, SvGoto, IInv, TypeOK, workVars, runVars, Claimed, Over
  <2>3. RunKnows'
    <3>1. UNCHANGED <<run, commit>>
      BY <1>4 DEF Connect, Fail, Offer, Retire, runVars
    <3>2. PICK to : SvGoto(s, to) /\ <<sv[s], to>> \in QuietMoves /\ to # "serve" /\ sv[s] # "unborn"
      BY <2>1
    <3> QED
      BY <3>1, <3>2 DEF SvGoto, QuietMoves, IInv, TypeOK, RunKnows
  <2> QED
    BY <1>1, <2>1, <2>2, <2>3, QuietSupervisor
<1>5. CASE Committed(s) \/ NotCommitted(s)
  <2>1. TypeOK'
    BY <1>1, <1>5 DEF Committed, NotCommitted, SvGoto, IInv, TypeOK, workVars, Claimed, Over
  <2>2. RunKnows'
    BY <1>5 DEF Committed, NotCommitted, SvGoto, IInv, TypeOK, RunKnows
  <2>3. \E to : SvGoto(s, to) /\ <<sv[s], to>> \in QuietMoves
    BY <1>5 DEF Committed, NotCommitted, QuietMoves
  <2> QED
    BY <1>1, <2>1, <2>2, <2>3, QuietSupervisor
<1> QED
  BY <1>2, <1>3, <1>4, <1>5 DEF Starting

----------------------------------------------------------------------------
(* Steps that touch a file or a handle. *)

\* Detached(i) unlinks the handles of i and changes nothing else.
LEMMA DetachedEffect ==
    ASSUME TypeOK, NEW i \in Ids
    PROVE  /\ Detached(i) \in [Procs -> Handles]
           /\ \A p \in Procs :
                /\ Detached(i)[p].id = handle[p].id /\ Detached(i)[p].owner = handle[p].owner
                /\ Detached(i)[p].linked <=> handle[p].linked /\ handle[p].id # i
                /\ handle[p].id # i => Detached(i)[p] = handle[p]
<1>1. DOMAIN handle = Procs /\ \A p \in Procs : handle[p] \in Handles
  BY DEF TypeOK
<1>2. Detached(i) = [p \in Procs |->
          IF handle[p].id = i THEN [handle[p] EXCEPT !.linked = FALSE] ELSE handle[p]]
  BY <1>1 DEF Detached
<1>3. ASSUME NEW h \in Handles
      PROVE  /\ [h EXCEPT !.linked = FALSE] \in Handles /\ ~[h EXCEPT !.linked = FALSE].linked
             /\ [h EXCEPT !.linked = FALSE].id = h.id
             /\ [h EXCEPT !.linked = FALSE].owner = h.owner
  BY DEF Handles
<1>4. ASSUME NEW p \in Procs
      PROVE  /\ Detached(i)[p] \in Handles
             /\ Detached(i)[p].id = handle[p].id /\ Detached(i)[p].owner = handle[p].owner
             /\ Detached(i)[p].linked <=> handle[p].linked /\ handle[p].id # i
             /\ handle[p].id # i => Detached(i)[p] = handle[p]
  <2>1. CASE handle[p].id = i
    <3>1. Detached(i)[p] = [handle[p] EXCEPT !.linked = FALSE]
      BY <1>2, <2>1
    <3> QED
      BY <1>1, <1>3, <2>1, <3>1
  <2>2. CASE handle[p].id # i
    <3>1. Detached(i)[p] = handle[p]
      BY <1>2, <2>2
    <3> QED
      BY <1>1, <2>2, <3>1
  <2> QED
    BY <2>1, <2>2
<1> QED
  BY <1>2, <1>4

\* A name that gets another file: handles of the old one are left without a name.
LEMMA ReplaceEffect ==
    ASSUME TypeOK, LinkedIsCurrent, NEW i \in Ids, NEW f \in Files, Replace(i, f)
    PROVE  /\ file' \in [Ids -> Files] /\ handle' \in [Procs -> Handles] /\ LinkedIsCurrent'
           /\ file'[i] = f /\ \A j \in Ids : j # i => file'[j] = file[j]
           /\ \A p \in Procs :
                /\ handle'[p].id = handle[p].id /\ handle'[p].owner = handle[p].owner
                /\ handle'[p].linked <=> handle[p].linked /\ handle[p].id # i
<1>1. /\ file' \in [Ids -> Files] /\ file'[i] = f
      /\ \A j \in Ids : j # i => file'[j] = file[j]
  BY DEF Replace, TypeOK
<1>2. handle' = Detached(i)
  BY DEF Replace
<1>3. LinkedIsCurrent'
  BY <1>1, <1>2, DetachedEffect DEF LinkedIsCurrent, TypeOK, Handles
<1> QED
  BY <1>1, <1>2, <1>3, DetachedEffect

\* A process opens what a name refers to.
LEMMA OpenEffect ==
    ASSUME TypeOK, LinkedIsCurrent, NEW p \in Procs, NEW i \in Ids, Open(p, i)
    PROVE  /\ file' = file /\ handle' \in [Procs -> Handles] /\ LinkedIsCurrent'
           /\ \A q \in Procs : q # p => handle'[q] = handle[q]
           /\ \A s \in Supervisors : Addresses(p, i, s)'
<1>1. [id |-> i, owner |-> file[i].owner, linked |-> file[i] # NoFile] \in Handles
  BY DEF Handles, TypeOK, Files
<1>2. /\ file' = file /\ handle' \in [Procs -> Handles]
      /\ handle'[p] = [id |-> i, owner |-> file[i].owner, linked |-> file[i] # NoFile]
      /\ \A q \in Procs : q # p => handle'[q] = handle[q]
  BY <1>1 DEF Open, TypeOK
<1>3. ASSUME NEW s \in Supervisors PROVE Addresses(p, i, s)'
  <2>1. file[i].owner = s => file[i] # NoFile
    BY StoreAssumption DEF NoFile
  <2>2. handle'[p].id = i /\ handle'[p].owner = file[i].owner
    BY <1>2
  <2>3. file[i] # NoFile => handle'[p].linked = TRUE
    <3> SUFFICES ASSUME file[i] # NoFile PROVE handle'[p].linked = TRUE
      OBVIOUS
    <3>1. (file[i] # NoFile) = TRUE
      OBVIOUS
    <3>2. handle'[p] = [id |-> i, owner |-> file[i].owner, linked |-> TRUE]
      BY <1>2, <3>1, Zenon
    <3> QED
      BY <3>2
  <2> QED
    BY <1>2, <2>1, <2>2, <2>3 DEF Addresses
<1>4. LinkedIsCurrent'
  BY <1>2 DEF LinkedIsCurrent
<1> QED
  BY <1>2, <1>3, <1>4

\* A process lets go of its handle, and of the file if that is the owner's: no
\* other file goes, and none of the owner's is left where the handle pointed.
LEMMA DropEffect ==
    ASSUME TypeOK, LinkedIsCurrent, NEW p \in Procs, NEW o \in Supervisors, Drop(p, o)
    PROVE  /\ file' \in [Ids -> Files] /\ handle' \in [Procs -> Handles] /\ LinkedIsCurrent'
           /\ \A i \in Ids : \/ file'[i] = file[i]
                             \/ file[i].owner = o /\ file'[i] = NoFile
           /\ \A q \in Procs : q # p =>
                  /\ handle'[q].id = handle[q].id /\ handle'[q].owner = handle[q].owner
                  /\ \/ handle'[q].linked = handle[q].linked
                     \/ file'[handle[q].id] = NoFile
           /\ \A i \in Ids : Addresses(p, i, o) => file'[i].owner # o
<1> USE StoreAssumption
<1>1. NoFile \in Files /\ NoHandle \in Handles
  BY DEF Files, Handles, NoFile, NoHandle, Ids
<1>2. CASE handle[p].owner = o /\ handle[p].linked
  <2> DEFINE k == handle[p].id
  <2>1. k \in Ids /\ file[k].owner = o
    BY <1>2 DEF LinkedIsCurrent, TypeOK, Handles
  <2>2. /\ file' \in [Ids -> Files] /\ file'[k] = NoFile
        /\ \A i \in Ids : i # k => file'[i] = file[i]
    BY <1>1, <1>2, <2>1 DEF Drop, TypeOK
  <2>3. handle' = [Detached(k) EXCEPT ![p] = NoHandle]
    BY <1>2 DEF Drop
  <2>4. /\ handle' \in [Procs -> Handles] /\ handle'[p] = NoHandle
        /\ \A q \in Procs : q # p => handle'[q] = Detached(k)[q]
    BY <1>1, <2>1, <2>3, DetachedEffect
  <2>5. \A q \in Procs : q # p =>
           /\ handle'[q].id = handle[q].id /\ handle'[q].owner = handle[q].owner
           /\ handle'[q].linked <=> handle[q].linked /\ handle[q].id # k
    BY <2>1, <2>4, DetachedEffect
  <2>6. ~NoHandle.linked
    BY DEF NoHandle
  <2>7. LinkedIsCurrent'
    BY <2>2, <2>4, <2>5, <2>6 DEF LinkedIsCurrent, TypeOK, Handles
  <2>8. \A q \in Procs : q # p => handle'[q].linked = handle[q].linked \/ handle[q].id = k
    BY <2>1, <2>4, DetachedEffect
  <2> QED
    BY <2>1, <2>2, <2>4, <2>5, <2>7, <2>8 DEF Addresses, NoFile
<1>3. CASE ~(handle[p].owner = o /\ handle[p].linked)
  <2>1. file' = file /\ handle' = [handle EXCEPT ![p] = NoHandle]
    BY <1>3 DEF Drop
  <2>2. handle' \in [Procs -> Handles] /\ file' \in [Ids -> Files]
    BY <1>1, <2>1 DEF TypeOK
  <2>3. LinkedIsCurrent'
    BY <2>1 DEF LinkedIsCurrent, TypeOK, NoHandle
  <2> QED
    BY <1>3, <2>1, <2>2, <2>3 DEF Addresses, TypeOK
<1> QED
  BY <1>2, <1>3

\* allocate_id(): a name is taken only where there is none, so from nobody.
LEMMA ClaimInv ==
    ASSUME IInv, NEW s \in Supervisors, Claim(s)
    PROVE  IInv'
<1> USE StoreAssumption
<1> DEFINE k == id[s]
           f == [owner |-> s, published |-> FALSE]
<1>1. /\ UNCHANGED <<pid, run, reply, commit, doomed, cmd, wanted, todo, found, live, subject, back,
                     skipped>>
      /\ sv[s] = "claim" /\ k \in Ids /\ s \in Procs
  BY DEF Claim, runVars, workVars, IInv, TypeOK, Procs
<1>2. CASE file[k] = NoFile
  <2>1. f \in Files /\ f.owner = s /\ f.published = FALSE
    BY DEF Files
  <2>2. Replace(k, f) /\ sv' = [sv EXCEPT ![s] = "publish"] /\ id' = id
    BY <1>2 DEF Claim, SvGoto
  <2>3. /\ file' \in [Ids -> Files] /\ handle' \in [Procs -> Handles] /\ LinkedIsCurrent'
        /\ file'[k] = f /\ \A j \in Ids : j # k => file'[j] = file[j]
        /\ \A p \in Procs :
              /\ handle'[p].id = handle[p].id /\ handle'[p].owner = handle[p].owner
              /\ handle'[p].linked <=> handle[p].linked /\ handle[p].id # k
    BY <1>1, <2>1, <2>2, ReplaceEffect DEF IInv
  <2>4. sv'[s] = "publish" /\ \A t \in Supervisors : t # s => sv'[t] = sv[t]
    BY <2>2 DEF IInv, TypeOK
  <2>5. file[k].owner = Nobody /\ \A j \in Ids : file[j].owner # s
    BY <1>1, <1>2 DEF NoFile, IInv, FilesAreWhereTheyBelong, Claimed
  <2>6. TypeOK'
    BY <1>1, <2>2, <2>3 DEF IInv, TypeOK, Claimed
  <2>7. RunKnows' /\ OnlyNamedSessionsDoomed'
    BY <1>1, <2>4 DEF IInv, RunKnows, OnlyNamedSessionsDoomed
  <2>8. OwnersKeepTheirIds'
    <3>1. \A t \in Supervisors : t # s /\ sv'[t] \in Claimed =>
              sv[t] \in Claimed /\ id'[t] = id[t] /\ id[t] \in Ids /\ id[t] # k
      BY <1>1, <2>2, <2>4, <2>5 DEF IInv, TypeOK, OwnersKeepTheirIds
    <3> QED
      BY <2>1, <2>2, <2>3, <2>4, <3>1 DEF IInv, OwnersKeepTheirIds
  <2>9. FilesAreWhereTheyBelong'
    <3> SUFFICES ASSUME NEW i \in Ids
                 PROVE  LET t == file'[i].owner IN
                        /\ file'[i].published => t \in Supervisors
                        /\ t \in Supervisors =>
                            /\ sv'[t] \in Claimed \cup {"leave", "drop", "crashed"}
                            /\ sv'[t] # "crashed" => i = id'[t]
                            /\ \A j \in Ids : file'[j].owner = t => j = i
      BY DEF FilesAreWhereTheyBelong
    <3>1. CASE i = k
      BY <2>1, <2>2, <2>3, <2>4, <2>5, <3>1 DEF Claimed
    <3>2. CASE i # k
      BY <1>1, <2>1, <2>2, <2>3, <2>4, <2>5, <3>2 DEF IInv, FilesAreWhereTheyBelong
    <3> QED
      BY <3>1, <3>2
  <2>10. KnowledgeIsSettled'
    <3>1. \A t \in Supervisors, i \in Ids : Settled(i, t) => Settled(i, t)'
      BY <1>1, <2>1, <2>3, <2>4 DEF Settled
    <3> QED
      BY <1>1, <3>1 DEF IInv, TypeOK, KnowledgeIsSettled, Knows
  <2>11. OnlyTheDeadAreReaped'
    <3>1. \A t \in Supervisors : sv[t] \in Over => sv'[t] \in Over /\ t # s
      BY <1>1, <2>4 DEF Over
    <3>2. \A t \in Supervisors, i \in Ids : t # s /\ file[i].owner # t => file'[i].owner # t
      BY <2>1, <2>3
    <3>3. \A c \in Commands : cmd[c] \in {"open", "drop", "killed"} => subject[c][2] \in Supervisors
      BY DEF IInv, TypeOK, KnowledgeIsSettled, Knows
    <3> QED
      BY <1>1, <3>1, <3>2, <3>3 DEF IInv, OnlyTheDeadAreReaped, Reaps
  <2>12. DeletesReach'
    <3>1. \A p \in Procs, i \in Ids, t \in Supervisors :
             t # s /\ Addresses(p, i, t) => Addresses(p, i, t)'
      BY <2>1, <2>3, <2>5 DEF Addresses
    <3>2. \A t \in Supervisors : sv'[t] = "drop" => t # s /\ sv[t] = "drop"
      BY <2>4
    <3>3. \A c \in Commands : cmd[c] = "drop" =>
             subject[c][1] \in Ids /\ subject[c][2] \in Supervisors \ {s}
      BY <1>1 DEF IInv, TypeOK, KnowledgeIsSettled, Knows, OnlyTheDeadAreReaped, Reaps, Over
    <3> QED
      BY <1>1, <2>2, <3>1, <3>2, <3>3 DEF IInv, TypeOK, DeletesReach, Procs
  <2> QED
    BY <2>3, <2>6, <2>7, <2>8, <2>9, <2>10, <2>11, <2>12 DEF IInv
<1>3. CASE file[k] # NoFile
  <2>1. UNCHANGED <<file, handle, sv>> /\ k < MaxId /\ id' = [id EXCEPT ![s] = k + 1]
    BY <1>3 DEF Claim
  <2>2. TypeOK'
    BY <1>1, <2>1 DEF IInv, TypeOK, Ids
  <2>3. \A t \in Supervisors : t # s => id'[t] = id[t]
    BY <2>1 DEF IInv, TypeOK
  <2>4. RunKnows' /\ LinkedIsCurrent' /\ OnlyNamedSessionsDoomed' /\ OnlyTheDeadAreReaped'
    BY <1>1, <2>1
       DEF IInv, RunKnows, LinkedIsCurrent, OnlyNamedSessionsDoomed, OnlyTheDeadAreReaped, Reaps
  <2>5. OwnersKeepTheirIds' /\ FilesAreWhereTheyBelong'
    BY <1>1, <2>1, <2>3 DEF IInv, OwnersKeepTheirIds, FilesAreWhereTheyBelong, Claimed
  <2>6. KnowledgeIsSettled'
    BY <1>1, <2>1 DEF IInv, KnowledgeIsSettled, Knows, Settled
  <2>7. DeletesReach'
    BY <1>1, <2>1, <2>3 DEF IInv, DeletesReach, Addresses
  <2> QED
    BY <2>2, <2>4, <2>5, <2>6, <2>7 DEF IInv
<1> QED
  BY <1>2, <1>3

\* publish(): a record replaces only what its own supervisor put there.
LEMMA PublishInv ==
    ASSUME IInv, NEW s \in Supervisors, Publish(s) \/ Republish(s)
    PROVE  IInv'
<1> USE StoreAssumption
<1> DEFINE k == id[s]
           f == [owner |-> s, published |-> TRUE]
<1>1. /\ UNCHANGED <<pid, id, run, reply, commit, doomed, cmd, wanted, todo, found, live, subject,
                     back, skipped>>
      /\ sv[s] \in {"publish", "serve"} /\ k \in Ids /\ Replace(k, f)
  BY DEF Publish, Republish, runVars, workVars, procVars, IInv, TypeOK
<1>2. /\ sv'[s] = (IF sv[s] = "publish" THEN "offer" ELSE "serve")
      /\ \A t \in Supervisors : t # s => sv'[t] = sv[t]
      /\ sv' \in [Supervisors -> {"unborn", "connect", "claim", "leave", "drop"} \cup Claimed \cup Over]
  BY DEF Publish, Republish, SvGoto, procVars, IInv, TypeOK, Claimed
<1>3. f \in Files /\ f.owner = s /\ f.published = TRUE
  BY DEF Files
<1>4. /\ file' \in [Ids -> Files] /\ handle' \in [Procs -> Handles] /\ LinkedIsCurrent'
      /\ file'[k] = f /\ \A j \in Ids : j # k => file'[j] = file[j]
      /\ \A p \in Procs :
            /\ handle'[p].id = handle[p].id /\ handle'[p].owner = handle[p].owner
            /\ handle'[p].linked <=> handle[p].linked /\ handle[p].id # k
  BY <1>1, <1>3, ReplaceEffect DEF IInv
<1>5. file[k].owner = s /\ \A j \in Ids : file'[j].owner = file[j].owner
  <2>1. file[k].owner = s
    BY <1>1 DEF IInv, OwnersKeepTheirIds, Claimed
  <2> QED
    BY <1>3, <1>4, <2>1
<1>6. TypeOK'
  BY <1>1, <1>2, <1>4 DEF IInv, TypeOK
<1>7. RunKnows' /\ OnlyNamedSessionsDoomed'
  BY <1>1, <1>2 DEF IInv, RunKnows, OnlyNamedSessionsDoomed
<1>8. OwnersKeepTheirIds'
  <2>1. \A t \in Supervisors : t # s /\ sv'[t] \in Claimed =>
            sv[t] \in Claimed /\ id'[t] = id[t] /\ id[t] \in Ids /\ id[t] # k
    BY <1>1, <1>2, <1>5 DEF IInv, TypeOK, OwnersKeepTheirIds
  <2> QED
    BY <1>1, <1>2, <1>3, <1>4, <2>1 DEF IInv, OwnersKeepTheirIds
<1>9. FilesAreWhereTheyBelong'
  BY <1>1, <1>2, <1>3, <1>4, <1>5 DEF IInv, TypeOK, FilesAreWhereTheyBelong, Claimed
<1>10. KnowledgeIsSettled'
  <2>1. \A t \in Supervisors, i \in Ids : Settled(i, t) => Settled(i, t)'
    BY <1>2, <1>5 DEF Settled
  <2> QED
    BY <1>1, <2>1 DEF IInv, TypeOK, KnowledgeIsSettled, Knows
<1>11. OnlyTheDeadAreReaped'
  BY <1>1, <1>2, <1>5 DEF IInv, TypeOK, KnowledgeIsSettled, Knows, OnlyTheDeadAreReaped, Reaps, Over
<1>12. DeletesReach'
  <2>1. \A p \in Procs, i \in Ids, t \in Supervisors :
           t # s /\ Addresses(p, i, t) => Addresses(p, i, t)'
    BY <1>4, <1>5 DEF Addresses
  <2>2. \A t \in Supervisors : sv'[t] = "drop" => t # s /\ sv[t] = "drop"
    BY <1>2
  <2>3. \A c \in Commands : cmd[c] = "drop" =>
           subject[c][1] \in Ids /\ subject[c][2] \in Supervisors \ {s}
    BY <1>1 DEF IInv, TypeOK, KnowledgeIsSettled, Knows, OnlyTheDeadAreReaped, Reaps, Over
  <2> QED
    BY <1>1, <2>1, <2>2, <2>3 DEF IInv, TypeOK, DeletesReach, Procs
<1> QED
  BY <1>4, <1>6, <1>7, <1>8, <1>9, <1>10, <1>11, <1>12 DEF IInv

\* A supervisor opens what it has under its id, to delete it.
LEMMA LeaveOpensInv ==
    ASSUME IInv, NEW s \in Supervisors, LeaveOpens(s)
    PROVE  IInv'
<1> USE StoreAssumption
<1>1. /\ UNCHANGED <<pid, id, run, reply, commit, doomed, cmd, wanted, todo, found, live, subject,
                     back, skipped>>
      /\ sv[s] = "leave" /\ sv' = [sv EXCEPT ![s] = "drop"] /\ Open(s, id[s])
      /\ s \in Procs /\ id[s] \in Ids
  BY DEF LeaveOpens, SvGoto, runVars, workVars, IInv, TypeOK, Procs
<1>2. /\ file' = file /\ handle' \in [Procs -> Handles] /\ LinkedIsCurrent'
      /\ \A q \in Procs : q # s => handle'[q] = handle[q]
      /\ Addresses(s, id[s], s)'
  BY <1>1, OpenEffect DEF IInv
<1>3. sv'[s] = "drop" /\ \A t \in Supervisors : t # s => sv'[t] = sv[t]
  BY <1>1 DEF IInv, TypeOK
<1>4. TypeOK'
  BY <1>1, <1>2 DEF IInv, TypeOK
<1>5. RunKnows' /\ OnlyNamedSessionsDoomed'
  BY <1>1, <1>3 DEF IInv, RunKnows, OnlyNamedSessionsDoomed
<1>6. OwnersKeepTheirIds' /\ FilesAreWhereTheyBelong'
  BY <1>1, <1>2, <1>3 DEF IInv, OwnersKeepTheirIds, FilesAreWhereTheyBelong, Claimed
<1>7. KnowledgeIsSettled'
  BY <1>1, <1>2, <1>3 DEF IInv, TypeOK, KnowledgeIsSettled, Knows, Settled
<1>8. OnlyTheDeadAreReaped'
  BY <1>1, <1>2, <1>3 DEF IInv, TypeOK, KnowledgeIsSettled, Knows, OnlyTheDeadAreReaped, Reaps, Over
<1>9. DeletesReach'
  <2>1. \A c \in Commands : c \in Procs /\ c # s
    BY DEF Procs
  <2>2. \A t \in Supervisors : t # s /\ sv'[t] = "drop" => Addresses(t, id[t], t)'
    BY <1>1, <1>2, <1>3 DEF IInv, DeletesReach, Addresses, Procs
  <2>3. \A c \in Commands : cmd'[c] = "drop" => Addresses(c, subject[c][1], subject[c][2])'
    BY <1>1, <1>2, <2>1 DEF IInv, DeletesReach, Addresses
  <2> QED
    BY <1>2, <2>2, <2>3 DEF DeletesReach
<1> QED
  BY <1>2, <1>4, <1>5, <1>6, <1>7, <1>8, <1>9 DEF IInv

\* Deleting a file of owner o moves nobody's files and keeps every other handle good.
LEMMA DropKeeps ==
    ASSUME IInv, NEW p \in Procs, NEW o \in Supervisors, Drop(p, o)
    PROVE  /\ \A i \in Ids : file'[i] = file[i] \/ (file[i].owner = o /\ file'[i] = NoFile)
           /\ \A i \in Ids, t \in Supervisors : file'[i].owner = t => file'[i] = file[i]
           /\ \A q \in Procs, i \in Ids, t \in Supervisors :
                  q # p /\ Addresses(q, i, t) => Addresses(q, i, t)'
<1>1. \A i \in Ids : file'[i] = file[i] \/ (file[i].owner = o /\ file'[i] = NoFile)
  BY DropEffect DEF IInv
<1>2. \A i \in Ids, t \in Supervisors : file'[i].owner = t => file'[i] = file[i] /\ file'[i] # NoFile
  BY <1>1, StoreAssumption DEF NoFile
<1>3. ASSUME NEW q \in Procs, NEW i \in Ids, NEW t \in Supervisors, q # p, Addresses(q, i, t)
      PROVE  Addresses(q, i, t)'
  <2>1. /\ handle'[q].id = i /\ handle'[q].owner = handle[q].owner
        /\ handle'[q].linked = handle[q].linked \/ file'[i] = NoFile
    BY <1>3, DropEffect DEF IInv, Addresses
  <2> QED
    BY <1>2, <1>3, <2>1 DEF Addresses
<1> QED
  BY <1>1, <1>2, <1>3

\* A supervisor deletes what it has left under its id, and ends.
LEMMA LeaveDropsInv ==
    ASSUME IInv, NEW s \in Supervisors, LeaveDrops(s)
    PROVE  IInv'
<1> USE StoreAssumption
<1>1. /\ UNCHANGED <<pid, run, reply, commit, cmd, wanted, todo, found, live, subject, back, skipped>>
      /\ sv[s] = "drop" /\ sv' = [sv EXCEPT ![s] = "gone"] /\ Drop(s, s)
      /\ id' = [id EXCEPT ![s] = 1] /\ doomed' = doomed \ {s} /\ s \in Procs /\ 1 \in Ids
  BY DEF LeaveDrops, SvGoto, runVars, workVars, Procs, Ids
<1>2. /\ file' \in [Ids -> Files] /\ handle' \in [Procs -> Handles] /\ LinkedIsCurrent'
      /\ \A i \in Ids : Addresses(s, i, s) => file'[i].owner # s
  BY <1>1, DropEffect DEF IInv
<1>3. /\ \A i \in Ids : file'[i] = file[i] \/ (file[i].owner = s /\ file'[i] = NoFile)
      /\ \A i \in Ids, t \in Supervisors : file'[i].owner = t => file'[i] = file[i]
      /\ \A q \in Procs, i \in Ids, t \in Supervisors :
             q # s /\ Addresses(q, i, t) => Addresses(q, i, t)'
  BY <1>1, DropKeeps
<1>4. /\ sv'[s] = "gone" /\ \A t \in Supervisors : t # s => sv'[t] = sv[t] /\ id'[t] = id[t]
      /\ id' \in [Supervisors -> Ids]
  BY <1>1 DEF IInv, TypeOK
<1>5. \A i \in Ids : file'[i].owner # s
  <2>1. id[s] \in Ids /\ Addresses(s, id[s], s)
    BY <1>1 DEF IInv, TypeOK, DeletesReach
  <2>2. \A i \in Ids : file[i].owner = s => i = id[s]
    BY <1>1 DEF IInv, FilesAreWhereTheyBelong
  <2> QED
    BY <1>2, <1>3, <2>1, <2>2
<1>6. TypeOK'
  BY <1>1, <1>2, <1>4 DEF IInv, TypeOK, Over
<1>7. RunKnows' /\ OnlyNamedSessionsDoomed'
  BY <1>1, <1>4 DEF IInv, RunKnows, OnlyNamedSessionsDoomed
<1>8. OwnersKeepTheirIds'
  <2>1. \A t \in Supervisors : sv'[t] \in Claimed =>
            t # s /\ sv[t] \in Claimed /\ id[t] \in Ids /\ file[id[t]].owner = t
    BY <1>1, <1>4 DEF IInv, TypeOK, OwnersKeepTheirIds, Claimed
  <2> QED
    BY <1>3, <1>4, <2>1 DEF IInv, OwnersKeepTheirIds
<1>9. FilesAreWhereTheyBelong'
  BY <1>3, <1>4, <1>5 DEF IInv, FilesAreWhereTheyBelong, NoFile
<1>10. KnowledgeIsSettled'
  <2>1. \A t \in Supervisors, i \in Ids : Settled(i, t) => Settled(i, t)'
    BY <1>3, <1>4 DEF Settled
  <2> QED
    BY <1>1, <2>1 DEF IInv, TypeOK, KnowledgeIsSettled, Knows
<1>11. OnlyTheDeadAreReaped'
  <2>1. \A t \in Supervisors : sv[t] \in Over => sv'[t] \in Over
    BY <1>4 DEF Over
  <2>2. \A c \in Commands : cmd[c] \in {"open", "drop", "killed"} => subject[c][2] \in Supervisors
    BY DEF IInv, TypeOK, KnowledgeIsSettled, Knows
  <2> QED
    BY <1>1, <1>3, <2>1, <2>2 DEF IInv, OnlyTheDeadAreReaped, Reaps
<1>12. DeletesReach'
  <2>1. \A t \in Supervisors : sv'[t] = "drop" => t # s /\ sv[t] = "drop" /\ id'[t] = id[t]
    BY <1>4
  <2>2. \A c \in Commands : cmd[c] = "drop" => subject[c][1] \in Ids /\ subject[c][2] \in Supervisors
    BY DEF IInv, TypeOK, KnowledgeIsSettled, Knows
  <2> QED
    BY <1>1, <1>3, <2>1, <2>2 DEF IInv, TypeOK, DeletesReach, Procs
<1> QED
  BY <1>2, <1>6, <1>7, <1>8, <1>9, <1>10, <1>11, <1>12 DEF IInv

\* A supervisor ends on the spot and leaves its files behind.
LEMMA DieInv ==
    ASSUME IInv, NEW s \in Supervisors, Die(s)
    PROVE  IInv'
<1> USE StoreAssumption
<1>1. /\ UNCHANGED <<file, pid, run, reply, cmd, wanted, todo, found, live, subject, back, skipped>>
      /\ sv[s] \notin Over \cup {"unborn"} /\ sv' = [sv EXCEPT ![s] = "crashed"]
      /\ handle' = [handle EXCEPT ![s] = NoHandle] /\ id' = [id EXCEPT ![s] = 1]
      /\ doomed' = doomed \ {s} /\ commit' = commit \ {s} /\ s \in Procs /\ 1 \in Ids
  BY DEF Die, Alive, SvGoto, workVars, Procs, Ids
<1>2. /\ handle' \in [Procs -> Handles] /\ handle'[s] = NoHandle
      /\ \A q \in Procs : q # s => handle'[q] = handle[q]
  BY <1>1 DEF IInv, TypeOK, Handles, NoHandle
<1>3. /\ sv'[s] = "crashed" /\ \A t \in Supervisors : t # s => sv'[t] = sv[t] /\ id'[t] = id[t]
      /\ id' \in [Supervisors -> Ids]
  BY <1>1 DEF IInv, TypeOK
<1>4. TypeOK'
  BY <1>1, <1>2, <1>3 DEF IInv, TypeOK, Over
<1>5. RunKnows' /\ OnlyNamedSessionsDoomed'
  BY <1>1, <1>3 DEF IInv, RunKnows, OnlyNamedSessionsDoomed, Over
<1>6. LinkedIsCurrent'
  BY <1>1, <1>2 DEF IInv, LinkedIsCurrent, NoHandle
<1>7. OwnersKeepTheirIds' /\ FilesAreWhereTheyBelong'
  BY <1>1, <1>3 DEF IInv, OwnersKeepTheirIds, FilesAreWhereTheyBelong, Claimed, Over
<1>8. KnowledgeIsSettled'
  BY <1>1, <1>3 DEF IInv, TypeOK, KnowledgeIsSettled, Knows, Settled
<1>9. OnlyTheDeadAreReaped'
  BY <1>1, <1>3 DEF IInv, TypeOK, KnowledgeIsSettled, Knows, OnlyTheDeadAreReaped, Reaps, Over
<1>10. DeletesReach'
  <2>1. \A c \in Commands : c \in Procs /\ c # s
    BY DEF Procs
  <2> QED
    BY <1>1, <1>2, <1>3, <2>1 DEF IInv, DeletesReach, Addresses, Procs
<1> QED
  BY <1>4, <1>5, <1>6, <1>7, <1>8, <1>9, <1>10 DEF IInv

----------------------------------------------------------------------------
(* list, resume and kill. *)

\* A step of a command that touches no file and no handle and tells nobody to
\* end: what matters is that the command still knows what it has to know.
LEMMA QuietCommand ==
    ASSUME IInv, TypeOK', NEW c \in Commands,
           UNCHANGED <<file, handle, sv, pid, id, run, reply, commit, doomed>>,
           \A d \in Commands \ {c} :
               /\ cmd'[d] = cmd[d] /\ found'[d] = found[d] /\ subject'[d] = subject[d]
               /\ wanted'[d] = wanted[d] /\ back'[d] = back[d],
           Knows(c)', Reaps(c)', cmd'[c] # "drop",
           \/ subject'[c] = subject[c] /\ wanted'[c] = wanted[c]
           \/ subject[c] = <<0, Nobody>> \/ wanted[c] = 0
    PROVE  IInv'
<1> USE StoreAssumption
<1>1. RunKnows' /\ LinkedIsCurrent' /\ OwnersKeepTheirIds' /\ FilesAreWhereTheyBelong'
  BY DEF IInv, RunKnows, LinkedIsCurrent, OwnersKeepTheirIds, FilesAreWhereTheyBelong
<1>2. KnowledgeIsSettled'
  BY DEF IInv, KnowledgeIsSettled, Knows, Settled
<1>3. OnlyTheDeadAreReaped'
  BY DEF IInv, OnlyTheDeadAreReaped, Reaps
<1>4. DeletesReach'
  BY DEF IInv, DeletesReach, Addresses
<1>5. OnlyNamedSessionsDoomed'
  <2> SUFFICES ASSUME NEW s \in doomed
               PROVE  \E d \in Commands : subject'[d] = <<wanted'[d], s>>
    BY DEF OnlyNamedSessionsDoomed
  <2>1. PICK d \in Commands : subject[d] = <<wanted[d], s>>
    BY DEF IInv, OnlyNamedSessionsDoomed
  <2>2. s \in Supervisors /\ subject[d] \in (Ids \X Supervisors) \cup {<<0, Nobody>>} /\ 0 \notin Ids
    BY DEF IInv, TypeOK, Ids
  <2>3. d = c => subject'[c] = subject[c] /\ wanted'[c] = wanted[c]
    BY <2>1, <2>2
  <2> QED
    BY <2>1, <2>3
<1> QED
  BY <1>1, <1>2, <1>3, <1>4, <1>5 DEF IInv

\* A process that was born and is not running is over.
LEMMA DeadIsOver ==
    ASSUME TypeOK, NEW s \in Supervisors, ~Running(s), sv[s] # "unborn"
    PROVE  sv[s] \in Over
  BY DEF Running, OpenVerified, Alive

\* A command begins.
LEMMA BeginInv ==
    ASSUME IInv, NEW c \in Commands, List(c) \/ \E i \in Ids : Require(c, i)
    PROVE  IInv'
<1>1. /\ UNCHANGED <<file, handle, sv, pid, id, run, reply, commit, doomed, found, live, subject, back,
                     skipped>>
      /\ cmd[c] = "idle" /\ subject[c] = <<0, Nobody>>
  BY DEF List, Require, Begin, procVars, runVars, IInv, KnowledgeIsSettled, Knows
<1>2. PICK to, i : /\ CmdGoto(c, to) /\ wanted' = [wanted EXCEPT ![c] = i]
                   /\ (to = "records" /\ i = 0) \/ (to = "read" /\ i \in Ids)
  BY DEF List, Require, Begin
<1>3. todo' = [todo EXCEPT ![c] = Ids] \/ todo' = todo
  BY DEF List, Require
<1>4. TypeOK'
  BY <1>1, <1>2, <1>3 DEF CmdGoto, IInv, TypeOK
<1>5. /\ cmd'[c] = to /\ wanted'[c] = i
      /\ \A d \in Commands \ {c} : cmd'[d] = cmd[d] /\ wanted'[d] = wanted[d]
  BY <1>2 DEF CmdGoto, IInv, TypeOK
<1>6. Knows(c)'
  BY <1>1, <1>2, <1>5 DEF IInv, KnowledgeIsSettled, Knows, Settled
<1>7. Reaps(c)'
  BY <1>2, <1>5 DEF Reaps
<1> QED
  BY <1>1, <1>2, <1>4, <1>5, <1>6, <1>7, QuietCommand

\* What stands in the store is settled knowledge for whoever reads it.
LEMMA ReadIsSettled ==
    ASSUME IInv, NEW i \in Ids, file[i].published \/ file[i] # NoFile
    PROVE  file[i].owner \in Supervisors /\ Settled(i, file[i].owner)
<1>1. file[i].owner \in Supervisors
  <2>1. CASE file[i].published
    BY <2>1 DEF IInv, FilesAreWhereTheyBelong
  <2>2. CASE ~file[i].published
    <3>1. file[i] \in Files
      BY DEF IInv, TypeOK
    <3>2. file[i].owner = Nobody => file[i] = NoFile
      BY <2>2, <3>1 DEF Files, NoFile
    <3> QED
      BY <2>2, <3>1, <3>2 DEF Files
  <2> QED
    BY <2>1, <2>2
<1> QED
  BY <1>1 DEF IInv, FilesAreWhereTheyBelong, Settled, Claimed

\* live_sessions() reads an entry of the directory.
LEMMA ReadEntryInv ==
    ASSUME IInv, NEW c \in Commands, ReadEntry(c)
    PROVE  IInv'
<1>1. PICK i \in todo[c] :
         /\ cmd[c] \in {"records", "claims"} /\ todo' = [todo EXCEPT ![c] = @ \ {i}]
         /\ found' = IF file[i] # NoFile /\ file[i].published = (cmd[c] = "records")
                       THEN [found EXCEPT ![c] = @ \cup {<<i, file[i].owner>>}] ELSE found
         /\ CmdGoto(c, IF todo[c] # {i} THEN cmd[c]
                        ELSE IF cmd[c] = "records" THEN "probe" ELSE "probe_claims")
         /\ UNCHANGED <<file, handle, procVars, runVars, doomed, wanted, live, subject, back, skipped>>
  BY DEF ReadEntry
<1>2. UNCHANGED <<file, handle, sv, pid, id, run, reply, commit, doomed, wanted, live, subject, back,
                  skipped>>
  BY <1>1 DEF procVars, runVars
<1>3. i \in Ids
  BY <1>1 DEF IInv, TypeOK
<1>4. \/ found' = found
      \/ file[i] # NoFile /\ found' = [found EXCEPT ![c] = @ \cup {<<i, file[i].owner>>}]
  BY <1>1
<1>5. file[i] # NoFile => file[i].owner \in Supervisors /\ Settled(i, file[i].owner)
  BY <1>3, ReadIsSettled
<1>6. PICK to \in {"records", "claims", "probe", "probe_claims"} : CmdGoto(c, to)
  BY <1>1
<1>7. TypeOK'
  BY <1>1, <1>2, <1>3, <1>4, <1>5, <1>6 DEF CmdGoto, IInv, TypeOK
<1>8. /\ cmd'[c] = to /\ \A d \in Commands \ {c} : cmd'[d] = cmd[d] /\ found'[d] = found[d]
      /\ \A e \in found'[c] : e \in found[c] \/ (e = <<i, file[i].owner>> /\ file[i] # NoFile)
  BY <1>4, <1>6 DEF CmdGoto, IInv, TypeOK
<1>9. Knows(c)'
  BY <1>1, <1>2, <1>5, <1>8 DEF IInv, KnowledgeIsSettled, Knows, Settled
<1>10. Reaps(c)'
  BY <1>8 DEF Reaps
<1> QED
  BY <1>2, <1>7, <1>8, <1>9, <1>10, QuietCommand

\* live_sessions() probes the next session or claim: what proves dead is reaped.
LEMMA ProbeInv ==
    ASSUME IInv, NEW c \in Commands, ProbeSession(c) \/ ProbeClaim(c)
    PROVE  IInv'
<1>1. /\ UNCHANGED <<file, handle, sv, pid, id, run, reply, commit, doomed, wanted>>
      /\ cmd[c] \in {"probe", "probe_claims"}
  BY DEF ProbeSession, ProbeClaim, procVars, runVars
<1>2. PICK e \in found[c], answer \in {"live", "dead", "failed"} :
        /\ answer \in Answers(e[2])
        /\ subject' = IF answer = "dead" THEN [subject EXCEPT ![c] = e] ELSE subject
        /\ live' = live \/ live' = [live EXCEPT ![c] = @ \cup {e}]
        /\ skipped' = skipped \/ skipped' = [skipped EXCEPT ![c] = @ \cup {e[2]}]
        /\ IF answer = "failed" /\ cmd[c] = "probe" THEN Finish(c, "failed") /\ back' = back
           ELSE /\ found' = [found EXCEPT ![c] = @ \ {e}] /\ todo' = todo
                /\ IF answer = "dead" THEN Reap(c, cmd[c]) ELSE CmdGoto(c, cmd[c]) /\ back' = back
  <2>1. CASE ProbeSession(c)
    BY <2>1 DEF ProbeSession, ProbedNext, Answers
  <2>2. CASE ProbeClaim(c)
    BY <2>2 DEF ProbeClaim, ProbedNext, Answers
  <2> QED
    BY <2>1, <2>2
<1>3. found[c] \subseteq Ids \X Supervisors /\ wanted[c] = 0
  BY <1>1 DEF IInv, TypeOK, KnowledgeIsSettled, Knows
<1>4. e \in Ids \X Supervisors /\ e # <<0, Nobody>> /\ e[2] \in Supervisors
  BY <1>3, StoreAssumption
<1>5. Settled(e[1], e[2])
  BY <1>4 DEF IInv, KnowledgeIsSettled, Knows
<1>6. answer = "dead" => sv[e[2]] \in Over
  <2>1. answer = "dead" => ~Running(e[2])
    BY <1>2 DEF Answers
  <2> QED
    BY <1>4, <1>5, <2>1, DeadIsOver DEF IInv, Settled
<1>7. /\ found'[c] \subseteq found[c]
      /\ \A d \in Commands \ {c} :
            /\ cmd'[d] = cmd[d] /\ found'[d] = found[d] /\ subject'[d] = subject[d]
            /\ back'[d] = back[d]
      /\ \/ cmd'[c] \in {"failed", "probe", "probe_claims"} /\ subject'[c] = subject[c]
            /\ back'[c] = back[c]
         \/ cmd'[c] = "open" /\ subject'[c] = e /\ sv[e[2]] \in Over
  <2>1. CASE answer = "failed" /\ cmd[c] = "probe"
    BY <1>2, <2>1 DEF Finish, CmdGoto, IInv, TypeOK
  <2>2. CASE answer = "dead"
    BY <1>2, <1>6, <2>2 DEF Reap, CmdGoto, IInv, TypeOK
  <2>3. CASE answer # "dead" /\ ~(answer = "failed" /\ cmd[c] = "probe")
    BY <1>1, <1>2, <2>3 DEF CmdGoto, IInv, TypeOK
  <2> QED
    BY <2>1, <2>2, <2>3
<1>8. TypeOK'
  <2>1. subject' \in [Commands -> (Ids \X Supervisors) \cup {<<0, Nobody>>}]
    BY <1>2, <1>4 DEF IInv, TypeOK
  <2>2. /\ live' \in [Commands -> SUBSET (Ids \X Supervisors)]
        /\ skipped' \in [Commands -> SUBSET Supervisors]
    <3>1. {e} \subseteq Ids \X Supervisors /\ {e[2]} \subseteq Supervisors
      BY <1>4
    <3>2. live' \in [Commands -> SUBSET (Ids \X Supervisors)]
      BY <1>2, <3>1 DEF IInv, TypeOK
    <3>3. skipped' \in [Commands -> SUBSET Supervisors]
      BY <1>2, <3>1 DEF IInv, TypeOK
    <3> QED
      BY <3>2, <3>3
  <2>3. /\ found' = [found EXCEPT ![c] = {}] \/ found' = [found EXCEPT ![c] = @ \ {e}]
        /\ todo' = todo \/ todo' = [todo EXCEPT ![c] = {}]
    BY <1>2 DEF Finish
  <2>4. /\ found' \in [Commands -> SUBSET (Ids \X Supervisors)]
        /\ todo' \in [Commands -> SUBSET Ids]
    BY <2>3 DEF IInv, TypeOK
  <2>5. /\ back' = back \/ back' = [back EXCEPT ![c] = cmd[c]]
        /\ \E to \in {"failed", "open", "probe", "probe_claims"} : cmd' = [cmd EXCEPT ![c] = to]
    BY <1>1, <1>2 DEF Finish, Reap, CmdGoto
  <2>6. back' \in [Commands -> {"probe", "probe_claims", "killed", "missing"}]
    BY <1>1, <2>5 DEF IInv, TypeOK
  <2>7. cmd' \in [Commands -> {"idle", "records", "probe", "claims", "probe_claims", "read", "probe_one",
                                "terminate", "wait", "open", "drop"} \cup Finished]
    BY <2>5 DEF IInv, TypeOK, Finished
  <2> QED
    BY <1>1, <2>1, <2>2, <2>4, <2>6, <2>7 DEF IInv, TypeOK
<1>9. Knows(c)'
  BY <1>1, <1>3, <1>4, <1>5, <1>7 DEF IInv, KnowledgeIsSettled, Knows, Settled
<1>10. Reaps(c)'
  BY <1>1, <1>7 DEF Reaps
<1> QED
  BY <1>1, <1>3, <1>7, <1>8, <1>9, <1>10, QuietCommand

\* The second pass begins, or the list is done.
LEMMA PassEndsInv ==
    ASSUME IInv, NEW c \in Commands, PassEnds(c)
    PROVE  IInv'
<1>1. /\ UNCHANGED <<file, handle, sv, pid, id, run, reply, commit, doomed, wanted, live, subject, back,
                     skipped>>
      /\ cmd[c] \in {"probe", "probe_claims"}
  BY DEF PassEnds, procVars, runVars
<1>2. /\ \E to \in {"claims", "listed"} : CmdGoto(c, to)
      /\ found' = found \/ found' = [found EXCEPT ![c] = {}]
      /\ todo' = [todo EXCEPT ![c] = Ids] \/ todo' = [todo EXCEPT ![c] = {}]
  BY DEF PassEnds, Finish
<1>3. TypeOK'
  <2>1. cmd' = [cmd EXCEPT ![c] = "claims"] \/ cmd' = [cmd EXCEPT ![c] = "listed"]
    BY <1>2 DEF CmdGoto
  <2>2. todo' \in [Commands -> SUBSET Ids]
    BY <1>2 DEF IInv, TypeOK
  <2>3. found' \in [Commands -> SUBSET (Ids \X Supervisors)]
    BY <1>2 DEF IInv, TypeOK
  <2> QED
    BY <1>1, <2>1, <2>2, <2>3 DEF IInv, TypeOK, Finished
<1>4. /\ cmd'[c] \in {"claims", "listed"} /\ found'[c] \subseteq found[c]
      /\ \A d \in Commands \ {c} : cmd'[d] = cmd[d] /\ found'[d] = found[d]
  BY <1>2 DEF CmdGoto, IInv, TypeOK
<1>5. Knows(c)'
  BY <1>1, <1>4 DEF IInv, KnowledgeIsSettled, Knows, Settled
<1>6. Reaps(c)'
  BY <1>4 DEF Reaps
<1> QED
  BY <1>1, <1>3, <1>4, <1>5, <1>6, QuietCommand

\* kill and resume read the record they are to act on.
LEMMA ReadOneInv ==
    ASSUME IInv, NEW c \in Commands, ReadOne(c)
    PROVE  IInv'
<1> DEFINE i == wanted[c]
<1>1. /\ UNCHANGED <<file, handle, sv, pid, id, run, reply, commit, doomed, wanted, todo, found, live,
                     back, skipped>>
      /\ cmd[c] = "read" /\ i \in Ids /\ subject[c] = <<0, Nobody>>
  BY DEF ReadOne, procVars, runVars, IInv, KnowledgeIsSettled, Knows
<1>2. CASE file[i].published
  <2>1. file[i].owner \in Supervisors /\ Settled(i, file[i].owner)
    BY <1>1, <1>2, ReadIsSettled
  <2>2. CmdGoto(c, "probe_one") /\ subject' = [subject EXCEPT ![c] = <<i, file[i].owner>>]
    BY <1>2 DEF ReadOne
  <2>3. TypeOK'
    BY <1>1, <2>1, <2>2 DEF CmdGoto, IInv, TypeOK
  <2>4. /\ cmd'[c] = "probe_one" /\ subject'[c] = <<i, file[i].owner>>
        /\ \A d \in Commands \ {c} : cmd'[d] = cmd[d] /\ subject'[d] = subject[d]
    BY <2>2 DEF CmdGoto, IInv, TypeOK
  <2>5. Knows(c)'
    BY <1>1, <2>1, <2>4, StoreAssumption DEF IInv, KnowledgeIsSettled, Knows, Settled
  <2>6. Reaps(c)'
    BY <2>4 DEF Reaps
  <2> QED
    BY <1>1, <2>3, <2>4, <2>5, <2>6, QuietCommand
<1>3. CASE ~file[i].published
  <2>1. CmdGoto(c, "missing") /\ subject' = subject
    BY <1>3 DEF ReadOne
  <2>2. TypeOK'
    BY <1>1, <2>1 DEF CmdGoto, IInv, TypeOK, Finished
  <2>3. cmd'[c] = "missing" /\ \A d \in Commands \ {c} : cmd'[d] = cmd[d]
    BY <2>1 DEF CmdGoto, IInv, TypeOK
  <2>4. Knows(c)'
    BY <1>1, <2>1, <2>3 DEF IInv, KnowledgeIsSettled, Knows, Settled
  <2>5. Reaps(c)'
    BY <2>3 DEF Reaps
  <2> QED
    BY <1>1, <2>1, <2>2, <2>3, <2>4, <2>5, QuietCommand
<1> QED
  BY <1>2, <1>3

\* kill and resume ask whether the recorded process runs.
LEMMA ProbeOneInv ==
    ASSUME IInv, NEW c \in Commands, ProbeOne(c)
    PROVE  IInv'
<1>1. /\ UNCHANGED <<file, handle, sv, pid, id, run, reply, commit, doomed, wanted, todo, found, live,
                     subject, skipped>>
      /\ cmd[c] = "probe_one"
  BY DEF ProbeOne, procVars, runVars
<1>2. subject[c] # <<0, Nobody>> /\ subject[c][2] \in Supervisors
      /\ Settled(subject[c][1], subject[c][2])
      /\ wanted[c] \in Ids /\ subject[c][1] = wanted[c]
  BY <1>1 DEF IInv, TypeOK, KnowledgeIsSettled, Knows
<1>3. \/ back' = back /\ \E to \in {"resumed", "terminate", "failed"} : cmd' = [cmd EXCEPT ![c] = to]
      \/ /\ back' = [back EXCEPT ![c] = "missing"] /\ cmd' = [cmd EXCEPT ![c] = "open"]
         /\ ~Running(subject[c][2])
  BY DEF ProbeOne, Reap, CmdGoto, Answers
<1>4. ~Running(subject[c][2]) => sv[subject[c][2]] \in Over
  BY <1>2, DeadIsOver DEF IInv, Settled
<1>5. /\ \/ cmd'[c] \in {"resumed", "terminate", "failed"} /\ back'[c] = back[c]
         \/ cmd'[c] = "open" /\ back'[c] = "missing" /\ sv[subject[c][2]] \in Over
      /\ \A d \in Commands \ {c} : cmd'[d] = cmd[d] /\ back'[d] = back[d]
  BY <1>3, <1>4 DEF IInv, TypeOK
<1>6. TypeOK'
  BY <1>1, <1>3 DEF IInv, TypeOK, Finished
<1>7. Knows(c)'
  BY <1>1, <1>2, <1>5 DEF IInv, KnowledgeIsSettled, Knows, Settled
<1>8. Reaps(c)'
  BY <1>1, <1>5 DEF Reaps
<1> QED
  BY <1>1, <1>5, <1>6, <1>7, <1>8, QuietCommand

\* kill tells the process of the record it was asked for to end, and no other.
LEMMA TerminateInv ==
    ASSUME IInv, NEW c \in Commands, Terminate(c)
    PROVE  IInv'
<1>1. /\ UNCHANGED <<file, handle, sv, pid, id, run, reply, commit, wanted, todo, found, live, subject,
                     skipped>>
      /\ cmd[c] = "terminate"
  BY DEF Terminate, procVars, runVars
<1>2. subject[c] # <<0, Nobody>> /\ subject[c][2] \in Supervisors
      /\ Settled(subject[c][1], subject[c][2])
      /\ wanted[c] \in Ids /\ subject[c] = <<wanted[c], subject[c][2]>>
  BY <1>1 DEF IInv, TypeOK, KnowledgeIsSettled, Knows
<1>3. CASE ~Running(subject[c][2])
  <2>1. /\ doomed' = doomed /\ back' = [back EXCEPT ![c] = "missing"]
        /\ cmd' = [cmd EXCEPT ![c] = "open"]
    BY <1>3 DEF Terminate, Reap, CmdGoto
  <2>2. sv[subject[c][2]] \in Over
    BY <1>2, <1>3, DeadIsOver DEF IInv, Settled
  <2>3. /\ cmd'[c] = "open" /\ back'[c] = "missing"
        /\ \A d \in Commands \ {c} : cmd'[d] = cmd[d] /\ back'[d] = back[d]
    BY <2>1 DEF IInv, TypeOK
  <2>4. TypeOK'
    BY <1>1, <2>1 DEF IInv, TypeOK
  <2>5. Knows(c)'
    BY <1>1, <1>2, <2>3 DEF IInv, KnowledgeIsSettled, Knows, Settled
  <2>6. Reaps(c)'
    BY <1>1, <2>2, <2>3 DEF Reaps
  <2> QED
    BY <1>1, <2>1, <2>3, <2>4, <2>5, <2>6, QuietCommand
<1>4. CASE Running(subject[c][2])
  <2>1. /\ doomed' = doomed \cup OpenVerified(subject[c][2]) /\ back' = back
        /\ cmd' = [cmd EXCEPT ![c] = "wait"]
    BY <1>4 DEF Terminate, CmdGoto
  <2>2. OpenVerified(subject[c][2]) \subseteq {subject[c][2]}
    BY DEF OpenVerified
  <2>3. cmd'[c] = "wait" /\ \A d \in Commands \ {c} : cmd'[d] = cmd[d]
    BY <2>1 DEF IInv, TypeOK
  <2>4. TypeOK'
    BY <1>1, <1>2, <2>1, <2>2 DEF IInv, TypeOK
  <2>5. RunKnows' /\ LinkedIsCurrent' /\ OwnersKeepTheirIds' /\ FilesAreWhereTheyBelong'
    BY <1>1 DEF IInv, RunKnows, LinkedIsCurrent, OwnersKeepTheirIds, FilesAreWhereTheyBelong
  <2>6. KnowledgeIsSettled'
    <3>1. Knows(c)'
      BY <1>1, <1>2, <2>3 DEF IInv, KnowledgeIsSettled, Knows, Settled
    <3> QED
      BY <1>1, <2>1, <2>3, <3>1 DEF IInv, KnowledgeIsSettled, Knows, Settled
  <2>7. OnlyTheDeadAreReaped' /\ DeletesReach'
    BY <1>1, <2>3 DEF IInv, OnlyTheDeadAreReaped, Reaps, DeletesReach, Addresses
  <2>8. OnlyNamedSessionsDoomed'
    BY <1>1, <1>2, <2>1, <2>2 DEF IInv, OnlyNamedSessionsDoomed
  <2> QED
    BY <2>4, <2>5, <2>6, <2>7, <2>8 DEF IInv
<1> QED
  BY <1>3, <1>4

\* kill goes on once the process has ended, or gives up.
LEMMA AwaitedInv ==
    ASSUME IInv, NEW c \in Commands, Awaited(c)
    PROVE  IInv'
<1>1. /\ UNCHANGED <<file, handle, sv, pid, id, run, reply, commit, doomed, wanted, todo, found, live,
                     subject, skipped>>
      /\ cmd[c] \in {"terminate", "wait"}
  BY DEF Awaited, procVars, runVars
<1>2. subject[c] # <<0, Nobody>> /\ Settled(subject[c][1], subject[c][2]) /\ wanted[c] \in Ids
  BY <1>1 DEF IInv, TypeOK, KnowledgeIsSettled, Knows
<1>3. \/ back' = back /\ cmd' = [cmd EXCEPT ![c] = "failed"]
      \/ /\ back' = [back EXCEPT ![c] = "killed"] /\ cmd' = [cmd EXCEPT ![c] = "open"]
         /\ sv[subject[c][2]] \in Over
  BY DEF Awaited, Reap, CmdGoto
<1>4. /\ \/ cmd'[c] = "failed" /\ back'[c] = back[c]
         \/ cmd'[c] = "open" /\ back'[c] = "killed" /\ sv[subject[c][2]] \in Over
      /\ \A d \in Commands \ {c} : cmd'[d] = cmd[d] /\ back'[d] = back[d]
  BY <1>3 DEF IInv, TypeOK
<1>5. TypeOK'
  BY <1>1, <1>3 DEF IInv, TypeOK, Finished
<1>6. Knows(c)'
  BY <1>1, <1>2, <1>4 DEF IInv, KnowledgeIsSettled, Knows, Settled
<1>7. Reaps(c)'
  BY <1>1, <1>4 DEF Reaps
<1> QED
  BY <1>1, <1>4, <1>5, <1>6, <1>7, QuietCommand

\* A command opens what stands under the id of the dead owner it is to reap.
LEMMA CommandOpensInv ==
    ASSUME IInv, NEW c \in Commands, CommandOpens(c)
    PROVE  IInv'
<1> USE StoreAssumption
<1>1. /\ UNCHANGED <<sv, pid, id, run, reply, commit, doomed, wanted, todo, found, live, subject, back,
                     skipped>>
      /\ cmd[c] = "open" /\ cmd' = [cmd EXCEPT ![c] = "drop"] /\ Open(c, subject[c][1])
      /\ c \in Procs
  BY DEF CommandOpens, CmdGoto, runVars, procVars, workVars, Procs
<1>2. subject[c] # <<0, Nobody>> /\ subject[c][1] \in Ids /\ subject[c][2] \in Supervisors
  BY <1>1 DEF IInv, TypeOK, KnowledgeIsSettled, Knows
<1>3. /\ file' = file /\ handle' \in [Procs -> Handles] /\ LinkedIsCurrent'
      /\ \A q \in Procs : q # c => handle'[q] = handle[q]
      /\ Addresses(c, subject[c][1], subject[c][2])'
  BY <1>1, <1>2, OpenEffect DEF IInv
<1>4. cmd'[c] = "drop" /\ \A d \in Commands : d # c => cmd'[d] = cmd[d]
  BY <1>1 DEF IInv, TypeOK
<1>5. TypeOK'
  BY <1>1, <1>3 DEF IInv, TypeOK
<1>6. /\ RunKnows' /\ OnlyNamedSessionsDoomed' /\ OwnersKeepTheirIds' /\ FilesAreWhereTheyBelong'
  BY <1>1, <1>3
     DEF IInv, RunKnows, OnlyNamedSessionsDoomed, OwnersKeepTheirIds, FilesAreWhereTheyBelong
<1>7. KnowledgeIsSettled'
  BY <1>1, <1>3, <1>4 DEF IInv, KnowledgeIsSettled, Knows, Settled
<1>8. OnlyTheDeadAreReaped'
  BY <1>1, <1>3, <1>4 DEF IInv, OnlyTheDeadAreReaped, Reaps
<1>9. DeletesReach'
  <2>1. \A t \in Supervisors : t \in Procs /\ t # c
    BY DEF Procs
  <2>2. \A t \in Supervisors : sv'[t] = "drop" => Addresses(t, id[t], t)'
    BY <1>1, <1>3, <2>1 DEF IInv, DeletesReach, Addresses
  <2>3. \A d \in Commands : d # c /\ cmd'[d] = "drop" => Addresses(d, subject[d][1], subject[d][2])'
    BY <1>1, <1>3, <1>4 DEF IInv, DeletesReach, Addresses, Procs
  <2> QED
    BY <1>1, <1>3, <2>2, <2>3 DEF DeletesReach
<1> QED
  BY <1>3, <1>5, <1>6, <1>7, <1>8, <1>9 DEF IInv

\* A command deletes what the dead owner left, and nothing of anybody else.
LEMMA CommandDropsInv ==
    ASSUME IInv, NEW c \in Commands, CommandDrops(c)
    PROVE  IInv'
<1> USE StoreAssumption
<1> DEFINE o == subject[c][2]
<1>1. /\ UNCHANGED <<sv, pid, id, run, reply, commit, doomed, wanted, todo, found, live, subject, back,
                     skipped>>
      /\ cmd[c] = "drop" /\ cmd' = [cmd EXCEPT ![c] = back[c]] /\ Drop(c, o) /\ c \in Procs
  BY DEF CommandDrops, CmdGoto, runVars, procVars, workVars, Procs
<1>2. /\ subject[c] # <<0, Nobody>> /\ subject[c][1] \in Ids /\ o \in Supervisors /\ sv[o] \in Over
      /\ Settled(subject[c][1], o) /\ Addresses(c, subject[c][1], o)
      /\ back[c] \in {"probe", "probe_claims"} => wanted[c] = 0
  BY <1>1
     DEF IInv, TypeOK, KnowledgeIsSettled, Knows, OnlyTheDeadAreReaped, Reaps, DeletesReach
<1>3. /\ file' \in [Ids -> Files] /\ handle' \in [Procs -> Handles] /\ LinkedIsCurrent'
      /\ file'[subject[c][1]].owner # o
  BY <1>1, <1>2, DropEffect DEF IInv
<1>4. /\ \A i \in Ids : file'[i] = file[i] \/ (file[i].owner = o /\ file'[i] = NoFile)
      /\ \A i \in Ids, t \in Supervisors : file'[i].owner = t => file'[i] = file[i]
      /\ \A q \in Procs, i \in Ids, t \in Supervisors :
             q # c /\ Addresses(q, i, t) => Addresses(q, i, t)'
  BY <1>1, <1>2, DropKeeps
<1>5. /\ cmd'[c] = back[c] /\ back[c] \in {"probe", "probe_claims", "killed", "missing"}
      /\ \A d \in Commands : d # c => cmd'[d] = cmd[d]
  BY <1>1 DEF IInv, TypeOK
<1>6. TypeOK'
  <2>1. cmd' \in [Commands -> {"idle", "records", "probe", "claims", "probe_claims", "read", "probe_one",
                                "terminate", "wait", "open", "drop"} \cup Finished]
    BY <1>1, <1>5 DEF IInv, TypeOK, Finished
  <2> QED
    BY <1>1, <1>3, <2>1 DEF IInv, TypeOK
<1>7. RunKnows' /\ OnlyNamedSessionsDoomed'
  BY <1>1 DEF IInv, RunKnows, OnlyNamedSessionsDoomed
<1>8. OwnersKeepTheirIds'
  <2>1. \A t \in Supervisors : sv[t] \in Claimed =>
            t # o /\ id[t] \in Ids /\ file[id[t]].owner = t
    BY <1>2 DEF IInv, TypeOK, OwnersKeepTheirIds, Claimed, Over
  <2> QED
    BY <1>1, <1>4, <2>1 DEF IInv, OwnersKeepTheirIds
<1>9. FilesAreWhereTheyBelong'
  BY <1>1, <1>4 DEF IInv, FilesAreWhereTheyBelong, NoFile
<1>10. \A t \in Supervisors, i \in Ids : Settled(i, t) => Settled(i, t)'
  BY <1>1, <1>4 DEF Settled
<1>11. KnowledgeIsSettled'
  <2>1. Knows(c)'
    BY <1>1, <1>2, <1>5, <1>10 DEF IInv, TypeOK, KnowledgeIsSettled, Knows
  <2> QED
    BY <1>1, <1>5, <1>10, <2>1 DEF IInv, TypeOK, KnowledgeIsSettled, Knows
<1>12. OnlyTheDeadAreReaped'
  <2>1. \A d \in Commands : cmd[d] \in {"open", "drop", "killed"} => subject[d][2] \in Supervisors
    BY DEF IInv, TypeOK, KnowledgeIsSettled, Knows
  <2>2. \A i \in Ids : file'[i].owner # o
    BY <1>2, <1>3, <1>4 DEF Settled
  <2> QED
    BY <1>1, <1>2, <1>4, <1>5, <2>1, <2>2 DEF IInv, OnlyTheDeadAreReaped, Reaps
<1>13. DeletesReach'
  <2>1. \A t \in Supervisors : t \in Procs /\ t # c
    BY DEF Procs
  <2>2. \A d \in Commands : cmd[d] = "drop" => subject[d][1] \in Ids /\ subject[d][2] \in Supervisors
    BY DEF IInv, TypeOK, KnowledgeIsSettled, Knows
  <2>3. cmd'[c] # "drop"
    BY <1>5
  <2> QED
    BY <1>1, <1>4, <1>5, <2>1, <2>2, <2>3 DEF IInv, TypeOK, DeletesReach, Procs
<1> QED
  BY <1>3, <1>6, <1>7, <1>8, <1>9, <1>11, <1>12, <1>13 DEF IInv

----------------------------------------------------------------------------
(* The theorems. *)

\* Every step of every process keeps the invariant.
LEMMA NextIInv == IInv /\ [Next]_vars => IInv'
<1> SUFFICES ASSUME IInv, [Next]_vars PROVE IInv'
  OBVIOUS
<1>1. ASSUME NEW s \in Supervisors, Starting(s) PROVE IInv'
  BY <1>1, QuietSupervisorSteps
<1>2. ASSUME NEW s \in Supervisors, Supervising(s) PROVE IInv'
  <2>1. CASE Connect(s) \/ Fail(s) \/ Offer(s) \/ Committed(s) \/ NotCommitted(s) \/ Retire(s)
    BY <2>1, QuietSupervisorSteps
  <2>2. CASE Claim(s)
    BY <2>2, ClaimInv
  <2>3. CASE Publish(s) \/ Republish(s)
    BY <2>3, PublishInv
  <2>4. CASE LeaveOpens(s)
    BY <2>4, LeaveOpensInv
  <2>5. CASE LeaveDrops(s)
    BY <2>5, LeaveDropsInv
  <2>6. CASE Die(s)
    BY <2>6, DieInv
  <2> QED
    BY <1>2, <2>1, <2>2, <2>3, <2>4, <2>5, <2>6 DEF Supervising
<1>3. ASSUME NEW c \in Commands, Commanding(c) PROVE IInv'
  <2>1. CASE List(c) \/ \E i \in Ids : Require(c, i)
    BY <2>1, BeginInv
  <2>2. CASE ReadEntry(c)
    BY <2>2, ReadEntryInv
  <2>3. CASE ProbeSession(c) \/ ProbeClaim(c)
    BY <2>3, ProbeInv
  <2>4. CASE PassEnds(c)
    BY <2>4, PassEndsInv
  <2>5. CASE ReadOne(c)
    BY <2>5, ReadOneInv
  <2>6. CASE ProbeOne(c)
    BY <2>6, ProbeOneInv
  <2>7. CASE Terminate(c)
    BY <2>7, TerminateInv
  <2>8. CASE Awaited(c)
    BY <2>8, AwaitedInv
  <2>9. CASE CommandOpens(c)
    BY <2>9, CommandOpensInv
  <2>10. CASE CommandDrops(c)
    BY <2>10, CommandDropsInv
  <2> QED
    BY <1>3, <2>1, <2>2, <2>3, <2>4, <2>5, <2>6, <2>7, <2>8, <2>9, <2>10 DEF Commanding
<1>4. CASE UNCHANGED vars
  BY <1>4
     DEF vars, state, procVars, runVars, workVars, IInv, TypeOK, RunKnows, LinkedIsCurrent,
         OwnersKeepTheirIds, FilesAreWhereTheyBelong, KnowledgeIsSettled, Knows, Settled,
         OnlyTheDeadAreReaped, Reaps, DeletesReach, Addresses, OnlyNamedSessionsDoomed
<1> QED
  BY <1>1, <1>2, <1>3, <1>4 DEF Next

\* What a command knows stays settled, only the dead are reaped and every
\* delete addresses what its owner left, whatever the processes of dure do.
THEOREM SpecIInv == Spec => []IInv
<1>1. Init => IInv
  BY InitIInv
<1>2. IInv /\ [Next]_vars => IInv'
  BY NextIInv
<1> QED
  BY <1>1, <1>2, PTL DEF Spec

\* Type correctness of the store, the handles and what the processes remember.
THEOREM SpecTypeOK == Spec => []TypeOK
<1>1. IInv => TypeOK
  BY DEF IInv
<1> QED
  BY <1>1, SpecIInv, PTL

\* No startup and no reaping command takes the name of a session that lives,
\* although ids and pids are reused between any two of their steps.
THEOREM NoSessionLosesItsId == Spec => []OwnersKeepTheirIds
<1>1. IInv => OwnersKeepTheirIds
  BY DEF IInv
<1> QED
  BY <1>1, SpecIInv, PTL

\* When `run` has reported a failure, the supervisor neither serves nor, having
\* ended in order, leaves a claim or a record in the store.
THEOREM FailureLeavesNoSession == Spec => []FailedRunLeavesNothing
<1>1. IInv => FailedRunLeavesNothing
  <2> SUFFICES ASSUME IInv, NEW s \in Supervisors, run[s] = "failed"
               PROVE  sv[s] # "serve" /\ (sv[s] = "gone" => \A i \in Ids : file[i].owner # s)
    BY DEF FailedRunLeavesNothing
  <2>1. sv[s] # "serve"
    BY DEF IInv, RunKnows
  <2>2. sv[s] = "gone" => \A i \in Ids : file[i].owner # s
    BY DEF IInv, FilesAreWhereTheyBelong, Claimed
  <2> QED
    BY <2>1, <2>2
<1> QED
  BY <1>1, SpecIInv, PTL

\* kill ends the process that its record named, never one that merely has the
\* pid or the id now, and success means that it has ended and left no file.
THEOREM KillEndsOnlyItsTarget == Spec => []KillHitsItsTarget
<1>1. IInv => KillHitsItsTarget
  BY DEF IInv, KillHitsItsTarget, OnlyTheDeadAreReaped, Reaps
<1> QED
  BY <1>1, SpecIInv, PTL

----------------------------------------------------------------------------
(* What commands answer. *)

\* The world a command looks at: what is over stays so and keeps its files only
\* to lose them, and a session that serves has served under its id all along.
Steady ==
    /\ \A s \in Supervisors :
          /\ sv[s] \in Over => sv'[s] \in Over
          /\ sv[s] \in Served => sv'[s] \in Served
          /\ sv[s] \in Served /\ sv'[s] = "serve" => sv[s] = "serve" /\ id'[s] = id[s]
    /\ \A i \in Ids, s \in Supervisors :
          sv[s] \in Over /\ file'[i].owner = s => file'[i] = file[i]

\* Whatever supervisors and other commands do to the store keeps a command's account.
LEMMA AnswerKept ==
    ASSUME AnswersInv, Steady, NEW c \in Commands,
           before'[c] = before[c], cmd'[c] = cmd[c], wanted'[c] = wanted[c], todo'[c] = todo[c],
           found'[c] = found[c], live'[c] = live[c], subject'[c] = subject[c],
           back'[c] = back[c], skipped'[c] = skipped[c]
    PROVE  Answered(c)'
<1>1. before[c].dead \subseteq Supervisors /\ before[c].serving \subseteq Supervisors
  BY DEF AnswersInv
<1>2. NobodyReturns(c)'
  BY <1>1 DEF AnswersInv, Answered, NobodyReturns, Steady
<1>3. \A s \in StillServing(c)' : s \in StillServing(c) /\ id'[s] = id[s]
  BY <1>1 DEF AnswersInv, Answered, NobodyReturns, StillServing, Steady
<1>4. \A s \in before[c].dead, i \in Ids : file'[i].owner = s => file'[i] = file[i]
  BY <1>1 DEF AnswersInv, Answered, NobodyReturns, Steady
<1>5. /\ FirstPass(c)' <=> FirstPass(c)
      /\ SecondPass(c)' <=> SecondPass(c)
      /\ \A i, s : Ahead(c, i, s)' <=> Ahead(c, i, s)
  BY DEF FirstPass, SecondPass, Ahead, Reaping
<1>6. NothingMissed(c)'
  BY <1>3, <1>4, <1>5 DEF AnswersInv, Answered, NothingMissed
<1>7. NamedIsRead(c)'
  BY <1>3 DEF AnswersInv, Answered, NamedIsRead
<1>8. TrueAnswer(c)'
  BY <1>3, <1>4 DEF AnswersInv, Answered, TrueAnswer
<1> QED
  BY <1>2, <1>6, <1>7, <1>8 DEF Answered

\* A process's next place, if it takes a step of its own.
LEMMA SvMoves ==
    ASSUME IInv, NEW s \in Supervisors, Starting(s) \/ Supervising(s)
    PROVE  /\ \A t \in Supervisors : t # s => sv'[t] = sv[t] /\ id'[t] = id[t]
           /\ sv[s] \in Over => sv'[s] \in Over
           /\ sv[s] \in Served => sv'[s] \in Served
           /\ sv[s] \in Served /\ sv'[s] = "serve" => sv[s] = "serve" /\ id'[s] = id[s]
<1> USE DEF IInv, TypeOK, SvGoto, Served, Over
<1>1. CASE \E p \in Pids : Spawn(s, p)
  BY <1>1 DEF Spawn, RunKnows
<1>2. CASE RunReceives(s) \/ RunCommits(s) \/ RunFails(s)
  BY <1>2 DEF RunReceives, RunCommits, RunFails, procVars
<1>3. CASE Connect(s) \/ Claim(s) \/ Publish(s) \/ Fail(s)
  BY <1>3 DEF Connect, Claim, Publish, Fail, procVars
<1>4. CASE Offer(s) \/ Committed(s) \/ NotCommitted(s) \/ Retire(s)
  BY <1>4 DEF Offer, Committed, NotCommitted, Retire, procVars
<1>5. CASE Republish(s)
  BY <1>5 DEF Republish, procVars
<1>6. CASE LeaveOpens(s) \/ LeaveDrops(s)
  BY <1>6 DEF LeaveOpens, LeaveDrops
<1>7. CASE Die(s)
  BY <1>7 DEF Die, Alive
<1> QED
  BY <1>1, <1>2, <1>3, <1>4, <1>5, <1>6, <1>7 DEF Starting, Supervising

\* A file comes to an owner only by that owner's own step, which the dead do not take.
LEMMA FilesOfTheDead ==
    ASSUME IInv, NEW s \in Supervisors, Starting(s) \/ Supervising(s),
           NEW i \in Ids, NEW t \in Supervisors, sv[t] \in Over, file'[i].owner = t
    PROVE  file'[i] = file[i]
<1>1. CASE Claim(s) \/ Publish(s) \/ Republish(s)
  <2>1. s # t /\ id[s] \in Ids
    BY <1>1 DEF Claim, Publish, Republish, Over, IInv, TypeOK
  <2>2. file' = file \/ \E f \in Files : f.owner = s /\ Replace(id[s], f)
    BY <1>1 DEF Claim, Publish, Republish, Files
  <2> QED
    BY <2>1, <2>2 DEF Replace, IInv, TypeOK
<1>2. CASE LeaveDrops(s)
  <2>1. Drop(s, s) /\ s \in Procs
    BY <1>2 DEF LeaveDrops, Procs
  <2> QED
    BY <2>1, DropEffect, StoreAssumption DEF IInv, NoFile
<1>3. CASE ~(Claim(s) \/ Publish(s) \/ Republish(s) \/ LeaveDrops(s))
  BY <1>3
     DEF Starting, Supervising, Spawn, RunReceives, RunCommits, RunFails, Connect, Fail, Offer,
         Committed, NotCommitted, Retire, LeaveOpens, Open, Die
<1> QED
  BY <1>1, <1>2, <1>3

\* Supervisors and the runs that start them keep every command's account.
LEMMA SupervisorKeepsAnswers ==
    ASSUME IInv, AnswersInv, NEW s \in Supervisors, Starting(s) \/ Supervising(s)
    PROVE  AnswersInv'
<1>1. Steady
  <2>1. \A t \in Supervisors :
          /\ sv[t] \in Over => sv'[t] \in Over
          /\ sv[t] \in Served => sv'[t] \in Served
          /\ sv[t] \in Served /\ sv'[t] = "serve" => sv[t] = "serve" /\ id'[t] = id[t]
    BY SvMoves
  <2> QED
    BY <2>1, FilesOfTheDead DEF Steady
<1>2. UNCHANGED <<cmd, workVars>>
  BY DEF Starting, Supervising, Spawn, RunReceives, RunCommits, RunFails, Connect, Claim, Publish, Fail,
         Offer, Committed, NotCommitted, Republish, Retire, LeaveOpens, LeaveDrops, Die
<1>3. UNCHANGED <<wanted, todo, found, live, subject, back, skipped, before>>
  BY <1>2 DEF workVars
<1> QED
  BY <1>1, <1>2, <1>3, AnswerKept DEF AnswersInv

\* A command works on nothing that another one remembers.
LEMMA CommandsAreApart ==
    ASSUME IInv, AnswersInv, NEW c \in Commands, Commanding(c), NEW d \in Commands, d # c
    PROVE  /\ before'[d] = before[d] /\ cmd'[d] = cmd[d] /\ wanted'[d] = wanted[d] /\ todo'[d] = todo[d]
           /\ found'[d] = found[d] /\ live'[d] = live[d] /\ subject'[d] = subject[d]
           /\ back'[d] = back[d] /\ skipped'[d] = skipped[d]
<1> USE DEF IInv, TypeOK, AnswersInv, CmdGoto, Reap, Finish
<1>1. CASE List(c) \/ \E i \in Ids : Require(c, i)
  BY <1>1 DEF List, Require, Begin
<1>2. CASE ReadEntry(c)
  BY <1>2 DEF ReadEntry
<1>3. CASE ProbeSession(c)
  BY <1>3 DEF ProbeSession
<1>4. CASE ProbeClaim(c)
  BY <1>4 DEF ProbeClaim
<1>5. CASE PassEnds(c)
  BY <1>5 DEF PassEnds
<1>6. CASE ReadOne(c)
  BY <1>6 DEF ReadOne
<1>7. CASE ProbeOne(c)
  BY <1>7 DEF ProbeOne
<1>8. CASE Terminate(c) \/ Awaited(c)
  BY <1>8 DEF Terminate, Awaited
<1>9. CASE CommandOpens(c) \/ CommandDrops(c)
  BY <1>9 DEF CommandOpens, CommandDrops, workVars
<1> QED
  BY <1>1, <1>2, <1>3, <1>4, <1>5, <1>6, <1>7, <1>8, <1>9 DEF Commanding

\* Commands move no supervisor, and take files only from the dead.
LEMMA CommandIsSteady ==
    ASSUME IInv, NEW c \in Commands, Commanding(c)
    PROVE  Steady /\ UNCHANGED <<sv, id>>
<1>1. UNCHANGED <<sv, id>>
  BY DEF Commanding, List, Require, ReadEntry, ProbeSession, ProbeClaim, PassEnds, ReadOne, ProbeOne,
         Terminate, Awaited, CommandOpens, CommandDrops, procVars
<1>2. CASE CommandDrops(c)
  <2>1. Drop(c, subject[c][2]) /\ c \in Procs /\ subject[c][2] \in Supervisors
    BY <1>2 DEF CommandDrops, Procs, IInv, TypeOK, KnowledgeIsSettled, Knows
  <2>2. \A i \in Ids : file'[i] = file[i] \/ file'[i] = NoFile
    BY <2>1, DropEffect DEF IInv
  <2> QED
    BY <1>1, <2>2, StoreAssumption DEF Steady, NoFile
<1>3. CASE ~CommandDrops(c)
  <2>1. file' = file
    BY <1>3
       DEF Commanding, List, Require, ReadEntry, ProbeSession, ProbeClaim, PassEnds, ReadOne, ProbeOne,
           Terminate, Awaited, CommandOpens, Open
  <2> QED
    BY <1>1, <2>1 DEF Steady
<1> QED
  BY <1>1, <1>2, <1>3

\* A command's own step: what counts is its own account.
LEMMA CommandKeepsAnswers ==
    ASSUME IInv, AnswersInv, NEW c \in Commands, Commanding(c), Answered(c)',
           before' \in [Commands -> [dead : SUBSET Supervisors, serving : SUBSET Supervisors]]
    PROVE  AnswersInv'
  BY AnswerKept, CommandsAreApart, CommandIsSteady DEF AnswersInv

\* Between its first and its last step a command does not look again at who served
\* when it began.
LEMMA BeforeIsFixed ==
    ASSUME NEW c \in Commands, Commanding(c), ~List(c), \A i \in Ids : ~Require(c, i)
    PROVE  before' = before
  BY DEF Commanding, ReadEntry, ProbeSession, ProbeClaim, PassEnds, ReadOne, ProbeOne, Terminate, Awaited,
         CommandOpens, CommandDrops, workVars

\* A session that has served throughout has its record in the store.
LEMMA ServingIsPublished ==
    ASSUME IInv, AnswersInv, NEW c \in Commands, NEW s \in StillServing(c)
    PROVE  /\ s \in Supervisors /\ id[s] \in Ids /\ sv[s] = "serve" /\ Running(s)
           /\ file[id[s]].published /\ file[id[s]].owner = s
<1>1. s \in Supervisors /\ sv[s] = "serve" /\ id[s] \in Ids
  BY DEF StillServing, AnswersInv, IInv, TypeOK
<1>2. Running(s)
  BY <1>1 DEF Running, OpenVerified, Alive, Over
<1> QED
  BY <1>1, <1>2 DEF IInv, OwnersKeepTheirIds, Claimed

\* live_sessions(), require_live_session(): who serves and who is over is noted,
\* and the whole directory is still to be read.
LEMMA BeginAnswers ==
    ASSUME IInv, AnswersInv, NEW c \in Commands, List(c) \/ \E i \in Ids : Require(c, i)
    PROVE  AnswersInv'
<1>1. /\ UNCHANGED <<file, sv, id, found, live, subject, back, skipped>>
      /\ cmd[c] = "idle"
      /\ before' = [before EXCEPT ![c] = [dead |-> {s \in Supervisors : sv[s] \in Over},
                                          serving |-> {s \in Supervisors : sv[s] = "serve"}]]
      /\ \/ cmd' = [cmd EXCEPT ![c] = "records"] /\ todo' = [todo EXCEPT ![c] = Ids]
         \/ cmd' = [cmd EXCEPT ![c] = "read"] /\ todo' = todo
  BY DEF List, Require, Begin, CmdGoto, procVars
<1>2. /\ before'[c].dead = {s \in Supervisors : sv[s] \in Over}
      /\ before'[c].serving = {s \in Supervisors : sv[s] = "serve"}
      /\ before' \in [Commands -> [dead : SUBSET Supervisors, serving : SUBSET Supervisors]]
  BY <1>1 DEF AnswersInv
<1>3. \/ cmd'[c] = "records" /\ todo'[c] = Ids
      \/ cmd'[c] = "read" /\ todo'[c] = {}
  BY <1>1 DEF IInv, TypeOK, AnswersInv, Answered, NothingMissed
<1>4. NobodyReturns(c)'
  BY <1>1, <1>2 DEF NobodyReturns, Served
<1>5. NothingMissed(c)'
  <2>1. \A s \in StillServing(c)' : id'[s] \in Ids
    BY <1>1, <1>2 DEF StillServing, IInv, TypeOK
  <2> QED
    BY <1>3, <2>1 DEF NothingMissed, FirstPass, SecondPass, Reaping, Ahead
<1>6. NamedIsRead(c)' /\ TrueAnswer(c)'
  BY <1>3 DEF NamedIsRead, TrueAnswer
<1> QED
  BY <1>2, <1>4, <1>5, <1>6, CommandKeepsAnswers DEF Commanding, Answered

\* stored(): an entry that is taken off the directory is either kept, being of
\* the kind this pass is about, or is not what the pass is after.
LEMMA ReadEntryAnswers ==
    ASSUME IInv, AnswersInv, NEW c \in Commands, ReadEntry(c)
    PROVE  AnswersInv'
<1>1. PICK i \in todo[c] :
         /\ cmd[c] \in {"records", "claims"} /\ todo' = [todo EXCEPT ![c] = @ \ {i}]
         /\ found' = IF file[i] # NoFile /\ file[i].published = (cmd[c] = "records")
                       THEN [found EXCEPT ![c] = @ \cup {<<i, file[i].owner>>}] ELSE found
         /\ CmdGoto(c, IF todo[c] # {i} THEN cmd[c]
                        ELSE IF cmd[c] = "records" THEN "probe" ELSE "probe_claims")
  BY DEF ReadEntry
<1>2. UNCHANGED <<file, sv, id, wanted, live, subject, back, skipped, before>> /\ i \in Ids
  BY <1>1 DEF ReadEntry, procVars, IInv, TypeOK
<1>3. /\ todo'[c] = todo[c] \ {i}
      /\ found[c] \subseteq found'[c]
      /\ file[i] # NoFile /\ (file[i].published <=> cmd[c] = "records") =>
            <<i, file[i].owner>> \in found'[c]
      /\ cmd'[c] = IF todo[c] # {i} THEN cmd[c]
                   ELSE IF cmd[c] = "records" THEN "probe" ELSE "probe_claims"
  <2>1. file[i].published \in BOOLEAN
    BY <1>2 DEF IInv, TypeOK, Files
  <2> QED
    BY <1>1, <2>1 DEF CmdGoto, IInv, TypeOK
<1>4. /\ FirstPass(c)' <=> FirstPass(c) /\ cmd[c] = "records"
      /\ SecondPass(c)' <=> SecondPass(c) /\ cmd[c] = "claims"
      /\ StillServing(c)' = StillServing(c)
  BY <1>1, <1>2, <1>3 DEF FirstPass, SecondPass, Reaping, StillServing
<1>5. ASSUME NEW j \in Ids, NEW s \in Supervisors, file[j].owner = s, Ahead(c, j, s),
             file[j].published <=> cmd[c] = "records"
      PROVE  Ahead(c, j, s)'
  <2>1. CASE j = i
    <3>1. file[i] # NoFile
      BY <1>5, <2>1, StoreAssumption DEF NoFile
    <3> QED
      BY <1>3, <1>5, <2>1, <3>1 DEF Ahead
  <2>2. CASE j # i
    BY <1>1, <1>3, <1>5, <2>2 DEF Ahead, Reaping
  <2> QED
    BY <2>1, <2>2
<1>6. NothingMissed(c)'
  <2>1. cmd'[c] \notin {"records", "claims"} => todo'[c] = {}
    BY <1>1, <1>3
  <2>2. ASSUME NEW s \in StillServing(c), NEW k, k = id[s]
        PROVE  /\ FirstPass(c)' => <<k, s>> \in live[c] \/ Ahead(c, k, s)'
               /\ SecondPass(c)' => <<k, s>> \in live[c]
    <3>1. s \in Supervisors /\ k \in Ids /\ file[k].owner = s /\ file[k].published
      BY <2>2, ServingIsPublished
    <3>2. /\ FirstPass(c) => <<k, s>> \in live[c] \/ Ahead(c, k, s)
          /\ SecondPass(c) => <<k, s>> \in live[c]
      BY <2>2 DEF AnswersInv, Answered, NothingMissed
    <3>3. cmd[c] = "records" /\ Ahead(c, k, s) => Ahead(c, k, s)'
      BY <1>5, <3>1
    <3> QED
      BY <1>4, <3>2, <3>3
  <2>3. ASSUME NEW s \in before[c].dead, NEW j \in Ids, file[j].owner = s
        PROVE  /\ FirstPass(c)' => ~file[j].published \/ Ahead(c, j, s)'
               /\ SecondPass(c)' => s \in skipped[c] \/ (~file[j].published /\ Ahead(c, j, s)')
    <3>1. s \in Supervisors /\ file[j].published \in BOOLEAN
      BY DEF AnswersInv, IInv, TypeOK, Files
    <3>2. /\ FirstPass(c) => ~file[j].published \/ Ahead(c, j, s)
          /\ SecondPass(c) => s \in skipped[c] \/ (~file[j].published /\ Ahead(c, j, s))
      BY <2>3 DEF AnswersInv, Answered, NothingMissed
    <3>3. CASE FirstPass(c)' /\ file[j].published
      <4>1. (file[j].published <=> cmd[c] = "records") /\ ~SecondPass(c)'
        BY <1>4, <3>1, <3>3
      <4> QED
        BY <1>4, <1>5, <2>3, <3>1, <3>2, <3>3, <4>1
    <3>4. CASE SecondPass(c)' /\ s \notin skipped[c]
      <4>1. (file[j].published <=> cmd[c] = "records") /\ ~FirstPass(c)'
        BY <1>4, <3>1, <3>2, <3>4
      <4> QED
        BY <1>4, <1>5, <2>3, <3>1, <3>2, <3>4, <4>1
    <3>5. ~(FirstPass(c)' /\ SecondPass(c)')
      BY <1>4
    <3> QED
      BY <3>3, <3>4, <3>5
  <2> QED
    BY <1>2, <1>4, <2>1, <2>2, <2>3 DEF NothingMissed
<1>7. NobodyReturns(c)'
  BY <1>2 DEF AnswersInv, Answered, NobodyReturns
<1>8. NamedIsRead(c)' /\ TrueAnswer(c)'
  BY <1>1, <1>3 DEF NamedIsRead, TrueAnswer
<1> QED
  BY <1>2, <1>6, <1>7, <1>8, CommandKeepsAnswers DEF Commanding, Answered, AnswersInv

\* probe(): a session that serves is found alive, or the list fails; what is
\* over is found dead, or an unknown owner is skipped.
LEMMA ProbeAnswers ==
    ASSUME IInv, AnswersInv, NEW c \in Commands, ProbeSession(c) \/ ProbeClaim(c)
    PROVE  AnswersInv'
<1>1. /\ UNCHANGED <<file, sv, id, wanted, before>> /\ todo[c] = {} /\ wanted[c] = 0
      /\ cmd[c] \in {"probe", "probe_claims"}
  BY DEF ProbeSession, ProbeClaim, procVars, IInv, KnowledgeIsSettled, Knows, AnswersInv, Answered,
         NothingMissed
<1>2. PICK e \in found[c], answer \in {"live", "dead", "failed"} :
        /\ answer \in Answers(e[2])
        /\ subject' = IF answer = "dead" THEN [subject EXCEPT ![c] = e] ELSE subject
        /\ live' = live \/ live' = [live EXCEPT ![c] = @ \cup {e}]
        /\ answer = "live" /\ cmd[c] = "probe" => live' = [live EXCEPT ![c] = @ \cup {e}]
        /\ skipped' = skipped \/ skipped' = [skipped EXCEPT ![c] = @ \cup {e[2]}]
        /\ answer = "failed" /\ cmd[c] # "probe" => skipped' = [skipped EXCEPT ![c] = @ \cup {e[2]}]
        /\ IF answer = "failed" /\ cmd[c] = "probe" THEN Finish(c, "failed") /\ back' = back
           ELSE /\ found' = [found EXCEPT ![c] = @ \ {e}] /\ todo' = todo
                /\ IF answer = "dead" THEN Reap(c, cmd[c]) ELSE CmdGoto(c, cmd[c]) /\ back' = back
  <2>1. CASE ProbeSession(c)
    BY <2>1 DEF ProbeSession, ProbedNext, Answers
  <2>2. CASE ProbeClaim(c)
    BY <2>2 DEF ProbeClaim, ProbedNext, Answers
  <2> QED
    BY <2>1, <2>2
<1>3. e[2] \in Supervisors /\ e \in Ids \X Supervisors
  BY DEF IInv, TypeOK
<1>4. StillServing(c)' = StillServing(c) /\ NobodyReturns(c)'
  BY <1>1 DEF StillServing, AnswersInv, Answered, NobodyReturns
<1>5. CASE answer = "failed" /\ cmd[c] = "probe"
  <2>1. cmd'[c] = "failed" /\ todo'[c] = {}
    BY <1>2, <1>5 DEF Finish, CmdGoto, IInv, TypeOK
  <2>2. NothingMissed(c)' /\ NamedIsRead(c)' /\ TrueAnswer(c)'
    BY <2>1 DEF NothingMissed, FirstPass, SecondPass, Reaping, NamedIsRead, TrueAnswer
  <2> QED
    BY <1>1, <1>4, <2>2, CommandKeepsAnswers DEF Commanding, Answered, AnswersInv
<1>6. CASE ~(answer = "failed" /\ cmd[c] = "probe")
  <2>1. /\ found'[c] = found[c] \ {e} /\ todo'[c] = {}
        /\ IF answer = "dead" THEN cmd'[c] = "open" /\ back'[c] = cmd[c] /\ subject'[c] = e
                              ELSE cmd'[c] = cmd[c]
        /\ live[c] \subseteq live'[c] /\ skipped[c] \subseteq skipped'[c]
        /\ answer = "live" /\ cmd[c] = "probe" => e \in live'[c]
        /\ answer = "failed" => e[2] \in skipped'[c]
    BY <1>1, <1>2, <1>3, <1>6 DEF Reap, CmdGoto, IInv, TypeOK
  <2>2. /\ FirstPass(c) <=> cmd[c] = "probe"
        /\ SecondPass(c) <=> cmd[c] = "probe_claims"
        /\ FirstPass(c)' <=> cmd[c] = "probe"
        /\ SecondPass(c)' <=> cmd[c] = "probe_claims"
    BY <1>1, <2>1 DEF FirstPass, SecondPass, Reaping
  <2>3. \A j, s : Ahead(c, j, s) => Ahead(c, j, s)' \/ (e = <<j, s>> /\ answer # "dead")
    BY <1>1, <2>1 DEF Ahead, Reaping
  <2>4. ASSUME NEW s \in StillServing(c), NEW k, k = id[s]
        PROVE  /\ FirstPass(c)' => <<k, s>> \in live'[c] \/ Ahead(c, k, s)'
               /\ SecondPass(c)' => <<k, s>> \in live'[c]
    <3>1. /\ FirstPass(c) => <<k, s>> \in live[c] \/ Ahead(c, k, s)
          /\ SecondPass(c) => <<k, s>> \in live[c]
      BY <2>4 DEF AnswersInv, Answered, NothingMissed
    <3>2. e = <<k, s>> => answer # "dead"
      BY <1>2, <2>4, ServingIsPublished DEF Answers
    <3>3. e = <<k, s>> /\ cmd[c] = "probe" => <<k, s>> \in live'[c]
      BY <1>6, <2>1, <3>2
    <3>4. FirstPass(c)' => <<k, s>> \in live'[c] \/ Ahead(c, k, s)'
      BY <2>1, <2>2, <2>3, <3>1, <3>3
    <3>5. SecondPass(c)' => <<k, s>> \in live'[c]
      BY <2>1, <2>2, <3>1
    <3> QED
      BY <3>4, <3>5
  <2>5. ASSUME NEW s \in before[c].dead, NEW j \in Ids, file[j].owner = s
        PROVE  /\ FirstPass(c)' => ~file[j].published \/ Ahead(c, j, s)'
               /\ SecondPass(c)' => s \in skipped'[c] \/ (~file[j].published /\ Ahead(c, j, s)')
    <3>1. /\ FirstPass(c) => ~file[j].published \/ Ahead(c, j, s)
          /\ SecondPass(c) => s \in skipped[c] \/ (~file[j].published /\ Ahead(c, j, s))
      BY <2>5 DEF AnswersInv, Answered, NothingMissed
    <3>2. e = <<j, s>> => answer # "live"
      <4>1. sv[s] \in Over
        BY DEF AnswersInv, Answered, NobodyReturns
      <4> QED
        BY <1>2, <4>1 DEF Answers, Running, OpenVerified, Alive
    <3>3. e = <<j, s>> => s = e[2]
      OBVIOUS
    <3> QED
      BY <1>6, <2>1, <2>2, <2>3, <3>1, <3>2, <3>3
  <2>6. NothingMissed(c)'
    BY <1>1, <1>4, <2>1, <2>4, <2>5 DEF NothingMissed
  <2>7. NamedIsRead(c)' /\ TrueAnswer(c)'
    <3>1. \A s \in StillServing(c) : id[s] # wanted[c]
      BY <1>1, ServingIsPublished DEF Ids
    <3> QED
      BY <1>1, <1>4, <2>1, <3>1 DEF NamedIsRead, TrueAnswer
  <2> QED
    BY <1>1, <1>4, <2>6, <2>7, CommandKeepsAnswers DEF Commanding, Answered, AnswersInv
<1> QED
  BY <1>5, <1>6

\* The first pass is over: no record of the dead is left, and every session that
\* serves is found.  The second is over: no claim of the dead is left either.
LEMMA PassEndsAnswers ==
    ASSUME IInv, AnswersInv, NEW c \in Commands, PassEnds(c)
    PROVE  AnswersInv'
<1>1. /\ UNCHANGED <<file, sv, id, wanted, live, subject, back, skipped, before>>
      /\ found[c] = {} /\ todo[c] = {} /\ cmd[c] \in {"probe", "probe_claims"}
  BY DEF PassEnds, procVars, AnswersInv, Answered, NothingMissed
<1>2. StillServing(c)' = StillServing(c) /\ NobodyReturns(c)' /\ \A i, s : ~Ahead(c, i, s)
  BY <1>1 DEF StillServing, AnswersInv, Answered, NobodyReturns, Ahead, Reaping
<1>3. /\ \A s \in StillServing(c) : <<id[s], s>> \in live[c]
      /\ \A s \in before[c].dead : \A i \in Ids : file[i].owner = s =>
            /\ cmd[c] = "probe" => ~file[i].published
            /\ cmd[c] = "probe_claims" => s \in skipped[c]
  BY <1>1, <1>2 DEF AnswersInv, Answered, NothingMissed, FirstPass, SecondPass
<1>4. CASE cmd[c] = "probe"
  <2>1. cmd'[c] = "claims" /\ todo'[c] = Ids
    BY <1>4 DEF PassEnds, CmdGoto, IInv, TypeOK
  <2>2. NothingMissed(c)' /\ NamedIsRead(c)' /\ TrueAnswer(c)'
    BY <1>1, <1>2, <1>3, <1>4, <2>1
       DEF NothingMissed, FirstPass, SecondPass, Reaping, Ahead, NamedIsRead, TrueAnswer
  <2> QED
    BY <1>1, <1>2, <2>2, CommandKeepsAnswers DEF Commanding, Answered, AnswersInv
<1>5. CASE cmd[c] = "probe_claims"
  <2>1. cmd'[c] = "listed" /\ todo'[c] = {}
    BY <1>5 DEF PassEnds, Finish, CmdGoto, IInv, TypeOK
  <2>2. NothingMissed(c)' /\ NamedIsRead(c)'
    BY <2>1 DEF NothingMissed, FirstPass, SecondPass, Reaping, NamedIsRead
  <2>3. TrueAnswer(c)'
    BY <1>1, <1>2, <1>3, <1>5, <2>1 DEF TrueAnswer
  <2> QED
    BY <1>1, <1>2, <2>2, <2>3, CommandKeepsAnswers DEF Commanding, Answered, AnswersInv
<1> QED
  BY <1>1, <1>4, <1>5

\* kill and resume read the one record they are about: that of the session that
\* serves under its id, if there is one.
LEMMA ReadOneAnswers ==
    ASSUME IInv, AnswersInv, NEW c \in Commands, ReadOne(c)
    PROVE  AnswersInv'
<1>1. /\ UNCHANGED <<file, sv, id, wanted, todo, found, live, back, skipped, before>>
      /\ cmd[c] = "read" /\ todo[c] = {}
  BY DEF ReadOne, procVars, AnswersInv, Answered, NothingMissed
<1>2. StillServing(c)' = StillServing(c) /\ NobodyReturns(c)'
  BY <1>1 DEF StillServing, AnswersInv, Answered, NobodyReturns
<1>3. \/ file[wanted[c]].published /\ cmd'[c] = "probe_one" /\ subject'[c][2] = file[wanted[c]].owner
      \/ ~file[wanted[c]].published /\ cmd'[c] = "missing"
  BY DEF ReadOne, CmdGoto, IInv, TypeOK
<1>4. NothingMissed(c)'
  BY <1>1, <1>3 DEF NothingMissed, FirstPass, SecondPass, Reaping
<1>5. NamedIsRead(c)' /\ TrueAnswer(c)'
  BY <1>1, <1>2, <1>3, ServingIsPublished DEF NamedIsRead, TrueAnswer
<1> QED
  BY <1>1, <1>2, <1>4, <1>5, CommandKeepsAnswers DEF Commanding, Answered, AnswersInv

\* kill and resume go on with the record they have read; that it is missing is
\* said, behind the deletion, only when its owner is over.
LEMMA NamedAnswers ==
    ASSUME IInv, AnswersInv, NEW c \in Commands, ProbeOne(c) \/ Terminate(c) \/ Awaited(c)
    PROVE  AnswersInv'
<1>1. /\ UNCHANGED <<file, sv, id, wanted, todo, found, live, subject, skipped, before>>
      /\ cmd[c] \in {"probe_one", "terminate", "wait"} /\ todo[c] = {}
  BY DEF ProbeOne, Terminate, Awaited, procVars, AnswersInv, Answered, NothingMissed
<1>2. StillServing(c)' = StillServing(c) /\ NobodyReturns(c)'
  BY <1>1 DEF StillServing, AnswersInv, Answered, NobodyReturns
<1>3. \/ cmd'[c] \in {"resumed", "terminate", "failed", "wait"}
      \/ cmd'[c] = "open" /\ back'[c] \in {"missing", "killed"}
  BY DEF ProbeOne, Terminate, Awaited, Reap, CmdGoto, IInv, TypeOK
<1>4. NothingMissed(c)'
  BY <1>1, <1>3 DEF NothingMissed, FirstPass, SecondPass, Reaping
<1>5. NamedIsRead(c)' /\ TrueAnswer(c)'
  BY <1>1, <1>2, <1>3 DEF AnswersInv, Answered, NamedIsRead, TrueAnswer
<1> QED
  BY <1>1, <1>2, <1>4, <1>5, CommandKeepsAnswers DEF Commanding, Answered, AnswersInv

\* A file of the dead is opened.
LEMMA CommandOpensAnswers ==
    ASSUME IInv, AnswersInv, NEW c \in Commands, CommandOpens(c)
    PROVE  AnswersInv'
<1>1. /\ UNCHANGED <<file, sv, id, wanted, todo, found, live, subject, back, skipped, before>>
      /\ cmd[c] = "open" /\ cmd'[c] = "drop"
  BY DEF CommandOpens, Open, CmdGoto, procVars, workVars, IInv, TypeOK
<1>2. StillServing(c)' = StillServing(c) /\ NobodyReturns(c)'
  BY <1>1 DEF StillServing, AnswersInv, Answered, NobodyReturns
<1>3. NothingMissed(c)'
  BY <1>1, <1>2 DEF AnswersInv, Answered, NothingMissed, FirstPass, SecondPass, Ahead, Reaping
<1>4. NamedIsRead(c)' /\ TrueAnswer(c)'
  BY <1>1, <1>2 DEF AnswersInv, Answered, NamedIsRead, TrueAnswer
<1> QED
  BY <1>1, <1>2, <1>3, <1>4, CommandKeepsAnswers DEF Commanding, Answered, AnswersInv

\* A file of the dead is deleted: the open handle is of that file, so that it is gone.
LEMMA CommandDropsAnswers ==
    ASSUME IInv, AnswersInv, NEW c \in Commands, CommandDrops(c)
    PROVE  AnswersInv'
<1>1. /\ UNCHANGED <<sv, id, wanted, todo, found, live, subject, back, skipped, before>>
      /\ cmd[c] = "drop" /\ cmd'[c] = back[c] /\ Drop(c, subject[c][2]) /\ todo[c] = {}
      /\ back[c] \in {"probe", "probe_claims", "killed", "missing"}
  BY DEF CommandDrops, CmdGoto, procVars, workVars, IInv, TypeOK, AnswersInv, Answered, NothingMissed
<1>2. StillServing(c)' = StillServing(c) /\ NobodyReturns(c)'
  BY <1>1 DEF StillServing, AnswersInv, Answered, NobodyReturns
<1>3. /\ c \in Procs /\ subject[c] \in Ids \X Supervisors /\ sv[subject[c][2]] \in Over
      /\ Addresses(c, subject[c][1], subject[c][2])
  BY <1>1
     DEF Procs, IInv, TypeOK, KnowledgeIsSettled, Knows, OnlyTheDeadAreReaped, Reaps, DeletesReach
<1>4. /\ file'[subject[c][1]].owner # subject[c][2]
      /\ \A i \in Ids : file'[i] = file[i] \/ file'[i] = NoFile
  BY <1>1, <1>3, DropEffect DEF IInv
<1>5. /\ FirstPass(c) <=> back[c] = "probe"
      /\ SecondPass(c) <=> back[c] = "probe_claims"
      /\ FirstPass(c)' <=> back[c] = "probe"
      /\ SecondPass(c)' <=> back[c] = "probe_claims"
      /\ \A i, s : Ahead(c, i, s) => Ahead(c, i, s)' \/ subject[c] = <<i, s>>
  BY <1>1 DEF FirstPass, SecondPass, Reaping, Ahead
<1>6. \A s \in StillServing(c) : \A i : subject[c] # <<i, s>>
  BY <1>3, ServingIsPublished DEF Over
<1>7. NothingMissed(c)'
  <2>1. ASSUME NEW s \in StillServing(c), NEW k, k = id[s]
        PROVE  /\ FirstPass(c)' => <<k, s>> \in live[c] \/ Ahead(c, k, s)'
               /\ SecondPass(c)' => <<k, s>> \in live[c]
    <3>1. /\ FirstPass(c) => <<k, s>> \in live[c] \/ Ahead(c, k, s)
          /\ SecondPass(c) => <<k, s>> \in live[c]
      BY <2>1 DEF AnswersInv, Answered, NothingMissed
    <3> QED
      BY <1>5, <1>6, <3>1
  <2>2. ASSUME NEW s \in before[c].dead, NEW i \in Ids, file'[i].owner = s
        PROVE  /\ FirstPass(c)' => ~file'[i].published \/ Ahead(c, i, s)'
               /\ SecondPass(c)' => s \in skipped[c] \/ (~file'[i].published /\ Ahead(c, i, s)')
    <3>1. s \in Supervisors
      BY DEF AnswersInv
    <3>2. file'[i] = file[i] /\ subject[c] # <<i, s>>
      BY <1>3, <1>4, <2>2, <3>1, StoreAssumption DEF NoFile
    <3> QED
      BY <1>5, <2>2, <3>2 DEF AnswersInv, Answered, NothingMissed
  <2> QED
    BY <1>1, <1>2, <2>1, <2>2 DEF NothingMissed
<1>8. NamedIsRead(c)' /\ TrueAnswer(c)'
  <2>1. back[c] = "missing" => \A s \in StillServing(c) : id[s] # wanted[c]
    BY <1>1, <1>3, ServingIsPublished DEF AnswersInv, Answered, NamedIsRead, Over
  <2> QED
    BY <1>1, <1>2, <2>1 DEF NamedIsRead, TrueAnswer
<1> QED
  BY <1>1, <1>2, <1>7, <1>8, CommandKeepsAnswers DEF Commanding, Answered, AnswersInv

\* Before it begins, a command has nothing to answer for.
LEMMA InitAnswers == Init => AnswersInv
<1> SUFFICES ASSUME Init PROVE AnswersInv
  OBVIOUS
<1>1. /\ before = [c \in Commands |-> [dead |-> {}, serving |-> {}]]
      /\ \A c \in Commands : cmd[c] = "idle" /\ todo[c] = {}
  BY DEF Init
<1> QED
  BY <1>1
     DEF AnswersInv, Answered, NobodyReturns, NothingMissed, StillServing, FirstPass, SecondPass, Reaping,
         NamedIsRead, TrueAnswer

\* Every step keeps the account of every command.
LEMMA NextAnswers == IInv /\ AnswersInv /\ [Next]_vars => AnswersInv'
<1> SUFFICES ASSUME IInv, AnswersInv, [Next]_vars PROVE AnswersInv'
  OBVIOUS
<1>1. ASSUME NEW s \in Supervisors, Starting(s) \/ Supervising(s) PROVE AnswersInv'
  BY <1>1, SupervisorKeepsAnswers
<1>2. ASSUME NEW c \in Commands, Commanding(c) PROVE AnswersInv'
  BY <1>2, BeginAnswers, ReadEntryAnswers, ProbeAnswers, PassEndsAnswers, ReadOneAnswers, NamedAnswers,
     CommandOpensAnswers, CommandDropsAnswers DEF Commanding
<1>3. CASE UNCHANGED vars
  <2>1. UNCHANGED <<sv, id, file, cmd, wanted, todo, found, live, subject, back, skipped, before>>
    BY <1>3 DEF vars, state, procVars, workVars
  <2>2. Steady
    BY <2>1 DEF Steady
  <2> QED
    BY <2>1, <2>2, AnswerKept DEF AnswersInv
<1> QED
  BY <1>1, <1>2, <1>3 DEF Next

\* A list shows every session that served throughout, and leaves no file of a
\* process that was over when it began, but for claims whose owner it could not
\* inspect; no session that served throughout is reported missing; whatever other
\* commands, startups and deaths happen between the steps.
THEOREM AnswersHold == Spec => []AnswersAreTrue
<1>1. Init => IInv /\ AnswersInv
  BY InitIInv, InitAnswers
<1>2. IInv /\ AnswersInv /\ [Next]_vars => (IInv /\ AnswersInv)'
  BY NextIInv, NextAnswers
<1>3. AnswersInv => AnswersAreTrue
  BY DEF AnswersInv, Answered, AnswersAreTrue
<1> QED
  BY <1>1, <1>2, <1>3, PTL DEF Spec
=============================================================================
