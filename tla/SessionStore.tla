----------------------------- MODULE SessionStore -----------------------------
(***************************************************************************)
(* How the processes of dure share the session store: packages/dure/src.   *)
(* A `run` spawns a supervisor, which claims an id, publishes its session  *)
(* and serves once `run` has committed the startup exchange                *)
(* (commands/run.rs, supervisor/session.rs, supervisor/startup.rs);        *)
(* `list`, `resume` and `kill` read the store, ask whether the recorded    *)
(* processes still run and reap what the dead left behind (gc.rs,          *)
(* commands/kill.rs, pal/session_store/fs_store).  Nothing coordinates     *)
(* them but the files and the process table: ids and pids are reused, any  *)
(* process may die at any step, and every wait may time out.               *)
(*                                                                         *)
(* One action per system call that another process can tell apart.  A file *)
(* keeps its content: publishing puts another file under the name, and a   *)
(* handle goes on addressing the file it opened.  A process identity (pid  *)
(* and creation time) is a member of Supervisors; its pid is chosen when   *)
(* it is born.                                                             *)
(***************************************************************************)
EXTENDS Naturals

CONSTANTS
    Supervisors,  \* identities of supervisors; each has the `run` that spawns it
    Commands,     \* invocations of list, resume and kill
    Pids,
    MaxId,        \* u32::MAX
    Nobody,       \* no file, no process
    Scenarios     \* bounds, one of which a behaviour has: who serves from the start, which
                  \* commands list and which name a session, and whether anything fails

ASSUME StoreAssumption ==
    /\ MaxId \in Nat \ {0} /\ Nobody \notin Supervisors
    /\ Supervisors \cap Commands = {}
    /\ Scenarios \subseteq 
          [serving : SUBSET Supervisors, lists : SUBSET Commands,
           names : SUBSET Commands, failures : BOOLEAN]

VARIABLES
    file,     \* what each id's name refers to
    handle,   \* the file that each process has open, to delete it
    sv,       \* what each supervisor does next
    pid,      \* the pid of each supervisor that was born
    id,       \* the id each supervisor has claimed, or tries next
    run,      \* what the `run` of each supervisor does next
    reply,    \* the supervisor's message on the startup connection
    commit,   \* the supervisors that were sent StartupCommit
    doomed,   \* the running processes that kill has told to terminate
    cmd,      \* what each command does next
    wanted,   \* the id that a kill or resume names
    todo,     \* the ids whose file the command has yet to read
    found,    \* what it read: pairs of an id and an owner
    live,     \* what it has found alive
    subject,  \* the pair at hand
    back,     \* where it goes on once it has deleted that file
    skipped,  \* the owners whose process it could not inspect
    before,   \* who was dead, and who served, when it began
    scenario  \* the bounds of this behaviour

procVars == <<sv, pid, id>>
runVars == <<run, reply, commit>>
workVars == <<wanted, todo, found, live, subject, back, skipped, before>>
state == <<file, handle, procVars, runVars, doomed, cmd, workVars>>
vars == <<state, scenario>>

Ids == 1 .. MaxId
Procs == Supervisors \cup Commands
Files == [owner : Supervisors \cup {Nobody}, published : BOOLEAN]
Handles == [id : Ids, owner : Supervisors \cup {Nobody}, linked : BOOLEAN]
NoFile == [owner |-> Nobody, published |-> FALSE]
NoHandle == [id |-> 1, owner |-> Nobody, linked |-> FALSE]

Over == {"gone", "crashed"}
Alive == {s \in Supervisors : sv[s] \notin Over \cup {"unborn"}}
Claimed == {"publish", "offer", "await", "serve"}
Finished == {"listed", "resumed", "killed", "missing", "failed"}

TypeOK ==
    /\ file \in [Ids -> Files] /\ handle \in [Procs -> Handles]
    /\ sv \in [Supervisors -> {"unborn", "connect", "claim", "leave", "drop"} \cup Claimed \cup Over]
    /\ pid \in [Supervisors -> Pids \cup {Nobody}] /\ id \in [Supervisors -> Ids]
    /\ run \in [Supervisors -> {"new", "waiting", "commit", "announced", "failed"}]
    /\ reply \in [Supervisors -> {"none", "ok", "err"}]
    /\ commit \cup doomed \subseteq Supervisors
    /\ cmd \in [Commands -> {"idle", "records", "probe", "claims", "probe_claims", "read", "probe_one",
                             "terminate", "wait", "open", "drop"} \cup Finished]
    /\ wanted \in [Commands -> Ids \cup {0}] /\ todo \in [Commands -> SUBSET Ids]
    /\ found \in [Commands -> SUBSET (Ids \X Supervisors)]
    /\ live \in [Commands -> SUBSET (Ids \X Supervisors)]
    /\ subject \in [Commands -> (Ids \X Supervisors) \cup {<<0, Nobody>>}]
    /\ back \in [Commands -> {"probe", "probe_claims", "killed", "missing"}]
    /\ skipped \in [Commands -> SUBSET Supervisors]

\* A session that serves from the start has an id and a pid of its own.
Places(serving) == {f \in [serving -> Ids \X Pids] : \A s, t \in serving :
    s # t => f[s][1] # f[t][1] /\ f[s][2] # f[t][2]}

Init ==
    /\ scenario \in Scenarios
    /\ \E at \in Places(scenario.serving) :
        /\ sv = [s \in Supervisors |-> IF s \in scenario.serving THEN "serve" ELSE "unborn"]
        /\ run = [s \in Supervisors |-> IF s \in scenario.serving THEN "announced" ELSE "new"]
        /\ id = [s \in Supervisors |-> IF s \in scenario.serving THEN at[s][1] ELSE 1]
        /\ pid = [s \in Supervisors |-> IF s \in scenario.serving THEN at[s][2] ELSE Nobody]
        /\ file = [i \in Ids |-> IF \E s \in scenario.serving : at[s][1] = i
                                   THEN [owner |-> CHOOSE s \in scenario.serving : at[s][1] = i, published |-> TRUE]
                                   ELSE NoFile]
    /\ cmd = [c \in Commands |-> "idle"]
    /\ handle = [p \in Procs |-> NoHandle]
    /\ reply = [s \in Supervisors |-> "none"] /\ commit = {} /\ doomed = {}
    /\ wanted = [c \in Commands |-> 0] /\ todo = [c \in Commands |-> {}]
    /\ found = [c \in Commands |-> {}] /\ live = [c \in Commands |-> {}]
    /\ subject = [c \in Commands |-> <<0, Nobody>>] /\ back = [c \in Commands |-> "missing"]
    /\ skipped = [c \in Commands |-> {}]
    /\ before = [c \in Commands |-> [dead |-> {}, serving |-> {}]]

SvGoto(s, to) == sv' = [sv EXCEPT ![s] = to]
RunGoto(s, to) == run' = [run EXCEPT ![s] = to]
CmdGoto(c, to) == cmd' = [cmd EXCEPT ![c] = to]

\* Delete what the dead left under the subject's id, and go on from there.
Reap(c, then) == CmdGoto(c, "open") /\ back' = [back EXCEPT ![c] = then]

-----------------------------------------------------------------------------
(* The store. *)

\* A name that gets another file, or none, leaves the handles of the old one
\* addressing a file without a name.
Detached(i) == [p \in DOMAIN handle |->
    IF handle[p].id = i THEN [handle[p] EXCEPT !.linked = FALSE] ELSE handle[p]]
Replace(i, f) == file' = [file EXCEPT ![i] = f] /\ handle' = Detached(i)

\* delete_owned_by(), first half: the record is opened once ...
Open(p, i) ==
    /\ handle' = [handle EXCEPT ![p] = [id |-> i, owner |-> file[i].owner, linked |-> file[i] # NoFile]]
    /\ UNCHANGED file

\* Mutant: the file is deleted by its name.
DropByName(p, owner) ==
    IF handle[p].owner = owner
      THEN /\ file' = [file EXCEPT ![handle[p].id] = NoFile]
           /\ handle' = [Detached(handle[p].id) EXCEPT ![p] = NoHandle]
      ELSE handle' = [handle EXCEPT ![p] = NoHandle] /\ UNCHANGED file

\* ... and what was read through the handle decides whether the file it
\* addresses goes; one that has lost its name already is gone.
Drop(p, owner) ==
    IF handle[p].owner = owner /\ handle[p].linked
      THEN /\ file' = [file EXCEPT ![handle[p].id] = NoFile]
           /\ handle' = [Detached(handle[p].id) EXCEPT ![p] = NoHandle]
      ELSE handle' = [handle EXCEPT ![p] = NoHandle] /\ UNCHANGED file

-----------------------------------------------------------------------------
(* run and the startup of its supervisor. *)

\* A pid is free once nobody runs under it.
Spawn(s, p) ==
    /\ run[s] = "new" /\ p \notin {pid[t] : t \in Alive}
    /\ SvGoto(s, "connect") /\ RunGoto(s, "waiting") /\ pid' = [pid EXCEPT ![s] = p]
    /\ UNCHANGED <<file, handle, id, reply, commit, doomed, cmd, workVars>>

\* The startup pipe is there as long as `run` waits for the supervisor.
Connect(s) ==
    /\ sv[s] = "connect" /\ SvGoto(s, IF run[s] = "waiting" THEN "claim" ELSE "gone")
    /\ UNCHANGED <<file, handle, pid, id, runVars, doomed, cmd, workVars>>

RunReceives(s) ==
    /\ run[s] = "waiting" /\ reply[s] # "none"
    /\ RunGoto(s, IF reply[s] = "ok" THEN "commit" ELSE "failed")
    /\ reply' = [reply EXCEPT ![s] = "none"]
    /\ UNCHANGED <<file, handle, procVars, commit, doomed, cmd, workVars>>

\* send(StartupCommit) to a supervisor that still has the connection open; the
\* session is announced.
RunCommits(s) ==
    /\ run[s] = "commit" /\ sv[s] = "await"
    /\ RunGoto(s, "announced") /\ commit' = commit \cup {s}
    /\ UNCHANGED <<file, handle, procVars, reply, doomed, cmd, workVars>>

\* The wait for the connection or for the answer times out or meets a closed
\* connection, the commit cannot be sent, or `run` itself is killed.
RunFails(s) ==
    /\ scenario.failures
    /\ run[s] \in {"waiting", "commit"} /\ RunGoto(s, "failed")
    /\ reply' = [reply EXCEPT ![s] = "none"]
    /\ UNCHANGED <<file, handle, procVars, commit, doomed, cmd, workVars>>

\* initialize() makes the job, the console, the app and the listener, which only
\* the supervisor sees; then allocate_id(): the staged claim takes the smallest name that it can have.
Claim(s) ==
    /\ sv[s] = "claim"
    /\ IF file[id[s]] = NoFile
         THEN /\ Replace(id[s], [owner |-> s, published |-> FALSE])
              /\ SvGoto(s, "publish") /\ UNCHANGED id
         ELSE /\ id[s] < MaxId /\ id' = [id EXCEPT ![s] = @ + 1]
              /\ UNCHANGED <<file, handle, sv>>
    /\ UNCHANGED <<pid, runVars, doomed, cmd, workVars>>

Publish(s) ==
    /\ sv[s] = "publish"
    /\ Replace(id[s], [owner |-> s, published |-> TRUE]) /\ SvGoto(s, "offer")
    /\ UNCHANGED <<pid, id, runVars, doomed, cmd, workVars>>

\* Mutant: the guard forgets its session when startup fails.
FailKeepingSession(s) ==
    /\ sv[s] \in {"claim", "publish"} /\ SvGoto(s, "gone")
    /\ reply' = [reply EXCEPT ![s] = IF run[s] = "waiting" THEN "err" ELSE @]
    /\ UNCHANGED <<file, handle, pid, id, run, commit, doomed, cmd, workVars>>

\* A step of initialize() fails: StartupErr, if anybody is there to hear it, and
\* the guard rolls back.
Fail(s) ==
    /\ scenario.failures
    /\ sv[s] \in {"claim", "publish"}
    /\ SvGoto(s, IF sv[s] = "publish" THEN "leave" ELSE "gone")
    /\ reply' = [reply EXCEPT ![s] = IF run[s] = "waiting" THEN "err" ELSE @]
    /\ UNCHANGED <<file, handle, pid, id, run, commit, doomed, cmd, workVars>>

\* send(StartupOk), which fails when `run` has gone.
Offer(s) ==
    /\ sv[s] = "offer"
    /\ IF run[s] = "waiting" THEN SvGoto(s, "await") /\ reply' = [reply EXCEPT ![s] = "ok"]
                       ELSE SvGoto(s, "leave") /\ UNCHANGED reply
    /\ UNCHANGED <<file, handle, pid, id, run, commit, doomed, cmd, workVars>>

Committed(s) ==
    /\ sv[s] = "await" /\ s \in commit /\ SvGoto(s, "serve") /\ commit' = commit \ {s}
    /\ UNCHANGED <<file, handle, pid, id, run, reply, doomed, cmd, workVars>>

\* No commit within CONNECT_TIMEOUT, which a commit on its way may still miss,
\* or the connection closed: the guard rolls back.
NotCommitted(s) ==
    /\ scenario.failures
    /\ sv[s] = "await" /\ SvGoto(s, "leave") /\ commit' = commit \ {s}
    /\ UNCHANGED <<file, handle, pid, id, run, reply, doomed, cmd, workVars>>

\* While it serves, the supervisor publishes the record anew with its attached flag.
Republish(s) ==
    /\ sv[s] = "serve" /\ Replace(id[s], [owner |-> s, published |-> TRUE])
    /\ UNCHANGED <<procVars, runVars, doomed, cmd, workVars>>

\* The app has exited: serve() is about to delete its record.
Retire(s) ==
    /\ sv[s] = "serve" /\ SvGoto(s, "leave")
    /\ UNCHANGED <<file, handle, pid, id, runVars, doomed, cmd, workVars>>

\* Rollback and serve() delete the record that is theirs, and the process ends.
LeaveOpens(s) ==
    /\ sv[s] = "leave" /\ Open(s, id[s]) /\ SvGoto(s, "drop")
    /\ UNCHANGED <<pid, id, runVars, doomed, cmd, workVars>>
LeaveDrops(s) ==
    /\ sv[s] = "drop" /\ Drop(s, s) /\ SvGoto(s, "gone")
    /\ id' = [id EXCEPT ![s] = 1] /\ doomed' = doomed \ {s}
    /\ UNCHANGED <<pid, runVars, cmd, workVars>>

\* A supervisor ends on the spot: killed by a command, or by anything else.
Die(s) ==
    /\ s \in Alive /\ (s \in doomed \/ scenario.failures)
    /\ SvGoto(s, "crashed")
    /\ handle' = [handle EXCEPT ![s] = NoHandle]
    /\ id' = [id EXCEPT ![s] = 1] /\ doomed' = doomed \ {s} /\ commit' = commit \ {s}
    /\ UNCHANGED <<file, pid, run, reply, cmd, workVars>>

-----------------------------------------------------------------------------
(* list, resume and kill. *)

\* Mutant: any process under the pid will do.
OpenUnverified(s) == {t \in Alive : pid[t] = pid[s]}

\* open_verified(): whoever runs under the pid has to be the process recorded.
OpenVerified(s) == {t \in Alive : pid[t] = pid[s] /\ t = s}
Running(s) == OpenVerified(s) # {}

\* probe() may fail for reasons of its own.
Answers(s) == {IF Running(s) THEN "live" ELSE "dead"}
              \cup IF scenario.failures THEN {"failed"} ELSE {}

\* A command that has an answer keeps only what the answer was about.
Finish(c, answer) ==
    /\ CmdGoto(c, answer)
    /\ found' = [found EXCEPT ![c] = {}] /\ todo' = [todo EXCEPT ![c] = {}]

Begin(c, to, i) ==
    /\ cmd[c] = "idle" /\ CmdGoto(c, to) /\ wanted' = [wanted EXCEPT ![c] = i]
    /\ before' = [before EXCEPT ![c] =
            [dead |-> {s \in Supervisors : sv[s] \in Over},
             serving |-> {s \in Supervisors : sv[s] = "serve"}]]

\* live_sessions(), for list and for a resume that has to choose.
List(c) ==
    /\ c \in scenario.lists /\ Begin(c, "records", 0) /\ todo' = [todo EXCEPT ![c] = Ids]
    /\ UNCHANGED <<file, handle, procVars, runVars, doomed, found, live, subject, back, skipped>>

\* kill and resume of a named session: require_live_session().
Require(c, i) ==
    /\ c \in scenario.names /\ Begin(c, "read", i)
    /\ UNCHANGED <<file, handle, procVars, runVars, doomed, todo, found, live, subject, back, skipped>>

\* stored(): file by file, in no order the directory promises, what was there
\* when its turn came; the first pass keeps sessions, the second one claims.
ReadEntry(c) == \E i \in todo[c] :
    /\ cmd[c] \in {"records", "claims"}
    /\ todo' = [todo EXCEPT ![c] = @ \ {i}]
    /\ found' = IF file[i] # NoFile /\ file[i].published = (cmd[c] = "records")
                  THEN [found EXCEPT ![c] = @ \cup {<<i, file[i].owner>>}] ELSE found
    /\ CmdGoto(c, IF todo[c] # {i} THEN cmd[c]
                  ELSE IF cmd[c] = "records" THEN "probe" ELSE "probe_claims")
    /\ UNCHANGED <<file, handle, procVars, runVars, doomed, wanted, live, subject, back, skipped, before>>

\* The entries are probed in the order of their ids.
ProbedNext(c) == {e \in found[c] : \A f \in found[c] : e[1] <= f[1]}

\* A session whose process cannot be inspected fails the command ...
ProbeSession(c) ==
    /\ cmd[c] = "probe"
    /\ \E e \in ProbedNext(c) : \E answer \in Answers(e[2]) :
        /\ live' = IF answer = "live" THEN [live EXCEPT ![c] = @ \cup {e}] ELSE live
        /\ subject' = IF answer = "dead" THEN [subject EXCEPT ![c] = e] ELSE subject
        /\ IF answer = "failed" THEN Finish(c, "failed") /\ UNCHANGED back
           ELSE /\ found' = [found EXCEPT ![c] = @ \ {e}] /\ UNCHANGED todo
                /\ IF answer = "dead" THEN Reap(c, "probe") ELSE CmdGoto(c, "probe") /\ UNCHANGED back
    /\ UNCHANGED <<file, handle, procVars, runVars, doomed, wanted, skipped, before>>

\* ... and so does no claim.
ProbeClaim(c) ==
    /\ cmd[c] = "probe_claims"
    /\ \E e \in ProbedNext(c) : \E answer \in Answers(e[2]) :
        /\ skipped' = IF answer = "failed" THEN [skipped EXCEPT ![c] = @ \cup {e[2]}] ELSE skipped
        /\ subject' = IF answer = "dead" THEN [subject EXCEPT ![c] = e] ELSE subject
        /\ found' = [found EXCEPT ![c] = @ \ {e}]
        /\ IF answer = "dead" THEN Reap(c, "probe_claims") ELSE CmdGoto(c, "probe_claims") /\ UNCHANGED back
    /\ UNCHANGED <<file, handle, procVars, runVars, doomed, wanted, todo, live, before>>

PassEnds(c) ==
    /\ found[c] = {}
    /\ \/ /\ cmd[c] = "probe" /\ CmdGoto(c, "claims") /\ todo' = [todo EXCEPT ![c] = Ids]
          /\ UNCHANGED found
       \/ cmd[c] = "probe_claims" /\ Finish(c, "listed")
    /\ UNCHANGED <<file, handle, procVars, runVars, doomed, wanted, live, subject, back, skipped, before>>

ReadOne(c) ==
    /\ cmd[c] = "read"
    /\ IF file[wanted[c]].published
         THEN /\ CmdGoto(c, "probe_one")
              /\ subject' = [subject EXCEPT ![c] = <<wanted[c], file[wanted[c]].owner>>]
         ELSE CmdGoto(c, "missing") /\ UNCHANGED subject
    /\ UNCHANGED <<file, handle, procVars, runVars, doomed, wanted, todo, found, live, back, skipped, before>>

\* A live session is what resume attaches to and what kill goes on with.
ProbeOne(c) ==
    /\ cmd[c] = "probe_one"
    /\ \E answer \in Answers(subject[c][2]) :
        \/ answer = "live" /\ CmdGoto(c, "resumed") /\ UNCHANGED back
        \/ answer = "live" /\ CmdGoto(c, "terminate") /\ UNCHANGED back
        \/ answer = "dead" /\ Reap(c, "missing")
        \/ answer = "failed" /\ CmdGoto(c, "failed") /\ UNCHANGED back
    /\ UNCHANGED <<file, handle, procVars, runVars, doomed, wanted, todo, found, live, subject,
                   skipped, before>>

\* Mutant: termination is taken for granted once it was asked for.
TerminateUnawaited(c) ==
    /\ cmd[c] = "terminate" /\ Reap(c, "killed")
    /\ doomed' = doomed \cup OpenVerified(subject[c][2])
    /\ UNCHANGED <<file, handle, procVars, runVars, wanted, todo, found, live, subject, skipped, before>>

\* terminate(): a process that has gone, or whose pid is another's, is not
\* found; otherwise the system is told to end it, which takes effect later.
Terminate(c) ==
    /\ cmd[c] = "terminate"
    /\ IF Running(subject[c][2])
         THEN doomed' = doomed \cup OpenVerified(subject[c][2]) /\ CmdGoto(c, "wait") /\ UNCHANGED back
         ELSE Reap(c, "missing") /\ UNCHANGED doomed
    /\ UNCHANGED <<file, handle, procVars, runVars, wanted, todo, found, live, subject, skipped, before>>

\* The process has ended; or it could not be told to, or takes too long.
Awaited(c) ==
    /\ \/ cmd[c] = "wait" /\ sv[subject[c][2]] \in Over /\ Reap(c, "killed")
       \/ scenario.failures /\ cmd[c] \in {"terminate", "wait"} /\ CmdGoto(c, "failed") /\ UNCHANGED back
    /\ UNCHANGED <<file, handle, procVars, runVars, doomed, wanted, todo, found, live, subject,
                   skipped, before>>

CommandOpens(c) ==
    /\ cmd[c] = "open" /\ Open(c, subject[c][1]) /\ CmdGoto(c, "drop")
    /\ UNCHANGED <<procVars, runVars, doomed, workVars>>
CommandDrops(c) ==
    /\ cmd[c] = "drop" /\ Drop(c, subject[c][2]) /\ CmdGoto(c, back[c])
    /\ UNCHANGED <<procVars, runVars, doomed, workVars>>

-----------------------------------------------------------------------------
Starting(s) ==
    \/ \E p \in Pids : Spawn(s, p)
    \/ RunReceives(s) \/ RunCommits(s) \/ RunFails(s)

Supervising(s) ==
    \/ Connect(s) \/ Claim(s) \/ Publish(s) \/ Fail(s) \/ Offer(s) \/ Committed(s)
    \/ NotCommitted(s) \/ Republish(s) \/ Retire(s) \/ LeaveOpens(s) \/ LeaveDrops(s)
    \/ Die(s)

Commanding(c) ==
    \/ List(c) \/ \E i \in Ids : Require(c, i)
    \/ ReadEntry(c) \/ ProbeSession(c) \/ ProbeClaim(c) \/ PassEnds(c)
    \/ ReadOne(c) \/ ProbeOne(c) \/ Terminate(c) \/ Awaited(c)
    \/ CommandOpens(c) \/ CommandDrops(c)

Next ==
    /\ \/ \E s \in Supervisors : Starting(s) \/ Supervising(s)
       \/ \E c \in Commands : Commanding(c)
    /\ UNCHANGED scenario

Spec == Init /\ [][Next]_vars

-----------------------------------------------------------------------------
(* Properties. *)

\* Whoever holds an id keeps it for as long as it lives: no command that read
\* an earlier owner, and no other startup, takes or replaces its claim or its
\* record (delete_owned_by(), install_claim(), the wait in terminate()).
OwnersKeepTheirIds ==
    \A s \in Supervisors : sv[s] \in Claimed =>
        file[id[s]].owner = s /\ (file[id[s]].published <=> sv[s] # "publish")

\* A `run` that reports failure leaves no session: its supervisor never serves,
\* and once it has ended in order nothing of it is in the store (InitGuard).
FailedRunLeavesNothing ==
    \A s \in Supervisors : run[s] = "failed" =>
        /\ sv[s] # "serve"
        /\ sv[s] = "gone" => \A i \in Ids : file[i].owner # s

\* The sessions that have served throughout a command.
StillServing(c) == {s \in before[c].serving : sv[s] = "serve"}

\* What a command answers is true of the whole time it took.  A list shows
\* every session that served throughout, and has reaped every file of a process
\* that was over when it began, claims of uninspectable owners excepted; no
\* session that served throughout is reported missing.
TrueAnswer(c) ==
    /\ cmd[c] = "listed" =>
        /\ \A s \in StillServing(c) : <<id[s], s>> \in live[c]
        /\ \A i \in Ids : file[i].owner \notin before[c].dead \ skipped[c]
    /\ cmd[c] = "missing" => \A s \in StillServing(c) : id[s] # wanted[c]
AnswersAreTrue == \A c \in Commands : TrueAnswer(c)

\* Nobody is told to end who was not recorded under the id that a kill named, and
\* a kill that reports success has ended that very process, whoever has its pid
\* or its id now, so that it never again has a file in the store.
OnlyNamedSessionsDoomed ==
    \A s \in doomed : \E c \in Commands : subject[c] = <<wanted[c], s>>
KillHitsItsTarget ==
    /\ OnlyNamedSessionsDoomed
    /\ \A c \in Commands : cmd[c] = "killed" =>
        /\ sv[subject[c][2]] \in Over
        /\ \A i \in Ids : file[i].owner # subject[c][2]

\* Why they hold.  A session is served only once its `run` was told so, ...
RunKnows == \A s \in Supervisors :
    /\ run[s] = "new" <=> sv[s] = "unborn"
    /\ sv[s] = "serve" \/ s \in commit => run[s] = "announced"

\* ... a handle whose file still has its name addresses what the name refers to, ...
LinkedIsCurrent == \A p \in Procs :
    handle[p].linked => file[handle[p].id].owner = handle[p].owner

\* ... an owner has files in the store only under one id, its own while it lives, ...
FilesAreWhereTheyBelong == \A i \in Ids : LET s == file[i].owner IN
    /\ file[i].published => s \in Supervisors
    /\ s \in Supervisors =>
        /\ sv[s] \in Claimed \cup {"leave", "drop", "crashed"}
        /\ sv[s] # "crashed" => i = id[s]
        /\ \A j \in Ids : file[j].owner = s => j = i

\* ... which what a command has read about that owner names, too, for ever, ...
Settled(i, s) == /\ sv[s] \notin {"unborn", "connect", "claim"}
                 /\ \A j \in Ids : file[j].owner = s => j = i
Knows(c) ==
    /\ \A e \in found[c] \cup {subject[c]} : e # <<0, Nobody>> => Settled(e[1], e[2])
    /\ cmd[c] \in {"idle", "read"} => subject[c] = <<0, Nobody>>
    /\ cmd[c] \in {"read", "probe_one", "terminate", "wait"} => wanted[c] \in Ids
    /\ cmd[c] \in {"probe_one", "terminate", "wait", "open", "drop", "killed"} =>
            subject[c] # <<0, Nobody>>
    /\ cmd[c] \in {"probe_one", "terminate", "wait"} => subject[c][1] = wanted[c]
    /\ \/ cmd[c] \in {"records", "probe", "claims", "probe_claims"}
       \/ cmd[c] \in {"open", "drop"} /\ back[c] \in {"probe", "probe_claims"}
       => wanted[c] = 0
KnowledgeIsSettled == \A c \in Commands : Knows(c)

\* ... a command deletes only what belongs to the dead, ...
Reaps(c) ==
    /\ cmd[c] \in {"open", "drop", "killed"} => sv[subject[c][2]] \in Over
    /\ cmd[c] = "killed" => \A i \in Ids : file[i].owner # subject[c][2]
OnlyTheDeadAreReaped == \A c \in Commands : Reaps(c)

\* ... and whoever deletes has the file open that it is to delete, if it is there.
Addresses(p, i, s) == /\ handle[p].id = i
                      /\ file[i].owner = s => handle[p].owner = s /\ handle[p].linked
DeletesReach ==
    /\ \A s \in Supervisors : sv[s] = "drop" => Addresses(s, id[s], s)
    /\ \A c \in Commands : cmd[c] = "drop" => Addresses(c, subject[c][1], subject[c][2])

IInv == /\ TypeOK /\ RunKnows /\ LinkedIsCurrent /\ OwnersKeepTheirIds /\ FilesAreWhereTheyBelong
        /\ KnowledgeIsSettled /\ OnlyTheDeadAreReaped /\ DeletesReach /\ OnlyNamedSessionsDoomed

\* Why answers are true.  Who was over when a command began stays so, who served
\* then serves on or never again, ...
Served == {"serve", "leave", "drop"} \cup Over
NobodyReturns(c) == /\ \A s \in before[c].dead : sv[s] \in Over
                    /\ \A s \in before[c].serving : sv[s] \in Served

\* ... in either pass of a listing, whatever it has to show or to reap is yet to be
\* read, has been read, is being deleted, or was found alive, ...
Reaping(c) == cmd[c] \in {"open", "drop"}
FirstPass(c) == cmd[c] \in {"records", "probe"} \/ (Reaping(c) /\ back[c] = "probe")
SecondPass(c) == cmd[c] \in {"claims", "probe_claims"} \/ (Reaping(c) /\ back[c] = "probe_claims")
Ahead(c, i, s) == \/ i \in todo[c] \/ <<i, s>> \in found[c]
                  \/ Reaping(c) /\ subject[c] = <<i, s>>
NothingMissed(c) ==
    /\ cmd[c] \notin {"records", "claims"} => todo[c] = {}
    /\ \A s \in StillServing(c) :
          /\ FirstPass(c) => <<id[s], s>> \in live[c] \/ Ahead(c, id[s], s)
          /\ SecondPass(c) => <<id[s], s>> \in live[c]
    /\ \A s \in before[c].dead : \A i \in Ids : file[i].owner = s =>
          /\ FirstPass(c) => ~file[i].published \/ Ahead(c, i, s)
          /\ SecondPass(c) => s \in skipped[c] \/ (~file[i].published /\ Ahead(c, i, s))

\* ... and a session that serves under the id that was asked for is the one that was read.
NamedIsRead(c) ==
    cmd[c] \in {"probe_one", "terminate", "wait", "open", "drop"} =>
        \A s \in StillServing(c) : id[s] = wanted[c] => subject[c][2] = s

Answered(c) == NobodyReturns(c) /\ NothingMissed(c) /\ NamedIsRead(c) /\ TrueAnswer(c)
AnswersInv == /\ before \in [Commands -> [dead : SUBSET Supervisors, serving : SUBSET Supervisors]]
              /\ \A c \in Commands : Answered(c)
=============================================================================
