------------------------------- MODULE Daemon -------------------------------
(***************************************************************************)
(* The daemon service (internal/daemon/service.go) over its managers: the  *)
(* state of sessions and runs, who owns which lease and port, and the      *)
(* processes that the supervisor started.  Each RPC runs in its own        *)
(* goroutine: variable run holds the goroutines in Execute, variable term  *)
(* those in TerminateSession.  A step of theirs is one critical section of *)
(* a manager, or one system call.                                          *)
(*                                                                         *)
(* Crash ends the daemon at any moment, as kill -9 and as the exit after   *)
(* Shutdown do (Shutdown itself is a TerminateSession per session).  The   *)
(* goroutines and the tables of the supervisor are lost; the processes     *)
(* live on, each in its own group, as on unix.  Recover then runs alone,   *)
(* before the daemon serves.                                               *)
(*                                                                         *)
(* Abstractions: what a manager changes is on disk at once; a run starts   *)
(* at most one process, and of a build, which starts up to six one after   *)
(* the other, there is one; a pid is not used again; SIGKILL works at      *)
(* once; a lease is granted to whoever asks when it is free (the queues    *)
(* are in LeaseManager).                                                   *)
(***************************************************************************)
EXTENDS Integers, FiniteSets

CONSTANTS
  Sessions,     \* session ids
  Runs,         \* run ids, one per call of Execute
  Terms,        \* goroutines that run TerminateSession
  Resources,    \* exclusive resources
  Ports,        \* ports
  None,         \* no session, no run
  MaxCrashes    \* bound: crashes

ASSUME DaemonNone == None \notin Sessions \cup Runs
ASSUME DaemonNames ==
  /\ Resources \cap Ports = {}
  /\ Resources \cap Runs = {}
  /\ Ports \cap Runs = {}
ASSUME DaemonBound == MaxCrashes \in Nat

VARIABLES
  phase,    \* "up" while the daemon serves, else where Recover is
  crashes,  \* how often it crashed
  sess,     \* Session.State; "none": not created yet
  leased,   \* the session that holds the lease on a resource
  taken,    \* the session that a port is allocated to
  run,      \* the runs, with the goroutine in Execute
  proc,     \* the process of each run
  term,     \* the goroutines in TerminateSession
  claim,    \* history: what a session has had since it was marked STOPPING
  struck    \* history: the sessions that crashes have interrupted since the
            \* daemon last served

vars == <<phase, crashes, sess, leased, taken, run, proc, term, claim, struck>>

-----------------------------------------------------------------------------

Terminal == {"SUCCEEDED", "FAILED", "TIMEOUT", "KILLED", "ERROR"}

Status == {"none", "QUEUED", "RUNNING"} \cup Terminal

(* pc: what the goroutine has just done.  "forked": the process has been   *)
(* started and is not yet in the supervisor's tables.  "lost": the daemon  *)
(* crashed.  kind: an emulator is left running, of a build the adapter     *)
(* drops how the process ended, a tool is any other.  result: the status   *)
(* that Exec gives to the adapter.                                         *)
RunStage == {"idle", "checked", "queued", "launching", "forked", "launched",
             "waiting", "booting", "reporting", "done", "lost"}

Kinds == {"tool", "build", "emulator"}

Run == [pc: RunStage,
        sess: Sessions \cup {None}, kind: {"none"} \cup Kinds,
        status: Status, result: Status]

NoRun == [pc |-> "idle", sess |-> None, kind |-> "none",
          status |-> "none", result |-> "none"]

(* os: "zombie" has exited, cmd.Wait has not returned; "gone": it has.     *)
(* tracked: in sets and recs.  killed: ProcInfo.Killed.  known: what       *)
(* metadata.json has of it, nothing, its pid, or its pid and start time.   *)
Proc == [os: {"none", "live", "zombie", "gone"}, ok: BOOLEAN,
         tracked: BOOLEAN, killed: BOOLEAN,
         known: {"nothing", "pid", "identity"}]

NoProc == [os |-> "none", ok |-> FALSE, tracked |-> FALSE, killed |-> FALSE,
           known |-> "nothing"]

TermStage == {"idle", "called", "marked", "killing", "leases", "ports", "list",
              "runs", "finish"}

Term == [pc: TermStage,
         sess: Sessions \cup {None}, todo: SUBSET Runs,
         doomed: Runs \cup {None}]

NoTerm == [pc |-> "idle", sess |-> None, todo |-> {}, doomed |-> None]

Init ==
  /\ phase = "up"
  /\ crashes = 0
  /\ sess = [s \in Sessions |-> "none"]
  /\ leased = [x \in Resources |-> None]
  /\ taken = [p \in Ports |-> None]
  /\ run = [r \in Runs |-> NoRun]
  /\ proc = [r \in Runs |-> NoProc]
  /\ term = [t \in Terms |-> NoTerm]
  /\ claim = [t \in Terms |-> {}]
  /\ struck = {}

Up == phase = "up"

(* GetSession finds a session in every state: records are never removed.   *)
Exists(s) == sess[s] # "none"

Live(r) == proc[r].os = "live"

Holdings(s) == {x \in Resources : leased[x] = s} \cup {p \in Ports : taken[p] = s}

(* The processes that KillSession would find now. *)
Children(s) == {r \in Runs : run[r].sess = s /\ proc[r].tracked /\ Live(r)}

(* Mutant: the rows of the session are deleted. *)
DeleteLeases(s) ==
  leased' = [x \in {y \in Resources : leased[y] # s} |-> leased[x]]

(* Releases of the session's leases and ports in one manager each. *)
ReleaseLeases(s) ==
  leased' = [x \in Resources |-> IF leased[x] = s THEN None ELSE leased[x]]

ReleasePorts(s) ==
  taken' = [p \in Ports |-> IF taken[p] = s THEN None ELSE taken[p]]

(* SIGKILL to the group of a process that has not been waited for. *)
Killed(p) == IF p.os = "live" THEN [p EXCEPT !.os = "zombie", !.ok = FALSE] ELSE p

(* markKilled, which only reaches a record still in the table, and KillTree. *)
MarkAndKill(p) ==
  IF p.tracked THEN [Killed(p) EXCEPT !.killed = TRUE] ELSE p

(* KillSession leaves a process alone that has been waited for. *)
KillIfAlive(p) == IF p.os = "gone" THEN p ELSE MarkAndKill(p)

(* Mutant: a termination that crashed is not interrupted. *)
InUse(s) == sess[s] \in {"READY", "RUNNING"}

(* STOPPING is not over either. *)
Interrupted(s) == sess[s] \notin {"none", "STOPPED"}

(* The history variables: all that the session has when t marks it         *)
(* STOPPING and, of that, what it has had without a break since; and who   *)
(* has been met by Recover, also by one that crashed itself.               *)
Remember ==
  /\ claim' = [t \in Terms |->
       LET s == term[t].sess
           has == (Holdings(s) \cup Children(s))'
       IN CASE term'[t].pc \in {"idle", "called"}                -> {}
            [] term[t].pc = "called" /\ term'[t].pc = "marked"   -> has
            [] OTHER -> claim[t] \cap has]
  /\ struck' = IF phase' = "up" THEN {}
                ELSE struck \cup {s \in Sessions : Interrupted(s)}

-----------------------------------------------------------------------------
(* Sessions, leases and ports.  Only the existence of the session is asked *)
(* for, by the RPCs and by the adapters on behalf of a run.                *)

CreateSession(s) ==
  /\ Up
  /\ sess[s] = "none"
  /\ sess' = [sess EXCEPT ![s] = "READY"]
  /\ UNCHANGED <<phase, crashes, leased, taken, run, proc, term>>
  /\ Remember

AcquireLease(s, x) ==
  /\ Up
  /\ Exists(s)
  /\ leased[x] = None
  /\ leased' = [leased EXCEPT ![x] = s]
  /\ UNCHANGED <<phase, crashes, sess, taken, run, proc, term>>
  /\ Remember

ReleaseLease(x) ==
  /\ Up
  /\ leased[x] # None
  /\ leased' = [leased EXCEPT ![x] = None]
  /\ UNCHANGED <<phase, crashes, sess, taken, run, proc, term>>
  /\ Remember

AllocatePort(s, p) ==
  /\ Up
  /\ Exists(s)
  /\ taken[p] = None
  /\ taken' = [taken EXCEPT ![p] = s]
  /\ UNCHANGED <<phase, crashes, sess, leased, run, proc, term>>
  /\ Remember

-----------------------------------------------------------------------------
(* Execute *)

(* The only time Execute looks at the state of the session. *)
Check(r, s) ==
  /\ Up
  /\ run[r].pc = "idle"
  /\ sess[s] \notin {"none", "STOPPED"}
  /\ run' = [run EXCEPT ![r].pc = "checked", ![r].sess = s]
  /\ UNCHANGED <<phase, crashes, sess, leased, taken, proc, term>>
  /\ Remember

(* Goroutine r goes from pc "from" to "to"; its run gets a status. *)
Goes(r, from, to, status) ==
  /\ run[r].pc = from
  /\ run' = [run EXCEPT ![r].pc = to, ![r].status = status]

OnlyRun ==
  /\ UNCHANGED <<phase, crashes, sess, leased, taken, proc, term>>
  /\ Remember

NewRun(r) == Goes(r, "checked", "queued", "QUEUED") /\ OnlyRun

PrepareFails(r) == Goes(r, "queued", "done", "ERROR") /\ OnlyRun

(* MarkRunning changes a READY session only. *)
MarkRunning(r) ==
  /\ Goes(r, "queued", "launching", run[r].status)
  /\ sess' = [sess EXCEPT ![run[r].sess] = IF @ = "READY" THEN "RUNNING" ELSE @]
  /\ UNCHANGED <<phase, crashes, leased, taken, proc, term>>
  /\ Remember

(* No lease, no executable, or an adapter without a process to start. *)
LaunchFails(r) == Goes(r, "launching", "done", "ERROR") /\ OnlyRun

(* proc.Start. *)
Fork(r, kind) ==
  /\ run[r].pc = "launching"
  /\ run' = [run EXCEPT ![r].pc = "forked", ![r].kind = kind]
  /\ proc' = [proc EXCEPT ![r].os = "live"]
  /\ UNCHANGED <<phase, crashes, sess, leased, taken, term>>
  /\ Remember

Register(r) ==
  /\ Goes(r, "forked", "launched", run[r].status)
  /\ proc' = [proc EXCEPT ![r].tracked = TRUE]
  /\ UNCHANGED <<phase, crashes, sess, leased, taken, term>>
  /\ Remember

(* Exec writes status, pid and start time, whatever the status is now. *)
RecordExec(r) ==
  /\ run[r].kind # "emulator"
  /\ Goes(r, "launched", "waiting", "RUNNING")
  /\ proc' = [proc EXCEPT ![r].known = "identity"]
  /\ UNCHANGED <<phase, crashes, sess, leased, taken, term>>
  /\ Remember

(* LaunchDetached writes the pid only. *)
RecordDetached(r) ==
  /\ run[r].kind = "emulator"
  /\ Goes(r, "launched", "booting", run[r].status)
  /\ proc' = [proc EXCEPT ![r].known = "pid"]
  /\ UNCHANGED <<phase, crashes, sess, leased, taken, term>>
  /\ Remember

(* Mutant: ProcessDone does not ask whether the process was killed. *)
ProcessDoneIgnoresKill(r) ==
  /\ run[r].pc = "waiting"
  /\ ~proc[r].tracked
  /\ run' = [run EXCEPT ![r].pc = "reporting",
               ![r].result = IF proc[r].ok THEN "SUCCEEDED" ELSE "FAILED"]
  /\ OnlyRun

(* Exec's select takes handle.Done, which await closed. *)
ProcessDone(r) ==
  /\ run[r].pc = "waiting"
  /\ ~proc[r].tracked
  /\ run' = [run EXCEPT ![r].pc = "reporting",
               ![r].result = IF proc[r].killed THEN "KILLED"
                             ELSE IF proc[r].ok THEN "SUCCEEDED" ELSE "FAILED"]
  /\ OnlyRun

(* Mutant: no KillRun; Exec waits for the process. *)
TimeoutWaits(r) ==
  /\ run[r].pc = "waiting"
  /\ ~Live(r)
  /\ run' = [run EXCEPT ![r].pc = "reporting", ![r].result = "TIMEOUT"]
  /\ OnlyRun

(* It takes execCtx.Done, and KillRun kills what is in the tables. *)
Timeout(r) ==
  /\ run[r].pc = "waiting"
  /\ run' = [run EXCEPT ![r].pc = "reporting", ![r].result = "TIMEOUT"]
  /\ proc' = [proc EXCEPT ![r] = MarkAndKill(@)]
  /\ UNCHANGED <<phase, crashes, sess, leased, taken, term>>
  /\ Remember

(* The emulator answers, or it does not in time; the process stays. *)
Booted(r) ==
  /\ run[r].pc = "booting"
  /\ run' = [run EXCEPT ![r].pc = "reporting", ![r].result = "SUCCEEDED"]
  /\ OnlyRun

(* Mutant: an error path without Finish. *)
BootFailsOpen(r) == Goes(r, "booting", "done", run[r].status) /\ OnlyRun

BootFails(r) == Goes(r, "booting", "done", "ERROR") /\ OnlyRun

(* The status that the adapter returns: buildAPK looks at what its         *)
(* processes left behind only, not at how they ended.                      *)
AdapterStatus(r) ==
  IF run[r].kind = "build" THEN {"SUCCEEDED", "ERROR"} ELSE {run[r].result}

(* Execute's own Update and Finish; the present status is not looked at. *)
Report(r) ==
  /\ \E status \in AdapterStatus(r) : Goes(r, "reporting", "done", status)
  /\ OnlyRun

(* There is no Up in these actions: a crash ends the goroutine. *)
Execute(r) ==
  \/ NewRun(r) \/ PrepareFails(r) \/ MarkRunning(r)
  \/ LaunchFails(r) \/ (\E kind \in Kinds : Fork(r, kind))
  \/ Register(r) \/ RecordExec(r) \/ RecordDetached(r)
  \/ ProcessDone(r) \/ Timeout(r) \/ Booted(r) \/ BootFails(r)
  \/ Report(r)

-----------------------------------------------------------------------------
(* Processes *)

OnlyProc ==
  /\ UNCHANGED <<phase, crashes, sess, leased, taken, run, term>>
  /\ Remember

(* Started by this daemon: a child of it. *)
Ours(r) == proc[r].tracked \/ run[r].pc = "forked"

(* A process whose daemon has gone is waited for by init. *)
Exit(r, ok) ==
  /\ Live(r)
  /\ proc' = [proc EXCEPT ![r].ok = ok,
                ![r].os = IF Ours(r) THEN "zombie" ELSE "gone"]
  /\ OnlyProc

(* cmd.Wait returns, in the goroutine that Launch starts after it has      *)
(* registered the process; then await takes it out of the tables.          *)
Wait(r) ==
  /\ proc[r].tracked /\ proc[r].os = "zombie"
  /\ proc' = [proc EXCEPT ![r].os = "gone"]
  /\ OnlyProc

Finalize(r) ==
  /\ proc[r].tracked /\ proc[r].os = "gone"
  /\ proc' = [proc EXCEPT ![r].tracked = FALSE]
  /\ OnlyProc

-----------------------------------------------------------------------------
(* TerminateSession *)

OnlyTerm ==
  /\ UNCHANGED <<phase, crashes, sess, leased, taken, run, proc>>
  /\ Remember

Terminate(t, s) ==
  /\ Up
  /\ term[t].pc = "idle"
  /\ sess[s] \notin {"none", "STOPPED"}
  /\ term' = [term EXCEPT ![t] = [NoTerm EXCEPT !.pc = "called", !.sess = s]]
  /\ OnlyTerm

(* Whatever the state is by now. *)
MarkStopping(t) ==
  /\ term[t].pc = "called"
  /\ sess' = [sess EXCEPT ![term[t].sess] = "STOPPING"]
  /\ term' = [term EXCEPT ![t].pc = "marked"]
  /\ UNCHANGED <<phase, crashes, leased, taken, run, proc>>
  /\ Remember

(* Mutants: only the processes of runs that are RUNNING are listed; the    *)
(* grace period has no end.                                                *)
ListRunning(t) ==
  /\ term[t].pc = "marked"
  /\ term' = [term EXCEPT ![t].pc = "killing",
                ![t].todo = {r \in Runs : /\ run[r].sess = term[t].sess
                                          /\ proc[r].tracked
                                          /\ run[r].status = "RUNNING"}]
  /\ OnlyTerm

ProcessesGone(t) ==
  /\ term[t].pc = "killing" /\ term[t].todo = {}
  /\ \A r \in Runs : run[r].sess = term[t].sess => ~Live(r)
  /\ term' = [term EXCEPT ![t].pc = "leases"]
  /\ OnlyTerm

(* KillSession lists the processes of the session once, ... *)
ListProcesses(t) ==
  /\ term[t].pc = "marked"
  /\ term' = [term EXCEPT ![t].pc = "killing",
                ![t].todo = {r \in Runs : /\ run[r].sess = term[t].sess
                                          /\ proc[r].tracked}]
  /\ OnlyTerm

(* ... kills them one by one, and waits; the wait ends when they are gone  *)
(* or when the grace period does.                                          *)
KillProcess(t, r) ==
  /\ term[t].pc = "killing"
  /\ r \in term[t].todo
  /\ proc' = [proc EXCEPT ![r] = KillIfAlive(@)]
  /\ term' = [term EXCEPT ![t].todo = @ \ {r}]
  /\ UNCHANGED <<phase, crashes, sess, leased, taken, run>>
  /\ Remember

ProcessesKilled(t) ==
  /\ term[t].pc = "killing" /\ term[t].todo = {}
  /\ term' = [term EXCEPT ![t].pc = "leases"]
  /\ OnlyTerm

ReleaseAll(t) ==
  /\ term[t].pc = "leases"
  /\ ReleaseLeases(term[t].sess)
  /\ term' = [term EXCEPT ![t].pc = "ports"]
  /\ UNCHANGED <<phase, crashes, sess, taken, run, proc>>
  /\ Remember

ReleaseBySession(t) ==
  /\ term[t].pc = "ports"
  /\ ReleasePorts(term[t].sess)
  /\ term' = [term EXCEPT ![t].pc = "list"]
  /\ UNCHANGED <<phase, crashes, sess, leased, run, proc>>
  /\ Remember

ListRuns(t) ==
  /\ term[t].pc = "list"
  /\ term' = [term EXCEPT ![t].pc = "runs",
                ![t].todo = {r \in Runs : /\ run[r].sess = term[t].sess
                                          /\ run[r].status # "none"}]
  /\ OnlyTerm

(* The status of a listed run is read, ... *)
LookAtRun(t, r) ==
  /\ term[t].pc = "runs" /\ term[t].doomed = None
  /\ r \in term[t].todo
  /\ term' = [term EXCEPT ![t].todo = @ \ {r},
                ![t].doomed = IF run[r].status \in Terminal THEN None ELSE r]
  /\ OnlyTerm

(* ... and the run is finished, whatever its status is by now. *)
FinishRun(t) ==
  /\ term[t].doomed # None
  /\ run' = [run EXCEPT ![term[t].doomed].status = "KILLED"]
  /\ term' = [term EXCEPT ![t].doomed = None]
  /\ UNCHANGED <<phase, crashes, sess, leased, taken, proc>>
  /\ Remember

RunsFinished(t) ==
  /\ term[t].pc = "runs" /\ term[t].doomed = None /\ term[t].todo = {}
  /\ term' = [term EXCEPT ![t].pc = "finish"]
  /\ OnlyTerm

Finish(t) ==
  /\ term[t].pc = "finish"
  /\ sess' = [sess EXCEPT ![term[t].sess] = "STOPPED"]
  /\ term' = [term EXCEPT ![t] = NoTerm]
  /\ UNCHANGED <<phase, crashes, leased, taken, run, proc>>
  /\ Remember

TerminateSession(t) ==
  \/ MarkStopping(t) \/ ListProcesses(t)
  \/ (\E r \in Runs : KillProcess(t, r) \/ LookAtRun(t, r))
  \/ ProcessesKilled(t) \/ ReleaseAll(t) \/ ReleaseBySession(t)
  \/ ListRuns(t) \/ FinishRun(t) \/ RunsFinished(t) \/ Finish(t)

-----------------------------------------------------------------------------
(* Crash and Recover *)

(* Memory is lost.  A call that had not made its run record leaves no      *)
(* trace; init waits for the zombies.                                      *)
Crash ==
  /\ crashes < MaxCrashes
  /\ crashes' = crashes + 1
  /\ phase' = "sessions"
  /\ run' = [r \in Runs |->
               CASE run[r].pc \in {"idle", "checked"} -> NoRun
                 [] run[r].pc = "done"                -> run[r]
                 [] OTHER -> [run[r] EXCEPT !.pc = "lost"]]
  /\ proc' = [r \in Runs |->
                [proc[r] EXCEPT !.tracked = FALSE, !.killed = FALSE,
                                !.os = IF @ = "zombie" THEN "gone" ELSE @]]
  /\ term' = [t \in Terms |-> NoTerm]
  /\ UNCHANGED <<sess, leased, taken>>
  /\ Remember

(* For each interrupted session: leases, ports, state.  (KillSession finds *)
(* its tables empty.)  A crash in between repeats what is left.            *)
RecoverLeases(s) ==
  /\ phase = "sessions" /\ Interrupted(s)
  /\ \E x \in Resources : leased[x] = s
  /\ ReleaseLeases(s)
  /\ UNCHANGED <<phase, crashes, sess, taken, run, proc, term>>
  /\ Remember

RecoverPorts(s) ==
  /\ phase = "sessions" /\ Interrupted(s)
  /\ \A x \in Resources : leased[x] # s
  /\ \E p \in Ports : taken[p] = s
  /\ ReleasePorts(s)
  /\ UNCHANGED <<phase, crashes, sess, leased, run, proc, term>>
  /\ Remember

(* Mutant: the state is written before the leases and ports are free. *)
StoppedFirst(s) ==
  /\ phase = "sessions" /\ Interrupted(s)
  /\ sess' = [sess EXCEPT ![s] = "STOPPED"]
  /\ UNCHANGED <<phase, crashes, leased, taken, run, proc, term>>
  /\ Remember

RecoverSession(s) ==
  /\ phase = "sessions" /\ Interrupted(s)
  /\ Holdings(s) = {}
  /\ sess' = [sess EXCEPT ![s] = "STOPPED"]
  /\ UNCHANGED <<phase, crashes, leased, taken, run, proc, term>>
  /\ Remember

SessionsRecovered ==
  /\ phase = "sessions"
  /\ \A s \in Sessions : ~Interrupted(s)
  /\ phase' = "procs"
  /\ UNCHANGED <<crashes, sess, leased, taken, run, proc, term>>
  /\ Remember

(* ReconcileOrphans.  No session is live by now, so every recorded process *)
(* with a start time is killed; a pid alone is not enough.                 *)
Orphans == {r \in Runs : Live(r) /\ proc[r].known = "identity"}

Reconcile(r) ==
  /\ phase = "procs"
  /\ r \in Orphans
  /\ proc' = [proc EXCEPT ![r].os = "gone", ![r].ok = FALSE]
  /\ OnlyProc

(* ReapOrphans of leases and of ports changes nothing: every owner has a   *)
(* session record.                                                         *)
OrphansReaped ==
  /\ phase = "procs"
  /\ Orphans = {}
  /\ phase' = "runs"
  /\ UNCHANGED <<crashes, sess, leased, taken, run, proc, term>>
  /\ Remember

Unfinished == {r \in Runs : run[r].status \in {"QUEUED", "RUNNING"}}

RecoverRun(r) ==
  /\ phase = "runs"
  /\ r \in Unfinished
  /\ run' = [run EXCEPT ![r].status = "KILLED"]
  /\ OnlyRun

Recovered ==
  /\ phase = "runs"
  /\ Unfinished = {}
  /\ phase' = "up"
  /\ UNCHANGED <<crashes, sess, leased, taken, run, proc, term>>
  /\ Remember

Recover ==
  \/ \E s \in Sessions : RecoverLeases(s) \/ RecoverPorts(s) \/ RecoverSession(s)
  \/ \E r \in Runs : Reconcile(r) \/ RecoverRun(r)
  \/ SessionsRecovered \/ OrphansReaped \/ Recovered

-----------------------------------------------------------------------------

Next ==
  \/ \E s \in Sessions :
       \/ CreateSession(s)
       \/ \E x \in Resources : AcquireLease(s, x)
       \/ \E p \in Ports : AllocatePort(s, p)
       \/ \E r \in Runs : Check(r, s)
       \/ \E t \in Terms : Terminate(t, s)
  \/ \E x \in Resources : ReleaseLease(x)
  \/ \E r \in Runs : Execute(r) \/ Wait(r) \/ Finalize(r)
                     \/ (\E ok \in BOOLEAN : Exit(r, ok))
  \/ \E t \in Terms : TerminateSession(t)
  \/ Crash
  \/ Recover

Spec == Init /\ [][Next]_vars

-----------------------------------------------------------------------------
(* Fairness.  A goroutine takes its next step: nothing in Execute, await,  *)
(* TerminateSession and Recover waits for more than a bounded time (Exec's *)
(* select has a timeout), except the wait for a lease, which LeaseManager  *)
(* answers.  Clients and processes owe nothing: a process need not exit.   *)

Fairness ==
  /\ \A r \in Runs : /\ WF_vars(Execute(r))
                     /\ WF_vars(Wait(r) \/ Finalize(r))
  /\ \A t \in Terms : WF_vars(TerminateSession(t))
  /\ WF_vars(Recover)

FairSpec == Spec /\ Fairness

-----------------------------------------------------------------------------
(* Invariants *)

TypeOK ==
  /\ phase \in {"up", "sessions", "procs", "runs"}
  /\ crashes \in 0 .. MaxCrashes
  /\ sess \in [Sessions -> {"none", "READY", "RUNNING", "STOPPING", "STOPPED"}]
  /\ leased \in [Resources -> Sessions \cup {None}]
  /\ taken \in [Ports -> Sessions \cup {None}]
  /\ run \in [Runs -> Run]
  /\ proc \in [Runs -> Proc]
  /\ term \in [Terms -> Term]
  /\ claim \in [Terms -> SUBSET (Resources \cup Ports \cup Runs)]
  /\ struck \subseteq Sessions

(* When a termination is about to write STOPPED, the session has lost all  *)
(* the leases, ports and registered processes that it had when it was      *)
(* marked STOPPING, whatever other terminations and runs do meanwhile.     *)
PipelineComplete == \A t \in Terms : term[t].pc = "finish" => claim[t] = {}

(* A run that is QUEUED or RUNNING while the daemon serves has a goroutine *)
(* that will finish it: neither a termination, nor an Update after its     *)
(* Finish, nor a restart leaves a run open with nobody to close it.        *)
NoAbandonedRun ==
  Up => \A r \in Unfinished : run[r].pc \notin {"idle", "checked", "done", "lost"}

(* A STOPPING session has a termination under way that will stop it,       *)
(* although two of them may interleave and a stopped session may be marked *)
(* STOPPING again.                                                         *)
StoppingHasTerminator ==
  Up => \A s \in Sessions : sess[s] = "STOPPING" =>
          \E t \in Terms : term[t].sess = s /\ term[t].pc # "called"

(* "markKilled flags a record so the finalizer reports KILLED": the final  *)
(* status of a run whose process the supervisor has killed says so, if the *)
(* adapter passes on what Exec says of the process.  build.apk does not:   *)
(* a build whose process was killed can end as SUCCEEDED.                  *)
KilledIsReported ==
  \A r \in Runs :
    run[r].pc = "done" /\ proc[r].killed /\ run[r].kind = "tool"
      => run[r].status \in {"KILLED", "TIMEOUT"}

-----------------------------------------------------------------------------
(* Action properties *)

(* When the daemon serves again after a crash, every session and every run *)
(* is in a terminal state, every process recorded with its start time is   *)
(* dead, and what the sessions held that were interrupted is free: those   *)
(* of this crash and, when Recover itself crashed, those that it had       *)
(* already written STOPPED.                                                *)
RecoveryClean ==
  [][phase # "up" /\ phase' = "up" =>
       /\ \A s \in Sessions : sess[s] \in {"none", "STOPPED"}
       /\ \A r \in Runs : run[r].status \in Terminal \cup {"none"}
       /\ \A r \in Runs : proc[r].known = "identity" => ~Live(r)
       /\ \A s \in struck : Holdings(s) = {}]_vars

-----------------------------------------------------------------------------
(* Liveness *)

(* Every run reaches a terminal status, also one that never exits by       *)
(* itself and one that a crash interrupts.                                 *)
RunsEnd == \A r \in Runs : r \in Unfinished ~> r \notin Unfinished

(* Every session that is marked STOPPING is STOPPED later.                 *)
StoppingStops ==
  \A s \in Sessions : sess[s] = "STOPPING" ~> sess[s] = "STOPPED"

-----------------------------------------------------------------------------
(* What the documents say and the code does not do *)

(* "All orphan children of A are terminated" (docs/sessions.md): a STOPPED *)
(* session has no process.                                                 *)
StoppedHasNoProcess ==
  \A s \in Sessions : sess[s] = "STOPPED" =>
    \A r \in Runs : run[r].sess = s => ~Live(r)

=============================================================================
