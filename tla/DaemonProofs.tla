---------------------------- MODULE DaemonProofs ----------------------------
(***************************************************************************)
(* Safety of the daemon for every set of sessions, runs, terminations,     *)
(* resources and ports, and any number of crashes.  The inductive          *)
(* invariant is DaemonInv; each of its parts is shown to be preserved in   *)
(* a lemma of its own.                                                     *)
(***************************************************************************)
EXTENDS DaemonSessions, TLAPS

(* While Recover runs there is no goroutine, and the supervisor's tables   *)
(* are empty.                                                              *)
Down ==
  ~Up => /\ \A t \in Terms : term[t].pc = "idle"
         /\ \A r \in Runs : /\ run[r].pc \in {"idle", "done", "lost"}
                            /\ ~proc[r].tracked

(* The phases of Recover: each leaves its part done. *)
Phases ==
  /\ phase \in {"procs", "runs"} =>
       \A s \in Sessions : sess[s] \in {"none", "STOPPED"}
  /\ phase = "runs" =>
       \A r \in Runs : proc[r].known = "identity" => ~Live(r)

(* A session that Recover has written STOPPED, this time or before it      *)
(* crashed itself, holds nothing; the others met are still interrupted.    *)
Struck ==
  IF Up THEN struck = {}
        ELSE \A s \in struck : Interrupted(s) \/ Holdings(s) = {}

(* A run that nobody drives is not open, but for a lost one before Recover *)
(* comes to it; what a goroutine reports is a terminal status.             *)
Settled ==
  \A r \in Runs :
    /\ run[r].pc \in {"idle", "checked", "done"} => r \notin Unfinished
    /\ Up /\ run[r].pc = "lost" => r \notin Unfinished
    /\ run[r].pc = "reporting" => run[r].result \in Terminal

(* A run whose process is, or was, in reach of a kill when its goroutine   *)
(* took the result, has a result that says so.                             *)
SaysKilled == {"KILLED", "TIMEOUT"}

Honest ==
  \A r \in Runs :
    /\ run[r].pc \in {"idle", "checked", "queued", "launching", "forked"} =>
         ~proc[r].tracked /\ ~proc[r].killed
    /\ run[r].pc = "waiting" => run[r].kind # "emulator"
    /\ run[r].pc = "booting" => run[r].kind = "emulator"
    /\ run[r].kind = "tool" /\ (proc[r].tracked \/ proc[r].killed) =>
         /\ run[r].pc = "reporting" => run[r].result \in SaysKilled
         /\ run[r].pc = "done" => run[r].status \in SaysKilled

(* What a termination has left to take from the session, stage by stage. *)
Claims ==
  \A t \in Terms :
    /\ term[t].pc = "killing" => claim[t] \cap Runs \subseteq term[t].todo
    /\ term[t].pc \in {"leases", "ports", "list", "runs", "finish"} =>
         claim[t] \cap Runs = {}
    /\ term[t].pc \in {"ports", "list", "runs", "finish"} =>
         claim[t] \cap Resources = {}
    /\ term[t].pc \in {"list", "runs", "finish"} =>
         claim[t] \cap Ports = {}

(* A termination at work is a termination of a session. *)
Stopping ==
  /\ \A t \in Terms : /\ term[t].pc = "idle" <=> term[t].sess = None
                      /\ term[t].doomed # None => term[t].pc = "runs"
  /\ StoppingHasTerminator

DaemonInv ==
  /\ TypeOK
  /\ Down
  /\ Phases
  /\ Struck
  /\ Settled
  /\ Honest
  /\ Claims
  /\ Stopping

-----------------------------------------------------------------------------
(* The steps of Next by what they leave alone. *)

ClientStep ==
  \/ \E s \in Sessions :
       \/ CreateSession(s)
       \/ \E x \in Resources : AcquireLease(s, x)
       \/ \E p \in Ports : AllocatePort(s, p)
       \/ RecoverLeases(s) \/ RecoverPorts(s) \/ RecoverSession(s)
  \/ \E x \in Resources : ReleaseLease(x)

RunStep ==
  \E r \in Runs :
    \/ \E s \in Sessions : Check(r, s)
    \/ NewRun(r) \/ PrepareFails(r) \/ LaunchFails(r) \/ ProcessDone(r)
    \/ Booted(r) \/ BootFails(r) \/ Report(r) \/ RecoverRun(r)

ProcStep ==
  \E r \in Runs : (\E ok \in BOOLEAN : Exit(r, ok)) \/ Wait(r) \/ Finalize(r)
                  \/ Reconcile(r)

TermStep ==
  \E t \in Terms :
    \/ \E s \in Sessions : Terminate(t, s)
    \/ ListProcesses(t) \/ ProcessesKilled(t) \/ ReleaseAll(t)
    \/ ReleaseBySession(t) \/ ListRuns(t) \/ RunsFinished(t)
    \/ \E r \in Runs : LookAtRun(t, r)

PhaseStep == SessionsRecovered \/ OrphansReaped \/ Recovered

LaunchStep ==
  \E r \in Runs : \/ MarkRunning(r) \/ Register(r) \/ RecordExec(r)
                  \/ RecordDetached(r) \/ Timeout(r)
                  \/ \E kind \in Kinds : Fork(r, kind)

WriteStep ==
  \E t \in Terms : MarkStopping(t) \/ FinishRun(t) \/ Finish(t)
                   \/ \E r \in Runs : KillProcess(t, r)

LEMMA StepKinds ==
  ASSUME Next
  PROVE  \/ ClientStep \/ RunStep \/ ProcStep \/ TermStep
         \/ PhaseStep \/ LaunchStep \/ WriteStep \/ Crash
BY DEF Next, Execute, TerminateSession, Recover, ClientStep, RunStep, ProcStep,
       TermStep, PhaseStep, LaunchStep, WriteStep

LEMMA ClientFrame ==
  ClientStep => UNCHANGED <<phase, crashes, run, proc, term>>
BY DEF ClientStep, CreateSession, AcquireLease, AllocatePort, ReleaseLease,
       RecoverLeases, RecoverPorts, RecoverSession

LEMMA RunFrame ==
  RunStep => UNCHANGED <<phase, crashes, sess, leased, taken, proc, term>>
BY DEF RunStep, Check, NewRun, PrepareFails, LaunchFails, ProcessDone, Booted,
       BootFails, Report, RecoverRun, OnlyRun

LEMMA ProcFrame ==
  ProcStep => UNCHANGED <<phase, crashes, sess, leased, taken, run, term>>
BY DEF ProcStep, Exit, Wait, Finalize, Reconcile, OnlyProc

LEMMA TermFrame ==
  TermStep => UNCHANGED <<phase, crashes, sess, run, proc>>
BY DEF TermStep, Terminate, ListProcesses, ProcessesKilled, ReleaseAll,
       ReleaseBySession, ListRuns, RunsFinished, LookAtRun, OnlyTerm

LEMMA PhaseFrame ==
  PhaseStep => UNCHANGED <<crashes, sess, leased, taken, run, proc, term>>
BY DEF PhaseStep, SessionsRecovered, OrphansReaped, Recovered

(* Every step of Next writes the history variables. *)
LEMMA EveryStepRemembers == Next => Remember
BY DEF Next, Execute, TerminateSession, Recover, CreateSession, AcquireLease,
       AllocatePort, ReleaseLease, RecoverLeases, RecoverPorts, RecoverSession,
       Check, NewRun, PrepareFails, LaunchFails, ProcessDone, Booted, BootFails,
       Report, RecoverRun, OnlyRun, Exit, Wait, Finalize, Reconcile, OnlyProc,
       Terminate, ListProcesses, ProcessesKilled, ReleaseAll, ReleaseBySession,
       ListRuns, RunsFinished, LookAtRun, OnlyTerm, SessionsRecovered,
       OrphansReaped, Recovered, MarkRunning, Register, RecordExec,
       RecordDetached, Timeout, Fork, MarkStopping, FinishRun, Finish,
       KillProcess, Crash

-----------------------------------------------------------------------------
(* Types *)

LEMMA ClaimType ==
  ASSUME TypeOK, Remember
  PROVE  claim' \in [Terms -> SUBSET (Resources \cup Ports \cup Runs)]
BY DEF TypeOK, Remember, Holdings, Children

LEMMA StruckType ==
  ASSUME TypeOK, Remember
  PROVE  struck' \subseteq Sessions
BY DEF TypeOK, Remember

LEMMA ReleaseTypes ==
  ASSUME TypeOK, NEW s
  PROVE  /\ ReleaseLeases(s) => leased' \in [Resources -> Sessions \cup {None}]
         /\ ReleasePorts(s) => taken' \in [Ports -> Sessions \cup {None}]
BY DEF TypeOK, ReleaseLeases, ReleasePorts

LEMMA Stages ==
  /\ {"idle", "checked", "queued", "launching", "forked", "launched",
       "waiting", "booting", "reporting", "done", "lost"} \subseteq RunStage
  /\ {"idle", "called", "marked", "killing", "leases", "ports", "list",
       "runs", "finish"} \subseteq TermStage
  /\ {"none", "QUEUED", "RUNNING", "SUCCEEDED", "FAILED", "TIMEOUT", "KILLED",
       "ERROR"} \subseteq Status
BY DEF RunStage, TermStage, Status, Terminal

(* A kill leaves a process record a process record. *)
LEMMA KillType ==
  ASSUME NEW p \in Proc
  PROVE  MarkAndKill(p) \in Proc /\ KillIfAlive(p) \in Proc
BY DEF KillIfAlive, MarkAndKill, Killed, Proc

LEMMA RunTypes ==
  ASSUME TypeOK, NEW r \in Runs
  PROVE  run[r] \in Run /\ proc[r] \in Proc
BY DEF TypeOK

LEMMA Replaced ==
  ASSUME TypeOK
  PROVE  /\ \A r \in Runs, x \in Run  : [run EXCEPT ![r] = x] \in [Runs -> Run]
         /\ \A r \in Runs, x \in Proc : [proc EXCEPT ![r] = x] \in [Runs -> Proc]
         /\ \A t \in Terms, x \in Term : [term EXCEPT ![t] = x] \in [Terms -> Term]
BY DEF TypeOK

LEMMA RunResult ==
  ASSUME TypeOK, NEW r \in Runs, NEW pc \in RunStage, NEW status \in Status
  PROVE  [run EXCEPT ![r].pc = pc, ![r].result = status] \in [Runs -> Run]
<1>1. run[r] \in Run /\ run \in [Runs -> Run]
  BY DEF TypeOK
<1>2. [run[r] EXCEPT !.pc = pc, !.result = status] \in Run
  BY <1>1 DEF Run
<1>3. [run EXCEPT ![r].pc = pc, ![r].result = status]
        = [run EXCEPT ![r] = [run[r] EXCEPT !.pc = pc, !.result = status]]
  OBVIOUS
<1> QED
  BY <1>1, <1>2, <1>3, SMT

LEMMA GoesType ==
  ASSUME TypeOK, NEW r \in Runs, NEW from, NEW to, NEW status \in Status,
         Goes(r, from, to, status),
         to \in RunStage
  PROVE  run' \in [Runs -> Run]
<1>1. run[r] \in Run
  BY RunTypes
<1>2. [run[r] EXCEPT !.pc = to, !.status = status] \in Run
  BY <1>1 DEF Run
<1>3. run' = [run EXCEPT ![r] = [run[r] EXCEPT !.pc = to, !.status = status]]
  BY DEF Goes
<1> QED
  BY <1>2, <1>3, Replaced

LEMMA TermFields ==
  ASSUME NEW x \in Term, NEW pc \in TermStage
  PROVE  [x EXCEPT !.pc = pc] \in Term
BY DEF Term

LEMMA ListType ==
  ASSUME TypeOK, NEW t \in Terms, NEW todo \in SUBSET Runs, NEW pc \in TermStage
  PROVE  [term EXCEPT ![t].pc = pc, ![t].todo = todo] \in [Terms -> Term]
<1>1. term[t] \in Term
  BY DEF TypeOK
<1>2. [term[t] EXCEPT !.pc = pc, !.todo = todo] \in Term
  BY <1>1 DEF Term
<1> QED
  BY <1>2 DEF TypeOK

LEMMA ProcUpdates ==
  ASSUME NEW p \in Proc, NEW ok \in BOOLEAN, NEW os \in {"live", "zombie", "gone"}
  PROVE  /\ [p EXCEPT !.ok = ok, !.os = os] \in Proc
         /\ [p EXCEPT !.os = os] \in Proc
         /\ [p EXCEPT !.tracked = FALSE] \in Proc
BY DEF Proc

LEMMA TypeStep ==
  ASSUME TypeOK, Next
  PROVE  TypeOK'
<1>1. /\ claim' \in [Terms -> SUBSET (Resources \cup Ports \cup Runs)]
      /\ struck' \subseteq Sessions
  BY ClaimType, StruckType, EveryStepRemembers
<1>2. CASE ClientStep
  <2>1. sess' \in [Sessions -> {"none", "READY", "RUNNING", "STOPPING", "STOPPED"}]
    BY <1>2 DEF TypeOK, ClientStep, CreateSession, AcquireLease, AllocatePort,
         ReleaseLease, RecoverLeases, RecoverPorts, RecoverSession
  <2>2. leased' \in [Resources -> Sessions \cup {None}]
    BY <1>2, ReleaseTypes DEF TypeOK, ClientStep, CreateSession, AcquireLease,
         AllocatePort, ReleaseLease, RecoverLeases, RecoverPorts, RecoverSession
  <2>3. taken' \in [Ports -> Sessions \cup {None}]
    BY <1>2, ReleaseTypes DEF TypeOK, ClientStep, CreateSession, AcquireLease,
         AllocatePort, ReleaseLease, RecoverLeases, RecoverPorts, RecoverSession
  <2> QED
    BY <1>1, <1>2, <2>1, <2>2, <2>3, ClientFrame DEF TypeOK
<1>3. CASE RunStep
  <2>1. run' \in [Runs -> Run]
    <3> PICK r \in Runs :
          \/ \E s \in Sessions : Check(r, s)
          \/ NewRun(r) \/ PrepareFails(r) \/ LaunchFails(r) \/ ProcessDone(r)
          \/ Booted(r) \/ BootFails(r) \/ Report(r) \/ RecoverRun(r)
      BY <1>3 DEF RunStep
    <3>1. run[r].result \in Status
      BY RunTypes DEF Run
    <3>2. ASSUME NEW s \in Sessions, Check(r, s) PROVE run' \in [Runs -> Run]
      <4>1. [run[r] EXCEPT !.pc = "checked", !.sess = s] \in Run
        BY RunTypes, Stages DEF Run
      <4>2. run' = [run EXCEPT ![r] =
                      [run[r] EXCEPT !.pc = "checked", !.sess = s]]
        BY <3>2 DEF Check
      <4> QED
        BY <4>1, <4>2, Replaced
    <3>3. CASE NewRun(r) \/ PrepareFails(r)
      BY <3>3, Stages, GoesType DEF NewRun, PrepareFails
    <3>4. CASE LaunchFails(r) \/ BootFails(r)
      BY <3>4, Stages, GoesType DEF LaunchFails, BootFails
    <3>8. CASE Report(r)
      <4>1. PICK status \in AdapterStatus(r) : Goes(r, "reporting", "done", status)
        BY <3>8 DEF Report
      <4>2. status \in Status
        BY <3>1, <4>1, Stages DEF AdapterStatus
      <4> QED
        BY <4>1, <4>2, Stages, GoesType
    <3>5. CASE ProcessDone(r)
      <4> DEFINE result == IF proc[r].killed THEN "KILLED"
                           ELSE IF proc[r].ok THEN "SUCCEEDED" ELSE "FAILED"
      <4>1. result \in Status
        BY Stages
      <4>2. run' = [run EXCEPT ![r].pc = "reporting", ![r].result = result]
        BY <3>5 DEF ProcessDone
      <4> HIDE DEF result
      <4> QED
        BY <4>1, <4>2, Stages, RunResult
    <3>6. CASE Booted(r)
      BY <3>6, Stages, RunResult DEF Booted
    <3>7. CASE RecoverRun(r)
      <4>1. [run[r] EXCEPT !.status = "KILLED"] \in Run
        BY RunTypes, Stages DEF Run
      <4>2. run' = [run EXCEPT ![r] = [run[r] EXCEPT !.status = "KILLED"]]
        BY <3>7 DEF RecoverRun
      <4> QED
        BY <4>1, <4>2, Replaced
    <3> QED
      BY <3>2, <3>3, <3>4, <3>5, <3>6, <3>7, <3>8
  <2> QED
    BY <1>1, <1>3, <2>1, RunFrame DEF TypeOK
<1>4. CASE ProcStep
  <2>1. proc' \in [Runs -> Proc]
    <3>1. ASSUME NEW r \in Runs, NEW ok \in BOOLEAN, Exit(r, ok)
          PROVE  proc' \in [Runs -> Proc]
      <4> DEFINE x == [proc[r] EXCEPT !.ok = ok,
                                      !.os = IF Ours(r) THEN "zombie" ELSE "gone"]
      <4>1. x \in Proc
        BY RunTypes, ProcUpdates
      <4>2. proc' = [proc EXCEPT ![r] = x]
        BY <3>1 DEF Exit
      <4> HIDE DEF x
      <4> QED
        BY <4>1, <4>2, Replaced
    <3>2. ASSUME NEW r \in Runs, Wait(r) \/ Finalize(r) PROVE proc' \in [Runs -> Proc]
      <4>1. /\ [proc[r] EXCEPT !.os = "gone"] \in Proc
            /\ [proc[r] EXCEPT !.tracked = FALSE] \in Proc
        BY RunTypes, ProcUpdates
      <4>2. CASE Wait(r)
        <5>1. proc' = [proc EXCEPT ![r] = [proc[r] EXCEPT !.os = "gone"]]
          BY <4>2 DEF Wait
        <5> QED
          BY <4>1, <5>1, Replaced
      <4>3. CASE Finalize(r)
        <5>1. proc' = [proc EXCEPT ![r] = [proc[r] EXCEPT !.tracked = FALSE]]
          BY <4>3 DEF Finalize
        <5> QED
          BY <4>1, <5>1, Replaced
      <4> QED
        BY <3>2, <4>2, <4>3
    <3>3. ASSUME NEW r \in Runs, Reconcile(r) PROVE proc' \in [Runs -> Proc]
      <4>1. [proc[r] EXCEPT !.ok = FALSE, !.os = "gone"] \in Proc
        BY RunTypes, ProcUpdates
      <4>2. [proc[r] EXCEPT !.ok = FALSE, !.os = "gone"]
              = [proc[r] EXCEPT !.os = "gone", !.ok = FALSE]
        BY RunTypes DEF Proc
      <4>3. proc' = [proc EXCEPT ![r] = [proc[r] EXCEPT !.os = "gone", !.ok = FALSE]]
        BY <3>3 DEF Reconcile
      <4> QED
        BY <4>1, <4>2, <4>3, Replaced
    <3> QED
      BY <1>4, <3>1, <3>2, <3>3 DEF ProcStep
  <2> QED
    BY <1>1, <1>4, <2>1, ProcFrame DEF TypeOK
<1>5. CASE TermStep
  <2>1. term' \in [Terms -> Term]
    <3> PICK t \in Terms :
          \/ \E s \in Sessions : Terminate(t, s)
          \/ ListProcesses(t) \/ ProcessesKilled(t) \/ ReleaseAll(t)
          \/ ReleaseBySession(t) \/ ListRuns(t) \/ RunsFinished(t)
          \/ \E r \in Runs : LookAtRun(t, r)
      BY <1>5 DEF TermStep
    <3>1. ASSUME NEW s \in Sessions, Terminate(t, s) PROVE term' \in [Terms -> Term]
      BY <3>1, Stages DEF TypeOK, Terminate, NoTerm, Term
    <3>2. CASE ListProcesses(t)
      BY <3>2, Stages, ListType DEF ListProcesses
    <3>3. CASE ListRuns(t)
      BY <3>3, Stages, ListType DEF ListRuns
    <3>4. CASE \/ ProcessesKilled(t) \/ RunsFinished(t)
               \/ ReleaseAll(t) \/ ReleaseBySession(t)
      <4>1. PICK pc \in TermStage : term' = [term EXCEPT ![t] = [term[t] EXCEPT !.pc = pc]]
        BY <3>4, Stages DEF ProcessesKilled, RunsFinished, ReleaseAll, ReleaseBySession
      <4>2. [term[t] EXCEPT !.pc = pc] \in Term
        BY TermFields DEF TypeOK
      <4> QED
        BY <4>1, <4>2, Replaced
    <3>5. ASSUME NEW r \in Runs, LookAtRun(t, r) PROVE term' \in [Terms -> Term]
      <4> DEFINE doomed == IF run[r].status \in Terminal THEN None ELSE r
      <4>1. doomed \in Runs \cup {None}
        OBVIOUS
      <4>2. term' = [term EXCEPT ![t] =
                       [term[t] EXCEPT !.todo = @ \ {r}, !.doomed = doomed]]
        BY <3>5 DEF LookAtRun
      <4> HIDE DEF doomed
      <4>3. [term[t] EXCEPT !.todo = @ \ {r}, !.doomed = doomed] \in Term
        <5>1. term[t] \in Term
          BY DEF TypeOK
        <5> QED
          BY <4>1, <5>1 DEF Term
      <4> QED
        BY <4>2, <4>3, Replaced
    <3> QED
      BY <3>1, <3>2, <3>3, <3>4, <3>5
  <2>2. leased' \in [Resources -> Sessions \cup {None}]
    BY <1>5, ReleaseTypes DEF TypeOK, TermStep, Terminate, ListProcesses,
         ProcessesKilled, ReleaseAll, ReleaseBySession, ListRuns, RunsFinished,
         LookAtRun, OnlyTerm
  <2>3. taken' \in [Ports -> Sessions \cup {None}]
    BY <1>5, ReleaseTypes DEF TypeOK, TermStep, Terminate, ListProcesses,
         ProcessesKilled, ReleaseAll, ReleaseBySession, ListRuns, RunsFinished,
         LookAtRun, OnlyTerm
  <2> QED
    BY <1>1, <1>5, <2>1, <2>2, <2>3, TermFrame DEF TypeOK
<1>6. CASE PhaseStep
  BY <1>1, <1>6, PhaseFrame
     DEF TypeOK, PhaseStep, SessionsRecovered, OrphansReaped, Recovered
<1>7. CASE LaunchStep
  <2> PICK r \in Runs : \/ MarkRunning(r) \/ Register(r) \/ RecordExec(r)
                       \/ RecordDetached(r) \/ Timeout(r)
                       \/ \E kind \in Kinds : Fork(r, kind)
    BY <1>7 DEF LaunchStep
  <2>1. "RUNNING" \in Status /\ run[r].status \in Status
    BY RunTypes DEF Status, Run
  <2>2. CASE MarkRunning(r)
    <3>1. run' \in [Runs -> Run]
      BY <2>1, <2>2, Stages, GoesType DEF MarkRunning
    <3>2. sess' \in [Sessions -> {"none", "READY", "RUNNING", "STOPPING", "STOPPED"}]
      BY <2>2 DEF TypeOK, MarkRunning
    <3> QED
      BY <1>1, <2>2, <3>1, <3>2 DEF TypeOK, MarkRunning
  <2>3. CASE Register(r) \/ RecordExec(r) \/ RecordDetached(r)
    <3>1. run' \in [Runs -> Run]
      BY <2>1, <2>3, Stages, GoesType DEF Register, RecordExec, RecordDetached
    <3>2. proc' \in [Runs -> Proc]
      <4>1. CASE Register(r)
        BY <4>1 DEF TypeOK, Register, Proc
      <4>2. CASE RecordExec(r)
        BY <4>2 DEF TypeOK, RecordExec, Proc
      <4>3. CASE RecordDetached(r)
        BY <4>3 DEF TypeOK, RecordDetached, Proc
      <4> QED
        BY <2>3, <4>1, <4>2, <4>3
    <3> QED
      BY <1>1, <2>3, <3>1, <3>2 DEF TypeOK, Register, RecordExec, RecordDetached
  <2>4. CASE Timeout(r)
    <3>1. run' \in [Runs -> Run]
      BY <2>4, Stages, RunResult DEF Timeout
    <3>2. proc' \in [Runs -> Proc]
      <4>1. MarkAndKill(proc[r]) \in Proc
        BY RunTypes, KillType
      <4>2. proc' = [proc EXCEPT ![r] = MarkAndKill(proc[r])]
        BY <2>4 DEF Timeout
      <4> QED
        BY <4>1, <4>2, Replaced
    <3> QED
      BY <1>1, <2>4, <3>1, <3>2 DEF TypeOK, Timeout
  <2>5. ASSUME NEW kind \in Kinds, Fork(r, kind) PROVE TypeOK'
    <3>1. run' \in [Runs -> Run]
      <4>1. [run[r] EXCEPT !.pc = "forked", !.kind = kind] \in Run
        BY RunTypes, Stages DEF Run
      <4>2. run' = [run EXCEPT ![r] =
                      [run[r] EXCEPT !.pc = "forked", !.kind = kind]]
        BY <2>5 DEF Fork
      <4> QED
        BY <4>1, <4>2, Replaced
    <3>2. proc' \in [Runs -> Proc]
      <4>1. [proc[r] EXCEPT !.os = "live"] \in Proc
        BY RunTypes, ProcUpdates
      <4>2. proc' = [proc EXCEPT ![r] = [proc[r] EXCEPT !.os = "live"]]
        BY <2>5 DEF Fork
      <4> QED
        BY <4>1, <4>2, Replaced
    <3> QED
      BY <1>1, <2>5, <3>1, <3>2 DEF TypeOK, Fork
  <2> QED
    BY <2>2, <2>3, <2>4, <2>5
<1>8. CASE WriteStep
  <2> PICK t \in Terms : MarkStopping(t) \/ FinishRun(t) \/ Finish(t)
                        \/ \E r \in Runs : KillProcess(t, r)
    BY <1>8 DEF WriteStep
  <2>1. CASE MarkStopping(t) \/ Finish(t)
    <3>1. term' \in [Terms -> Term]
      <4>1. NoTerm \in Term /\ [term[t] EXCEPT !.pc = "marked"] \in Term
        BY Stages DEF TypeOK, Term, NoTerm
      <4>2. \/ term' = [term EXCEPT ![t] = NoTerm]
            \/ term' = [term EXCEPT ![t] = [term[t] EXCEPT !.pc = "marked"]]
        BY <2>1 DEF MarkStopping, Finish
      <4> QED
        BY <4>1, <4>2, Replaced
    <3>2. sess' \in [Sessions -> {"none", "READY", "RUNNING", "STOPPING", "STOPPED"}]
      BY <2>1 DEF TypeOK, MarkStopping, Finish
    <3> QED
      BY <1>1, <2>1, <3>1, <3>2 DEF TypeOK, MarkStopping, Finish
  <2>2. CASE FinishRun(t)
    <3>1. run' \in [Runs -> Run]
      <4> DEFINE d == term[t].doomed
      <4>1. d \in Runs
        BY <2>2 DEF TypeOK, FinishRun, Term
      <4>2. run' = [run EXCEPT ![d] = [run[d] EXCEPT !.status = "KILLED"]]
        BY <2>2 DEF FinishRun
      <4>3. [run[d] EXCEPT !.status = "KILLED"] \in Run
        BY <4>1, RunTypes, Stages DEF Run
      <4> HIDE DEF d
      <4> QED
        BY <4>1, <4>2, <4>3, Replaced
    <3>2. term' \in [Terms -> Term]
      <4>1. [term[t] EXCEPT !.doomed = None] \in Term
        BY DEF TypeOK, Term
      <4>2. term' = [term EXCEPT ![t] = [term[t] EXCEPT !.doomed = None]]
        BY <2>2 DEF FinishRun
      <4> QED
        BY <4>1, <4>2, Replaced
    <3> QED
      BY <1>1, <2>2, <3>1, <3>2 DEF TypeOK, FinishRun
  <2>3. ASSUME NEW r \in Runs, KillProcess(t, r) PROVE TypeOK'
    <3>1. proc' \in [Runs -> Proc]
      <4>1. KillIfAlive(proc[r]) \in Proc
        BY RunTypes, KillType
      <4>2. proc' = [proc EXCEPT ![r] = KillIfAlive(proc[r])]
        BY <2>3 DEF KillProcess
      <4> QED
        BY <4>1, <4>2, Replaced
    <3>2. term' \in [Terms -> Term]
      <4>1. [term[t] EXCEPT !.todo = @ \ {r}] \in Term
        BY DEF TypeOK, Term
      <4>2. term' = [term EXCEPT ![t] = [term[t] EXCEPT !.todo = @ \ {r}]]
        BY <2>3 DEF KillProcess
      <4> QED
        BY <4>1, <4>2, Replaced
    <3> QED
      BY <1>1, <2>3, <3>1, <3>2 DEF TypeOK, KillProcess
  <2> QED
    BY <2>1, <2>2, <2>3
<1>9. CASE Crash
  <2>1. run' \in [Runs -> Run]
    <3>1. NoRun \in Run
      BY Stages DEF NoRun, Run
    <3>2. \A r \in Runs : [run[r] EXCEPT !.pc = "lost"] \in Run
      BY Stages DEF TypeOK, Run
    <3> QED
      BY <1>9, <3>1, <3>2 DEF TypeOK, Crash
  <2>2. proc' \in [Runs -> Proc]
    <3>1. \A r \in Runs :
            [proc[r] EXCEPT !.tracked = FALSE, !.killed = FALSE,
                            !.os = IF @ = "zombie" THEN "gone" ELSE @] \in Proc
      BY RunTypes DEF Proc
    <3> QED
      BY <1>9, <3>1 DEF Crash
  <2>3. crashes' \in 0 .. MaxCrashes
    <3>1. crashes \in 0 .. MaxCrashes
      BY DEF TypeOK
    <3>2. crashes < MaxCrashes /\ crashes' = crashes + 1
      BY <1>9 DEF Crash
    <3> QED
      BY <3>1, <3>2, DaemonBound
  <2>4. NoTerm \in Term
    BY Stages DEF NoTerm, Term
  <2> QED
    BY <1>1, <1>9, <2>1, <2>2, <2>3, <2>4 DEF TypeOK, Crash
<1> QED
  BY <1>2, <1>3, <1>4, <1>5, <1>6, <1>7, <1>8, <1>9, StepKinds

-----------------------------------------------------------------------------
(* No goroutine while Recover runs *)

LEMMA GoroutinesNeedUp ==
  ASSUME DaemonInv
  PROVE  /\ \A r \in Runs : run[r].pc \notin {"idle", "done", "lost"} => Up
         /\ \A r \in Runs : proc[r].tracked => Up
         /\ \A t \in Terms : term[t].pc # "idle" => Up
BY DEF DaemonInv, Down

LEMMA LaunchNeedsUp ==
  ASSUME DaemonInv, LaunchStep
  PROVE  Up /\ Up'
<1>1. Up /\ phase' = phase
  BY GoroutinesNeedUp DEF LaunchStep, MarkRunning, Register, RecordExec,
       RecordDetached, Timeout, Fork, Goes
<1> QED
  BY <1>1 DEF Up

LEMMA WriteNeedsUp ==
  ASSUME DaemonInv, WriteStep
  PROVE  Up /\ Up'
<1>1. \A t \in Terms : term[t].doomed # None => term[t].pc # "idle"
  BY DEF DaemonInv, Stopping
<1>2. Up /\ phase' = phase
  BY <1>1, GoroutinesNeedUp
     DEF WriteStep, MarkStopping, FinishRun, Finish, KillProcess
<1> QED
  BY <1>2 DEF Up

LEMMA TermNeedsUp ==
  ASSUME DaemonInv, TermStep
  PROVE  Up /\ Up'
<1>1. Up
  BY GoroutinesNeedUp
     DEF TermStep, Terminate, ListProcesses, ProcessesKilled, ReleaseAll,
         ReleaseBySession, ListRuns, RunsFinished, LookAtRun
<1> QED
  BY <1>1, TermFrame DEF Up

(* A step of a run alone is made while the daemon serves, or by Recover. *)
LEMMA RunNeedsUp ==
  ASSUME DaemonInv, NEW r \in Runs,
         \/ \E s \in Sessions : Check(r, s)
         \/ NewRun(r) \/ PrepareFails(r) \/ LaunchFails(r) \/ ProcessDone(r)
         \/ Booted(r) \/ BootFails(r) \/ Report(r)
  PROVE  Up /\ Up'
<1>1. Up /\ phase' = phase
  BY GoroutinesNeedUp DEF Check, NewRun, PrepareFails, LaunchFails, ProcessDone,
       Booted, BootFails, Report, OnlyRun, Goes
<1> QED
  BY <1>1 DEF Up

(* A step of a process alone does not enter it in the tables, record it or *)
(* revive it.                                                              *)
LEMMA ProcEffect ==
  ASSUME TypeOK, ProcStep, NEW q \in Runs
  PROVE  /\ proc'[q].tracked => proc[q].tracked
         /\ proc'[q].killed = proc[q].killed
         /\ proc'[q].known = proc[q].known
         /\ proc'[q].os = "live" => proc[q].os = "live"
<1> USE DEF TypeOK
<1>1. ASSUME NEW r \in Runs, NEW ok \in BOOLEAN, Exit(r, ok)
      PROVE  /\ proc'[q].tracked = proc[q].tracked
             /\ proc'[q].killed = proc[q].killed
             /\ proc'[q].known = proc[q].known
             /\ proc'[q].os = "live" => proc[q].os = "live"
  BY <1>1 DEF Exit, Live, Proc
<1>2. ASSUME NEW r \in Runs, Wait(r) \/ Finalize(r) \/ Reconcile(r)
      PROVE  /\ proc'[q].tracked => proc[q].tracked
             /\ proc'[q].killed = proc[q].killed
             /\ proc'[q].known = proc[q].known
             /\ proc'[q].os = "live" => proc[q].os = "live"
  BY <1>2 DEF Wait, Finalize, Reconcile, Proc
<1> QED
  BY <1>1, <1>2 DEF ProcStep

LEMMA DownStep ==
  ASSUME DaemonInv, Next
  PROVE  Down'
<1>1. CASE Up'
  BY <1>1 DEF Down
<1>2. CASE ClientStep
  BY <1>2, ClientFrame DEF DaemonInv, Down, Up
<1>3. CASE RunStep /\ ~Up'
  <2>1. PICK r \in Runs : RecoverRun(r)
    BY <1>3, RunNeedsUp DEF RunStep
  <2>2. /\ \A q \in Runs : run'[q].pc = run[q].pc
        /\ phase' = phase /\ term' = term /\ proc' = proc
    BY <2>1 DEF RecoverRun, OnlyRun, DaemonInv, TypeOK, Run
  <2> QED
    BY <2>2 DEF DaemonInv, Down, Up
<1>4. CASE ProcStep
  <2>1. \A r \in Runs : proc'[r].tracked => proc[r].tracked
    BY <1>4, ProcEffect DEF DaemonInv
  <2> QED
    BY <1>4, <2>1, ProcFrame DEF DaemonInv, Down, Up
<1>5. CASE PhaseStep
  <2>1. ~Up
    BY <1>5 DEF PhaseStep, SessionsRecovered, OrphansReaped, Recovered, Up
  <2> QED
    BY <1>5, <2>1, PhaseFrame DEF DaemonInv, Down
<1>6. CASE Crash
  <2>1. \A t \in Terms : term'[t].pc = "idle"
    BY <1>6 DEF Crash, NoTerm
  <2>2. \A r \in Runs : ~proc'[r].tracked
    BY <1>6 DEF Crash, DaemonInv, TypeOK, Proc
  <2>3. \A r \in Runs : run'[r].pc \in {"idle", "done", "lost"}
    BY <1>6 DEF Crash, NoRun, DaemonInv, TypeOK, Run
  <2> QED
    BY <2>1, <2>2, <2>3 DEF Down
<1> QED
  BY <1>1, <1>2, <1>3, <1>4, <1>5, <1>6, StepKinds, LaunchNeedsUp, WriteNeedsUp,
     TermNeedsUp

-----------------------------------------------------------------------------
(* The phases of Recover *)

LEMMA PhasesStep ==
  ASSUME DaemonInv, Next
  PROVE  Phases'
<1>1. CASE Up'
  BY <1>1 DEF Phases, Up
<1>2. CASE ClientStep /\ ~Up'
  <2>1. ~Up
    BY <1>2, ClientFrame DEF Up
  <2>2. \A s \in Sessions : sess[s] \in {"none", "STOPPED"} =>
                              sess'[s] \in {"none", "STOPPED"}
    BY <1>2, <2>1 DEF ClientStep, CreateSession, AcquireLease, AllocatePort,
       ReleaseLease, RecoverLeases, RecoverPorts, RecoverSession, DaemonInv, TypeOK
  <2> QED
    BY <1>2, <2>2, ClientFrame DEF DaemonInv, Phases, Live
<1>3. CASE RunStep
  BY <1>3, RunFrame DEF DaemonInv, Phases, Live
<1>4. CASE ProcStep
  <2>1. \A r \in Runs : /\ proc'[r].known = proc[r].known
                        /\ Live(r)' => Live(r)
    BY <1>4, ProcEffect DEF DaemonInv, Live
  <2> QED
    BY <1>4, <2>1, ProcFrame DEF DaemonInv, Phases
<1>5. CASE SessionsRecovered
  BY <1>5 DEF SessionsRecovered, Interrupted, Phases
<1>6. CASE OrphansReaped
  BY <1>6 DEF OrphansReaped, Orphans, DaemonInv, Phases, Live
<1>7. CASE Recovered
  BY <1>7 DEF Recovered, Phases
<1>8. CASE Crash
  BY <1>8 DEF Crash, Phases
<1> QED
  BY <1>1, <1>2, <1>3, <1>4, <1>5, <1>6, <1>7, <1>8, StepKinds, LaunchNeedsUp,
     WriteNeedsUp, TermNeedsUp DEF PhaseStep

-----------------------------------------------------------------------------
(* Recover frees first and stops then *)

LEMMA StruckStep ==
  ASSUME DaemonInv, Next
  PROVE  Struck'
<1>0. /\ TypeOK /\ Struck
      /\ struck' = IF phase' = "up" THEN {}
                    ELSE struck \cup {s \in Sessions : Interrupted(s)}
  BY EveryStepRemembers DEF DaemonInv, Remember
<1>1. CASE Up'
  BY <1>0, <1>1 DEF Struck, Up
<1>2. CASE ~Up'
  <2>1. \A s \in struck' : s \in Sessions /\ (Interrupted(s) \/ Holdings(s) = {})
    BY <1>0, <1>2 DEF Struck, Up, TypeOK
  <2>2. CASE UNCHANGED <<sess, leased, taken>>
    <3>1. \A s : Interrupted(s)' = Interrupted(s) /\ Holdings(s)' = Holdings(s)
      BY <2>2 DEF Interrupted, Holdings
    <3> QED
      BY <1>2, <2>1, <3>1 DEF Struck
  <2>3. CASE ClientStep
    <3>1. ~Up
      BY <1>2, <2>3, ClientFrame DEF Up
    <3>2. PICK q \in Sessions : RecoverLeases(q) \/ RecoverPorts(q) \/ RecoverSession(q)
                             \/ \E x \in Resources : ReleaseLease(x)
      BY <2>3, <3>1 DEF ClientStep, CreateSession, AcquireLease, AllocatePort,
           ReleaseLease
    <3>3. ~\E x \in Resources : ReleaseLease(x)
      BY <3>1 DEF ReleaseLease
    <3>4. \A s \in Sessions :
            /\ Holdings(s)' \subseteq Holdings(s)
            /\ Interrupted(s) => Interrupted(s)' \/ Holdings(s)' = {}
      <4>1. CASE RecoverLeases(q)
        <5>1. sess' = sess /\ taken' = taken /\ ReleaseLeases(q)
          BY <4>1 DEF RecoverLeases
        <5>2. \A s \in Sessions, x \in Resources : leased'[x] = s => leased[x] = s
          BY <5>1, DaemonNone DEF ReleaseLeases
        <5> QED
          BY <5>1, <5>2 DEF Holdings, Interrupted
      <4>2. CASE RecoverPorts(q)
        <5>1. sess' = sess /\ leased' = leased /\ ReleasePorts(q)
          BY <4>2 DEF RecoverPorts
        <5>2. \A s \in Sessions, x \in Ports : taken'[x] = s => taken[x] = s
          BY <5>1, DaemonNone DEF ReleasePorts
        <5> QED
          BY <5>1, <5>2 DEF Holdings, Interrupted
      <4>3. CASE RecoverSession(q)
        <5>1. /\ Holdings(q) = {}
              /\ \A s : Holdings(s)' = Holdings(s)
              /\ \A s \in Sessions : s # q => sess'[s] = sess[s]
          BY <1>0, <4>3 DEF RecoverSession, Holdings, TypeOK
        <5> QED
          BY <5>1 DEF Interrupted
      <4> QED
        BY <3>2, <3>3, <4>1, <4>2, <4>3
    <3> QED
      BY <1>2, <2>1, <3>4 DEF Struck
  <2>4. ~LaunchStep /\ ~WriteStep /\ ~TermStep
    BY <1>2, LaunchNeedsUp, WriteNeedsUp, TermNeedsUp
  <2> QED
    BY <2>2, <2>3, <2>4, StepKinds, RunFrame, ProcFrame, PhaseFrame DEF Crash
<1> QED
  BY <1>1, <1>2

-----------------------------------------------------------------------------
(* Runs are settled *)

(* What Goes does to every run. *)
LEMMA GoesEffect ==
  ASSUME TypeOK, NEW r \in Runs, NEW from, NEW to, NEW status,
         Goes(r, from, to, status), NEW q \in Runs
  PROVE  /\ run'[q].pc = IF q = r THEN to ELSE run[q].pc
         /\ run'[q].status = IF q = r THEN status ELSE run[q].status
         /\ run'[q].result = run[q].result
         /\ run'[q].kind = run[q].kind
BY DEF Goes, TypeOK, Run

LEMMA ForkEffect ==
  ASSUME TypeOK, NEW r \in Runs, NEW kind, Fork(r, kind), NEW q \in Runs
  PROVE  /\ run'[q].pc = IF q = r THEN "forked" ELSE run[q].pc
         /\ run'[q].status = run[q].status
         /\ run'[q].result = run[q].result
         /\ run'[q].kind = IF q = r THEN kind ELSE run[q].kind
         /\ run'[q].sess = run[q].sess
<1>1. run' = [run EXCEPT ![r] = [run[r] EXCEPT !.pc = "forked", !.kind = kind]]
  BY DEF Fork
<1>2. CASE q = r
  BY <1>1, <1>2 DEF TypeOK, Run
<1>3. CASE q # r
  BY <1>1, <1>3 DEF TypeOK
<1> QED
  BY <1>2, <1>3

(* The part of Settled about one run. *)
SettledRun(r) ==
  /\ run[r].pc \in {"idle", "checked", "done"} => r \notin Unfinished
  /\ Up /\ run[r].pc = "lost" => r \notin Unfinished
  /\ run[r].pc = "reporting" => run[r].result \in Terminal

LEMMA SettledByRun == Settled <=> \A r \in Runs : SettledRun(r)
BY DEF Settled, SettledRun

LEMMA TerminalIsFinished ==
  ASSUME NEW status \in Terminal
  PROVE  status \notin {"QUEUED", "RUNNING"}
BY DEF Terminal

LEMMA SettledStep ==
  ASSUME DaemonInv, Next, NEW q \in Runs
  PROVE  SettledRun(q)'
<1>0. TypeOK /\ SettledRun(q)
  BY SettledByRun DEF DaemonInv
<1>1. ASSUME UNCHANGED <<phase, run>> PROVE SettledRun(q)'
  BY <1>0, <1>1 DEF SettledRun, Unfinished, Up
<1>2. CASE RunStep
  <2> PICK r \in Runs :
        \/ \E s \in Sessions : Check(r, s)
        \/ NewRun(r) \/ PrepareFails(r) \/ LaunchFails(r) \/ ProcessDone(r)
        \/ Booted(r) \/ BootFails(r) \/ Report(r) \/ RecoverRun(r)
    BY <1>2 DEF RunStep
  <2>0. phase' = phase
    BY <1>2, RunFrame
  <2>1. ASSUME NEW s \in Sessions, Check(r, s) PROVE SettledRun(q)'
    <3>1. /\ run'[q].status = run[q].status
          /\ run'[q].pc = IF q = r THEN "checked" ELSE run[q].pc
          /\ run'[q].result = run[q].result
          /\ run[r].pc = "idle"
      BY <1>0, <2>1 DEF Check, TypeOK, Run
    <3> QED
      BY <1>0, <2>0, <3>1 DEF SettledRun, Unfinished, Up
  <2>2. CASE NewRun(r)
    <3>1. Goes(r, "checked", "queued", "QUEUED")
      BY <2>2 DEF NewRun
    <3> QED
      BY <1>0, <2>0, <3>1, GoesEffect DEF SettledRun, Unfinished, Up
  <2>3. CASE PrepareFails(r) \/ LaunchFails(r) \/ BootFails(r)
    <3>1. PICK from : Goes(r, from, "done", "ERROR")
      BY <2>3 DEF PrepareFails, LaunchFails, BootFails
    <3> QED
      BY <1>0, <2>0, <3>1, GoesEffect DEF SettledRun, Unfinished, Up
  <2>4. CASE Report(r)
    <3>1. PICK status \in AdapterStatus(r) : Goes(r, "reporting", "done", status)
      BY <2>4 DEF Report
    <3>3. run[r].result \in Terminal
      BY <3>1, SettledByRun DEF Goes, SettledRun, DaemonInv
    <3>2. status \in Terminal
      BY <3>1, <3>3 DEF AdapterStatus, Terminal
    <3> QED
      BY <1>0, <2>0, <3>1, <3>2, GoesEffect, TerminalIsFinished
         DEF SettledRun, Unfinished, Up
  <2>5. CASE ProcessDone(r) \/ Booted(r)
    <3>1. /\ run'[q].status = run[q].status
          /\ run'[q].pc = IF q = r THEN "reporting" ELSE run[q].pc
          /\ q # r => run'[q].result = run[q].result
      BY <1>0, <2>5 DEF ProcessDone, Booted, TypeOK, Run
    <3>2. run'[r].result \in {"KILLED", "SUCCEEDED", "FAILED"}
      BY <1>0, <2>5 DEF ProcessDone, Booted, TypeOK, Run
    <3> QED
      BY <1>0, <2>0, <3>1, <3>2 DEF SettledRun, Unfinished, Up, Terminal
  <2>6. CASE RecoverRun(r)
    <3>1. /\ run'[q].status = IF q = r THEN "KILLED" ELSE run[q].status
          /\ run'[q].pc = run[q].pc /\ run'[q].result = run[q].result
      BY <1>0, <2>6 DEF RecoverRun, TypeOK, Run
    <3> QED
      BY <1>0, <2>0, <3>1 DEF SettledRun, Unfinished, Up
  <2> QED
    BY <2>1, <2>2, <2>3, <2>4, <2>5, <2>6
<1>3. CASE LaunchStep
  <2> PICK r \in Runs : \/ MarkRunning(r) \/ Register(r) \/ RecordExec(r)
                       \/ RecordDetached(r) \/ Timeout(r)
                       \/ \E kind \in Kinds : Fork(r, kind)
    BY <1>3 DEF LaunchStep
  <2>1. CASE MarkRunning(r) \/ Register(r) \/ RecordExec(r) \/ RecordDetached(r)
    <3>1. phase' = phase
      BY <2>1 DEF MarkRunning, Register, RecordExec, RecordDetached
    <3>2. ASSUME NEW from, NEW to \in {"launching", "launched", "waiting", "booting"},
                 NEW status, Goes(r, from, to, status)
          PROVE  SettledRun(q)'
      BY <1>0, <3>1, <3>2, GoesEffect DEF SettledRun, Unfinished, Up
    <3> QED
      BY <2>1, <3>2 DEF MarkRunning, Register, RecordExec, RecordDetached
  <2>2. CASE Timeout(r)
    <3>1. /\ run'[q].status = run[q].status
          /\ run'[q].pc = IF q = r THEN "reporting" ELSE run[q].pc
          /\ run'[q].result = IF q = r THEN "TIMEOUT" ELSE run[q].result
          /\ phase' = phase
      BY <1>0, <2>2 DEF Timeout, TypeOK, Run
    <3> QED
      BY <1>0, <3>1 DEF SettledRun, Unfinished, Up, Terminal
  <2>3. ASSUME NEW kind \in Kinds, Fork(r, kind) PROVE SettledRun(q)'
    <3>1. /\ run'[q].status = run[q].status
          /\ run'[q].pc = IF q = r THEN "forked" ELSE run[q].pc
          /\ run'[q].result = run[q].result
          /\ phase' = phase
      <4>1. TypeOK
        BY <1>0
      <4>2. phase' = phase
        BY <2>3 DEF Fork
      <4> QED
        BY <2>3, <4>1, <4>2, ForkEffect
    <3> QED
      BY <1>0, <3>1 DEF SettledRun, Unfinished, Up
  <2> QED
    BY <2>1, <2>2, <2>3
<1>4. CASE WriteStep
  <2> PICK t \in Terms : MarkStopping(t) \/ FinishRun(t) \/ Finish(t)
                        \/ \E r \in Runs : KillProcess(t, r)
    BY <1>4 DEF WriteStep
  <2>1. CASE FinishRun(t)
    <3>1. /\ run'[q].status = IF q = term[t].doomed THEN "KILLED" ELSE run[q].status
          /\ run'[q].pc = run[q].pc /\ run'[q].result = run[q].result
          /\ phase' = phase
      BY <1>0, <2>1 DEF FinishRun, TypeOK, Run, Term
    <3> QED
      BY <1>0, <3>1 DEF SettledRun, Unfinished, Up
  <2>2. CASE ~FinishRun(t)
    BY <1>1, <2>2 DEF MarkStopping, Finish, KillProcess
  <2> QED
    BY <2>1, <2>2
<1>5. CASE PhaseStep
  <2>1. CASE Recovered
    <3>1. q \notin Unfinished
      BY <2>1 DEF Recovered
    <3> QED
      BY <1>0, <1>5, <3>1, PhaseFrame DEF SettledRun, Unfinished
  <2>2. CASE SessionsRecovered \/ OrphansReaped
    <3>1. ~Up'
      BY <2>2 DEF SessionsRecovered, OrphansReaped, Up
    <3> QED
      BY <1>0, <1>5, <3>1, PhaseFrame DEF SettledRun, Unfinished
  <2> QED
    BY <1>5, <2>1, <2>2 DEF PhaseStep
<1>6. CASE Crash
  <2>1. ~Up'
    BY <1>6 DEF Crash, Up
  <2>2. CASE run[q].pc \in {"idle", "checked"}
    <3>1. run'[q] = NoRun
      BY <1>6, <2>2 DEF Crash
    <3> QED
      BY <2>1, <3>1 DEF SettledRun, Unfinished, NoRun
  <2>3. CASE run[q].pc = "done"
    <3>1. run'[q] = run[q]
      BY <1>6, <2>3 DEF Crash
    <3> QED
      BY <1>0, <2>1, <2>3, <3>1 DEF SettledRun, Unfinished
  <2>4. CASE run[q].pc \notin {"idle", "checked", "done"}
    <3>1. run'[q].pc = "lost"
      BY <1>0, <1>6, <2>4 DEF Crash, TypeOK, Run
    <3> QED
      BY <2>1, <3>1 DEF SettledRun
  <2> QED
    BY <2>2, <2>3, <2>4
<1> QED
  BY <1>1, <1>2, <1>3, <1>4, <1>5, <1>6, StepKinds, ClientFrame, ProcFrame, TermFrame

-----------------------------------------------------------------------------
(* Every STOPPING session has a termination at work *)

LEMMA TodoEffect ==
  ASSUME TypeOK, NEW t \in Terms, NEW u \in Terms, NEW r \in Runs,
         LookAtRun(t, r) \/ KillProcess(t, r)
  PROVE  /\ term'[u].sess = term[u].sess /\ term'[u].pc = term[u].pc
         /\ u # t => term'[u].doomed = term[u].doomed
         /\ KillProcess(t, r) => /\ term'[u].doomed = term[u].doomed
                                 /\ u = t => term'[u].todo = term[u].todo \ {r}
                                 /\ u # t => term'[u].todo = term[u].todo
<1>1. CASE LookAtRun(t, r) /\ ~KillProcess(t, r)
  <2>1. PICK todo, doomed : term' = [term EXCEPT ![t] =
                              [term[t] EXCEPT !.todo = todo, !.doomed = doomed]]
    BY <1>1 DEF LookAtRun
  <2>2. CASE u = t
    BY <1>1, <2>1, <2>2 DEF TypeOK, Term
  <2>3. CASE u # t
    BY <1>1, <2>1, <2>3 DEF TypeOK
  <2> QED
    BY <2>2, <2>3
<1>2. CASE KillProcess(t, r)
  BY <1>2 DEF TypeOK, Term, KillProcess
<1> QED
  BY <1>1, <1>2

(* A step leaves a termination at work at work, and on the same session,   *)
(* unless it is its last one or the daemon crashes.                        *)
AtWork(t, s) == term[t].sess = s /\ term[t].pc # "called"

LEMMA TermSteps ==
  ASSUME DaemonInv, TermStep \/ WriteStep, NEW u \in Terms, NEW s \in Sessions,
         AtWork(u, s)
  PROVE  AtWork(u, s)' \/ (Finish(u) /\ sess' = [sess EXCEPT ![s] = "STOPPED"])
<1>0. /\ TypeOK
      /\ term[u].pc # "idle" /\ s # None
  BY DaemonNone DEF DaemonInv, Stopping, AtWork
<1>1. ASSUME NEW t \in Terms, NEW r \in Sessions, Terminate(t, r)
      PROVE  AtWork(u, s)'
  BY <1>0, <1>1 DEF Terminate, AtWork, TypeOK, Term
<1>2. ASSUME NEW t \in Terms,
             \/ ListProcesses(t) \/ ProcessesKilled(t) \/ ReleaseAll(t)
             \/ ReleaseBySession(t) \/ ListRuns(t) \/ RunsFinished(t)
      PROVE  AtWork(u, s)'
  <2>1. PICK pc, todo : /\ pc # "called"
                        /\ term' = [term EXCEPT ![t].pc = pc, ![t].todo = todo]
    <3>1. \A pc : [term EXCEPT ![t].pc = pc] =
                  [term EXCEPT ![t].pc = pc, ![t].todo = term[t].todo]
      BY <1>0 DEF TypeOK, Term
    <3> QED
      BY <1>2, <3>1 DEF ListProcesses, ProcessesKilled, ReleaseAll,
         ReleaseBySession, ListRuns, RunsFinished
  <2> QED
    BY <1>0, <2>1 DEF AtWork, TypeOK, Term
<1>3. ASSUME NEW t \in Terms, NEW r \in Runs, LookAtRun(t, r) \/ KillProcess(t, r)
      PROVE  AtWork(u, s)'
  <2>1. term'[u].sess = term[u].sess /\ term'[u].pc = term[u].pc
    BY <1>0, <1>3, TodoEffect
  <2> QED
    BY <2>1 DEF AtWork
<1>4. ASSUME NEW t \in Terms, MarkStopping(t) \/ FinishRun(t)
      PROVE  AtWork(u, s)'
  <2>1. CASE MarkStopping(t)
    BY <1>0, <1>4, <2>1 DEF MarkStopping, AtWork, TypeOK, Term
  <2>2. CASE FinishRun(t)
    <3>1. term'[u].sess = term[u].sess /\ term'[u].pc = term[u].pc
      BY <1>0, <2>2 DEF FinishRun, TypeOK, Term
    <3> QED
      BY <3>1 DEF AtWork
  <2> QED
    BY <1>4, <2>1, <2>2
<1>5. ASSUME NEW t \in Terms, Finish(t)
      PROVE  AtWork(u, s)' \/ (Finish(u) /\ sess' = [sess EXCEPT ![s] = "STOPPED"])
  BY <1>0, <1>5 DEF Finish, AtWork, TypeOK
<1> QED
  BY <1>1, <1>2, <1>3, <1>4, <1>5 DEF TermStep, WriteStep

(* The parts of Stopping about one termination. *)
Formed(t) ==
  /\ term[t].pc = "idle" <=> term[t].sess = None
  /\ term[t].doomed # None => term[t].pc = "runs"

LEMMA FormedStep ==
  ASSUME DaemonInv, Next, NEW u \in Terms
  PROVE  Formed(u)'
<1>0. /\ TypeOK
      /\ Formed(u)
      /\ \A t \in Terms : Formed(t)
  BY DEF DaemonInv, Stopping, Formed
<1>1. ASSUME UNCHANGED term PROVE Formed(u)'
  BY <1>0, <1>1 DEF Formed
<1>2. ASSUME NEW t \in Terms, NEW s \in Sessions, Terminate(t, s)
      PROVE  Formed(u)'
  <2>1. term' = [term EXCEPT ![t] = [NoTerm EXCEPT !.pc = "called", !.sess = s]]
    BY <1>2 DEF Terminate
  <2>2. CASE u = t
    BY <1>0, <2>1, <2>2, DaemonNone DEF Formed, TypeOK, NoTerm
  <2>3. CASE u # t
    BY <1>0, <2>1, <2>3 DEF Formed, TypeOK
  <2> QED
    BY <2>2, <2>3
<1>3. ASSUME NEW t \in Terms, \/ ListProcesses(t) \/ ListRuns(t)
      PROVE  Formed(u)'
  <2>1. PICK pc, todo : /\ pc \in {"killing", "runs"}
                        /\ term' = [term EXCEPT ![t].pc = pc, ![t].todo = todo]
    BY <1>3 DEF ListProcesses, ListRuns
  <2>2. term[t].pc \in {"marked", "list"}
    BY <1>3 DEF ListProcesses, ListRuns
  <2> QED
    BY <1>0, <2>1, <2>2 DEF Formed, TypeOK, Term
<1>4. ASSUME NEW t \in Terms,
             \/ ProcessesKilled(t) \/ ReleaseAll(t) \/ ReleaseBySession(t)
             \/ RunsFinished(t)
      PROVE  Formed(u)'
  <2>1. PICK pc : /\ pc # "idle"
                  /\ term' = [term EXCEPT ![t].pc = pc]
    BY <1>4 DEF ProcessesKilled, ReleaseAll, ReleaseBySession, RunsFinished
  <2>2. /\ term[t].pc # "idle"
        /\ term[t].pc = "runs" => term[t].doomed = None
    BY <1>4 DEF ProcessesKilled, ReleaseAll, ReleaseBySession, RunsFinished
  <2> QED
    BY <1>0, <2>1, <2>2 DEF Formed, TypeOK, Term
<1>5. ASSUME NEW t \in Terms, NEW r \in Runs, LookAtRun(t, r)
      PROVE  Formed(u)'
  <2>1. /\ term'[u].sess = term[u].sess /\ term'[u].pc = term[u].pc
        /\ u # t => term'[u].doomed = term[u].doomed
    BY <1>0, <1>5, TodoEffect
  <2>2. term[t].pc = "runs"
    BY <1>5 DEF LookAtRun
  <2> QED
    BY <1>0, <2>1, <2>2 DEF Formed
<1>6. ASSUME NEW t \in Terms, NEW r \in Runs, KillProcess(t, r)
      PROVE  Formed(u)'
  BY <1>0, <1>6, TodoEffect DEF Formed, KillProcess
<1>7. ASSUME NEW t \in Terms, MarkStopping(t) \/ FinishRun(t) \/ Finish(t)
      PROVE  Formed(u)'
  <2>1. CASE MarkStopping(t)
    BY <1>0, <2>1 DEF MarkStopping, Formed, TypeOK, Term
  <2>2. CASE FinishRun(t)
    BY <1>0, <2>2 DEF FinishRun, Formed, TypeOK, Term
  <2>3. CASE Finish(t)
    BY <1>0, <2>3 DEF Finish, Formed, TypeOK, Term, NoTerm
  <2> QED
    BY <1>7, <2>1, <2>2, <2>3
<1>8. CASE Crash
  BY <1>8 DEF Crash, NoTerm, Formed
<1>9. CASE LaunchStep
  BY <1>1, <1>9 DEF LaunchStep, MarkRunning, Register, RecordExec,
       RecordDetached, Timeout, Fork
<1> QED
  BY <1>1, <1>2, <1>3, <1>4, <1>5, <1>6, <1>7, <1>8, <1>9, StepKinds, ClientFrame,
     RunFrame, ProcFrame, PhaseFrame DEF TermStep, WriteStep

(* A step of anyone else leaves STOPPING sessions as they are, and makes   *)
(* no session STOPPING.                                                    *)
LEMMA NotStopping ==
  ASSUME DaemonInv, Next, NEW s \in Sessions, sess'[s] = "STOPPING"
  PROVE  \/ sess[s] = "STOPPING"
         \/ \E t \in Terms : MarkStopping(t) /\ term[t].sess = s
<1>0. TypeOK
  BY DEF DaemonInv
<1>1. CASE ClientStep
  BY <1>0, <1>1 DEF TypeOK, ClientStep, CreateSession, AcquireLease, AllocatePort,
       ReleaseLease, RecoverLeases, RecoverPorts, RecoverSession
<1>2. CASE LaunchStep
  <2>1. ASSUME NEW r \in Runs, MarkRunning(r) PROVE sess[s] = "STOPPING"
    <3>1. sess'[s] = sess[s] \/ sess'[s] = "RUNNING"
      BY <1>0, <2>1 DEF MarkRunning, TypeOK
    <3> QED
      BY <3>1
  <2> QED
    BY <1>2, <2>1 DEF LaunchStep, Register, RecordExec, RecordDetached, Timeout, Fork
<1>3. CASE WriteStep
  <2>1. ASSUME NEW t \in Terms, MarkStopping(t), term[t].sess # s
        PROVE  sess[s] = "STOPPING"
    BY <1>0, <2>1 DEF MarkStopping, TypeOK
  <2>2. ASSUME NEW t \in Terms, Finish(t) PROVE sess[s] = "STOPPING"
    BY <1>0, <2>2 DEF Finish, TypeOK
  <2> QED
    BY <1>3, <2>1, <2>2 DEF WriteStep, FinishRun, KillProcess
<1>4. CASE Crash
  BY <1>4 DEF Crash
<1> QED
  BY <1>1, <1>2, <1>3, <1>4, StepKinds, RunFrame, ProcFrame, TermFrame, PhaseFrame

LEMMA TerminatorStep ==
  ASSUME DaemonInv, Next, NEW s \in Sessions, Up', sess'[s] = "STOPPING"
  PROVE  \E t \in Terms : AtWork(t, s)'
<1>0. TypeOK
  BY DEF DaemonInv
<1>1. CASE sess[s] = "STOPPING"
  <2>1. Up
    <3>1. SUFFICES ASSUME ~Up PROVE FALSE
      OBVIOUS
    <3>2. Recovered
      BY <3>1, StepKinds, LaunchNeedsUp, WriteNeedsUp, TermNeedsUp, ClientFrame,
         RunFrame, ProcFrame DEF Up, PhaseStep, SessionsRecovered, OrphansReaped,
         Crash
    <3> QED
      BY <1>1, <3>2 DEF Recovered, DaemonInv, Phases
  <2>2. PICK t \in Terms : AtWork(t, s)
    BY <1>1, <2>1 DEF DaemonInv, Stopping, StoppingHasTerminator, AtWork
  <2>3. CASE TermStep \/ WriteStep
    <3>1. ~(sess' = [sess EXCEPT ![s] = "STOPPED"])
      BY <1>0 DEF TypeOK
    <3> QED
      BY <2>2, <2>3, <3>1, TermSteps
  <2>4. CASE UNCHANGED term
    BY <2>2, <2>4 DEF AtWork
  <2>5. CASE LaunchStep
    BY <2>4, <2>5 DEF LaunchStep, MarkRunning, Register, RecordExec,
       RecordDetached, Timeout, Fork
  <2>6. ~Crash
    BY DEF Crash, Up
  <2> QED
    BY <2>3, <2>4, <2>5, <2>6, StepKinds, ClientFrame, RunFrame, ProcFrame, PhaseFrame
<1>2. ASSUME NEW t \in Terms, MarkStopping(t), term[t].sess = s
      PROVE  AtWork(t, s)'
  BY <1>0, <1>2 DEF MarkStopping, AtWork, TypeOK, Term
<1> QED
  BY <1>1, <1>2, NotStopping

LEMMA StoppingStep ==
  ASSUME DaemonInv, Next
  PROVE  Stopping'
<1>1. \A t \in Terms : Formed(t)'
  BY FormedStep
<1>2. \A s \in Sessions : Up' /\ sess'[s] = "STOPPING" => \E t \in Terms : AtWork(t, s)'
  BY TerminatorStep
<1> QED
  BY <1>1, <1>2 DEF Stopping, Formed, StoppingHasTerminator, AtWork

-----------------------------------------------------------------------------
(* A kill shows in the result *)

LEMMA KillEffect ==
  ASSUME NEW p \in Proc
  PROVE  /\ KillIfAlive(p).tracked = p.tracked
         /\ KillIfAlive(p).killed => p.tracked \/ p.killed
         /\ p.tracked => KillIfAlive(p).os # "live"
         /\ KillIfAlive(p).os = "live" => p.os = "live"
BY DEF KillIfAlive, MarkAndKill, Killed, Proc

(* The part of Honest about one run. *)
HonestRun(r) ==
  /\ run[r].pc \in {"idle", "checked", "queued", "launching", "forked"} =>
       ~proc[r].tracked /\ ~proc[r].killed
  /\ run[r].pc = "waiting" => run[r].kind # "emulator"
  /\ run[r].pc = "booting" => run[r].kind = "emulator"
  /\ run[r].kind = "tool" /\ (proc[r].tracked \/ proc[r].killed) =>
       /\ run[r].pc = "reporting" => run[r].result \in SaysKilled
       /\ run[r].pc = "done" => run[r].status \in SaysKilled

LEMMA HonestByRun == Honest <=> \A r \in Runs : HonestRun(r)
BY DEF Honest, HonestRun

LEMMA HonestStep ==
  ASSUME DaemonInv, Next, NEW q \in Runs
  PROVE  HonestRun(q)'
<1>0. TypeOK /\ HonestRun(q) /\ \A r \in Runs : HonestRun(r)
  BY HonestByRun DEF DaemonInv
<1>1. ASSUME run' = run,
             proc'[q].tracked \/ proc'[q].killed => proc[q].tracked \/ proc[q].killed
      PROVE  HonestRun(q)'
  BY <1>0, <1>1 DEF HonestRun
<1>2. CASE RunStep
  <2> PICK r \in Runs :
        \/ \E s \in Sessions : Check(r, s)
        \/ NewRun(r) \/ PrepareFails(r) \/ LaunchFails(r) \/ ProcessDone(r)
        \/ Booted(r) \/ BootFails(r) \/ Report(r) \/ RecoverRun(r)
    BY <1>2 DEF RunStep
  <2>0. proc' = proc
    BY <1>2, RunFrame
  <2>1. ASSUME NEW s \in Sessions, Check(r, s) PROVE HonestRun(q)'
    <3>1. /\ run'[q].kind = run[q].kind
          /\ run'[q].pc = IF q = r THEN "checked" ELSE run[q].pc
          /\ run'[q].result = run[q].result
          /\ run'[q].status = run[q].status
          /\ run[r].pc = "idle"
      BY <1>0, <2>1 DEF Check, TypeOK, Run
    <3> QED
      BY <1>0, <2>0, <3>1 DEF HonestRun
  <2>2. CASE NewRun(r)
    <3>1. Goes(r, "checked", "queued", "QUEUED") /\ run[r].pc = "checked"
      BY <2>2 DEF NewRun, Goes
    <3> QED
      BY <1>0, <2>0, <3>1, GoesEffect DEF HonestRun
  <2>3. CASE PrepareFails(r) \/ LaunchFails(r) \/ BootFails(r)
    <3>1. /\ \E from : Goes(r, from, "done", "ERROR")
          /\ run[r].pc \in {"queued", "launching", "booting"}
      BY <2>3 DEF PrepareFails, LaunchFails, BootFails, Goes
    <3> QED
      BY <1>0, <2>0, <3>1, GoesEffect DEF HonestRun
  <2>4. CASE Report(r)
    <3>1. PICK status \in AdapterStatus(r) : Goes(r, "reporting", "done", status)
      BY <2>4 DEF Report
    <3>2. /\ run[r].pc = "reporting"
          /\ run[r].kind = "tool" => status = run[r].result
      BY <3>1 DEF Goes, AdapterStatus
    <3> QED
      BY <1>0, <2>0, <3>1, <3>2, GoesEffect DEF HonestRun
  <2>5. CASE ProcessDone(r)
    <3>1. /\ run'[q].kind = run[q].kind
          /\ run'[q].status = run[q].status
          /\ run'[q].pc = IF q = r THEN "reporting" ELSE run[q].pc
          /\ q # r => run'[q].result = run[q].result
      BY <1>0, <2>5 DEF ProcessDone, TypeOK, Run
    <3>2. ~proc[r].tracked /\ (proc[r].killed => run'[r].result = "KILLED")
      BY <1>0, <2>5 DEF ProcessDone, TypeOK, Run
    <3> QED
      BY <1>0, <2>0, <3>1, <3>2 DEF HonestRun, SaysKilled
  <2>6. CASE Booted(r)
    <3>1. /\ run'[q].kind = run[q].kind
          /\ run'[q].status = run[q].status
          /\ run'[q].pc = IF q = r THEN "reporting" ELSE run[q].pc
          /\ q # r => run'[q].result = run[q].result
          /\ run[r].pc = "booting"
      BY <1>0, <2>6 DEF Booted, TypeOK, Run
    <3> QED
      BY <1>0, <2>0, <3>1 DEF HonestRun
  <2>7. CASE RecoverRun(r)
    <3>1. /\ run'[q].status = IF q = r THEN "KILLED" ELSE run[q].status
          /\ run'[q].pc = run[q].pc /\ run'[q].result = run[q].result
          /\ run'[q].kind = run[q].kind
      BY <1>0, <2>7 DEF RecoverRun, TypeOK, Run
    <3> QED
      BY <1>0, <2>0, <3>1 DEF HonestRun, SaysKilled
  <2> QED
    BY <2>1, <2>2, <2>3, <2>4, <2>5, <2>6, <2>7
<1>3. CASE LaunchStep
  <2> PICK r \in Runs : \/ MarkRunning(r) \/ Register(r) \/ RecordExec(r)
                       \/ RecordDetached(r) \/ Timeout(r)
                       \/ \E kind \in Kinds : Fork(r, kind)
    BY <1>3 DEF LaunchStep
  <2>1. CASE MarkRunning(r)
    <3>1. Goes(r, "queued", "launching", run[r].status) /\ run[r].pc = "queued"
          /\ proc' = proc
      BY <2>1 DEF MarkRunning, Goes
    <3> QED
      BY <1>0, <3>1, GoesEffect DEF HonestRun
  <2>2. CASE Register(r)
    <3>1. Goes(r, "forked", "launched", run[r].status)
      BY <2>2 DEF Register
    <3>2. q # r => proc'[q] = proc[q]
      BY <1>0, <2>2 DEF Register, TypeOK
    <3> QED
      BY <1>0, <3>1, <3>2, GoesEffect DEF HonestRun
  <2>3. CASE RecordExec(r) \/ RecordDetached(r)
    <3>1. \/ Goes(r, "launched", "waiting", "RUNNING") /\ run[r].kind # "emulator"
          \/ Goes(r, "launched", "booting", run[r].status) /\ run[r].kind = "emulator"
      BY <2>3 DEF RecordExec, RecordDetached
    <3>2. q # r => proc'[q] = proc[q]
      BY <1>0, <2>3 DEF RecordExec, RecordDetached, TypeOK
    <3> QED
      BY <1>0, <3>1, <3>2, GoesEffect DEF HonestRun
  <2>4. CASE Timeout(r)
    <3>1. /\ run'[q].kind = run[q].kind
          /\ run'[q].status = run[q].status
          /\ run'[q].pc = IF q = r THEN "reporting" ELSE run[q].pc
          /\ run'[q].result = IF q = r THEN "TIMEOUT" ELSE run[q].result
      BY <1>0, <2>4 DEF Timeout, TypeOK, Run
    <3>2. q # r => proc'[q] = proc[q]
      BY <1>0, <2>4 DEF Timeout, TypeOK
    <3> QED
      BY <1>0, <3>1, <3>2 DEF HonestRun, SaysKilled
  <2>5. ASSUME NEW kind \in Kinds, Fork(r, kind) PROVE HonestRun(q)'
    <3>1. run[r].pc = "launching"
      BY <2>5 DEF Fork
    <3>2. /\ run'[q].pc = IF q = r THEN "forked" ELSE run[q].pc
          /\ run'[q].status = run[q].status
          /\ run'[q].result = run[q].result
          /\ q # r => run'[q].kind = run[q].kind
      BY <1>0, <2>5, ForkEffect
    <3>3. proc'[q].tracked = proc[q].tracked /\ proc'[q].killed = proc[q].killed
      <4>1. proc' = [proc EXCEPT ![r].os = "live"]
        BY <2>5 DEF Fork
      <4> QED
        BY <1>0, <4>1 DEF TypeOK, Proc
    <3> QED
      BY <1>0, <3>1, <3>2, <3>3 DEF HonestRun
  <2> QED
    BY <2>1, <2>2, <2>3, <2>4, <2>5
<1>4. CASE WriteStep
  <2> PICK t \in Terms : MarkStopping(t) \/ FinishRun(t) \/ Finish(t)
                        \/ \E r \in Runs : KillProcess(t, r)
    BY <1>4 DEF WriteStep
  <2>1. CASE FinishRun(t)
    <3>1. /\ run'[q].status = IF q = term[t].doomed THEN "KILLED" ELSE run[q].status
          /\ run'[q].pc = run[q].pc /\ run'[q].result = run[q].result
          /\ run'[q].kind = run[q].kind
          /\ proc' = proc
      BY <1>0, <2>1 DEF FinishRun, TypeOK, Run, Term
    <3> QED
      BY <1>0, <3>1 DEF HonestRun, SaysKilled
  <2>2. ASSUME NEW r \in Runs, KillProcess(t, r) PROVE HonestRun(q)'
    <3>1. proc'[q] = IF q = r THEN KillIfAlive(proc[q]) ELSE proc[q]
      BY <1>0, <2>2 DEF KillProcess, TypeOK
    <3>2. run' = run
      BY <2>2 DEF KillProcess
    <3> QED
      BY <1>0, <1>1, <3>1, <3>2, KillEffect, RunTypes
  <2>3. CASE MarkStopping(t) \/ Finish(t)
    BY <1>1, <2>3 DEF MarkStopping, Finish
  <2> QED
    BY <2>1, <2>2, <2>3
<1>5. CASE ProcStep
  BY <1>0, <1>1, <1>5, ProcFrame, ProcEffect
<1>6. CASE Crash
  <2>1. ~proc'[q].tracked /\ ~proc'[q].killed
    BY <1>0, <1>6 DEF Crash, TypeOK, Proc
  <2>2. run'[q].pc \in {"idle", "done", "lost"}
    BY <1>0, <1>6 DEF Crash, NoRun, TypeOK, Run
  <2> QED
    BY <2>1, <2>2 DEF HonestRun
<1> QED
  BY <1>1, <1>2, <1>3, <1>4, <1>5, <1>6, StepKinds, ClientFrame, TermFrame, PhaseFrame

-----------------------------------------------------------------------------
(* What a session has lost it does not get back for the termination *)

Late == {"killing", "leases", "ports", "list", "runs", "finish"}

(* How a termination gets to a stage after the listing of the processes. *)
LEMMA LateSteps ==
  ASSUME DaemonInv, Next, NEW t \in Terms, term'[t].pc \in Late
  PROVE  /\ term'[t].sess = term[t].sess
         /\ \/ term'[t].pc = term[t].pc
               /\ (term[t].pc = "killing" => term'[t].todo = term[t].todo)
            \/ \E r \in Runs : KillProcess(t, r)
            \/ ListProcesses(t) \/ ProcessesKilled(t) \/ ReleaseAll(t)
            \/ ReleaseBySession(t) \/ ListRuns(t) \/ RunsFinished(t)
<1>0. TypeOK
  BY DEF DaemonInv
<1> DEFINE Goal ==
      /\ term'[t].sess = term[t].sess
      /\ \/ term'[t].pc = term[t].pc
            /\ (term[t].pc = "killing" => term'[t].todo = term[t].todo)
         \/ \E r \in Runs : KillProcess(t, r)
         \/ ListProcesses(t) \/ ProcessesKilled(t) \/ ReleaseAll(t)
         \/ ReleaseBySession(t) \/ ListRuns(t) \/ RunsFinished(t)
<1>1. CASE term'[t] = term[t]
  BY <1>1
<1>2. ASSUME NEW s \in Sessions, Terminate(t, s) PROVE FALSE
  BY <1>0, <1>2 DEF Terminate, NoTerm, Late, TypeOK
<1>3. ASSUME \/ ListProcesses(t) \/ ProcessesKilled(t) \/ ReleaseAll(t)
             \/ ReleaseBySession(t) \/ ListRuns(t) \/ RunsFinished(t)
      PROVE  Goal
  <2>1. CASE ListProcesses(t) \/ ListRuns(t)
    <3>1. PICK pc, todo : term' = [term EXCEPT ![t].pc = pc, ![t].todo = todo]
      BY <2>1 DEF ListProcesses, ListRuns
    <3> QED
      BY <1>0, <2>1, <3>1 DEF TypeOK, Term
  <2>2. CASE ProcessesKilled(t) \/ ReleaseAll(t) \/ ReleaseBySession(t) \/ RunsFinished(t)
    <3>1. PICK pc : term' = [term EXCEPT ![t].pc = pc]
      BY <2>2 DEF ProcessesKilled, ReleaseAll, ReleaseBySession, RunsFinished
    <3> QED
      BY <1>0, <2>2, <3>1 DEF TypeOK, Term
  <2> QED
    BY <1>3, <2>1, <2>2
<1>4. ASSUME NEW r \in Runs, LookAtRun(t, r) PROVE Goal
  <2>1. term[t].pc = "runs"
    BY <1>4 DEF LookAtRun
  <2> QED
    BY <1>0, <1>4, <2>1, TodoEffect
<1>5. ASSUME NEW r \in Runs, KillProcess(t, r) PROVE Goal
  BY <1>0, <1>5, TodoEffect
<1>6. CASE MarkStopping(t) \/ Finish(t)
  BY <1>0, <1>6 DEF MarkStopping, Finish, NoTerm, Late, TypeOK, Term
<1>7. CASE FinishRun(t)
  BY <1>0, <1>7 DEF FinishRun, TypeOK, Term
<1>8. CASE Crash
  BY <1>8 DEF Crash, NoTerm, Late
<1>9. CASE TermStep
  <2>1. PICK u \in Terms :
          \/ \E s \in Sessions : Terminate(u, s)
          \/ ListProcesses(u) \/ ProcessesKilled(u) \/ ReleaseAll(u)
          \/ ReleaseBySession(u) \/ ListRuns(u) \/ RunsFinished(u)
          \/ \E r \in Runs : LookAtRun(u, r)
    BY <1>9 DEF TermStep
  <2>2. CASE u # t
    BY <1>0, <1>1, <2>1, <2>2 DEF TypeOK, Terminate, ListProcesses, ProcessesKilled,
       ReleaseAll, ReleaseBySession, ListRuns, RunsFinished, LookAtRun
  <2> QED
    BY <1>2, <1>3, <1>4, <2>1, <2>2
<1>10. CASE WriteStep
  <2>1. PICK u \in Terms : MarkStopping(u) \/ FinishRun(u) \/ Finish(u)
                           \/ \E r \in Runs : KillProcess(u, r)
    BY <1>10 DEF WriteStep
  <2>2. CASE u # t
    BY <1>0, <1>1, <2>1, <2>2 DEF TypeOK, MarkStopping, FinishRun, Finish, KillProcess
  <2> QED
    BY <1>5, <1>6, <1>7, <2>1, <2>2
<1>11. CASE LaunchStep
  BY <1>1, <1>11 DEF LaunchStep, MarkRunning, Register, RecordExec,
     RecordDetached, Timeout, Fork
<1> QED
  BY <1>1, <1>8, <1>9, <1>10, <1>11, StepKinds, ClientFrame, RunFrame, ProcFrame,
     PhaseFrame

(* From then on the history variable only loses elements. *)
LEMMA ClaimShrinks ==
  ASSUME DaemonInv, Next, NEW t \in Terms, term'[t].pc \in Late
  PROVE  /\ claim'[t] \subseteq Holdings(term[t].sess)' \cup Children(term[t].sess)'
         /\ claim'[t] \subseteq claim[t]
<1>1. /\ Remember
      /\ term'[t].sess = term[t].sess
      /\ term'[t].pc \notin {"idle", "called", "marked"}
  BY EveryStepRemembers, LateSteps DEF Late
<1>2. claim'[t] = claim[t] \cap (Holdings(term[t].sess) \cup Children(term[t].sess))'
  BY <1>1 DEF Remember
<1> QED
  BY <1>1, <1>2

(* The parts of Claims about one termination. *)
Owed(t) ==
  /\ term[t].pc = "killing" => claim[t] \cap Runs \subseteq term[t].todo
  /\ term[t].pc \in {"leases", "ports", "list", "runs", "finish"} =>
       claim[t] \cap Runs = {}
  /\ term[t].pc \in {"ports", "list", "runs", "finish"} =>
       claim[t] \cap Resources = {}
  /\ term[t].pc \in {"list", "runs", "finish"} =>
       claim[t] \cap Ports = {}

LEMMA OwedStep ==
  ASSUME DaemonInv, Next, NEW t \in Terms
  PROVE  Owed(t)'
<1>0. /\ TypeOK /\ Formed(t) /\ Owed(t)
      /\ claim[t] \subseteq Resources \cup Ports \cup Runs
  BY DEF DaemonInv, Stopping, Formed, Claims, Owed, TypeOK
<1>1. CASE term'[t].pc \notin Late
  BY <1>1 DEF Owed, Late
<1> SUFFICES ASSUME term'[t].pc \in Late PROVE Owed(t)'
  BY <1>1
<1>2. /\ claim'[t] \subseteq Holdings(term[t].sess)' \cup Children(term[t].sess)'
      /\ claim'[t] \subseteq claim[t]
      /\ term'[t].sess = term[t].sess
  BY ClaimShrinks, LateSteps
<1>3. CASE term'[t].pc = term[t].pc
           /\ (term[t].pc = "killing" => term'[t].todo = term[t].todo)
  BY <1>0, <1>2, <1>3 DEF Owed
<1>4. ASSUME NEW r \in Runs, KillProcess(t, r) PROVE Owed(t)'
  <2>1. /\ term[t].pc = "killing" /\ term'[t].pc = "killing"
        /\ term'[t].todo = term[t].todo \ {r}
    BY <1>0, <1>4, TodoEffect DEF KillProcess
  <2>2. proc'[r] = KillIfAlive(proc[r])
    BY <1>0, <1>4 DEF KillProcess, TypeOK
  <2>3. r \notin Children(term[t].sess)'
    BY <2>2, KillEffect, RunTypes, <1>0 DEF Children, Live
  <2>4. r \notin Holdings(term[t].sess)'
    BY DaemonNames DEF Holdings
  <2> QED
    BY <1>0, <1>2, <2>1, <2>3, <2>4 DEF Owed
<1>5. CASE ListProcesses(t)
  <2>1. /\ term'[t].pc = "killing"
        /\ term'[t].todo = {r \in Runs : run[r].sess = term[t].sess /\ proc[r].tracked}
    BY <1>0, <1>5 DEF ListProcesses, TypeOK, Term
  <2>2. run' = run /\ proc' = proc
    BY <1>5 DEF ListProcesses, OnlyTerm
  <2>3. Children(term[t].sess)' \subseteq term'[t].todo
    BY <1>2, <2>1, <2>2 DEF Children
  <2>4. Holdings(term[t].sess)' \cap Runs = {}
    BY DaemonNames DEF Holdings
  <2> QED
    BY <1>2, <2>1, <2>3, <2>4 DEF Owed
<1>6. CASE ProcessesKilled(t)
  <2>1. /\ term[t].pc = "killing" /\ term[t].todo = {}
        /\ term'[t].pc = "leases"
    BY <1>0, <1>6 DEF ProcessesKilled, TypeOK, Term
  <2> QED
    BY <1>0, <1>2, <2>1 DEF Owed
<1>7. CASE ReleaseAll(t)
  <2>1. term[t].pc = "leases" /\ term'[t].pc = "ports"
    BY <1>0, <1>7 DEF ReleaseAll, TypeOK, Term
  <2>2. term[t].sess # None
    BY <1>0, <2>1 DEF Formed
  <2>3. \A x \in Resources : leased'[x] # term[t].sess
    BY <1>0, <1>7, <2>2 DEF ReleaseAll, ReleaseLeases, TypeOK
  <2>4. (Holdings(term[t].sess)' \cup Children(term[t].sess)') \cap Resources = {}
    BY <1>2, <2>3, DaemonNames DEF Holdings, Children
  <2> QED
    BY <1>0, <1>2, <2>1, <2>4 DEF Owed
<1>8. CASE ReleaseBySession(t)
  <2>1. term[t].pc = "ports" /\ term'[t].pc = "list"
    BY <1>0, <1>8 DEF ReleaseBySession, TypeOK, Term
  <2>2. term[t].sess # None
    BY <1>0, <2>1 DEF Formed
  <2>3. \A x \in Ports : taken'[x] # term[t].sess
    BY <1>0, <1>8, <2>2 DEF ReleaseBySession, ReleasePorts, TypeOK
  <2>4. (Holdings(term[t].sess)' \cup Children(term[t].sess)') \cap Ports = {}
    BY <1>2, <2>3, DaemonNames DEF Holdings, Children
  <2> QED
    BY <1>0, <1>2, <2>1, <2>4 DEF Owed
<1>9. CASE ListRuns(t) \/ RunsFinished(t)
  <2>1. \/ term[t].pc = "list" /\ term'[t].pc = "runs"
        \/ term[t].pc = "runs" /\ term'[t].pc = "finish"
    BY <1>0, <1>9 DEF ListRuns, RunsFinished, TypeOK, Term
  <2> QED
    BY <1>0, <1>2, <2>1 DEF Owed
<1> QED
  BY <1>3, <1>4, <1>5, <1>6, <1>7, <1>8, <1>9, LateSteps

-----------------------------------------------------------------------------
(* The invariant *)

LEMMA InitInv ==
  ASSUME Init
  PROVE  DaemonInv
<1>1. TypeOK
  <2>1. NoRun \in Run /\ NoProc \in Proc /\ NoTerm \in Term
    BY Stages DEF NoRun, NoProc, NoTerm, Run, Proc, Term
  <2> QED
    BY <2>1, DaemonBound DEF Init, TypeOK
<1>2. Down /\ Phases /\ Struck
  BY DEF Init, Down, Phases, Struck, Up
<1>3. Settled /\ Honest
  BY DEF Init, Settled, Honest, Unfinished, NoRun, NoProc
<1>4. Claims /\ Stopping
  BY DEF Init, Claims, Stopping, StoppingHasTerminator, NoTerm
<1> QED
  BY <1>1, <1>2, <1>3, <1>4 DEF DaemonInv

LEMMA NextInv ==
  ASSUME DaemonInv, [Next]_vars
  PROVE  DaemonInv'
<1>1. CASE Next
  <2>1. Claims'
    BY <1>1, OwedStep DEF Owed, Claims
  <2>2. Settled' /\ Honest'
    BY <1>1, SettledStep, HonestStep DEF Settled, SettledRun, Honest, HonestRun
  <2>3. TypeOK'
    BY <1>1, TypeStep DEF DaemonInv
  <2> QED
    BY <1>1, <2>1, <2>2, <2>3, DownStep, PhasesStep, StruckStep, StoppingStep
       DEF DaemonInv
<1>2. CASE UNCHANGED vars
  BY <1>2 DEF vars, DaemonInv, TypeOK, Down, Phases, Struck, Settled, Honest,
     Claims, Stopping, StoppingHasTerminator, Up, Live, Unfinished, Interrupted,
     Holdings
<1> QED
  BY <1>1, <1>2

(* DaemonInv holds in every reachable state. *)
THEOREM DaemonInvHolds == Spec => []DaemonInv
BY InitInv, NextInv, PTL DEF Spec

-----------------------------------------------------------------------------
(* What follows from it *)

(* Every variable of the daemon keeps its type: no goroutine, whatever the *)
(* order of its critical sections, writes a record the others do not       *)
(* expect.                                                                 *)
THEOREM TypeCorrect == Spec => []TypeOK
<1>1. DaemonInv => TypeOK
  BY DEF DaemonInv
<1> QED
  BY <1>1, DaemonInvHolds, PTL

(* TerminateSession takes from the session all it had when it was marked   *)
(* STOPPING before it writes STOPPED (internal/daemon/service.go), with    *)
(* any number of other terminations, runs and crashes at the same time.    *)
THEOREM PipelineIsComplete == Spec => []PipelineComplete
<1>1. ASSUME DaemonInv, NEW t \in Terms, term[t].pc = "finish"
      PROVE  claim[t] = {}
  <2>1. claim[t] \subseteq Resources \cup Ports \cup Runs
    BY <1>1 DEF DaemonInv, TypeOK
  <2>2. claim[t] \cap Resources = {} /\ claim[t] \cap Ports = {} /\ claim[t] \cap Runs = {}
    BY <1>1 DEF DaemonInv, Claims
  <2> QED
    BY <2>1, <2>2
<1>2. DaemonInv => PipelineComplete
  BY <1>1 DEF PipelineComplete
<1> QED
  BY <1>2, DaemonInvHolds, PTL

(* A run that is QUEUED or RUNNING while the daemon serves has a goroutine *)
(* in Execute that will finish it, or read its record.                     *)
THEOREM RunsAreNotAbandoned == Spec => []NoAbandonedRun
<1>1. Unfinished \subseteq Runs
  BY DEF Unfinished
<1>2. ASSUME DaemonInv, Up, NEW r \in Unfinished
      PROVE  run[r].pc \notin {"idle", "checked", "done", "lost"}
  BY <1>1, <1>2 DEF DaemonInv, Settled
<1>3. DaemonInv => NoAbandonedRun
  BY <1>2 DEF NoAbandonedRun
<1> QED
  BY <1>3, DaemonInvHolds, PTL

(* A STOPPING session always has a TerminateSession at work on it while    *)
(* the daemon serves.                                                      *)
THEOREM StoppingIsTerminated == Spec => []StoppingHasTerminator
<1>1. DaemonInv => StoppingHasTerminator
  BY DEF DaemonInv, Stopping
<1> QED
  BY <1>1, DaemonInvHolds, PTL

(* A run whose process the supervisor of this daemon has killed is         *)
(* finished as KILLED or TIMEOUT, never as SUCCEEDED or FAILED, if its     *)
(* adapter returns the status of Exec, as all do but that of build.apk.    *)
THEOREM KillsAreReported == Spec => []KilledIsReported
<1>1. DaemonInv => KilledIsReported
  BY DEF DaemonInv, Honest, SaysKilled, KilledIsReported
<1> QED
  BY <1>1, DaemonInvHolds, PTL

(* Recover ends with every session and every run in a terminal state,      *)
(* every process with a recorded start time dead, and every lease and port *)
(* free that an interrupted session held, also when Recover itself crashed *)
(* between the release of the leases, that of the ports and the state.     *)
THEOREM RecoveryIsClean == Spec => RecoveryClean
<1>1. ASSUME DaemonInv, [Next]_vars, phase # "up", phase' = "up"
      PROVE  /\ \A s \in Sessions : sess[s] \in {"none", "STOPPED"}
             /\ \A r \in Runs : run[r].status \in Terminal \cup {"none"}
             /\ \A r \in Runs : proc[r].known = "identity" => ~Live(r)
             /\ \A s \in struck : Holdings(s) = {}
  <2>1. Next /\ ~Up /\ Up'
    BY <1>1 DEF vars, Up
  <2>2. Recovered
    BY <1>1, <2>1, StepKinds, LaunchNeedsUp, WriteNeedsUp, TermNeedsUp, ClientFrame,
       RunFrame, ProcFrame DEF Up, PhaseStep, SessionsRecovered, OrphansReaped, Crash
  <2>3. phase = "runs" /\ Unfinished = {}
    BY <2>2 DEF Recovered
  <2>4. \A r \in Runs : run[r].status \in Terminal \cup {"none"}
    BY <1>1, <2>3 DEF DaemonInv, TypeOK, Run, Status, Unfinished
  <2>5. \A s \in struck : s \in Sessions /\ ~Interrupted(s)
    BY <1>1, <2>3 DEF DaemonInv, TypeOK, Phases, Interrupted
  <2>6. \A s \in struck : Holdings(s) = {}
    BY <1>1, <2>1, <2>5 DEF DaemonInv, Struck
  <2> QED
    BY <1>1, <2>3, <2>4, <2>6 DEF DaemonInv, Phases
<1> QED
  BY <1>1, DaemonInvHolds, PTL DEF Spec, RecoveryClean

-----------------------------------------------------------------------------
(* The contract of a session *)

(* Runs and terminations are of sessions that exist. *)
Born ==
  /\ \A r \in Runs : run[r].sess # None => Exists(run[r].sess)
  /\ \A t \in Terms : term[t].sess # None => Exists(term[t].sess)

(* A termination owes nothing that the session has no longer. *)
Claimed == \A t \in Terms : AtTheEnd(t) => claim[t] \subseteq HasOf(term[t].sess)

SessionInv == DaemonInv /\ Born /\ Claimed

(* Records of sessions are never removed. *)
LEMMA SessionsStay ==
  ASSUME TypeOK, Next, NEW s \in Sessions, Exists(s)
  PROVE  Exists(s)'
<1>1. CASE ClientStep
  BY <1>1 DEF TypeOK, Exists, ClientStep, CreateSession, AcquireLease, AllocatePort,
     ReleaseLease, RecoverLeases, RecoverPorts, RecoverSession
<1>2. CASE LaunchStep
  BY <1>2 DEF TypeOK, Exists, LaunchStep, MarkRunning, Register, RecordExec,
     RecordDetached, Timeout, Fork
<1>3. CASE WriteStep
  BY <1>3 DEF TypeOK, Exists, WriteStep, MarkStopping, FinishRun, Finish, KillProcess
<1>4. CASE Crash
  BY <1>4 DEF Crash, Exists
<1> QED
  BY <1>1, <1>2, <1>3, <1>4, StepKinds, RunFrame, ProcFrame, TermFrame, PhaseFrame
     DEF Exists

(* Goes is of the run and its goroutine, never of its session. *)
LEMMA GoesSession ==
  ASSUME TypeOK, NEW r \in Runs, NEW from, NEW to, NEW status,
         Goes(r, from, to, status), NEW q \in Runs
  PROVE  run'[q].sess = run[q].sess
BY DEF Goes, TypeOK, Run

(* A run keeps its session from the moment it has one, except that a crash *)
(* forgets a call that has made no record.                                 *)
LEMMA RunSession ==
  ASSUME TypeOK, Next, NEW q \in Runs
  PROVE  \/ run'[q].sess = run[q].sess
         \/ run'[q].sess = None
         \/ \E s \in Sessions : Check(q, s) /\ run'[q].sess = s
<1> DEFINE Goal == \/ run'[q].sess = run[q].sess
                   \/ run'[q].sess = None
                   \/ \E s \in Sessions : Check(q, s) /\ run'[q].sess = s
<1>1. CASE RunStep
  <2>1. ASSUME NEW r \in Runs, NEW s \in Sessions, Check(r, s) PROVE Goal
    BY <2>1 DEF Check, TypeOK, Run
  <2>2. ASSUME NEW r \in Runs,
               \/ NewRun(r) \/ PrepareFails(r) \/ LaunchFails(r)
               \/ BootFails(r) \/ Report(r)
        PROVE  Goal
    BY <2>2, GoesSession DEF NewRun, PrepareFails, LaunchFails, BootFails, Report
  <2>3. ASSUME NEW r \in Runs, ProcessDone(r) \/ Booted(r) \/ RecoverRun(r)
        PROVE  Goal
    BY <2>3 DEF ProcessDone, Booted, RecoverRun, TypeOK, Run
  <2> QED
    BY <1>1, <2>1, <2>2, <2>3 DEF RunStep
<1>2. CASE LaunchStep
  <2>1. ASSUME NEW r \in Runs,
               MarkRunning(r) \/ Register(r) \/ RecordExec(r) \/ RecordDetached(r)
        PROVE  Goal
    BY <2>1, GoesSession DEF MarkRunning, Register, RecordExec, RecordDetached
  <2>2. ASSUME NEW r \in Runs, Timeout(r) PROVE Goal
    BY <2>2 DEF Timeout, TypeOK, Run
  <2>3. ASSUME NEW r \in Runs, NEW kind \in Kinds, Fork(r, kind) PROVE Goal
    BY <2>3, ForkEffect
  <2> QED
    BY <1>2, <2>1, <2>2, <2>3 DEF LaunchStep
<1>3. CASE WriteStep
  <2>1. ASSUME NEW t \in Terms, FinishRun(t) PROVE Goal
    BY <2>1 DEF FinishRun, TypeOK, Run
  <2> QED
    BY <1>3, <2>1 DEF WriteStep, MarkStopping, Finish, KillProcess
<1>4. CASE Crash
  BY <1>4 DEF Crash, TypeOK, Run, NoRun
<1> QED
  BY <1>1, <1>2, <1>3, <1>4, StepKinds, ClientFrame, ProcFrame, TermFrame, PhaseFrame

(* The step neither begins nor ends an ending, and leaves it its session.  *)
KeepsEnding(u) ==
  /\ AtTheEnd(u)' <=> AtTheEnd(u)
  /\ \/ term'[u].sess = term[u].sess
     \/ \E s \in Sessions : Terminate(u, s) /\ term'[u].sess = s

LEMMA TermKeepsEnding ==
  ASSUME DaemonInv, TermStep, NEW u \in Terms
  PROVE  KeepsEnding(u)
<1>0. TypeOK
  BY DEF DaemonInv
<1>1. ASSUME NEW t \in Terms, NEW s \in Sessions, Terminate(t, s) PROVE KeepsEnding(u)
  BY <1>0, <1>1 DEF KeepsEnding, Terminate, AtTheEnd, TypeOK, Term, NoTerm
<1>2. ASSUME NEW t \in Terms, ListProcesses(t) \/ ListRuns(t) PROVE KeepsEnding(u)
  <2>1. PICK pc, todo : /\ pc \in {"killing", "runs"}
                        /\ term' = [term EXCEPT ![t].pc = pc, ![t].todo = todo]
    BY <1>2 DEF ListProcesses, ListRuns
  <2>2. term[t].pc \in {"marked", "list"}
    BY <1>2 DEF ListProcesses, ListRuns
  <2> QED
    BY <1>0, <2>1, <2>2 DEF KeepsEnding, AtTheEnd, TypeOK, Term
<1>3. ASSUME NEW t \in Terms,
             \/ ProcessesKilled(t) \/ ReleaseAll(t) \/ ReleaseBySession(t)
             \/ RunsFinished(t)
      PROVE  KeepsEnding(u)
  <2>1. PICK pc : /\ pc \notin {"idle", "called"}
                  /\ term' = [term EXCEPT ![t].pc = pc]
    BY <1>3 DEF ProcessesKilled, ReleaseAll, ReleaseBySession, RunsFinished
  <2>2. term[t].pc \notin {"idle", "called"}
    BY <1>3 DEF ProcessesKilled, ReleaseAll, ReleaseBySession, RunsFinished
  <2> QED
    BY <1>0, <2>1, <2>2 DEF KeepsEnding, AtTheEnd, TypeOK, Term
<1>4. ASSUME NEW t \in Terms, NEW r \in Runs, LookAtRun(t, r)
      PROVE  KeepsEnding(u)
  BY <1>0, <1>4, TodoEffect DEF KeepsEnding, AtTheEnd
<1> QED
  BY <1>1, <1>2, <1>3, <1>4 DEF TermStep

(* Which steps begin and end an ending; no other changes its session. *)
LEMMA EndingSteps ==
  ASSUME DaemonInv, Next, NEW u \in Terms
  PROVE  Crash \/ Finish(u) \/ MarkStopping(u) \/ KeepsEnding(u)
<1>0. TypeOK
  BY DEF DaemonInv
<1>1. ASSUME term'[u] = term[u] PROVE KeepsEnding(u)
  BY <1>1 DEF KeepsEnding, AtTheEnd
<1>2. ASSUME NEW t \in Terms, NEW r \in Runs, KillProcess(t, r) PROVE KeepsEnding(u)
  BY <1>0, <1>2, TodoEffect DEF KeepsEnding, AtTheEnd
<1>3. ASSUME NEW t \in Terms, FinishRun(t) PROVE KeepsEnding(u)
  BY <1>0, <1>3 DEF FinishRun, KeepsEnding, AtTheEnd, TypeOK, Term
<1>4. ASSUME NEW t \in Terms, t # u, MarkStopping(t) \/ Finish(t)
      PROVE  KeepsEnding(u)
  BY <1>0, <1>1, <1>4 DEF MarkStopping, Finish, TypeOK
<1>5. CASE WriteStep
  BY <1>2, <1>3, <1>4, <1>5 DEF WriteStep
<1>6. CASE LaunchStep
  BY <1>1, <1>6 DEF LaunchStep, MarkRunning, Register, RecordExec,
     RecordDetached, Timeout, Fork
<1> QED
  BY <1>1, <1>5, <1>6, StepKinds, TermKeepsEnding, ClientFrame, RunFrame, ProcFrame,
     PhaseFrame

LEMMA BornStep ==
  ASSUME DaemonInv, Born, Next
  PROVE  Born'
<1>0. TypeOK /\ TypeOK'
  BY TypeStep DEF DaemonInv
<1>1. ASSUME NEW r \in Runs, run'[r].sess # None PROVE sess'[run'[r].sess] # "none"
  <2>1. run[r].sess \in Sessions \cup {None}
    BY <1>0, RunTypes DEF Run
  <2>2. CASE run'[r].sess = run[r].sess
    BY <1>0, <1>1, <2>1, <2>2, SessionsStay DEF Born, Exists
  <2>3. ASSUME NEW s \in Sessions, Check(r, s), run'[r].sess = s
        PROVE  sess'[run'[r].sess] # "none"
    BY <2>3 DEF Check, Exists
  <2> QED
    BY <1>0, <1>1, <2>2, <2>3, RunSession
<1>2. ASSUME NEW t \in Terms, term'[t].sess # None PROVE sess'[term'[t].sess] # "none"
  <2>1. term[t].sess \in Sessions \cup {None}
    BY <1>0 DEF TypeOK, Term
  <2>2. CASE term'[t].sess = term[t].sess
    BY <1>0, <1>2, <2>1, <2>2, SessionsStay DEF Born, Exists
  <2>3. ASSUME NEW s \in Sessions, Terminate(t, s), term'[t].sess = s
        PROVE  sess'[term'[t].sess] # "none"
    BY <2>3 DEF Terminate, OnlyTerm, Exists
  <2>4. ~Crash /\ ~Finish(t)
    <3>1. ASSUME Crash PROVE term'[t].sess = None
      BY <1>2, <3>1 DEF Crash, NoTerm
    <3>2. Finish(t) => term'[t].sess = None
      BY <1>0 DEF Finish, NoTerm, TypeOK
    <3> QED
      BY <1>2, <3>1, <3>2
  <2>5. MarkStopping(t) => term'[t].sess = term[t].sess
    BY <1>0 DEF MarkStopping, TypeOK, Term
  <2> QED
    BY <2>2, <2>3, <2>4, <2>5, EndingSteps DEF KeepsEnding
<1> QED
  BY <1>1, <1>2 DEF Born, Exists

LEMMA ClaimedStep ==
  ASSUME DaemonInv, Next
  PROVE  Claimed'
<1> SUFFICES ASSUME NEW t \in Terms, AtTheEnd(t)'
             PROVE  claim'[t] \subseteq HasOf(term[t].sess)'
  BY DEF Claimed
<1>1. /\ term'[t].pc \notin {"idle", "called"}
      /\ \/ claim'[t] = HasOf(term[t].sess)'
         \/ claim'[t] = claim[t] \cap HasOf(term[t].sess)'
  BY EveryStepRemembers DEF Remember, AtTheEnd, HasOf
<1> QED
  BY <1>1

(* SessionInv holds in every reachable state. *)
THEOREM SessionInvHolds == Spec => []SessionInv
<1>1. Init => Born /\ Claimed
  BY DEF Init, Born, Claimed, NoRun, NoTerm, AtTheEnd
<1>2. SessionInv /\ [Next]_vars => Born' /\ Claimed'
  <2>1. SessionInv /\ Next => Born' /\ Claimed'
    BY BornStep, ClaimedStep DEF SessionInv
  <2>2. SessionInv /\ UNCHANGED vars => Born' /\ Claimed'
    BY DEF SessionInv, vars, Born, Claimed, Exists, AtTheEnd, HasOf, Holdings,
       Children, Live
  <2> QED
    BY <2>1, <2>2
<1>3. Spec => [](Born /\ Claimed)
  BY <1>1, <1>2, DaemonInvHolds, PTL DEF Spec, SessionInv
<1> QED
  BY <1>3, DaemonInvHolds, PTL DEF SessionInv

(* What the session has are things. *)
LEMMA HasType == HasOf(Session) \subseteq Resources \cup Ports \cup Runs
BY DEF HasOf, Holdings, Children

LEMMA OwedWithin ==
  ASSUME Claimed, NEW t \in Terms
  PROVE  OwedTo(Session)[t] \subseteq HasOf(Session)
BY DEF Claimed, OwedTo, EndingsOf

(* While no ending begins or is over, what is owed and is lost is no       *)
(* longer owed.                                                            *)
LEMMA OwedAfter ==
  ASSUME DaemonInv, Next, EndingsOf(Session)' = EndingsOf(Session)
  PROVE  OwedTo(Session)' = [t \in Terms |-> OwedTo(Session)[t] \cap HasOf(Session)']
<1>1. ASSUME NEW t \in EndingsOf(Session)
      PROVE  claim'[t] = claim[t] \cap HasOf(Session)'
  <2>1. /\ t \in Terms /\ term[t].sess = Session /\ term'[t].sess = Session
        /\ term[t].pc \notin {"idle", "called"}
        /\ term'[t].pc \notin {"idle", "called"}
    BY <1>1 DEF EndingsOf, AtTheEnd
  <2> QED
    BY <2>1, EveryStepRemembers DEF Remember, HasOf
<1> QED
  BY <1>1 DEF OwedTo

(* Steps that are no step of an ending, by what they change. *)
LEMMA LoseStep ==
  ASSUME SessionInv, Next,
         Up' = Up, UNCHANGED <<StateOf(Session), OpenOf(Session), EndingsOf(Session)>>,
         HasOf(Session)' \subseteq HasOf(Session)
  PROVE  Contract!Next
<1> DEFINE lost == HasOf(Session) \ HasOf(Session)'
<1>1. lost \in SUBSET (Resources \cup Ports \cup Runs)
  BY HasType
<1>2. HasOf(Session)' = HasOf(Session) \ lost
  OBVIOUS
<1>3. \A t \in Terms : OwedTo(Session)[t] \cap HasOf(Session)' = OwedTo(Session)[t] \ lost
  BY OwedWithin DEF SessionInv
<1>4. OwedTo(Session)' = [t \in Terms |-> OwedTo(Session)[t] \ lost]
  BY <1>3, OwedAfter DEF SessionInv
<1> HIDE DEF lost
<1>5. Contract!Lose(lost)
  BY <1>2, <1>4 DEF Contract!Lose
<1> QED
  BY <1>1, <1>5 DEF Contract!Next

LEMMA GainStep ==
  ASSUME SessionInv, Next, Up, Exists(Session),
         Up' = Up, UNCHANGED <<StateOf(Session), OpenOf(Session), EndingsOf(Session)>>,
         NEW x \in Resources \cup Ports \cup Runs,
         HasOf(Session)' = HasOf(Session) \cup {x}
  PROVE  Contract!Next
<1>1. \A t \in Terms : OwedTo(Session)[t] \cap HasOf(Session)' = OwedTo(Session)[t]
  BY OwedWithin DEF SessionInv
<1>2. OwedTo(Session)' = OwedTo(Session)
  <2>1. OwedTo(Session)' = [t \in Terms |-> OwedTo(Session)[t]]
    BY <1>1, OwedAfter DEF SessionInv
  <2> QED
    BY <2>1 DEF OwedTo
<1>3. StateOf(Session) # "none"
  BY DEF StateOf, Exists
<1>4. Contract!Gain(x)
  BY <1>2, <1>3 DEF Contract!Gain
<1> QED
  BY <1>4 DEF Contract!Next

(* A step that leaves what the session has, and its endings, as they are,  *)
(* leaves also what they owe.                                              *)
LEMMA OwedStays ==
  ASSUME SessionInv, Next,
         UNCHANGED <<HasOf(Session), EndingsOf(Session)>>
  PROVE  OwedTo(Session)' = OwedTo(Session)
<1>1. \A t \in Terms : OwedTo(Session)[t] \cap HasOf(Session)' = OwedTo(Session)[t]
  BY OwedWithin DEF SessionInv
<1>2. OwedTo(Session)' = [t \in Terms |-> OwedTo(Session)[t]]
  BY <1>1, OwedAfter DEF SessionInv
<1> QED
  BY <1>2 DEF OwedTo

LEMMA OpenStep ==
  ASSUME SessionInv, Next, Up, Exists(Session), NEW r \in Runs,
         Up' = Up, UNCHANGED <<StateOf(Session), HasOf(Session), EndingsOf(Session)>>,
         OpenOf(Session)' = OpenOf(Session) \cup {r}
  PROVE  Contract!Next
<1>1. StateOf(Session) # "none"
  BY DEF StateOf, Exists
<1>2. Contract!Open(r)
  BY <1>1, OwedStays DEF Contract!Open
<1> QED
  BY <1>2 DEF Contract!Next

LEMMA ShutStep ==
  ASSUME SessionInv, Next, NEW r \in Runs,
         Up' = Up, UNCHANGED <<StateOf(Session), HasOf(Session), EndingsOf(Session)>>,
         OpenOf(Session)' = OpenOf(Session) \ {r}
  PROVE  Contract!Next
<1>1. Contract!Shut(r)
  BY OwedStays DEF Contract!Shut
<1> QED
  BY <1>1 DEF Contract!Next

(* What depends on what. *)
LEMMA Frames ==
  /\ UNCHANGED phase => Up' = Up
  /\ UNCHANGED sess => UNCHANGED StateOf(Session)
  /\ UNCHANGED run => UNCHANGED OpenOf(Session)
  /\ UNCHANGED <<leased, taken, run, proc>> => UNCHANGED HasOf(Session)
  /\ UNCHANGED term => UNCHANGED EndingsOf(Session)
BY DEF Up, StateOf, OpenOf, Unfinished, HasOf, Holdings, Children, Live, EndingsOf,
   AtTheEnd

(* Sessions, leases and ports. *)
LEMMA ClientRefines ==
  ASSUME SessionInv, Next, ClientStep
  PROVE  Contract!Next
<1>0. /\ TypeOK
      /\ Up' = Up /\ UNCHANGED OpenOf(Session) /\ UNCHANGED EndingsOf(Session)
  BY ClientFrame, Frames DEF SessionInv, DaemonInv
<1>1. ASSUME NEW s \in Sessions, CreateSession(s) PROVE Contract!Next
  <2>1. UNCHANGED HasOf(Session)
    BY <1>1, Frames DEF CreateSession
  <2>2. CASE s = Session
    <3>1. Up /\ StateOf(Session) = "none" /\ StateOf(Session)' = "live"
      BY <1>0, <1>1, <2>2 DEF CreateSession, StateOf, TypeOK
    <3>2. Contract!Create
      BY <1>0, <2>1, <3>1, OwedStays DEF Contract!Create
    <3> QED
      BY <3>2 DEF Contract!Next
  <2>3. CASE s # Session
    <3>1. UNCHANGED StateOf(Session)
      BY <1>0, <1>1, <2>3, SessionAssumption DEF CreateSession, StateOf, TypeOK
    <3> QED
      BY <1>0, <2>1, <3>1, LoseStep
  <2> QED
    BY <2>2, <2>3
<1>2. ASSUME NEW s \in Sessions, NEW x \in Resources, AcquireLease(s, x)
      PROVE  Contract!Next
  <2>1. Up /\ Exists(s) /\ UNCHANGED StateOf(Session)
    BY <1>2, Frames DEF AcquireLease
  <2>2. CASE s = Session
    <3>1. Holdings(Session)' = Holdings(Session) \cup {x}
      BY <1>0, <1>2, <2>2 DEF AcquireLease, Holdings, TypeOK
    <3>2. Children(Session)' = Children(Session)
      BY <1>2 DEF AcquireLease, Children, Live
    <3>3. HasOf(Session)' = HasOf(Session) \cup {x}
      BY <3>1, <3>2 DEF HasOf
    <3> QED
      BY <1>0, <2>1, <2>2, <3>3, GainStep
  <2>3. CASE s # Session
    <3>1. Holdings(Session)' = Holdings(Session)
      BY <1>0, <1>2, <2>3, SessionAssumption, DaemonNone
         DEF AcquireLease, Holdings, TypeOK
    <3>2. Children(Session)' = Children(Session)
      BY <1>2 DEF AcquireLease, Children, Live
    <3>3. HasOf(Session)' \subseteq HasOf(Session)
      BY <3>1, <3>2 DEF HasOf
    <3> QED
      BY <1>0, <2>1, <3>3, LoseStep
  <2> QED
    BY <2>2, <2>3
<1>3. ASSUME NEW s \in Sessions, NEW p \in Ports, AllocatePort(s, p)
      PROVE  Contract!Next
  <2>1. Up /\ Exists(s) /\ UNCHANGED StateOf(Session)
    BY <1>3, Frames DEF AllocatePort
  <2>2. CASE s = Session
    <3>1. Holdings(Session)' = Holdings(Session) \cup {p}
      BY <1>0, <1>3, <2>2 DEF AllocatePort, Holdings, TypeOK
    <3>2. Children(Session)' = Children(Session)
      BY <1>3 DEF AllocatePort, Children, Live
    <3>3. HasOf(Session)' = HasOf(Session) \cup {p}
      BY <3>1, <3>2 DEF HasOf
    <3> QED
      BY <1>0, <2>1, <2>2, <3>3, GainStep
  <2>3. CASE s # Session
    <3>1. Holdings(Session)' = Holdings(Session)
      BY <1>0, <1>3, <2>3, SessionAssumption, DaemonNone
         DEF AllocatePort, Holdings, TypeOK
    <3>2. Children(Session)' = Children(Session)
      BY <1>3 DEF AllocatePort, Children, Live
    <3>3. HasOf(Session)' \subseteq HasOf(Session)
      BY <3>1, <3>2 DEF HasOf
    <3> QED
      BY <1>0, <2>1, <3>3, LoseStep
  <2> QED
    BY <2>2, <2>3
<1>4. ASSUME \/ \E x \in Resources : ReleaseLease(x)
             \/ \E s \in Sessions : RecoverLeases(s) \/ RecoverPorts(s)
      PROVE  Contract!Next
  <2>1. UNCHANGED <<sess, run, proc>>
    BY <1>4 DEF ReleaseLease, RecoverLeases, RecoverPorts
  <2>2. /\ \A x \in Resources : leased'[x] \in {leased[x], None}
        /\ \A p \in Ports : taken'[p] \in {taken[p], None}
    BY <1>0, <1>4 DEF ReleaseLease, RecoverLeases, RecoverPorts, ReleaseLeases,
       ReleasePorts, TypeOK
  <2>3. Holdings(Session)' \subseteq Holdings(Session)
    BY <2>2, SessionAssumption, DaemonNone DEF Holdings
  <2>4. HasOf(Session)' \subseteq HasOf(Session)
    BY <2>1, <2>3 DEF HasOf, Children, Live
  <2> QED
    BY <1>0, <2>1, <2>4, Frames, LoseStep
<1>5. ASSUME NEW s \in Sessions, RecoverSession(s) PROVE Contract!Next
  <2>1. UNCHANGED HasOf(Session)
    BY <1>5, Frames DEF RecoverSession
  <2>2. CASE s = Session
    <3>1. ~Up /\ StateOf(Session) # "none" /\ StateOf(Session)' = "stopped"
      BY <1>0, <1>5, <2>2 DEF RecoverSession, Interrupted, StateOf, TypeOK, Up
    <3>2. HasOf(Session) = {}
      BY <1>5, <2>2, <3>1 DEF RecoverSession, HasOf, Children, SessionInv, DaemonInv, Down
    <3>3. Contract!Close
      BY <1>0, <2>1, <3>1, <3>2, OwedStays DEF Contract!Close
    <3> QED
      BY <3>3 DEF Contract!Next
  <2>3. CASE s # Session
    <3>1. UNCHANGED StateOf(Session)
      BY <1>0, <1>5, <2>3, SessionAssumption DEF RecoverSession, StateOf, TypeOK
    <3> QED
      BY <1>0, <2>1, <3>1, LoseStep
  <2> QED
    BY <2>2, <2>3
<1> QED
  BY <1>1, <1>2, <1>3, <1>4, <1>5 DEF ClientStep

(* A run is of the session and open, or it is not. *)
LEMMA OpenRuns ==
  \A q : q \in OpenOf(Session) <=> /\ q \in Runs /\ run[q].sess = Session
                                   /\ run[q].status \in {"QUEUED", "RUNNING"}
BY DEF OpenOf, Unfinished

LEMMA OpenRunsNext ==
  \A q : q \in OpenOf(Session)' <=> /\ q \in Runs /\ run'[q].sess = Session
                                    /\ run'[q].status \in {"QUEUED", "RUNNING"}
BY DEF OpenOf, Unfinished

(* A step that leaves a run its session and its process leaves the session *)
(* what it has.                                                            *)
LEMMA SameChildren ==
  ASSUME UNCHANGED <<leased, taken, proc>>,
         \A q \in Runs : run'[q].sess = run[q].sess
  PROVE  UNCHANGED HasOf(Session)
BY DEF HasOf, Holdings, Children, Live

(* A goroutine that writes a status opens or shuts its run. *)
LEMMA StatusStep ==
  ASSUME SessionInv, Next, NEW r \in Runs, NEW status,
         Up' = Up, Up \/ status \notin {"QUEUED", "RUNNING"},
         UNCHANGED <<StateOf(Session), HasOf(Session), EndingsOf(Session)>>,
         \A q \in Runs : /\ run'[q].sess = run[q].sess
                         /\ run'[q].status = IF q = r THEN status ELSE run[q].status
  PROVE  Contract!Next
<1>1. CASE run[r].sess = Session /\ status \in {"QUEUED", "RUNNING"}
  <2>1. OpenOf(Session)' = OpenOf(Session) \cup {r}
    BY <1>1, OpenRuns, OpenRunsNext
  <2>2. Exists(Session) /\ Up
    BY <1>1, SessionAssumption, DaemonNone DEF SessionInv, Born
  <2> QED
    BY <2>1, <2>2, OpenStep
<1>2. CASE ~(run[r].sess = Session /\ status \in {"QUEUED", "RUNNING"})
  <2>1. OpenOf(Session)' = OpenOf(Session) \ {r}
    BY <1>2, OpenRuns, OpenRunsNext
  <2> QED
    BY <2>1, ShutStep
<1> QED
  BY <1>1, <1>2

(* Runs. *)
LEMMA RunRefines ==
  ASSUME SessionInv, Next, RunStep
  PROVE  Contract!Next
<1>0. /\ TypeOK
      /\ Up' = Up /\ UNCHANGED StateOf(Session) /\ UNCHANGED EndingsOf(Session)
      /\ UNCHANGED <<leased, taken, proc>>
  BY RunFrame, Frames DEF SessionInv, DaemonInv
<1> PICK r \in Runs :
      \/ \E s \in Sessions : Check(r, s)
      \/ NewRun(r) \/ PrepareFails(r) \/ LaunchFails(r) \/ ProcessDone(r)
      \/ Booted(r) \/ BootFails(r) \/ Report(r) \/ RecoverRun(r)
  BY DEF RunStep
<1>1. ASSUME NEW s \in Sessions, Check(r, s) PROVE Contract!Next
  <2>1. /\ run[r].pc = "idle"
        /\ \A q \in Runs : /\ run'[q].status = run[q].status
                           /\ q # r => run'[q].sess = run[q].sess
    BY <1>0, <1>1 DEF Check, TypeOK, Run
  <2>2. r \notin Unfinished /\ ~proc[r].tracked
    BY <2>1 DEF SessionInv, DaemonInv, Settled, Honest
  <2>3. OpenOf(Session)' = OpenOf(Session)
    BY <2>1, <2>2, OpenRuns, OpenRunsNext DEF Unfinished
  <2>4. HasOf(Session)' \subseteq HasOf(Session)
    BY <1>0, <2>1, <2>2 DEF HasOf, Holdings, Children, Live
  <2> QED
    BY <1>0, <2>3, <2>4, LoseStep
<1>2. CASE NewRun(r) \/ PrepareFails(r) \/ LaunchFails(r) \/ BootFails(r) \/ Report(r)
  <2>1. PICK from, to, status : Goes(r, from, to, status)
    <3>1. CASE Report(r)
      BY <3>1 DEF Report
    <3> QED
      BY <1>2, <3>1 DEF NewRun, PrepareFails, LaunchFails, BootFails
  <2>2. \A q \in Runs : /\ run'[q].sess = run[q].sess
                        /\ run'[q].status = IF q = r THEN status ELSE run[q].status
    BY <1>0, <2>1, GoesSession, GoesEffect
  <2>3. UNCHANGED HasOf(Session)
    BY <1>0, <2>2, SameChildren
  <2>4. Up
    BY <1>2, RunNeedsUp DEF SessionInv
  <2> QED
    BY <1>0, <2>2, <2>3, <2>4, StatusStep
<1>3. CASE ProcessDone(r) \/ Booted(r)
  <2>1. \A q \in Runs : run'[q].sess = run[q].sess /\ run'[q].status = run[q].status
    <3>1. \E result : run' = [run EXCEPT ![r].pc = "reporting", ![r].result = result]
      BY <1>3 DEF ProcessDone, Booted
    <3> QED
      BY <1>0, <3>1 DEF TypeOK, Run
  <2>2. UNCHANGED HasOf(Session)
    BY <1>0, <2>1, SameChildren
  <2>3. OpenOf(Session)' = OpenOf(Session)
    BY <2>1, OpenRuns, OpenRunsNext
  <2> QED
    BY <1>0, <2>2, <2>3, LoseStep
<1>4. CASE RecoverRun(r)
  <2>1. \A q \in Runs : /\ run'[q].sess = run[q].sess
                        /\ run'[q].status = IF q = r THEN "KILLED" ELSE run[q].status
    BY <1>0, <1>4 DEF RecoverRun, TypeOK, Run
  <2>2. UNCHANGED HasOf(Session)
    BY <1>0, <2>1, SameChildren
  <2> QED
    BY <1>0, <2>1, <2>2, StatusStep
<1> QED
  BY <1>1, <1>2, <1>3, <1>4

(* Processes. *)
LEMMA ProcRefines ==
  ASSUME SessionInv, Next, ProcStep
  PROVE  Contract!Next
<1>1. /\ Up' = Up /\ UNCHANGED StateOf(Session) /\ UNCHANGED EndingsOf(Session)
      /\ UNCHANGED OpenOf(Session) /\ UNCHANGED <<leased, taken, run>>
  BY ProcFrame, Frames
<1>2. \A q \in Runs : /\ proc'[q].tracked => proc[q].tracked
                      /\ proc'[q].os = "live" => proc[q].os = "live"
  BY ProcEffect DEF SessionInv, DaemonInv
<1>3. HasOf(Session)' \subseteq HasOf(Session)
  BY <1>1, <1>2 DEF HasOf, Holdings, Children, Live
<1> QED
  BY <1>1, <1>3, LoseStep

(* The endings of the session are changed by their own steps. *)
LEMMA EndingsStay ==
  ASSUME DaemonInv,
         \A u \in Terms : \/ KeepsEnding(u)
                          \/ term[u].sess # Session /\ (Finish(u) \/ MarkStopping(u))
  PROVE  UNCHANGED EndingsOf(Session)
<1>0. TypeOK
  BY DEF DaemonInv
<1>1. ASSUME NEW u \in Terms
      PROVE  (term'[u].sess = Session /\ AtTheEnd(u)')
               <=> (term[u].sess = Session /\ AtTheEnd(u))
  <2>1. CASE term[u].sess # Session /\ (Finish(u) \/ MarkStopping(u))
    <3>1. Finish(u) => ~AtTheEnd(u)'
      BY <1>0, <1>1 DEF Finish, NoTerm, AtTheEnd, TypeOK
    <3>2. MarkStopping(u) => term'[u].sess = term[u].sess
      BY <1>0, <1>1 DEF MarkStopping, TypeOK, Term
    <3> QED
      BY <2>1, <3>1, <3>2
  <2>2. CASE KeepsEnding(u)
    <3>1. ASSUME NEW s \in Sessions, Terminate(u, s) PROVE ~AtTheEnd(u)
      BY <3>1 DEF Terminate, AtTheEnd
    <3> QED
      BY <2>2, <3>1 DEF KeepsEnding
  <2> QED
    BY <1>1, <2>1, <2>2
<1> QED
  BY <1>1 DEF EndingsOf

LEMMA TermRefines ==
  ASSUME SessionInv, Next, TermStep
  PROVE  Contract!Next
<1>0. TypeOK
  BY DEF SessionInv, DaemonInv
<1>1. /\ Up' = Up /\ UNCHANGED StateOf(Session) /\ UNCHANGED OpenOf(Session)
      /\ UNCHANGED <<run, proc>>
  BY TermFrame, TermNeedsUp, Frames DEF SessionInv
<1>2. UNCHANGED EndingsOf(Session)
  BY TermKeepsEnding, EndingsStay DEF SessionInv
<1>3. /\ \A x \in Resources : leased'[x] \in {leased[x], None}
      /\ \A p \in Ports : taken'[p] \in {taken[p], None}
  BY <1>0 DEF TermStep, Terminate, ListProcesses, ProcessesKilled, ReleaseAll,
     ReleaseBySession, ListRuns, RunsFinished, LookAtRun, OnlyTerm, ReleaseLeases,
     ReleasePorts, TypeOK
<1>4. Holdings(Session)' \subseteq Holdings(Session)
  BY <1>3, SessionAssumption, DaemonNone DEF Holdings
<1>5. HasOf(Session)' \subseteq HasOf(Session)
  BY <1>1, <1>4 DEF HasOf, Children, Live
<1> QED
  BY <1>1, <1>2, <1>5, LoseStep

(* The phases of Recover. *)
LEMMA PhaseRefines ==
  ASSUME SessionInv, Next, PhaseStep
  PROVE  Contract!Next
<1>1. /\ UNCHANGED StateOf(Session) /\ UNCHANGED OpenOf(Session)
      /\ UNCHANGED HasOf(Session) /\ UNCHANGED EndingsOf(Session)
  BY PhaseFrame, Frames
<1>2. CASE SessionsRecovered \/ OrphansReaped
  <2>1. Up' = Up
    BY <1>2 DEF SessionsRecovered, OrphansReaped, Up
  <2> QED
    BY <1>1, <2>1, LoseStep
<1>3. CASE Recovered
  <2>1. ~Up /\ Up' /\ phase = "runs" /\ Unfinished = {}
    BY <1>3 DEF Recovered, Up
  <2>2. StateOf(Session) \in {"none", "stopped"}
    BY <2>1, SessionAssumption DEF SessionInv, DaemonInv, Phases, StateOf
  <2>3. OpenOf(Session) = {}
    BY <2>1 DEF OpenOf
  <2>4. Contract!Serve
    BY <1>1, <2>1, <2>2, <2>3, OwedStays DEF Contract!Serve
  <2> QED
    BY <2>4 DEF Contract!Next
<1> QED
  BY <1>2, <1>3 DEF PhaseStep

(* Launches. *)
LEMMA LaunchRefines ==
  ASSUME SessionInv, Next, LaunchStep
  PROVE  Contract!Next
<1>0. TypeOK /\ Up /\ Up' = Up
  BY LaunchNeedsUp DEF SessionInv, DaemonInv
<1> PICK r \in Runs : \/ MarkRunning(r) \/ Register(r) \/ RecordExec(r)
                     \/ RecordDetached(r) \/ Timeout(r)
                     \/ \E kind \in Kinds : Fork(r, kind)
  BY DEF LaunchStep
<1>1. UNCHANGED EndingsOf(Session) /\ UNCHANGED <<leased, taken>>
  BY Frames DEF MarkRunning, Register, RecordExec, RecordDetached, Timeout, Fork
<1>2. CASE MarkRunning(r)
  <2>1. \A q \in Runs : run'[q].sess = run[q].sess /\ run'[q].status = run[q].status
    BY <1>0, <1>2, GoesSession, GoesEffect DEF MarkRunning
  <2>2. UNCHANGED HasOf(Session)
    BY <1>1, <1>2, <2>1, SameChildren DEF MarkRunning
  <2>3. OpenOf(Session)' = OpenOf(Session)
    BY <2>1, OpenRuns, OpenRunsNext
  <2>4. UNCHANGED StateOf(Session)
    BY <1>0, <1>2, SessionAssumption DEF MarkRunning, StateOf, TypeOK
  <2> QED
    BY <1>0, <1>1, <2>2, <2>3, <2>4, LoseStep
<1>3. CASE Register(r)
  <2>1. \A q \in Runs : run'[q].sess = run[q].sess /\ run'[q].status = run[q].status
    BY <1>0, <1>3, GoesSession, GoesEffect DEF Register
  <2>2. /\ UNCHANGED StateOf(Session)
        /\ OpenOf(Session)' = OpenOf(Session)
    BY <1>3, <2>1, OpenRuns, OpenRunsNext, Frames DEF Register
  <2>3. \A q \in Runs : /\ proc'[q].os = proc[q].os
                        /\ q # r => proc'[q].tracked = proc[q].tracked
    BY <1>0, <1>3 DEF Register, TypeOK, Proc
  <2>4. CASE r \in Children(Session)'
    <3>1. run[r].sess = Session
      BY <2>1, <2>4 DEF Children
    <3>2. Exists(Session)
      BY <3>1, SessionAssumption, DaemonNone DEF SessionInv, Born
    <3>3. HasOf(Session)' = HasOf(Session) \cup {r}
      BY <1>1, <2>1, <2>3, <2>4 DEF HasOf, Holdings, Children, Live
    <3> QED
      BY <1>0, <1>1, <2>2, <3>2, <3>3, GainStep
  <2>5. CASE r \notin Children(Session)'
    <3>1. HasOf(Session)' \subseteq HasOf(Session)
      BY <1>1, <2>1, <2>3, <2>5 DEF HasOf, Holdings, Children, Live
    <3> QED
      BY <1>0, <1>1, <2>2, <3>1, LoseStep
  <2> QED
    BY <2>4, <2>5
<1>4. CASE RecordExec(r) \/ RecordDetached(r)
  <2>1. PICK from, to, status : Goes(r, from, to, status)
    BY <1>4 DEF RecordExec, RecordDetached
  <2>2. \A q \in Runs : /\ run'[q].sess = run[q].sess
                        /\ run'[q].status = IF q = r THEN status ELSE run[q].status
    BY <1>0, <2>1, GoesSession, GoesEffect
  <2>3. \A q \in Runs : proc'[q].tracked = proc[q].tracked /\ proc'[q].os = proc[q].os
    BY <1>0, <1>4 DEF RecordExec, RecordDetached, TypeOK, Proc
  <2>4. UNCHANGED HasOf(Session)
    BY <1>1, <2>2, <2>3 DEF HasOf, Holdings, Children, Live
  <2>5. UNCHANGED StateOf(Session)
    BY <1>4, Frames DEF RecordExec, RecordDetached
  <2> QED
    BY <1>0, <1>1, <2>2, <2>4, <2>5, StatusStep
<1>5. CASE Timeout(r)
  <2>1. \A q \in Runs : run'[q].sess = run[q].sess /\ run'[q].status = run[q].status
    BY <1>0, <1>5 DEF Timeout, TypeOK, Run
  <2>2. /\ UNCHANGED StateOf(Session)
        /\ OpenOf(Session)' = OpenOf(Session)
    BY <1>5, <2>1, OpenRuns, OpenRunsNext, Frames DEF Timeout
  <2>3. \A q \in Runs : /\ proc'[q].os = "live" => proc[q].os = "live"
                        /\ proc'[q].tracked = proc[q].tracked
    BY <1>0, <1>5 DEF Timeout, MarkAndKill, Killed, TypeOK, Proc
  <2>4. HasOf(Session)' \subseteq HasOf(Session)
    BY <1>1, <2>1, <2>3 DEF HasOf, Holdings, Children, Live
  <2> QED
    BY <1>0, <1>1, <2>2, <2>4, LoseStep
<1>6. ASSUME NEW kind \in Kinds, Fork(r, kind) PROVE Contract!Next
  <2>0. UNCHANGED sess /\ proc' = [proc EXCEPT ![r].os = "live"] /\ run[r].pc = "launching"
    BY <1>6 DEF Fork
  <2>1. \A q \in Runs : run'[q].sess = run[q].sess /\ run'[q].status = run[q].status
    BY <1>0, <1>6, ForkEffect
  <2>2. /\ UNCHANGED StateOf(Session)
        /\ OpenOf(Session)' = OpenOf(Session)
    BY <2>0, <2>1, OpenRuns, OpenRunsNext, Frames
  <2>3. ~proc[r].tracked
    BY <2>0 DEF SessionInv, DaemonInv, Honest
  <2>4. \A q \in Runs : /\ proc'[q].tracked = proc[q].tracked
                        /\ q # r => proc'[q].os = proc[q].os
    BY <1>0, <2>0 DEF TypeOK, Proc
  <2>5. HasOf(Session)' \subseteq HasOf(Session)
    BY <1>1, <2>1, <2>3, <2>4 DEF HasOf, Holdings, Children, Live
  <2> QED
    BY <1>0, <1>1, <2>2, <2>5, LoseStep
<1> QED
  BY <1>2, <1>3, <1>4, <1>5, <1>6

(* The steps of an ending. *)
LEMMA MarkRefines ==
  ASSUME SessionInv, Next, NEW t \in Terms, MarkStopping(t)
  PROVE  Contract!Next
<1>0. /\ TypeOK
      /\ Up /\ Up' = Up
      /\ UNCHANGED HasOf(Session) /\ UNCHANGED OpenOf(Session)
  <2>1. WriteStep
    BY DEF WriteStep
  <2> QED
    BY <2>1, WriteNeedsUp, Frames DEF SessionInv, DaemonInv, MarkStopping
<1>1. \A u \in Terms : u # t => term'[u] = term[u]
  BY <1>0 DEF MarkStopping, TypeOK
<1>2. /\ term[t].pc = "called" /\ term'[t].pc = "marked"
      /\ term'[t].sess = term[t].sess
  BY <1>0 DEF MarkStopping, TypeOK, Term
<1>3. \A u \in Terms : u # t => KeepsEnding(u)
  BY <1>1 DEF KeepsEnding, AtTheEnd
<1>4. CASE term[t].sess = Session
  <2>1. StateOf(Session)' = "stopping"
    BY <1>0, <1>4, SessionAssumption DEF MarkStopping, StateOf, TypeOK
  <2>2. StateOf(Session) # "none"
    BY <1>4, SessionAssumption, DaemonNone DEF SessionInv, Born, Exists, StateOf
  <2>3. t \notin EndingsOf(Session) /\ EndingsOf(Session)' = EndingsOf(Session) \cup {t}
    BY <1>1, <1>2, <1>4 DEF EndingsOf, AtTheEnd
  <2>4. claim'[t] = HasOf(Session)
    <3>1. claim'[t] = HasOf(term[t].sess)'
      BY <1>2, EveryStepRemembers DEF Remember, HasOf
    <3>2. claim'[t] = HasOf(Session)'
      BY <1>2, <1>4, <3>1 DEF HasOf, Holdings, Children
    <3> QED
      BY <1>0, <3>2
  <2>5. ASSUME NEW u \in EndingsOf(Session) PROVE claim'[u] = claim[u]
    <3>1. /\ u \in Terms /\ u # t /\ term'[u] = term[u] /\ term[u].sess = Session
          /\ term[u].pc \notin {"idle", "called"}
      BY <1>1, <2>3, <2>5 DEF EndingsOf, AtTheEnd
    <3>2. claim'[u] = claim[u] \cap HasOf(term[u].sess)'
      BY <3>1, EveryStepRemembers DEF Remember, HasOf
    <3>3. claim'[u] = claim[u] \cap HasOf(Session)
      BY <1>0, <3>1, <3>2 DEF HasOf, Holdings, Children
    <3>4. claim[u] \subseteq HasOf(Session)
      BY <3>1 DEF SessionInv, Claimed, AtTheEnd
    <3> QED
      BY <3>3, <3>4
  <2>6. OwedTo(Session)' = [OwedTo(Session) EXCEPT ![t] = HasOf(Session)]
    BY <2>3, <2>4, <2>5 DEF OwedTo
  <2>7. Contract!Mark(t)
    BY <1>0, <2>1, <2>2, <2>3, <2>6 DEF Contract!Mark
  <2> QED
    BY <2>7 DEF Contract!Next
<1>5. CASE term[t].sess # Session
  <2>1. UNCHANGED StateOf(Session)
    BY <1>0, <1>5, SessionAssumption DEF MarkStopping, StateOf, TypeOK
  <2>2. UNCHANGED EndingsOf(Session)
    BY <1>3, <1>5, EndingsStay DEF SessionInv
  <2> QED
    BY <1>0, <2>1, <2>2, LoseStep
<1> QED
  BY <1>4, <1>5

LEMMA FinishRefines ==
  ASSUME SessionInv, Next, NEW t \in Terms, Finish(t)
  PROVE  Contract!Next
<1>0. /\ TypeOK
      /\ Up /\ Up' = Up
      /\ UNCHANGED HasOf(Session) /\ UNCHANGED OpenOf(Session)
  <2>1. WriteStep
    BY DEF WriteStep
  <2> QED
    BY <2>1, WriteNeedsUp, Frames DEF SessionInv, DaemonInv, Finish
<1>1. \A u \in Terms : u # t => term'[u] = term[u]
  BY <1>0 DEF Finish, TypeOK
<1>2. term[t].pc = "finish" /\ term'[t].pc = "idle"
  BY <1>0 DEF Finish, NoTerm, TypeOK
<1>3. \A u \in Terms : u # t => KeepsEnding(u)
  BY <1>1 DEF KeepsEnding, AtTheEnd
<1>4. CASE term[t].sess = Session
  <2>1. StateOf(Session)' = "stopped"
    BY <1>0, <1>4, SessionAssumption DEF Finish, StateOf, TypeOK
  <2>2. t \in EndingsOf(Session) /\ EndingsOf(Session)' = EndingsOf(Session) \ {t}
    BY <1>1, <1>2, <1>4 DEF EndingsOf, AtTheEnd
  <2>3. claim[t] = {}
    <3>1. claim[t] \subseteq Resources \cup Ports \cup Runs
      BY <1>0 DEF TypeOK
    <3>2. /\ claim[t] \cap Resources = {} /\ claim[t] \cap Ports = {}
          /\ claim[t] \cap Runs = {}
      BY <1>2 DEF SessionInv, DaemonInv, Claims
    <3> QED
      BY <3>1, <3>2
  <2>4. ASSUME NEW u \in EndingsOf(Session), u # t PROVE claim'[u] = claim[u]
    <3>1. /\ u \in Terms /\ term'[u] = term[u] /\ term[u].sess = Session
          /\ term[u].pc \notin {"idle", "called"}
      BY <1>1, <2>4 DEF EndingsOf, AtTheEnd
    <3>2. claim'[u] = claim[u] \cap HasOf(term[u].sess)'
      BY <3>1, EveryStepRemembers DEF Remember, HasOf
    <3>3. claim'[u] = claim[u] \cap HasOf(Session)
      BY <1>0, <3>1, <3>2 DEF HasOf, Holdings, Children
    <3>4. claim[u] \subseteq HasOf(Session)
      BY <3>1 DEF SessionInv, Claimed, AtTheEnd
    <3> QED
      BY <3>3, <3>4
  <2>5. OwedTo(Session)' = OwedTo(Session) /\ OwedTo(Session)[t] = {}
    BY <2>2, <2>3, <2>4 DEF OwedTo
  <2>6. Contract!Stop(t)
    BY <1>0, <2>1, <2>2, <2>5 DEF Contract!Stop
  <2> QED
    BY <2>6 DEF Contract!Next
<1>5. CASE term[t].sess # Session
  <2>1. UNCHANGED StateOf(Session)
    BY <1>0, <1>5, SessionAssumption DEF Finish, StateOf, TypeOK
  <2>2. UNCHANGED EndingsOf(Session)
    BY <1>3, <1>5, EndingsStay DEF SessionInv
  <2> QED
    BY <1>0, <2>1, <2>2, LoseStep
<1> QED
  BY <1>4, <1>5

LEMMA WriteRefines ==
  ASSUME SessionInv, Next, WriteStep
  PROVE  Contract!Next
<1>0. TypeOK /\ Up /\ Up' = Up
  BY WriteNeedsUp DEF SessionInv, DaemonInv
<1> PICK t \in Terms : MarkStopping(t) \/ FinishRun(t) \/ Finish(t)
                      \/ \E r \in Runs : KillProcess(t, r)
  BY DEF WriteStep
<1>1. CASE MarkStopping(t) \/ Finish(t)
  BY <1>1, MarkRefines, FinishRefines
<1>2. CASE FinishRun(t)
  <2>1. term[t].doomed \in Runs
    BY <1>0, <1>2 DEF FinishRun, TypeOK, Term
  <2>2. \A q \in Runs : /\ run'[q].sess = run[q].sess
                        /\ run'[q].status = IF q = term[t].doomed THEN "KILLED"
                                            ELSE run[q].status
    BY <1>0, <1>2 DEF FinishRun, TypeOK, Run
  <2>3. UNCHANGED HasOf(Session) /\ UNCHANGED StateOf(Session)
    BY <1>2, <2>2, SameChildren, Frames DEF FinishRun
  <2>4. \A u \in Terms : term'[u].sess = term[u].sess /\ term'[u].pc = term[u].pc
    BY <1>0, <1>2 DEF FinishRun, TypeOK, Term
  <2>5. UNCHANGED EndingsOf(Session)
    BY <2>4 DEF EndingsOf, AtTheEnd
  <2> QED
    BY <1>0, <2>1, <2>2, <2>3, <2>5, StatusStep
<1>3. ASSUME NEW r \in Runs, KillProcess(t, r) PROVE Contract!Next
  <2>1. UNCHANGED StateOf(Session) /\ UNCHANGED OpenOf(Session)
        /\ UNCHANGED <<leased, taken, run>>
    BY <1>3, Frames DEF KillProcess
  <2>2. \A q \in Runs : /\ proc'[q].os = "live" => proc[q].os = "live"
                        /\ proc'[q].tracked = proc[q].tracked
    <3>1. \A q \in Runs : proc'[q] = IF q = r THEN KillIfAlive(proc[q]) ELSE proc[q]
      BY <1>0, <1>3 DEF KillProcess, TypeOK
    <3> QED
      BY <1>0, <3>1, KillEffect, RunTypes
  <2>3. HasOf(Session)' \subseteq HasOf(Session)
    BY <2>1, <2>2 DEF HasOf, Holdings, Children, Live
  <2>4. \A u \in Terms : term'[u].sess = term[u].sess /\ term'[u].pc = term[u].pc
    BY <1>0, <1>3, TodoEffect
  <2>5. UNCHANGED EndingsOf(Session)
    BY <2>4 DEF EndingsOf, AtTheEnd
  <2> QED
    BY <1>0, <2>1, <2>3, <2>5, LoseStep
<1> QED
  BY <1>1, <1>2, <1>3

LEMMA CrashRefines ==
  ASSUME SessionInv, Next, Crash
  PROVE  Contract!Next
<1>0. TypeOK
  BY DEF SessionInv, DaemonInv
<1>1. Up' = FALSE /\ UNCHANGED StateOf(Session)
  BY Frames DEF Crash, Up
<1>2. HasOf(Session)' \subseteq HasOf(Session)
  <2>1. \A q \in Runs : ~proc'[q].tracked
    BY <1>0 DEF Crash, TypeOK, Proc
  <2> QED
    BY <2>1 DEF Crash, HasOf, Holdings, Children
<1>3. OpenOf(Session)' = OpenOf(Session)
  <2>1. ASSUME NEW q \in Runs
        PROVE  (run'[q].sess = Session /\ run'[q].status \in {"QUEUED", "RUNNING"})
                 <=> (run[q].sess = Session /\ run[q].status \in {"QUEUED", "RUNNING"})
    <3>1. CASE run[q].pc \in {"idle", "checked"}
      <4>1. run'[q] = NoRun
        BY <2>1, <3>1 DEF Crash
      <4>2. run[q].status \notin {"QUEUED", "RUNNING"}
        BY <2>1, <3>1 DEF SessionInv, DaemonInv, Settled, Unfinished
      <4> QED
        BY <4>1, <4>2 DEF NoRun
    <3>2. CASE run[q].pc \notin {"idle", "checked"}
      <4>1. run'[q] = run[q] \/ run'[q] = [run[q] EXCEPT !.pc = "lost"]
        BY <2>1, <3>2 DEF Crash
      <4>2. run'[q].sess = run[q].sess /\ run'[q].status = run[q].status
        BY <1>0, <2>1, <4>1 DEF TypeOK, Run
      <4> QED
        BY <4>2
    <3> QED
      BY <3>1, <3>2
  <2> QED
    BY <2>1, OpenRuns, OpenRunsNext
<1>4. EndingsOf(Session)' = {}
  BY DEF Crash, EndingsOf, AtTheEnd, NoTerm
<1>5. OwedTo(Session)' = [t \in Terms |-> {}]
  BY <1>4 DEF OwedTo
<1>6. Contract!Crash
  BY <1>1, <1>2, <1>3, <1>4, <1>5 DEF Contract!Crash, Contract!Nothing
<1> QED
  BY <1>6 DEF Contract!Next

(* TerminateSession, Execute and Recover, each of them many critical       *)
(* sections of several managers, keep the contract of every session: every *)
(* step of the daemon is a step of the contract or leaves it as it is, for *)
(* all sessions, runs, terminations, leases and ports, wherever the daemon *)
(* crashes (daemon/service.go:137, 311, 545).                              *)
THEOREM KeepsContract == Spec => SessionKeepsContract
<1>1. Init => Contract!Init
  <2> SUFFICES ASSUME Init PROVE Contract!Init
    OBVIOUS
  <2>1. Up = TRUE /\ StateOf(Session) = "none"
    BY SessionAssumption DEF Init, Up, StateOf
  <2>2. HasOf(Session) = {}
    BY SessionAssumption, DaemonNone DEF Init, HasOf, Holdings, Children, NoProc
  <2>3. OpenOf(Session) = {}
    BY DEF Init, OpenOf, Unfinished, NoRun
  <2>4. EndingsOf(Session) = {}
    BY DEF Init, EndingsOf, AtTheEnd, NoTerm
  <2>5. OwedTo(Session) = [t \in Terms |-> {}]
    BY <2>4 DEF OwedTo
  <2> QED
    BY <2>1, <2>2, <2>3, <2>4, <2>5 DEF Contract!Init, Contract!Nothing
<1>2. SessionInv /\ Next => Contract!Next
  BY StepKinds, ClientRefines, RunRefines, ProcRefines, TermRefines, PhaseRefines,
     LaunchRefines, WriteRefines, CrashRefines
<1>3. UNCHANGED vars => UNCHANGED Contract!vars
  BY DEF vars, Contract!vars, Up, StateOf, HasOf, Holdings, Children, Live, OpenOf,
     Unfinished, EndingsOf, AtTheEnd, OwedTo
<1>4. SessionInv /\ [Next]_vars => [Contract!Next]_(Contract!vars)
  BY <1>2, <1>3
<1> QED
  BY <1>1, <1>4, SessionInvHolds, PTL DEF Spec, SessionKeepsContract, Contract!Spec

=============================================================================
