--------------------------- MODULE HoldingsProofs ---------------------------
(***************************************************************************)
(* Proofs about Holdings: types, LivePortsHeld, PortsKept and              *)
(* RemovalSpares, for any number of callers, ports, names, sessions,       *)
(* workspaces, calls and crashes.                                          *)
(***************************************************************************)
EXTENDS Holdings, TLAPS

(* Nothing is left of the daemon while it is down. *)
Down == ~up => /\ taken = NoPorts
               /\ held = {}
               /\ call = [c \in Callers |-> Idle]

(* A port in the table belongs to a session that is known, so that no new  *)
(* session can come by a port that was allocated before it.                *)
Owned == \A p \in Ports : taken[p] = None \/ taken[p] \in Known

(* A workspace that is filed under a name has that name. *)
NamesKeyed == \A n \in Names : ws[n] = NoWorkspace \/ ws[n].name = n

(* What a caller that is about to remove a workspace has found: the        *)
(* sessions it saw are still known, and those that are bound to what the   *)
(* key stands for are over.  A name stands for whatever is created under   *)
(* it later, an id for one workspace only.                                 *)
Checked(c) ==
  call[c].stage = "remove" =>
    /\ call[c].key \in Keys
    /\ call[c].seen \subseteq Known
    /\ \A s \in call[c].seen :
         /\ call[c].key \in Names /\ sess[s].ws = call[c].key => s \notin Live
         /\ ws[call[c].key] # NoWorkspace /\ sess[s].ws = ws[call[c].key].name
              => s \notin Live

AllChecked == \A c \in Callers : Checked(c)

Inv == TypeOK /\ Down /\ Owned /\ LivePortsHeld /\ NamesKeyed /\ AllChecked

-----------------------------------------------------------------------------
(* Types *)

(* An empty record of a goroutine, workspace or session is none of the     *)
(* real ones.                                                              *)
LEMMA Constants ==
  /\ None \notin Names /\ None \notin SessionIds /\ None \notin Keys
  /\ \A n \in Names : n \notin Ids
  /\ NoWorkspace \notin Workspace
  /\ NoPorts \in Allocations
  /\ Idle \in Call
  /\ NoSession \in Session
<1>1. None \notin Names /\ None \notin SessionIds /\ None \notin Ids
  BY HoldingsNone, HoldingsBounds DEF SessionIds, Ids
<1>2. \A n \in Names : n \notin Ids
  BY HoldingsNames, HoldingsBounds DEF Ids
<1>3. NoWorkspace \notin Workspace
  <2>1. \A w \in Workspace : w.name \in Names
    BY DEF Workspace
  <2>2. NoWorkspace.name = None
    BY DEF NoWorkspace
  <2>. QED BY <1>1, <2>1, <2>2
<1>4. NoPorts \in Allocations
  BY DEF NoPorts, Allocations
<1>5. Idle \in Call
  BY <1>4 DEF Idle, Call, Stage
<1>6. NoSession \in Session
  BY DEF NoSession, Session
<1>. QED BY <1>1, <1>2, <1>3, <1>4, <1>5, <1>6 DEF Keys

(* The snapshot of a registry has only workspaces. *)
LEMMA RegisteredType ==
  ASSUME NEW registry \in [Keys -> Workspace \cup {NoWorkspace}]
  PROVE  Registered(registry) \subseteq Workspace
BY DEF Registered

(* A goroutine that takes a snapshot of the workspaces. *)
LEMMA WriteType ==
  ASSUME ws' \in [Keys -> Workspace \cup {NoWorkspace}],
         call \in [Callers -> Call],
         NEW c \in Callers, NEW state \in Call, NEW then \in {"idle", "create"},
         Write(c, state, then)
  PROVE  call' \in [Callers -> Call]
<1>1. Registered(ws') \subseteq Workspace
  BY RegisteredType
<1>2. [state EXCEPT !.stage = "write", !.then = then, !.workspaces = Registered(ws')] \in Call
  BY <1>1 DEF Call, Stage
<1>. QED BY <1>2 DEF Write

LEMMA TypeInit == Init => TypeOK
<1>. SUFFICES ASSUME Init PROVE TypeOK
  OBVIOUS
<1>1. ws \in [Keys -> Workspace \cup {NoWorkspace}] /\ wsFile \subseteq Workspace
  BY DEF Init
<1>2. sess \in [SessionIds -> Session] /\ call \in [Callers -> Call]
  BY Constants DEF Init
<1>3. taken \in Allocations /\ portsFile \in Allocations
  BY Constants DEF Init
<1>. QED BY <1>1, <1>2, <1>3, HoldingsBounds DEF Init, TypeOK

(* A goroutine that goes to another stage, or ends. *)
LEMMA StepType ==
  ASSUME call \in [Callers -> Call], NEW c \in Callers
  PROVE  /\ Ends(c) => call' \in [Callers -> Call]
         /\ \A stage \in Stage : Goto(c, stage) => call' \in [Callers -> Call]
<1>1. Ends(c) => call' \in [Callers -> Call]
  BY Constants DEF Ends
<1>2. ASSUME NEW stage \in Stage, Goto(c, stage)
      PROVE  call' \in [Callers -> Call]
  <2>1. [call[c] EXCEPT !.stage = stage] \in Call
    BY DEF Call
  <2>. QED BY <1>2, <2>1 DEF Goto
<1>. QED BY <1>1, <1>2

(* The groups of variables that the actions change, one lemma each, so     *)
(* that the proof for a step has only what the step is about.              *)
TypePorts ==
  /\ taken \in Allocations
  /\ portsFile \in Allocations
  /\ foreign \subseteq Ports
  /\ held \subseteq {p \in Ports : taken[p] # None} \ foreign

TypeWorkspaces ==
  /\ ws \in [Keys -> Workspace \cup {NoWorkspace}]
  /\ wsSeq \in 0 .. MaxWorkspaces
  /\ added \in 0 .. MaxWorkspaces
  /\ wsFile \subseteq Workspace

TypeDaemon ==
  /\ up \in BOOLEAN
  /\ crashes \in 0 .. MaxCrashes
  /\ begun \in 0 .. MaxCalls

LEMMA TypeParts ==
  TypeOK <=> /\ TypeDaemon /\ TypePorts /\ TypeWorkspaces
             /\ sess \in [SessionIds -> Session]
             /\ call \in [Callers -> Call]
BY DEF TypeOK, TypeDaemon, TypePorts, TypeWorkspaces

LEMMA TypeDaemonNext ==
  ASSUME TypeDaemon, Next
  PROVE  TypeDaemon'
<1>. USE HoldingsBounds DEF TypeDaemon
<1>1. CASE Crash
  <2>1. up' = FALSE /\ crashes < MaxCrashes /\ crashes' = crashes + 1 /\ UNCHANGED begun
    BY <1>1 DEF Crash
  <2>2. up' \in BOOLEAN
    BY <2>1, Zenon
  <2>. QED BY <2>1, <2>2
<1>2. CASE Recover
  <2>1. up' = TRUE /\ UNCHANGED <<crashes, begun>>
    BY <1>2 DEF Recover
  <2>2. up' \in BOOLEAN
    BY <2>1, Zenon
  <2>. QED BY <2>1, <2>2
<1>3. ASSUME NEW p \in Ports, Bind(p) \/ Unbind(p)
      PROVE  TypeDaemon'
  BY <1>3 DEF Bind, Unbind
<1>4. ASSUME NEW c \in Callers, Begin(c), UNCHANGED <<up, crashes>>
      PROVE  TypeDaemon'
  BY <1>4 DEF Begin
<1>5. ASSUME NEW c \in Callers, NEW stage, At(c, stage), UNCHANGED <<up, crashes>>
      PROVE  TypeDaemon'
  BY <1>5 DEF At
<1>6. ASSUME NEW c \in Callers,
             \/ \E s \in SessionIds :
                  \/ TerminateSession(c, s)
                  \/ \E p \in Ports : AllocatePort(c, s, p)
             \/ \E name \in Names : CreateWorkspace(c, name) \/ CreateWorkspaceFails(c, name)
             \/ \E key \in Keys \cup {None} : CreateSession(c, key)
             \/ \E key \in Keys : CheckWorkspace(c, key)
      PROVE  TypeDaemon'
  BY <1>4, <1>6 DEF TerminateSession, AllocatePort, CreateWorkspace,
     CreateWorkspaceFails, CreateSession, CheckWorkspace
<1>7. ASSUME NEW c \in Callers,
             \/ \E s \in SessionIds : InsertSession(c, s)
             \/ ReleasePorts(c) \/ SnapshotPorts(c) \/ WritePorts(c) \/ Finish(c)
             \/ WriteWorkspaces(c) \/ InsertRefused(c) \/ SaveSession(c)
             \/ MarkSession(c) \/ RemoveWorkspace(c) \/ PersistWorkspaces(c)
      PROVE  TypeDaemon'
  BY <1>5, <1>7 DEF InsertSession, ReleasePorts, SnapshotPorts, WritePorts, Finish,
     WriteWorkspaces, InsertRefused, SaveSession, MarkSession, RemoveWorkspace,
     PersistWorkspaces
<1>. QED BY <1>1, <1>2, <1>3, <1>6, <1>7 DEF Next

LEMMA TypePortsNext ==
  ASSUME TypePorts, Down, call \in [Callers -> Call], Next
  PROVE  TypePorts'
<1>. USE DEF TypePorts
<1>1. CASE Crash
  BY <1>1, Constants DEF Crash
<1>2. CASE Recover
  <2>. DEFINE stays == {p \in Ports : portsFile[p] \in Known \ Live}
  <2>1. held' = {} /\ UNCHANGED foreign
    BY <1>2 DEF Recover, Down
  <2>2. taken' = [p \in Ports |-> IF p \in stays THEN portsFile[p] ELSE None]
        /\ portsFile' = taken'
    BY <1>2 DEF Recover
  <2>3. taken' \in Allocations
    BY <2>2 DEF Allocations
  <2>. QED BY <2>1, <2>2, <2>3
<1>3. ASSUME NEW p \in Ports, Bind(p) \/ Unbind(p)
      PROVE  TypePorts'
  BY <1>3 DEF Bind, Unbind
<1>4. ASSUME NEW c \in Callers, NEW s \in SessionIds, NEW p \in Ports, AllocatePort(c, s, p)
      PROVE  TypePorts'
  <2>1. s # None
    BY Constants
  <2>. QED BY <1>4, <2>1 DEF AllocatePort, Allocations
<1>5. ASSUME NEW c \in Callers, ReleasePorts(c)
      PROVE  TypePorts'
  <2>. DEFINE released == {p \in Ports : taken[p] = call[c].session}
  <2>1. taken' = [p \in Ports |-> IF p \in released THEN None ELSE taken[p]]
        /\ held' = held \ released /\ UNCHANGED <<foreign, portsFile>>
    BY <1>5 DEF ReleasePorts
  <2>2. taken' \in Allocations
    BY <2>1 DEF Allocations
  <2>. QED BY <2>1, <2>2
<1>6. ASSUME NEW c \in Callers, WritePorts(c)
      PROVE  TypePorts'
  BY <1>6 DEF WritePorts, Call
<1>7. ASSUME UNCHANGED portVars
      PROVE  TypePorts'
  BY <1>7 DEF portVars
<1>8. ASSUME NEW c \in Callers,
             \/ \E s \in SessionIds : TerminateSession(c, s) \/ InsertSession(c, s)
             \/ \E name \in Names : CreateWorkspace(c, name) \/ CreateWorkspaceFails(c, name)
             \/ \E key \in Keys \cup {None} : CreateSession(c, key)
             \/ \E key \in Keys : CheckWorkspace(c, key)
             \/ SnapshotPorts(c) \/ Finish(c)
             \/ WriteWorkspaces(c) \/ InsertRefused(c) \/ SaveSession(c)
             \/ MarkSession(c) \/ RemoveWorkspace(c) \/ PersistWorkspaces(c)
      PROVE  UNCHANGED portVars
  BY <1>8 DEF TerminateSession, InsertSession, CreateWorkspace, CreateWorkspaceFails,
     CreateSession, CheckWorkspace, SnapshotPorts, Finish, WriteWorkspaces, InsertRefused,
     SaveSession, MarkSession, RemoveWorkspace, PersistWorkspaces
<1>. QED BY <1>1, <1>2, <1>3, <1>4, <1>5, <1>6, <1>7, <1>8 DEF Next

LEMMA TypeWorkspacesNext ==
  ASSUME TypeWorkspaces, call \in [Callers -> Call], Next
  PROVE  TypeWorkspaces'
<1>. USE HoldingsBounds DEF TypeWorkspaces
<1>1. CASE Crash
  <2>1. ws' = [k \in Keys |-> NoWorkspace] /\ wsSeq' = 0 /\ UNCHANGED <<added, wsFile>>
    BY <1>1 DEF Crash
  <2>. QED BY <2>1
<1>2. CASE Recover
  <2>1. UNCHANGED <<wsSeq, added, wsFile>>
        /\ ws' \in [Keys -> wsFile \cup {NoWorkspace}]
    BY <1>2 DEF Recover
  <2>. QED BY <2>1
<1>3. ASSUME NEW c \in Callers, NEW name \in Names, CreateWorkspace(c, name)
      PROVE  TypeWorkspaces'
  <2>1. /\ added < MaxWorkspaces /\ wsSeq < MaxWorkspaces
        /\ wsSeq' = wsSeq + 1 /\ added' = added + 1 /\ UNCHANGED wsFile
        /\ ws' = [ws EXCEPT ![name] = [dir |-> added', id |-> wsSeq', name |-> name]]
    BY <1>3 DEF CreateWorkspace
  <2>2. [dir |-> added', id |-> wsSeq', name |-> name] \in Workspace
    BY <2>1 DEF Workspace, Dirs, Ids
  <2>3. ws' \in [Keys -> Workspace \cup {NoWorkspace}]
    BY <2>1, <2>2
  <2>4. wsSeq' \in 0 .. MaxWorkspaces /\ added' \in 0 .. MaxWorkspaces
    BY <2>1
  <2>. QED BY <2>1, <2>3, <2>4
<1>4. ASSUME NEW c \in Callers, NEW name \in Names, CreateWorkspaceFails(c, name)
      PROVE  TypeWorkspaces'
  BY <1>4 DEF CreateWorkspaceFails
<1>5. ASSUME NEW c \in Callers, WriteWorkspaces(c)
      PROVE  TypeWorkspaces'
  BY <1>5 DEF WriteWorkspaces, Call
<1>6. ASSUME NEW c \in Callers, RemoveWorkspace(c)
      PROVE  TypeWorkspaces'
  BY <1>6 DEF RemoveWorkspace
<1>7. ASSUME UNCHANGED workspaceVars
      PROVE  TypeWorkspaces'
  BY <1>7 DEF workspaceVars
<1>8. ASSUME NEW p \in Ports, Bind(p) \/ Unbind(p)
      PROVE  UNCHANGED workspaceVars
  BY <1>8 DEF Bind, Unbind
<1>9. ASSUME NEW c \in Callers,
             \/ \E s \in SessionIds :
                  \/ TerminateSession(c, s)
                  \/ InsertSession(c, s)
                  \/ \E p \in Ports : AllocatePort(c, s, p)
             \/ \E key \in Keys \cup {None} : CreateSession(c, key)
             \/ \E key \in Keys : CheckWorkspace(c, key)
             \/ ReleasePorts(c) \/ SnapshotPorts(c) \/ WritePorts(c) \/ Finish(c)
             \/ InsertRefused(c) \/ SaveSession(c)
             \/ MarkSession(c) \/ PersistWorkspaces(c)
      PROVE  UNCHANGED workspaceVars
  BY <1>9 DEF TerminateSession, InsertSession, AllocatePort, CreateSession, CheckWorkspace,
     ReleasePorts, SnapshotPorts, WritePorts, Finish, InsertRefused, SaveSession,
     MarkSession, PersistWorkspaces
<1>. QED BY <1>1, <1>2, <1>3, <1>4, <1>5, <1>6, <1>7, <1>8, <1>9 DEF Next

(* The steps that leave sessions alone. *)
LEMMA SessionsUnchanged ==
  ASSUME Next
  PROVE  \/ UNCHANGED sess
         \/ Crash \/ Recover
         \/ \E c \in Callers : \/ \E s \in SessionIds : InsertSession(c, s)
                               \/ Finish(c) \/ SaveSession(c)
<1>1. ASSUME NEW p \in Ports, Bind(p) \/ Unbind(p)
      PROVE  UNCHANGED sess
  BY <1>1 DEF Bind, Unbind
<1>2. ASSUME NEW c \in Callers,
             \/ \E s \in SessionIds :
                  \/ TerminateSession(c, s)
                  \/ \E p \in Ports : AllocatePort(c, s, p)
             \/ \E name \in Names : CreateWorkspace(c, name) \/ CreateWorkspaceFails(c, name)
             \/ \E key \in Keys \cup {None} : CreateSession(c, key)
             \/ \E key \in Keys : CheckWorkspace(c, key)
             \/ ReleasePorts(c) \/ SnapshotPorts(c) \/ WritePorts(c)
             \/ WriteWorkspaces(c) \/ InsertRefused(c)
             \/ MarkSession(c) \/ RemoveWorkspace(c) \/ PersistWorkspaces(c)
      PROVE  UNCHANGED sess
  BY <1>2 DEF TerminateSession, AllocatePort, CreateWorkspace, CreateWorkspaceFails,
     CreateSession, CheckWorkspace, ReleasePorts, SnapshotPorts, WritePorts,
     WriteWorkspaces, InsertRefused, MarkSession, RemoveWorkspace, PersistWorkspaces
<1>. QED BY <1>1, <1>2 DEF Next

LEMMA TypeSessionsNext ==
  ASSUME sess \in [SessionIds -> Session], TypeWorkspaces, call \in [Callers -> Call], Next
  PROVE  sess' \in [SessionIds -> Session]
<1>1. CASE Crash
  <2>1. sess' = [s \in SessionIds |-> IF sess[s].state = "new" THEN NoSession ELSE sess[s]]
    BY <1>1 DEF Crash
  <2>. QED BY <2>1, Constants
<1>2. CASE Recover
  <2>1. sess' = [s \in SessionIds |->
                   IF s \in Live THEN [sess[s] EXCEPT !.state = "stopped"] ELSE sess[s]]
    BY <1>2 DEF Recover
  <2>2. \A s \in SessionIds : [sess[s] EXCEPT !.state = "stopped"] \in Session
    BY DEF Session
  <2>. QED BY <2>1, <2>2
<1>3. ASSUME NEW c \in Callers, NEW s \in SessionIds, InsertSession(c, s)
      PROVE  sess' \in [SessionIds -> Session]
  <2>1. [state |-> "new", ws |-> call[c].key, dir |-> call[c].dir] \in Session
    BY DEF Call, Session
  <2>. QED BY <1>3, <2>1 DEF InsertSession
<1>4. ASSUME NEW c \in Callers, Finish(c)
      PROVE  sess' \in [SessionIds -> Session]
  <2>1. sess' = [sess EXCEPT ![call[c].session].state = "stopped"]
    BY <1>4 DEF Finish
  <2>2. \A s \in SessionIds : [sess[s] EXCEPT !.state = "stopped"] \in Session
    BY DEF Session
  <2>. QED BY <2>1, <2>2
<1>5. ASSUME NEW c \in Callers, SaveSession(c)
      PROVE  sess' \in [SessionIds -> Session]
  <2>1. \/ UNCHANGED sess
        \/ sess' = [sess EXCEPT ![call[c].session].state = "live"]
    BY <1>5 DEF SaveSession
  <2>2. \A s \in SessionIds : [sess[s] EXCEPT !.state = "live"] \in Session
    BY DEF Session
  <2>. QED BY <2>1, <2>2
<1>. QED BY <1>1, <1>2, <1>3, <1>4, <1>5, SessionsUnchanged

LEMMA TypeCallNext ==
  ASSUME TypePorts, TypeWorkspaces, TypeWorkspaces', call \in [Callers -> Call], Next
  PROVE  call' \in [Callers -> Call]
<1>1. CASE Crash
  <2>1. call' = [c \in Callers |-> Idle]
    BY <1>1 DEF Crash
  <2>. QED BY <2>1, Constants
<1>2. CASE Recover \/ \E p \in Ports : Bind(p) \/ Unbind(p)
  BY <1>2 DEF Recover, Bind, Unbind
<1>3. ASSUME NEW c \in Callers, NEW s \in SessionIds, TerminateSession(c, s)
      PROVE  call' \in [Callers -> Call]
  <2>1. [Idle EXCEPT !.stage = "release", !.session = s] \in Call
    BY Constants DEF Call, Stage
  <2>. QED BY <1>3, <2>1 DEF TerminateSession
<1>4. ASSUME NEW c \in Callers, NEW s \in SessionIds, InsertSession(c, s)
      PROVE  call' \in [Callers -> Call]
  <2>1. call' = [call EXCEPT ![c].stage = "save", ![c].session = s]
    BY <1>4 DEF InsertSession
  <2>2. [[call[c] EXCEPT !.stage = "save"] EXCEPT !.session = s] \in Call
    BY DEF Call, Stage
  <2>. QED BY <2>1, <2>2
<1>5. ASSUME NEW c \in Callers, SnapshotPorts(c)
      PROVE  call' \in [Callers -> Call]
  <2>1. call' = [call EXCEPT ![c].stage = "writePorts", ![c].ports = taken]
    BY <1>5 DEF SnapshotPorts
  <2>2. [[call[c] EXCEPT !.stage = "writePorts"] EXCEPT !.ports = taken] \in Call
    BY DEF Call, Stage, TypePorts
  <2>. QED BY <2>1, <2>2
<1>6. ASSUME NEW c \in Callers, NEW name \in Names, CreateWorkspace(c, name)
      PROVE  call' \in [Callers -> Call]
  BY <1>6, Constants, WriteType DEF CreateWorkspace, TypeWorkspaces
<1>7. ASSUME NEW c \in Callers, NEW key \in Keys \cup {None}, CreateSession(c, key)
      PROVE  call' \in [Callers -> Call]
  <2>. DEFINE state == [Idle EXCEPT !.stage = "create", !.key = key]
  <2>1. state \in Call
    BY Constants DEF Call, Stage
  <2>2. CASE key # None /\ ws[key] # NoWorkspace
    <3>1. Write(c, [state EXCEPT !.dir = ws[key].dir], "create")
      BY <1>7, <2>2 DEF CreateSession
    <3>2. ws[key] \in Workspace
      BY <2>2 DEF TypeWorkspaces
    <3>3. [state EXCEPT !.dir = ws[key].dir] \in Call
      BY <2>1, <3>2 DEF Call, Workspace
    <3>. HIDE DEF state
    <3>. QED BY <3>1, <3>3, WriteType DEF TypeWorkspaces
  <2>3. CASE ~(key # None /\ ws[key] # NoWorkspace)
    <3>1. call' = [call EXCEPT ![c] = state]
      BY <1>7, <2>3 DEF CreateSession
    <3>. QED BY <2>1, <3>1
  <2>. QED BY <2>2, <2>3
<1>8. ASSUME NEW c \in Callers, NEW key \in Keys, CheckWorkspace(c, key)
      PROVE  call' \in [Callers -> Call]
  <2>1. [Idle EXCEPT !.stage = "remove", !.key = key, !.seen = Known] \in Call
    BY Constants DEF Call, Stage, Known
  <2>. QED BY <1>8, <2>1 DEF CheckWorkspace
<1>9. ASSUME NEW c \in Callers, MarkSession(c) \/ PersistWorkspaces(c)
      PROVE  call' \in [Callers -> Call]
  <2>1. Write(c, call[c], "idle") \/ Ends(c)
    BY <1>9 DEF MarkSession, PersistWorkspaces
  <2>. QED BY <2>1, StepType, WriteType DEF TypeWorkspaces
<1>10. ASSUME NEW c \in Callers, WriteWorkspaces(c)
      PROVE  call' \in [Callers -> Call]
  <2>1. call[c].then \in Stage
    BY DEF Call, Stage
  <2>2. Ends(c) \/ Goto(c, call[c].then)
    BY <1>10 DEF WriteWorkspaces
  <2>. QED BY <2>1, <2>2, StepType
<1>11. ASSUME NEW c \in Callers,
              \/ ReleasePorts(c) \/ WritePorts(c) \/ Finish(c)
              \/ InsertRefused(c) \/ SaveSession(c) \/ RemoveWorkspace(c)
      PROVE  call' \in [Callers -> Call]
  <2>1. Ends(c) \/ \E stage \in {"finish", "snapshot", "mark", "persist"} : Goto(c, stage)
    BY <1>11 DEF ReleasePorts, WritePorts, Finish, InsertRefused, SaveSession, RemoveWorkspace
  <2>. QED BY <2>1, StepType DEF Stage
<1>12. ASSUME NEW c \in Callers,
              \/ \E s \in SessionIds : \E p \in Ports : AllocatePort(c, s, p)
              \/ \E name \in Names : CreateWorkspaceFails(c, name)
      PROVE  call' \in [Callers -> Call]
  BY <1>12 DEF AllocatePort, CreateWorkspaceFails
<1>. QED
  BY <1>1, <1>2, <1>3, <1>4, <1>5, <1>6, <1>7, <1>8, <1>9, <1>10, <1>11, <1>12 DEF Next

LEMMA TypeNext ==
  ASSUME TypeOK, Down, Next
  PROVE  TypeOK'
<1>1. TypeDaemon' /\ TypePorts' /\ TypeWorkspaces'
  BY TypeParts, TypeDaemonNext, TypePortsNext, TypeWorkspacesNext
<1>2. sess' \in [SessionIds -> Session] /\ call' \in [Callers -> Call]
  BY <1>1, TypeParts, TypeSessionsNext, TypeCallNext
<1>. QED BY <1>1, <1>2 DEF TypeOK, TypeDaemon, TypePorts, TypeWorkspaces

-----------------------------------------------------------------------------
(* The steps, by what they change *)

(* A step of c that changes no session, no port in the table and no        *)
(* workspace, of a goroutine that is and will be elsewhere than before the *)
(* removal of a workspace.                                                 *)
Quiet(c) ==
  /\ up /\ up'
  /\ UNCHANGED <<sess, taken, held, ws>>
  /\ call[c].stage # "remove"
  /\ call'[c].stage # "remove"
  /\ \A d \in Callers \ {c} : call'[d] = call[d]

(* What is left of a step when its own goroutine changes only.             *)
Own(c) ==
  /\ \A d \in Callers \ {c} : call'[d] = call[d]
  /\ call'[c].stage # "remove"

(* Ends and Goto change the goroutine of c, and leave it elsewhere.        *)
LEMMA OwnStep ==
  ASSUME call \in [Callers -> Call], NEW c \in Callers
  PROVE  /\ Ends(c) => Own(c)
         /\ \A stage \in Stage \ {"remove"} :
              Goto(c, stage) => Own(c) /\ call'[c].stage = stage
         /\ \A state \in Call : \A then \in Stage : Write(c, state, then) => Own(c)
<1>1. Ends(c) => Own(c)
  BY DEF Ends, Own, Idle
<1>2. ASSUME NEW stage \in Stage \ {"remove"}, Goto(c, stage)
      PROVE  Own(c) /\ call'[c].stage = stage
  BY <1>2 DEF Goto, Own, Call
<1>3. ASSUME NEW state \in Call, NEW then \in Stage, Write(c, state, then)
      PROVE  Own(c)
  BY <1>3 DEF Write, Own, Call
<1>. QED BY <1>1, <1>2, <1>3

LEMMA QuietSteps ==
  ASSUME TypeOK, NEW c \in Callers,
         \/ \E s \in SessionIds : TerminateSession(c, s)
         \/ SnapshotPorts(c) \/ WritePorts(c)
         \/ \E name \in Names : CreateWorkspaceFails(c, name)
         \/ WriteWorkspaces(c)
         \/ \E key \in Keys \cup {None} : CreateSession(c, key)
         \/ InsertRefused(c) \/ MarkSession(c) \/ PersistWorkspaces(c)
  PROVE  Quiet(c)
<1>. USE DEF portVars, workspaceVars
<1>0. call \in [Callers -> Call] /\ call[c] \in Call
  BY DEF TypeOK
<1>1. ASSUME NEW s \in SessionIds, TerminateSession(c, s)
      PROVE  Quiet(c)
  <2>1. call' = [call EXCEPT ![c] = [Idle EXCEPT !.stage = "release", !.session = s]]
        /\ up /\ call[c].stage = "idle" /\ UNCHANGED <<up, sess, taken, held, ws>>
    BY <1>1 DEF TerminateSession, Begin
  <2>. QED BY <1>0, <2>1 DEF Quiet, Idle
<1>2. CASE SnapshotPorts(c)
  BY <1>0, <1>2 DEF SnapshotPorts, At, Quiet, Call
<1>3. CASE WritePorts(c)
  <2>1. up /\ call[c].stage = "writePorts" /\ UNCHANGED <<up, sess, taken, held, ws>>
        /\ Goto(c, "finish")
    BY <1>3 DEF WritePorts, At
  <2>. QED BY <1>0, <2>1, OwnStep DEF Quiet, Own, Stage
<1>4. ASSUME NEW name \in Names, CreateWorkspaceFails(c, name)
      PROVE  Quiet(c)
  BY <1>4 DEF CreateWorkspaceFails, Begin, Quiet
<1>5. CASE WriteWorkspaces(c)
  <2>1. up /\ call[c].stage = "write" /\ UNCHANGED <<up, sess, taken, held, ws>>
    BY <1>5 DEF WriteWorkspaces, At
  <2>2. call[c].then \in {"idle", "create"}
    BY <1>0 DEF Call
  <2>3. Own(c)
    BY <1>0, <1>5, <2>2, OwnStep DEF WriteWorkspaces, Stage
  <2>. QED BY <2>1, <2>3 DEF Quiet, Own
<1>6. ASSUME NEW key \in Keys \cup {None}, CreateSession(c, key)
      PROVE  Quiet(c)
  <2>. DEFINE state == [Idle EXCEPT !.stage = "create", !.key = key]
  <2>1. up /\ call[c].stage = "idle" /\ UNCHANGED <<up, sess, taken, held, ws>>
    BY <1>6 DEF CreateSession, Begin
  <2>2. state \in Call /\ state.stage = "create"
    BY Constants DEF Call, Stage, Idle
  <2>3. CASE key # None /\ ws[key] # NoWorkspace
    <3>1. Write(c, [state EXCEPT !.dir = ws[key].dir], "create")
      BY <1>6, <2>3 DEF CreateSession
    <3>2. [state EXCEPT !.dir = ws[key].dir] \in Call
      <4>1. ws[key] \in Workspace
        BY <2>3 DEF TypeOK
      <4>. QED BY <2>2, <4>1 DEF Call, Workspace
    <3>. HIDE DEF state
    <3>. QED BY <1>0, <2>1, <3>1, <3>2, OwnStep DEF Quiet, Own, Stage
  <2>4. CASE ~(key # None /\ ws[key] # NoWorkspace)
    <3>1. call' = [call EXCEPT ![c] = state]
      BY <1>6, <2>4 DEF CreateSession
    <3>. HIDE DEF state
    <3>. QED BY <1>0, <2>1, <2>2, <3>1 DEF Quiet
  <2>. QED BY <2>3, <2>4
<1>7. CASE InsertRefused(c)
  BY <1>0, <1>7, OwnStep DEF InsertRefused, At, Quiet, Own
<1>8. CASE MarkSession(c) \/ PersistWorkspaces(c)
  <2>1. up /\ call[c].stage \in {"mark", "persist"} /\ UNCHANGED <<up, sess, taken, held, ws>>
        /\ (Write(c, call[c], "idle") \/ Ends(c))
    BY <1>8 DEF MarkSession, PersistWorkspaces, At
  <2>. QED BY <1>0, <2>1, OwnStep DEF Quiet, Own, Stage
<1>. QED BY <1>1, <1>2, <1>3, <1>4, <1>5, <1>6, <1>7, <1>8

(* Every step, with the quiet ones taken together.                         *)
LEMMA Steps ==
  ASSUME TypeOK, Next
  PROVE  \/ Crash \/ Recover
         \/ \E p \in Ports : Bind(p) \/ Unbind(p)
         \/ \E c \in Callers :
              \/ \E s \in SessionIds : InsertSession(c, s) \/ \E p \in Ports : AllocatePort(c, s, p)
              \/ \E name \in Names : CreateWorkspace(c, name)
              \/ \E key \in Keys : CheckWorkspace(c, key)
              \/ ReleasePorts(c) \/ Finish(c) \/ SaveSession(c)
              \/ RemoveWorkspace(c)
              \/ Quiet(c)
BY QuietSteps DEF Next

-----------------------------------------------------------------------------
(* Ports *)

LEMMA DownNext ==
  ASSUME TypeOK, Down, Next
  PROVE  Down'
<1>1. CASE Crash
  BY <1>1 DEF Crash, Down
<1>2. CASE Recover
  BY <1>2 DEF Recover, Down
<1>3. ASSUME NEW p \in Ports, Bind(p) \/ Unbind(p)
      PROVE  Down'
  BY <1>3 DEF Bind, Unbind, Down
<1>4. ASSUME NEW c \in Callers,
             \/ \E s \in SessionIds : InsertSession(c, s) \/ \E p \in Ports : AllocatePort(c, s, p)
             \/ \E name \in Names : CreateWorkspace(c, name)
             \/ \E key \in Keys : CheckWorkspace(c, key)
             \/ ReleasePorts(c) \/ Finish(c) \/ SaveSession(c)
             \/ RemoveWorkspace(c)
             \/ Quiet(c)
      PROVE  up'
  <2>1. up /\ (up' = up \/ up')
    BY <1>4 DEF InsertSession, AllocatePort, CreateWorkspace, CheckWorkspace, ReleasePorts,
       Finish, SaveSession, RemoveWorkspace, Quiet, Begin, At
  <2>. QED BY <2>1, Zenon
<1>. QED BY <1>1, <1>2, <1>3, <1>4, Steps DEF Down

(* When ports keep their sessions or lose them, with their listeners, and  *)
(* no session comes back to life, nothing is left without a listener.      *)
LEMMA PortsShrink ==
  ASSUME Owned, LivePortsHeld, Known \subseteq Known', Live' \subseteq Live,
         \A p \in Ports : taken'[p] = None \/ (taken'[p] = taken[p] /\ (p \in held => p \in held'))
  PROVE  Owned' /\ LivePortsHeld'
<1>1. None \notin Live'
  BY Constants DEF Live
<1>. QED BY <1>1 DEF Owned, LivePortsHeld

LEMMA OwnedNext ==
  ASSUME TypeOK, Down, Owned, LivePortsHeld, Next
  PROVE  Owned' /\ LivePortsHeld'
<1>. USE DEF TypeOK
<1>0. None \notin Known' /\ None \notin Live' /\ None \notin Live
  BY Constants DEF Known, Live
<1>1. CASE Crash
  <2>1. \A p \in Ports : taken'[p] = None
    BY <1>1 DEF Crash, NoPorts
  <2>. QED BY <1>0, <2>1 DEF Owned, LivePortsHeld
<1>2. CASE Recover
  <2>1. \A s \in SessionIds :
          sess'[s] = IF s \in Live THEN [sess[s] EXCEPT !.state = "stopped"] ELSE sess[s]
    BY <1>2 DEF Recover
  <2>2. Live' = {}
    BY <2>1 DEF Live, Session
  <2>3. Known \subseteq Known'
    BY <2>1 DEF Known, Session
  <2>4. \A p \in Ports : taken'[p] = None \/ taken'[p] \in Known
    BY <1>2 DEF Recover
  <2>. QED BY <2>2, <2>3, <2>4 DEF Owned, LivePortsHeld
<1>3. ASSUME NEW p \in Ports, Bind(p) \/ Unbind(p)
      PROVE  Owned' /\ LivePortsHeld'
  BY <1>3 DEF Bind, Unbind, Owned, LivePortsHeld, Known, Live
<1>4. ASSUME NEW c \in Callers, NEW s \in SessionIds, NEW p \in Ports, AllocatePort(c, s, p)
      PROVE  Owned' /\ LivePortsHeld'
  <2>1. s \in Known /\ taken' = [taken EXCEPT ![p] = s] /\ held' = held \cup {p}
        /\ UNCHANGED sess
    BY <1>4 DEF AllocatePort
  <2>2. Known' = Known /\ Live' = Live
    BY <2>1 DEF Known, Live
  <2>3. \A q \in Ports : taken'[q] = IF q = p THEN s ELSE taken[q]
    BY <2>1 DEF Allocations
  <2>. QED BY <2>1, <2>2, <2>3 DEF Owned, LivePortsHeld
<1>5. ASSUME NEW c \in Callers, ReleasePorts(c)
      PROVE  Owned' /\ LivePortsHeld'
  <2>. DEFINE released == {p \in Ports : taken[p] = call[c].session}
  <2>1. taken' = [p \in Ports |-> IF p \in released THEN None ELSE taken[p]]
        /\ held' = held \ released /\ UNCHANGED sess
    BY <1>5 DEF ReleasePorts
  <2>2. Known' = Known /\ Live' = Live
    BY <2>1 DEF Known, Live
  <2>. QED BY <2>1, <2>2, PortsShrink
<1>6. ASSUME NEW c \in Callers, NEW s \in SessionIds, InsertSession(c, s)
      PROVE  Owned' /\ LivePortsHeld'
  <2>1. s \notin Known /\ UNCHANGED <<taken, held>>
        /\ sess' = [sess EXCEPT ![s] = [state |-> "new", ws |-> call[c].key,
                                        dir |-> call[c].dir]]
    BY <1>6 DEF InsertSession, portVars, Known
  <2>2. Known' = Known \cup {s} /\ Live' = Live \cup {s}
    BY <2>1 DEF Known, Live
  <2>3. \A p \in Ports : taken[p] # s
    BY <2>1, Constants DEF Owned
  <2>. QED BY <2>1, <2>2, <2>3 DEF Owned, LivePortsHeld
<1>7. ASSUME NEW c \in Callers, Finish(c) \/ SaveSession(c)
      PROVE  Owned' /\ LivePortsHeld'
  <2>1. UNCHANGED <<taken, held>>
    BY <1>7 DEF Finish, SaveSession, portVars
  <2>2. Known \subseteq Known' /\ Live' \subseteq Live
    BY <1>7 DEF Finish, SaveSession, Known, Live, Session
  <2>. QED BY <2>1, <2>2, PortsShrink
<1>8. ASSUME NEW c \in Callers,
             \/ \E name \in Names : CreateWorkspace(c, name)
             \/ \E key \in Keys : CheckWorkspace(c, key)
             \/ RemoveWorkspace(c)
             \/ Quiet(c)
      PROVE  Owned' /\ LivePortsHeld'
  <2>1. UNCHANGED <<taken, held, sess>>
    BY <1>8 DEF CreateWorkspace, CheckWorkspace, RemoveWorkspace, Quiet, portVars
  <2>2. Known' = Known /\ Live' = Live
    BY <2>1 DEF Known, Live
  <2>. QED BY <2>1, <2>2, PortsShrink
<1>. QED BY <1>1, <1>2, <1>3, <1>4, <1>5, <1>6, <1>7, <1>8, Steps

-----------------------------------------------------------------------------
(* Workspaces *)

LEMMA NamesKeyedNext ==
  ASSUME TypeOK, NamesKeyed, Next
  PROVE  NamesKeyed'
<1>0. Names \subseteq Keys /\ ws \in [Keys -> Workspace \cup {NoWorkspace}]
  BY DEF Keys, TypeOK
<1>1. CASE Crash
  BY <1>0, <1>1 DEF Crash, NamesKeyed
<1>2. CASE Recover
  BY <1>2 DEF Recover, Restored, NamesKeyed
<1>3. ASSUME NEW c \in Callers, NEW name \in Names, CreateWorkspace(c, name)
      PROVE  NamesKeyed'
  <2>1. ws' = [ws EXCEPT ![name] = [dir |-> added', id |-> wsSeq', name |-> name]]
    BY <1>3 DEF CreateWorkspace
  <2>. QED BY <1>0, <2>1 DEF NamesKeyed
<1>4. ASSUME NEW c \in Callers, RemoveWorkspace(c)
      PROVE  NamesKeyed'
  <2>1. ws' = [ws EXCEPT ![call[c].key] = NoWorkspace]
    BY <1>4 DEF RemoveWorkspace
  <2>. QED BY <1>0, <2>1 DEF NamesKeyed
<1>5. ASSUME UNCHANGED ws
      PROVE  NamesKeyed'
  BY <1>5 DEF NamesKeyed
<1>6. ASSUME NEW p \in Ports, Bind(p) \/ Unbind(p)
      PROVE  UNCHANGED ws
  BY <1>6 DEF Bind, Unbind, workspaceVars
<1>7. ASSUME NEW c \in Callers,
             \/ \E s \in SessionIds : InsertSession(c, s) \/ \E p \in Ports : AllocatePort(c, s, p)
             \/ \E key \in Keys : CheckWorkspace(c, key)
             \/ ReleasePorts(c) \/ Finish(c) \/ SaveSession(c)
             \/ Quiet(c)
      PROVE  UNCHANGED ws
  BY <1>7 DEF InsertSession, AllocatePort, CheckWorkspace, ReleasePorts, Finish, SaveSession,
     Quiet, workspaceVars
<1>. QED BY <1>1, <1>2, <1>3, <1>4, <1>5, <1>6, <1>7, Steps

(* A goroutine about to remove stays right when what it has does not       *)
(* change, no session it may have seen comes back to life or changes its   *)
(* workspace, and what its key stands for is the same or nothing.          *)
LEMMA CheckedStays ==
  ASSUME NEW c \in Callers, Checked(c), call'[c] = call[c],
         Known \subseteq Known', Live' \cap Known \subseteq Live,
         \A s \in Known : sess'[s].ws = sess[s].ws,
         ws'[call[c].key] = ws[call[c].key] \/ ws'[call[c].key] = NoWorkspace
  PROVE  Checked(c)'
BY DEF Checked

(* The steps that leave the workspaces: every goroutine but that of the    *)
(* step stays right by the lemma above, and that one is not about to       *)
(* remove.                                                                 *)
LEMMA CheckedOthers ==
  ASSUME AllChecked, NEW c \in Callers, Own(c),
         Known \subseteq Known', Live' \cap Known \subseteq Live,
         \A s \in Known : sess'[s].ws = sess[s].ws,
         UNCHANGED ws
  PROVE  AllChecked'
<1>1. ASSUME NEW d \in Callers, d # c
      PROVE  Checked(d)'
  BY <1>1, CheckedStays DEF AllChecked, Own
<1>2. Checked(c)'
  BY DEF Own, Checked
<1>. QED BY <1>1, <1>2 DEF AllChecked

LEMMA AllCheckedNext ==
  ASSUME TypeOK, Down, NamesKeyed, AllChecked, Next
  PROVE  AllChecked'
<1>0. call \in [Callers -> Call] /\ sess \in [SessionIds -> Session]
      /\ ws \in [Keys -> Workspace \cup {NoWorkspace}] /\ Idle \in Call
  BY Constants DEF TypeOK
<1>1. CASE Crash
  <2>1. \A c \in Callers : call'[c].stage = "idle"
    BY <1>1 DEF Crash, Idle
  <2>. QED BY <2>1 DEF AllChecked, Checked
<1>2. CASE Recover
  <2>1. call' = [c \in Callers |-> Idle]
    BY <1>2 DEF Recover, Down
  <2>2. \A c \in Callers : call'[c].stage = "idle"
    BY <2>1 DEF Idle
  <2>. QED BY <2>2 DEF AllChecked, Checked
<1>3. ASSUME UNCHANGED <<sess, ws, call>>
      PROVE  AllChecked'
  BY <1>3 DEF AllChecked, Checked, Known, Live
<1>4. ASSUME NEW p \in Ports, Bind(p) \/ Unbind(p)
      PROVE  UNCHANGED <<sess, ws, call>>
  BY <1>4 DEF Bind, Unbind, workspaceVars
<1>5. ASSUME NEW c \in Callers, NEW s \in SessionIds, NEW p \in Ports, AllocatePort(c, s, p)
      PROVE  UNCHANGED <<sess, ws, call>>
  BY <1>5 DEF AllocatePort, workspaceVars
<1>6. ASSUME NEW c \in Callers, NEW s \in SessionIds, InsertSession(c, s)
      PROVE  AllChecked'
  <2>1. s \notin Known /\ UNCHANGED ws
        /\ sess' = [sess EXCEPT ![s] = [state |-> "new", ws |-> call[c].key,
                                        dir |-> call[c].dir]]
        /\ call' = [call EXCEPT ![c].stage = "save", ![c].session = s]
    BY <1>6 DEF InsertSession, workspaceVars, Known
  <2>2. Own(c)
    BY <1>0, <2>1 DEF Own, Call
  <2>3. Known \subseteq Known' /\ Live' \cap Known \subseteq Live
        /\ \A t \in Known : sess'[t].ws = sess[t].ws
    BY <1>0, <2>1 DEF Known, Live
  <2>. QED BY <2>1, <2>2, <2>3, CheckedOthers
<1>7. ASSUME NEW c \in Callers, Finish(c) \/ SaveSession(c)
      PROVE  AllChecked'
  <2>1. UNCHANGED ws
    BY <1>7 DEF Finish, SaveSession, workspaceVars
  <2>2. Own(c)
    <3>1. Ends(c) \/ Goto(c, "mark")
      BY <1>7 DEF Finish, SaveSession
    <3>. QED BY <1>0, <3>1, OwnStep DEF Stage
  <2>3. Known \subseteq Known' /\ Live' \cap Known \subseteq Live
        /\ \A t \in Known : sess'[t].ws = sess[t].ws
    BY <1>0, <1>7 DEF Finish, SaveSession, Known, Live, Session
  <2>. QED BY <2>1, <2>2, <2>3, CheckedOthers
<1>8. ASSUME NEW c \in Callers, NEW name \in Names, CreateWorkspace(c, name)
      PROVE  AllChecked'
  <2>1. ws' = [ws EXCEPT ![name] = [dir |-> added', id |-> wsSeq', name |-> name]]
        /\ UNCHANGED sess /\ Write(c, Idle, "idle")
    BY <1>8 DEF CreateWorkspace
  <2>2. Own(c)
    BY <1>0, <2>1, OwnStep DEF Stage
  <2>3. Known' = Known /\ Live' = Live
    BY <2>1 DEF Known, Live
  <2>4. name \in Keys /\ ws'[name].name = name
        /\ \A k \in Keys \ {name} : ws'[k] = ws[k]
    BY <1>0, <2>1 DEF Keys
  <2>5. ASSUME NEW d \in Callers, d # c, call[d].stage = "remove"
        PROVE  Checked(d)'
    <3>1. Checked(d) /\ call'[d] = call[d]
      BY <2>2, <2>5 DEF AllChecked, Own
    <3>2. CASE call[d].key = name
      BY <2>1, <2>3, <2>4, <2>5, <3>1, <3>2 DEF Checked
    <3>3. CASE call[d].key # name
      <4>1. ws'[call[d].key] = ws[call[d].key]
        BY <2>4, <2>5, <3>1, <3>3 DEF Checked
      <4>. QED BY <2>1, <2>3, <3>1, <4>1, CheckedStays
    <3>. QED BY <3>2, <3>3
  <2>6. ASSUME NEW d \in Callers, d = c \/ call[d].stage # "remove"
        PROVE  Checked(d)'
    BY <2>2, <2>6 DEF Own, Checked
  <2>. QED BY <2>5, <2>6 DEF AllChecked
<1>9. ASSUME NEW c \in Callers, RemoveWorkspace(c)
      PROVE  AllChecked'
  <2>1. ws' = [ws EXCEPT ![call[c].key] = NoWorkspace] /\ UNCHANGED sess
        /\ (Ends(c) \/ Goto(c, "persist"))
    BY <1>9 DEF RemoveWorkspace
  <2>2. Own(c)
    BY <1>0, <2>1, OwnStep DEF Stage
  <2>3. Known' = Known /\ Live' = Live
    BY <2>1 DEF Known, Live
  <2>4. \A k \in Keys : ws'[k] = ws[k] \/ ws'[k] = NoWorkspace
    BY <1>0, <2>1
  <2>5. ASSUME NEW d \in Callers, d # c, call[d].stage = "remove"
        PROVE  Checked(d)'
    <3>1. Checked(d) /\ call'[d] = call[d] /\ call[d].key \in Keys
      BY <2>2, <2>5 DEF AllChecked, Own, Checked
    <3>. QED BY <2>1, <2>3, <2>4, <3>1, CheckedStays
  <2>6. ASSUME NEW d \in Callers, d = c \/ call[d].stage # "remove"
        PROVE  Checked(d)'
    BY <2>2, <2>6 DEF Own, Checked
  <2>. QED BY <2>5, <2>6 DEF AllChecked
<1>10. ASSUME NEW c \in Callers, NEW key \in Keys, CheckWorkspace(c, key)
      PROVE  AllChecked'
  <2>1. /\ ws[key] # NoWorkspace /\ ~InUse(ws[key])
        /\ call' = [call EXCEPT ![c] = [Idle EXCEPT !.stage = "remove", !.key = key,
                                                    !.seen = Known]]
        /\ UNCHANGED <<sess, ws>>
    BY <1>10 DEF CheckWorkspace, workspaceVars
  <2>2. Known' = Known /\ Live' = Live
    BY <2>1 DEF Known, Live
  <2>3. call'[c].key = key /\ call'[c].seen = Known
        /\ \A d \in Callers \ {c} : call'[d] = call[d]
    BY <1>0, <2>1 DEF Idle
  <2>4. Checked(c)'
    <3>1. \A s \in Known : sess[s].ws = ws[key].name => s \notin Live
      BY <2>1 DEF InUse
    <3>2. key \in Names => ws[key].name = key
      BY <2>1 DEF NamesKeyed
    <3>. QED BY <2>1, <2>2, <2>3, <3>1, <3>2 DEF Checked
  <2>5. ASSUME NEW d \in Callers, d # c
        PROVE  Checked(d)'
    BY <2>1, <2>2, <2>3, <2>5, CheckedStays DEF AllChecked
  <2>. QED BY <2>4, <2>5 DEF AllChecked
<1>11. ASSUME NEW c \in Callers, ReleasePorts(c)
      PROVE  AllChecked'
  <2>1. UNCHANGED <<sess, ws>> /\ (Goto(c, "finish") \/ Goto(c, "snapshot"))
    BY <1>11 DEF ReleasePorts, workspaceVars
  <2>2. Own(c)
    BY <1>0, <2>1, OwnStep DEF Stage
  <2>3. Known' = Known /\ Live' = Live
    BY <2>1 DEF Known, Live
  <2>. QED BY <2>1, <2>2, <2>3, CheckedOthers
<1>12. ASSUME NEW c \in Callers, Quiet(c)
      PROVE  AllChecked'
  <2>1. UNCHANGED <<sess, ws>> /\ Own(c)
    BY <1>12 DEF Quiet, Own
  <2>2. Known' = Known /\ Live' = Live
    BY <2>1 DEF Known, Live
  <2>. QED BY <2>1, <2>2, CheckedOthers
<1>. QED
  BY <1>1, <1>2, <1>3, <1>4, <1>5, <1>6, <1>7, <1>8, <1>9, <1>10, <1>11, <1>12, Steps

-----------------------------------------------------------------------------
(* The invariant and the theorems *)

LEMMA InvInit == Init => Inv
<1>. SUFFICES ASSUME Init PROVE Inv
  OBVIOUS
<1>1. TypeOK
  BY TypeInit
<1>2. \A p \in Ports : taken[p] = None
  BY DEF Init, NoPorts
<1>3. None \notin Live
  BY Constants DEF Live
<1>4. NamesKeyed
  BY DEF Init, NamesKeyed, Keys
<1>5. AllChecked
  BY DEF Init, AllChecked, Checked, Idle
<1>6. Down
  BY DEF Init, Down
<1>. QED BY <1>1, <1>2, <1>3, <1>4, <1>5, <1>6 DEF Inv, Owned, LivePortsHeld

LEMMA InvNext == Inv /\ [Next]_vars => Inv'
<1>. SUFFICES ASSUME Inv, [Next]_vars PROVE Inv'
  OBVIOUS
<1>1. CASE Next
  BY <1>1, TypeNext, DownNext, OwnedNext, NamesKeyedNext, AllCheckedNext DEF Inv
<1>2. CASE UNCHANGED vars
  BY <1>2 DEF vars, portVars, workspaceVars, Inv, TypeOK, Down, Owned, LivePortsHeld,
     NamesKeyed, AllChecked, Checked, Known, Live
<1>. QED BY <1>1, <1>2

LEMMA Invariance == Spec => []Inv
BY InvInit, InvNext, PTL DEF Spec

(* Every variable has its type; the daemon has listeners for ports in the  *)
(* table only, and never on a port that another process is bound to.       *)
THEOREM TypeCorrect == Spec => []TypeOK
<1>1. Inv => TypeOK
  BY DEF Inv
<1>. QED BY <1>1, Invariance, PTL

(* The port of a session that lives has a listener, whatever crashes and   *)
(* restarts there were (internal/ports/ports.go:89).                       *)
THEOREM LivePortsAreHeld == Spec => []LivePortsHeld
<1>1. Inv => LivePortsHeld
  BY DEF Inv
<1>. QED BY <1>1, Invariance, PTL

(* A port is never given to a second session, and is taken from the first  *)
(* only when that is terminated (internal/ports/ports.go:147).             *)
THEOREM PortsAreKept == Spec => PortsKept
<1>. DEFINE Kept == up /\ up' =>
       \A p \in Ports :
         taken[p] # None /\ taken'[p] # taken[p] =>
           /\ taken'[p] = None
           /\ \E c \in Callers : /\ call[c].stage = "release"
                                 /\ call[c].session = taken[p]
<1>1. ASSUME Inv, [Next]_vars
      PROVE  [Kept]_vars
  <2>1. TypeOK
    BY <1>1 DEF Inv
  <2>2. CASE UNCHANGED taken
    BY <2>2
  <2>3. CASE Crash \/ Recover
    BY <2>3 DEF Crash, Recover
  <2>4. ASSUME NEW c \in Callers, NEW s \in SessionIds, NEW p \in Ports, AllocatePort(c, s, p)
        PROVE  Kept
    BY <2>1, <2>4 DEF AllocatePort, TypeOK, Allocations
  <2>5. ASSUME NEW c \in Callers, ReleasePorts(c)
        PROVE  Kept
    <3>1. call[c].stage = "release"
          /\ taken' = [p \in Ports |-> IF p \in {q \in Ports : taken[q] = call[c].session}
                                         THEN None ELSE taken[p]]
      BY <2>5 DEF ReleasePorts, At
    <3>. QED BY <3>1
  <2>6. ASSUME NEW c \in Callers,
               \/ \E s \in SessionIds : InsertSession(c, s)
               \/ \E name \in Names : CreateWorkspace(c, name)
               \/ \E key \in Keys : CheckWorkspace(c, key)
               \/ Finish(c) \/ SaveSession(c) \/ RemoveWorkspace(c) \/ Quiet(c)
        PROVE  UNCHANGED taken
    BY <2>6 DEF InsertSession, CreateWorkspace, CheckWorkspace, Finish, SaveSession,
       RemoveWorkspace, Quiet, portVars
  <2>7. ASSUME NEW p \in Ports, Bind(p) \/ Unbind(p)
        PROVE  UNCHANGED taken
    BY <2>7 DEF Bind, Unbind
  <2>8. CASE UNCHANGED vars
    BY <2>8 DEF vars, portVars
  <2>. HIDE DEF Kept
  <2>. QED BY <1>1, <2>1, <2>2, <2>3, <2>4, <2>5, <2>6, <2>7, <2>8, Steps
<1>. QED BY <1>1, Invariance, PTL DEF Spec, PortsKept

(* No workspace goes while a session uses it by name that was there when   *)
(* its user looked for sessions (internal/daemon/service.go:503).          *)
THEOREM RemovalSparesSessions == Spec => RemovalSpares
<1>. DEFINE Spares == \A c \in Callers :
       call[c].stage = "remove" /\ call'[c].stage = "persist" =>
         \A s \in call[c].seen :
           sess[s].ws = ws[call[c].key].name => s \notin Live
<1>1. ASSUME Inv, [Next]_vars
      PROVE  [Spares]_vars
  <2>0. TypeOK /\ Down /\ call \in [Callers -> Call]
    BY <1>1 DEF Inv, TypeOK
  <2>1. ASSUME \A c \in Callers : call[c].stage = "remove" =>
                  call'[c] = call[c] \/ call'[c].stage = "idle"
        PROVE  Spares
    BY <2>1
  <2>2. CASE Crash
    BY <2>1, <2>2 DEF Crash, Idle
  <2>3. CASE Recover \/ UNCHANGED vars \/ \E p \in Ports : Bind(p) \/ Unbind(p)
    BY <2>1, <2>3 DEF Recover, vars, Bind, Unbind
  <2>4. ASSUME NEW c \in Callers, RemoveWorkspace(c)
        PROVE  Spares
    <3>1. call[c].stage = "remove" /\ (Ends(c) \/ (Goto(c, "persist") /\ ws[call[c].key] # NoWorkspace))
      BY <2>4 DEF RemoveWorkspace, At
    <3>2. \A d \in Callers \ {c} : call'[d] = call[d]
      BY <2>0, <3>1, OwnStep DEF Own, Stage
    <3>3. CASE Ends(c)
      <4>1. call'[c].stage = "idle"
        BY <2>0, <3>3 DEF Ends, Idle
      <4>. QED BY <2>1, <3>2, <4>1
    <3>4. CASE ws[call[c].key] # NoWorkspace
      <4>1. Checked(c)
        BY <1>1 DEF Inv, AllChecked
      <4>. QED BY <3>1, <3>2, <3>4, <4>1 DEF Checked
    <3>. QED BY <3>1, <3>3, <3>4
  <2>5. ASSUME NEW c \in Callers, call[c].stage # "remove",
               \A d \in Callers \ {c} : call'[d] = call[d]
        PROVE  Spares
    BY <2>1, <2>5
  <2>6. ASSUME NEW c \in Callers, NEW s \in SessionIds,
               InsertSession(c, s) \/ \E p \in Ports : AllocatePort(c, s, p)
        PROVE  Spares
    BY <2>0, <2>5, <2>6 DEF InsertSession, AllocatePort, At, Begin
  <2>7. ASSUME NEW c \in Callers, NEW name \in Names, CreateWorkspace(c, name)
        PROVE  Spares
    BY <2>0, <2>5, <2>7 DEF CreateWorkspace, Begin, Write
  <2>8. ASSUME NEW c \in Callers, NEW key \in Keys, CheckWorkspace(c, key)
        PROVE  Spares
    BY <2>0, <2>5, <2>8 DEF CheckWorkspace, Begin
  <2>9. ASSUME NEW c \in Callers, ReleasePorts(c) \/ Finish(c) \/ SaveSession(c)
        PROVE  Spares
    <3>1. call[c].stage # "remove"
          /\ (Ends(c) \/ \E stage \in {"finish", "snapshot", "mark"} : Goto(c, stage))
      BY <2>9 DEF ReleasePorts, Finish, SaveSession, At
    <3>2. Own(c)
      BY <2>0, <3>1, OwnStep DEF Stage
    <3>. QED BY <2>5, <3>1, <3>2 DEF Own
  <2>10. ASSUME NEW c \in Callers, Quiet(c)
        PROVE  Spares
    BY <2>5, <2>10 DEF Quiet
  <2>. HIDE DEF Spares
  <2>. QED BY <1>1, <2>0, <2>2, <2>3, <2>4, <2>6, <2>7, <2>8, <2>9, <2>10, Steps
<1>. QED BY <1>1, Invariance, PTL DEF Spec, RemovalSpares

=============================================================================
