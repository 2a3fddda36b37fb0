------------------------------ MODULE Holdings ------------------------------
(***************************************************************************)
(* What a session has besides leases: ports (internal/ports/ports.go) and  *)
(* the workspace it works in (internal/workspace/manager.go), with the     *)
(* operations of internal/daemon/service.go that use both managers, the    *)
(* files ports.json and workspaces.json, crashes, and what Recover makes   *)
(* of the files.                                                           *)
(*                                                                         *)
(* A caller is a goroutine in the middle of one operation.  One action is  *)
(* one critical section of a manager, or one write of a file.  Ports:      *)
(* Acquire writes ports.json before it unlocks, ReleaseBySession unlocks   *)
(* first and takes the snapshot that it writes in a critical section of    *)
(* its own.  Workspaces: the snapshot is taken under the mutex and written *)
(* after it.                                                               *)
(*                                                                         *)
(* Abstractions: a port is a number that the OS can give out, tcp and udp  *)
(* alike; sessions.json is up to date but for sessions that Create has not *)
(* saved yet (how it lags is the subject of StateFiles); the record of a   *)
(* workspace is its directory, its id and its name (LastSessionID, which   *)
(* nothing reads, is left out, the writes of MarkSession are not).         *)
(***************************************************************************)
EXTENDS Integers, FiniteSets, Functions

CONSTANTS
  Callers,        \* goroutines that serve requests
  Ports,          \* numbers the OS gives out
  Names,          \* names of workspaces
  None,           \* no session, no key
  MaxSessions,    \* bound: ids of sessions
  MaxWorkspaces,  \* bound: worktrees ever added
  MaxCalls,       \* bound: operations begun
  MaxCrashes      \* bound: crashes of the daemon

ASSUME HoldingsNone == None \notin Names \cup Nat
ASSUME HoldingsNames == Names \cap Nat = {}
ASSUME HoldingsBounds ==
  /\ MaxSessions \in Nat
  /\ MaxWorkspaces \in Nat
  /\ MaxCalls \in Nat
  /\ MaxCrashes \in Nat

VARIABLES
  up,       \* the daemon serves
  crashes,  \* how often it has crashed
  begun,    \* how many operations have begun
  sess,     \* the sessions
  taken,    \* ports.Manager.taken: the session that each port belongs to
  held,     \* ports.Manager.held: ports with a listener of the daemon
  foreign,  \* ports that another process is bound to
  portsFile,
  ws,       \* workspace.Manager.ws
  wsSeq,    \* the number of the last workspace id
  added,    \* worktrees ever added, the names of their directories
  wsFile,
  call      \* the goroutines

portVars == <<taken, held, foreign, portsFile>>
workspaceVars == <<ws, wsSeq, added, wsFile>>
vars == <<up, crashes, begun, sess, call, portVars, workspaceVars>>

-----------------------------------------------------------------------------

SessionIds == 1 .. MaxSessions
Ids == 1 .. MaxWorkspaces
Dirs == 1 .. MaxWorkspaces

(* A key of the map of workspaces: a name or, after a restart, an id. *)
Keys == Names \cup Ids

(* "new": in the table, not in sessions.json yet. *)
Session == [state: {"none", "new", "live", "stopped"}, ws: Keys \cup {None},
            dir: Dirs \cup {0}]

NoSession == [state |-> "none", ws |-> None, dir |-> 0]

Workspace == [dir: Dirs, id: Ids, name: Names]
NoWorkspace == [dir |-> 0, id |-> 0, name |-> None]

Allocations == [Ports -> SessionIds \cup {None}]
NoPorts == [p \in Ports |-> None]

(* A goroutine: what it does next, and what after a write of the           *)
(* workspaces; the workspace it names and its directory; the session it    *)
(* works for; the sessions that it saw; the snapshot that it will write.   *)
Stage == {"idle", "write", "create", "save", "mark", "remove", "persist",
          "release", "snapshot", "writePorts", "finish"}

Call == [stage: Stage, then: {"idle", "create"}, key: Keys \cup {None}, dir: Dirs \cup {0},
         session: SessionIds \cup {None}, seen: SUBSET SessionIds,
         workspaces: SUBSET Workspace, ports: Allocations]

Idle == [stage |-> "idle", then |-> "idle", key |-> None, dir |-> 0,
         session |-> None, seen |-> {}, workspaces |-> {}, ports |-> NoPorts]

Init ==
  /\ up = TRUE
  /\ crashes = 0
  /\ begun = 0
  /\ sess = [s \in SessionIds |-> NoSession]
  /\ taken = NoPorts
  /\ held = {}
  /\ foreign = {}
  /\ portsFile = NoPorts
  /\ ws = [k \in Keys |-> NoWorkspace]
  /\ wsSeq = 0
  /\ added = 0
  /\ wsFile = {}
  /\ call = [c \in Callers |-> Idle]

Known == {s \in SessionIds : sess[s].state # "none"}
Live == {s \in SessionIds : sess[s].state \in {"new", "live"}}

(* snapshotLocked of the workspace manager. *)
Registered(registry) == {registry[k] : k \in Keys} \ {NoWorkspace}

Begin(c) ==
  /\ up
  /\ call[c].stage = "idle"
  /\ begun < MaxCalls
  /\ begun' = begun + 1

At(c, stage) ==
  /\ up
  /\ call[c].stage = stage
  /\ UNCHANGED begun

Goto(c, stage) == call' = [call EXCEPT ![c].stage = stage]
Ends(c) == call' = [call EXCEPT ![c] = Idle]

(* Takes the snapshot that will be written to workspaces.json. *)
Write(c, state, then) ==
  call' = [call EXCEPT ![c] = [state EXCEPT
             !.stage = "write", !.then = then, !.workspaces = Registered(ws')]]

-----------------------------------------------------------------------------
(* Ports *)

(* Mutant: the port is probed, and its listener is not kept. *)
AllocateProbed(c, s, p) ==
  /\ Begin(c)
  /\ s \in Known
  /\ p \notin held \cup foreign
  /\ taken[p] = None
  /\ taken' = [taken EXCEPT ![p] = s]
  /\ portsFile' = taken'
  /\ UNCHANGED <<up, crashes, sess, held, foreign, call, workspaceVars>>

(* Mutant: the table is not asked, as if the OS knew every allocation. *)
AllocateUnchecked(c, s, p) ==
  /\ Begin(c)
  /\ s \in Known
  /\ p \notin held \cup foreign
  /\ taken' = [taken EXCEPT ![p] = s]
  /\ held' = held \cup {p}
  /\ portsFile' = taken'
  /\ UNCHANGED <<up, crashes, sess, foreign, call, workspaceVars>>

(* The OS gives a number that nobody is bound to; one that the table has   *)
(* is closed again and another is asked for.                               *)
AllocatePort(c, s, p) ==
  /\ Begin(c)
  /\ s \in Known
  /\ p \notin held \cup foreign
  /\ taken[p] = None
  /\ taken' = [taken EXCEPT ![p] = s]
  /\ held' = held \cup {p}
  /\ portsFile' = taken'
  /\ UNCHANGED <<up, crashes, sess, foreign, call, workspaceVars>>

(* Processes outside of the harness. *)
Bind(p) ==
  /\ p \notin held \cup foreign
  /\ foreign' = foreign \cup {p}
  /\ UNCHANGED <<up, crashes, begun, sess, taken, held, portsFile, call, workspaceVars>>

Unbind(p) ==
  /\ p \in foreign
  /\ foreign' = foreign \ {p}
  /\ UNCHANGED <<up, crashes, begun, sess, taken, held, portsFile, call, workspaceVars>>

TerminateSession(c, s) ==
  /\ Begin(c)
  /\ s \in Live
  /\ call' = [call EXCEPT ![c] = [Idle EXCEPT !.stage = "release", !.session = s]]
  /\ UNCHANGED <<up, crashes, sess, portVars, workspaceVars>>

(* Mutant: the listeners stay open. *)
ReleaseTable(c) ==
  LET released == {p \in Ports : taken[p] = call[c].session}
  IN  /\ At(c, "release")
      /\ taken' = [p \in Ports |-> IF p \in released THEN None ELSE taken[p]]
      /\ Goto(c, IF released = {} THEN "finish" ELSE "snapshot")
      /\ UNCHANGED <<up, crashes, sess, held, foreign, portsFile, workspaceVars>>

(* The critical section of ReleaseBySession. *)
ReleasePorts(c) ==
  LET released == {p \in Ports : taken[p] = call[c].session}
  IN  /\ At(c, "release")
      /\ taken' = [p \in Ports |-> IF p \in released THEN None ELSE taken[p]]
      /\ held' = held \ released
      /\ Goto(c, IF released = {} THEN "finish" ELSE "snapshot")
      /\ UNCHANGED <<up, crashes, sess, foreign, portsFile, workspaceVars>>

(* Persist: the snapshot, then Save. *)
SnapshotPorts(c) ==
  /\ At(c, "snapshot")
  /\ call' = [call EXCEPT ![c].stage = "writePorts", ![c].ports = taken]
  /\ UNCHANGED <<up, crashes, sess, portVars, workspaceVars>>

WritePorts(c) ==
  /\ At(c, "writePorts")
  /\ portsFile' = call[c].ports
  /\ Goto(c, "finish")
  /\ UNCHANGED <<up, crashes, sess, taken, held, foreign, workspaceVars>>

Finish(c) ==
  /\ At(c, "finish")
  /\ sess' = [sess EXCEPT ![call[c].session].state = "stopped"]
  /\ Ends(c)
  /\ UNCHANGED <<up, crashes, portVars, workspaceVars>>

-----------------------------------------------------------------------------
(* Workspaces *)

(* createLocked: the name must be free as a key; git adds the worktree in  *)
(* a directory that does not exist yet.                                    *)
CreateWorkspace(c, name) ==
  /\ Begin(c)
  /\ ws[name] = NoWorkspace
  /\ added < MaxWorkspaces /\ wsSeq < MaxWorkspaces
  /\ wsSeq' = wsSeq + 1
  /\ added' = added + 1
  /\ ws' = [ws EXCEPT ![name] = [dir |-> added', id |-> wsSeq', name |-> name]]
  /\ Write(c, Idle, "idle")
  /\ UNCHANGED <<up, crashes, sess, wsFile, portVars>>

(* git refuses, after the id was taken. *)
CreateWorkspaceFails(c, name) ==
  /\ Begin(c)
  /\ ws[name] = NoWorkspace
  /\ wsSeq < MaxWorkspaces
  /\ wsSeq' = wsSeq + 1
  /\ UNCHANGED <<up, crashes, sess, call, ws, added, wsFile, portVars>>

WriteWorkspaces(c) ==
  /\ At(c, "write")
  /\ wsFile' = call[c].workspaces
  /\ IF call[c].then = "idle" THEN Ends(c) ELSE Goto(c, call[c].then)
  /\ UNCHANGED <<up, crashes, sess, ws, wsSeq, added, portVars>>

(* CreateSession looks the workspace up by key and marks it; a key that is *)
(* not known is no error, the session then has no directory.               *)
CreateSession(c, key) ==
  LET state == [Idle EXCEPT !.stage = "create", !.key = key]
  IN  /\ Begin(c)
      /\ UNCHANGED <<up, crashes, sess, portVars, workspaceVars>>
      /\ IF key # None /\ ws[key] # NoWorkspace
           THEN Write(c, [state EXCEPT !.dir = ws[key].dir], "create")
           ELSE call' = [call EXCEPT ![c] = state]

(* Sessions.Create: the record, then sessions.json. *)
InsertSession(c, s) ==
  /\ At(c, "create")
  /\ sess[s].state = "none"
  /\ sess' = [sess EXCEPT ![s] = [state |-> "new", ws |-> call[c].key,
                                  dir |-> call[c].dir]]
  /\ call' = [call EXCEPT ![c].stage = "save", ![c].session = s]
  /\ UNCHANGED <<up, crashes, portVars, workspaceVars>>

(* The limit of sessions is reached, or a directory cannot be made. *)
InsertRefused(c) ==
  /\ At(c, "create")
  /\ Ends(c)
  /\ UNCHANGED <<up, crashes, sess, portVars, workspaceVars>>

SaveSession(c) ==
  LET s == call[c].session
  IN  /\ At(c, "save")
      /\ sess' = IF sess[s].state = "new" THEN [sess EXCEPT ![s].state = "live"] ELSE sess
      /\ IF call[c].key = None THEN Ends(c) ELSE Goto(c, "mark")
      /\ UNCHANGED <<up, crashes, portVars, workspaceVars>>

(* The second lookup, and MarkSession when it finds the workspace. *)
MarkSession(c) ==
  /\ At(c, "mark")
  /\ UNCHANGED <<up, crashes, sess, portVars, workspaceVars>>
  /\ IF ws[call[c].key] # NoWorkspace THEN Write(c, call[c], "idle") ELSE Ends(c)

(* Mutant: a session has the id of its workspace, not the name. *)
InUseById(w) == \E s \in Live : sess[s].ws = w.id

(* RemoveWorkspace: the lookup and the sessions it is in use by, compared  *)
(* by the name of the workspace.                                           *)
InUse(w) == \E s \in Live : sess[s].ws = w.name

CheckWorkspace(c, key) ==
  /\ Begin(c)
  /\ ws[key] # NoWorkspace
  /\ ~InUse(ws[key])
  /\ call' = [call EXCEPT ![c] = [Idle EXCEPT !.stage = "remove", !.key = key,
                                              !.seen = Known]]
  /\ UNCHANGED <<up, crashes, sess, portVars, workspaceVars>>

(* Remove: whatever the key stands for by now. *)
RemoveWorkspace(c) ==
  /\ At(c, "remove")
  /\ ws' = [ws EXCEPT ![call[c].key] = NoWorkspace]
  /\ IF ws[call[c].key] = NoWorkspace THEN Ends(c) ELSE Goto(c, "persist")
  /\ UNCHANGED <<up, crashes, sess, wsSeq, added, wsFile, portVars>>

PersistWorkspaces(c) ==
  /\ At(c, "persist")
  /\ UNCHANGED <<up, crashes, sess, portVars, workspaceVars>>
  /\ Write(c, call[c], "idle")

-----------------------------------------------------------------------------
(* Crash and Recover *)

Crash ==
  /\ up
  /\ crashes < MaxCrashes
  /\ crashes' = crashes + 1
  /\ up' = FALSE
  /\ sess' = [s \in SessionIds |-> IF sess[s].state = "new" THEN NoSession ELSE sess[s]]
  /\ taken' = NoPorts
  /\ held' = {}
  /\ ws' = [k \in Keys |-> NoWorkspace]
  /\ wsSeq' = 0
  /\ call' = [c \in Callers |-> Idle]
  /\ UNCHANGED <<begun, foreign, portsFile, added, wsFile>>

(* Restore of the workspaces: the map is keyed by id, the last record in   *)
(* the file with an id stays; the file has them in any order.              *)
Restored(registry) ==
  /\ \A name \in Names : registry[name] = NoWorkspace
  /\ \A id \in Ids : LET found == {w \in wsFile : w.id = id}
                     IN  IF found = {} THEN registry[id] = NoWorkspace
                                       ELSE registry[id] \in found

(* Restored ports of interrupted sessions go with ReleaseBySession, those  *)
(* of unknown sessions with ReapOrphans.  Recover serves nobody, and done  *)
(* again it ends in the same state, so it is one step.                     *)
Recover ==
  LET stays == {p \in Ports : portsFile[p] \in Known \ Live}
  IN  /\ ~up
      /\ up' = TRUE
      /\ taken' = [p \in Ports |-> IF p \in stays THEN portsFile[p] ELSE None]
      /\ portsFile' = taken'
      /\ sess' = [s \in SessionIds |->
                    IF s \in Live THEN [sess[s] EXCEPT !.state = "stopped"] ELSE sess[s]]
      /\ \E registry \in [Keys -> wsFile \cup {NoWorkspace}] :
            Restored(registry) /\ ws' = registry
      /\ UNCHANGED <<crashes, begun, held, foreign, wsSeq, added, wsFile, call>>

Next ==
  \/ Crash
  \/ Recover
  \/ \E p \in Ports : Bind(p) \/ Unbind(p)
  \/ \E c \in Callers :
       \/ \E s \in SessionIds :
            \/ TerminateSession(c, s)
            \/ InsertSession(c, s)
            \/ \E p \in Ports : AllocatePort(c, s, p)
       \/ \E name \in Names : CreateWorkspace(c, name) \/ CreateWorkspaceFails(c, name)
       \/ \E key \in Keys \cup {None} : CreateSession(c, key)
       \/ \E key \in Keys : CheckWorkspace(c, key)
       \/ ReleasePorts(c) \/ SnapshotPorts(c) \/ WritePorts(c) \/ Finish(c)
       \/ WriteWorkspaces(c) \/ InsertRefused(c) \/ SaveSession(c)
       \/ MarkSession(c) \/ RemoveWorkspace(c) \/ PersistWorkspaces(c)

Spec == Init /\ [][Next]_vars

-----------------------------------------------------------------------------
(* Properties *)

(* Types; and the daemon has a listener only for ports in the table, and   *)
(* on no port that another process is bound to.                            *)
TypeOK ==
  /\ up \in BOOLEAN
  /\ crashes \in 0 .. MaxCrashes
  /\ begun \in 0 .. MaxCalls
  /\ sess \in [SessionIds -> Session]
  /\ taken \in Allocations
  /\ portsFile \in Allocations
  /\ foreign \subseteq Ports
  /\ held \subseteq {p \in Ports : taken[p] # None} \ foreign
  /\ ws \in [Keys -> Workspace \cup {NoWorkspace}]
  /\ wsSeq \in 0 .. MaxWorkspaces
  /\ added \in 0 .. MaxWorkspaces
  /\ wsFile \subseteq Workspace
  /\ call \in [Callers -> Call]

(* The port of a session that lives has a listener of the daemon, so that  *)
(* nobody can steal it, across restarts too: those that come back without  *)
(* one belong to sessions that are over (ports.go:89, service.go:144).     *)
LivePortsHeld == \A p \in Ports : taken[p] \in Live => p \in held

(* A port never passes from one session to another, and a session loses    *)
(* one only when it is terminated or the daemon is gone, although the      *)
(* table has ports that are not bound after a restart (ports.go:147).      *)
PortsKept ==
  [][up /\ up' =>
       \A p \in Ports :
         taken[p] # None /\ taken'[p] # taken[p] =>
           /\ taken'[p] = None
           /\ \E c \in Callers : /\ call[c].stage = "release"
                                 /\ call[c].session = taken[p]]_vars

(* A workspace is not removed while a session uses it by name that was     *)
(* there when the caller looked (service.go:503); one that came later is   *)
(* not seen.                                                               *)
RemovalSpares ==
  [][\A c \in Callers :
       call[c].stage = "remove" /\ call'[c].stage = "persist" =>
         \A s \in call[c].seen :
           sess[s].ws = ws[call[c].key].name => s \notin Live]_vars

(* A worktree whose registration was in workspaces.json when the daemon    *)
(* went down is registered when it is up again: "workspaces survive,       *)
(* sessions are disposable" (README.md:121).                               *)
WorkspacesSurvive == [][Recover => wsFile \subseteq Registered(ws')]_vars
=============================================================================
