----------------------------- MODULE StateFiles -----------------------------
(***************************************************************************)
(* What a restart finds: sessions.json and leases.json, written by the     *)
(* session manager and the lease manager through the store                 *)
(* (internal/session/manager.go, internal/lease/manager.go,                *)
(* internal/store/store.go), and read by Recover.                          *)
(*                                                                         *)
(* A mutation changes the table and takes a snapshot in one critical       *)
(* section; Save runs after it.  The snapshot is a list of pointers:       *)
(* which records the file will have is fixed under the mutex, what they    *)
(* contain is read by json.MarshalIndent record by record, while others    *)
(* change them (this data race is modelled as a read of each record at     *)
(* some time).  Then the file is renamed into place.  Saves of one file    *)
(* can overtake each other.                                                *)
(*                                                                         *)
(* Any Save can fail while the daemon serves; the old file stays then.     *)
(*                                                                         *)
(* Abstractions: the disk does not fail during Recover; resources are      *)
(* exclusive; a lease that ends can go to any session, as if that session  *)
(* were queued.                                                            *)
(***************************************************************************)
EXTENDS Integers, FiniteSets, FiniteSetsExt

CONSTANTS
  Callers,      \* goroutines that serve requests
  Resources,    \* exclusive resources
  None,         \* no resource
  MaxLive,      \* runtime.max_sessions
  MaxSessions,  \* bound: sessions created
  MaxLeases,    \* bound: leases granted
  MaxFaults     \* bound: crashes and failing saves

ASSUME FilesNone == None \notin Resources
ASSUME FilesBounds ==
  /\ MaxLive \in Nat
  /\ MaxSessions \in Nat
  /\ MaxLeases \in Nat
  /\ MaxFaults \in Nat

VARIABLES
  phase,     \* "up" while the daemon serves, else where Recover is
  faults,    \* crashes and failing saves so far
  sess,      \* the sessions by the number in their id
  sseq,      \* seq of the session manager
  leases,    \* the leases by the number in their id
  holders,   \* the LEASED leases of each resource
  lseq,      \* seq of the lease manager
  call,      \* the goroutines
  file       \* sessions.json and leases.json

vars == <<phase, faults, sess, sseq, leases, holders, lseq, call, file>>

-----------------------------------------------------------------------------

SessionIds == 1 .. MaxSessions
LeaseIds == 1 .. MaxLeases

SessionState == {"none", "READY", "RUNNING", "STOPPING", "STOPPED"}

Lease == [state: {"none", "LEASED", "RELEASED", "EXPIRED"},
          res: Resources \cup {None}, sess: SessionIds \cup {0}]

NoLease == [state |-> "none", res |-> None, sess |-> 0]

NoSessions == [i \in SessionIds |-> "none"]
NoLeases == [i \in LeaseIds |-> NoLease]

File == [sessions: [SessionIds -> SessionState], leases: [LeaseIds -> Lease]]

(* A goroutine: the file it is writing, the records it has not read yet,   *)
(* the ones it has, what it does when the file is written, and for which   *)
(* session.                                                                *)
Call == [key: {"none", "sessions", "leases"},
         left: SUBSET (SessionIds \cup LeaseIds), read: File,
         then: {"nothing", "stop", "release", "finish"},
         sess: SessionIds \cup {0}]

NoFile == [sessions |-> NoSessions, leases |-> NoLeases]

Idle == [key |-> "none", left |-> {}, read |-> NoFile, then |-> "nothing",
         sess |-> 0]

Init ==
  /\ phase = "up"
  /\ faults = 0
  /\ sess = NoSessions /\ sseq = 0
  /\ leases = NoLeases /\ lseq = 0
  /\ holders = [x \in Resources |-> {}]
  /\ call = [c \in Callers |-> Idle]
  /\ file = NoFile

Up == phase = "up"

Known == {i \in SessionIds : sess[i] # "none"}
Live == {i \in Known : sess[i] # "STOPPED"}
LeasesOf(s) == {l \in LeaseIds : leases[l].state = "LEASED" /\ leases[l].sess = s}

(* snapshotLocked and the call of Save. *)
SaveSessions(c, then, s) ==
  call' = [call EXCEPT ![c] = [Idle EXCEPT
             !.key = "sessions", !.left = Known', !.then = then, !.sess = s]]

SaveLeases(c, then, s) ==
  call' = [call EXCEPT ![c] = [Idle EXCEPT
             !.key = "leases", !.left = {l \in LeaseIds : leases'[l].state # "none"},
             !.then = then, !.sess = s]]

(* The lease table after these leases have ended. *)
Ended(ls, state) ==
  [l \in LeaseIds |-> IF l \in ls THEN [leases[l] EXCEPT !.state = state] ELSE leases[l]]

Without(ls) == [x \in Resources |-> holders[x] \ ls]

-----------------------------------------------------------------------------
(* Requests *)

(* m.sessions[id] = sess, whatever the map has at id. *)
CreateSession(c) ==
  /\ Up
  /\ call[c] = Idle
  /\ Cardinality(Live) < MaxLive
  /\ sseq < MaxSessions
  /\ sseq' = sseq + 1
  /\ sess' = [sess EXCEPT ![sseq + 1] = "READY"]
  /\ SaveSessions(c, "nothing", sseq + 1)
  /\ UNCHANGED <<phase, faults, leases, holders, lseq, file>>

(* Mutate saves also when it has changed nothing. *)
MarkRunning(c, s) ==
  /\ Up
  /\ call[c] = Idle
  /\ s \in Known
  /\ sess' = [sess EXCEPT ![s] = IF @ = "READY" THEN "RUNNING" ELSE @]
  /\ SaveSessions(c, "nothing", 0)
  /\ UNCHANGED <<phase, faults, sseq, leases, holders, lseq, file>>

Acquire(c, s, x) ==
  /\ Up
  /\ call[c] = Idle
  /\ s \in Known
  /\ holders[x] = {}
  /\ lseq < MaxLeases
  /\ lseq' = lseq + 1
  /\ leases' = [leases EXCEPT ![lseq + 1] = [state |-> "LEASED", res |-> x, sess |-> s]]
  /\ holders' = [holders EXCEPT ![x] = {lseq + 1}]
  /\ SaveLeases(c, "nothing", 0)
  /\ UNCHANGED <<phase, faults, sess, sseq, file>>

(* Nobody waits for the resource, ... *)
Release(c, l) ==
  /\ Up
  /\ call[c] = Idle
  /\ leases[l].state = "LEASED"
  /\ leases' = Ended({l}, "RELEASED")
  /\ holders' = Without({l})
  /\ SaveLeases(c, "nothing", 0)
  /\ UNCHANGED <<phase, faults, sess, sseq, lseq, file>>

(* ... or session s does: one critical section, one save. *)
HandOff(c, l, s) ==
  /\ Up
  /\ call[c] = Idle
  /\ s \in Known
  /\ leases[l].state = "LEASED"
  /\ lseq < MaxLeases
  /\ lseq' = lseq + 1
  /\ leases' = [Ended({l}, "RELEASED") EXCEPT
                  ![lseq + 1] = [state |-> "LEASED", res |-> leases[l].res, sess |-> s]]
  /\ holders' = [holders EXCEPT ![leases[l].res] = (@ \ {l}) \cup {lseq + 1}]
  /\ SaveLeases(c, "nothing", 0)
  /\ UNCHANGED <<phase, faults, sess, sseq, file>>

(* The test of the state and the transition are two critical sections. *)
TerminateSession(c, s) ==
  /\ Up
  /\ call[c] = Idle
  /\ s \in Live
  /\ call' = [call EXCEPT ![c].then = "stop", ![c].sess = s]
  /\ UNCHANGED <<phase, faults, sess, sseq, leases, holders, lseq, file>>

MarkStopping(c) ==
  /\ call[c].key = "none" /\ call[c].then = "stop"
  /\ sess' = [sess EXCEPT ![call[c].sess] = "STOPPING"]
  /\ SaveSessions(c, "release", call[c].sess)
  /\ UNCHANGED <<phase, faults, sseq, leases, holders, lseq, file>>

(* ReleaseAll saves only if it has released something. *)
ReleaseAll(c) ==
  /\ call[c].key = "none" /\ call[c].then = "release"
  /\ LET s == call[c].sess
         ended == LeasesOf(s)
     IN /\ leases' = Ended(ended, "RELEASED")
        /\ holders' = Without(ended)
        /\ IF ended # {} THEN SaveLeases(c, "finish", s)
                         ELSE call' = [call EXCEPT ![c].then = "finish"]
  /\ UNCHANGED <<phase, faults, sess, sseq, lseq, file>>

Finish(c) ==
  /\ call[c].key = "none" /\ call[c].then = "finish"
  /\ sess' = [sess EXCEPT ![call[c].sess] = "STOPPED"]
  /\ SaveSessions(c, "nothing", 0)
  /\ UNCHANGED <<phase, faults, sseq, leases, holders, lseq, file>>

-----------------------------------------------------------------------------
(* Save *)

Marshal(c, i) ==
  /\ i \in call[c].left
  /\ \/ /\ call[c].key = "sessions"
        /\ call' = [call EXCEPT ![c].left = @ \ {i}, ![c].read.sessions[i] = sess[i]]
     \/ /\ call[c].key = "leases"
        /\ call' = [call EXCEPT ![c].left = @ \ {i}, ![c].read.leases[i] = leases[i]]
  /\ UNCHANGED <<phase, faults, sess, sseq, leases, holders, lseq, file>>

(* Save returns, and the operation goes on: a request that ends with it     *)
(* passes an error on, the others ignore it, and neither undoes its change. *)
SaveReturns(c) ==
  /\ call[c].key # "none" /\ call[c].left = {}
  /\ call' = [call EXCEPT ![c] =
                IF @.then \in {"release", "finish"}
                THEN [Idle EXCEPT !.then = call[c].then, !.sess = call[c].sess]
                ELSE Idle]
  /\ UNCHANGED <<phase, sess, sseq, leases, holders, lseq>>

(* The file is replaced as a whole, ... *)
Rename(c) ==
  /\ SaveReturns(c)
  /\ file' = [file EXCEPT ![call[c].key] = call[c].read[call[c].key]]
  /\ UNCHANGED faults

(* ... or the disk is full, or the rename is refused: the old file stays. *)
SaveFails(c) ==
  /\ SaveReturns(c)
  /\ faults < MaxFaults
  /\ faults' = faults + 1
  /\ UNCHANGED file

-----------------------------------------------------------------------------
(* Crash and recovery *)

(* The process ends between any two steps; the files stay. *)
Crash ==
  /\ phase # "down"
  /\ faults < MaxFaults
  /\ faults' = faults + 1
  /\ phase' = "down"
  /\ sess' = NoSessions /\ sseq' = 0
  /\ leases' = NoLeases /\ lseq' = 0
  /\ holders' = [x \in Resources |-> {}]
  /\ call' = [c \in Callers |-> Idle]
  /\ UNCHANGED file

(* Mutant: the counter is resumed one too far. *)
NumbersShifted(records, absent) ==
  {i + 1 : i \in {j \in DOMAIN records : records[j] # absent}}

Numbers(records, absent) == {i \in DOMAIN records : records[i] # absent}

(* Mutant: the holder sets are not restored. *)
RestoreUnheld ==
  /\ phase = "down"
  /\ phase' = "restored"
  /\ sess' = file.sessions
  /\ sseq' = Max(Numbers(file.sessions, "none") \cup {0})
  /\ leases' = file.leases
  /\ lseq' = Max(Numbers(file.leases, NoLease) \cup {0})
  /\ UNCHANGED <<faults, holders, call, file>>

(* Mutant: the counters start from zero again. *)
RestoreFromZero ==
  /\ phase = "down"
  /\ phase' = "restored"
  /\ sess' = file.sessions
  /\ leases' = file.leases
  /\ holders' = [x \in Resources |->
                   {l \in LeaseIds : /\ file.leases[l].state = "LEASED"
                                     /\ file.leases[l].res = x}]
  /\ UNCHANGED <<faults, sseq, lseq, call, file>>

(* The two Restores; the first allocation of a process takes seq + 1. *)
Restore ==
  /\ phase = "down"
  /\ phase' = "restored"
  /\ sess' = file.sessions
  /\ sseq' = Max(Numbers(file.sessions, "none") \cup {0})
  /\ leases' = file.leases
  /\ holders' = [x \in Resources |->
                   {l \in LeaseIds : /\ file.leases[l].state = "LEASED"
                                     /\ file.leases[l].res = x}]
  /\ lseq' = Max(Numbers(file.leases, NoLease) \cup {0})
  /\ UNCHANGED <<faults, call, file>>

(* Nothing else runs during Recover: a change and its save are one step.   *)
(* An interrupted session loses its leases, ...                            *)
RecoverLeases(s) ==
  /\ phase = "restored"
  /\ s \in Live
  /\ LeasesOf(s) # {}
  /\ leases' = Ended(LeasesOf(s), "RELEASED")
  /\ holders' = Without(LeasesOf(s))
  /\ file' = [file EXCEPT !.leases = leases']
  /\ UNCHANGED <<phase, faults, sess, sseq, lseq, call>>

(* ... then it is STOPPED. *)
RecoverSession(s) ==
  /\ phase = "restored"
  /\ s \in Live
  /\ LeasesOf(s) = {}
  /\ sess' = [sess EXCEPT ![s] = "STOPPED"]
  /\ file' = [file EXCEPT !.sessions = sess']
  /\ UNCHANGED <<phase, faults, sseq, leases, holders, lseq, call>>

(* Mutant: the leases of STOPPED sessions are reaped, not those of unknown ones. *)
OrphanedStopped ==
  {l \in LeaseIds : /\ leases[l].state = "LEASED"
                    /\ leases[l].sess \in Known \ Live}

(* LEASED leases of sessions that sessions.json does not have. *)
Orphaned == {l \in LeaseIds : leases[l].state = "LEASED" /\ leases[l].sess \notin Known}

ReapOrphans ==
  /\ phase = "restored"
  /\ Live = {}
  /\ phase' = "reaped"
  /\ leases' = Ended(Orphaned, "EXPIRED")
  /\ holders' = Without(Orphaned)
  /\ file' = IF Orphaned = {} THEN file ELSE [file EXCEPT !.leases = leases']
  /\ UNCHANGED <<faults, sess, sseq, lseq, call>>

PersistLeases ==
  /\ phase = "reaped"
  /\ phase' = "persisted"
  /\ file' = [file EXCEPT !.leases = leases]
  /\ UNCHANGED <<faults, sess, sseq, leases, holders, lseq, call>>

PersistSessions ==
  /\ phase = "persisted"
  /\ phase' = "up"
  /\ file' = [file EXCEPT !.sessions = sess]
  /\ UNCHANGED <<faults, sess, sseq, leases, holders, lseq, call>>

Request(c) ==
  \/ CreateSession(c)
  \/ \E s \in SessionIds : MarkRunning(c, s) \/ TerminateSession(c, s)
  \/ \E s \in SessionIds, x \in Resources : Acquire(c, s, x)
  \/ \E l \in LeaseIds : Release(c, l) \/ \E s \in SessionIds : HandOff(c, l, s)

Continue(c) ==
  \/ MarkStopping(c) \/ ReleaseAll(c) \/ Finish(c)
  \/ \E i \in SessionIds \cup LeaseIds : Marshal(c, i)
  \/ Rename(c) \/ SaveFails(c)

Recover ==
  \/ Restore
  \/ \E s \in SessionIds : RecoverLeases(s) \/ RecoverSession(s)
  \/ ReapOrphans \/ PersistLeases \/ PersistSessions

Next ==
  \/ \E c \in Callers : Request(c) \/ Continue(c)
  \/ Crash
  \/ Recover

Spec == Init /\ [][Next]_vars

-----------------------------------------------------------------------------
(* Properties *)

(* Each variable has its type; the counters stay below the ids they give.  *)
TypeOK ==
  /\ phase \in {"up", "down", "restored", "reaped", "persisted"}
  /\ faults \in 0 .. MaxFaults
  /\ sess \in [SessionIds -> SessionState]
  /\ sseq \in 0 .. MaxSessions
  /\ leases \in [LeaseIds -> Lease]
  /\ holders \in [Resources -> SUBSET LeaseIds]
  /\ lseq \in 0 .. MaxLeases
  /\ call \in [Callers -> Call]
  /\ file \in File

OneLeased(records) ==
  \A l, k \in LeaseIds :
    records[l].state = "LEASED" /\ records[k].state = "LEASED"
      /\ records[l].res = records[k].res => l = k

(* An exclusive resource is LEASED at most once, in the table and in       *)
(* leases.json, whatever mixture of old and new records a save has read    *)
(* and whichever save came last; what Restore makes of the file preserves  *)
(* it (lease/manager.go Restore, snapshotLocked, Release).                 *)
OneHolder == OneLeased(leases) /\ OneLeased(file.leases)

(* While the daemon serves or recovers, no record is overwritten by        *)
(* another of the same id, no lease comes back after its end and no        *)
(* session becomes READY again: the counters restart above every id that   *)
(* the file has (the two Restores, createLocked, grant).                   *)
HistoryKept ==
  [][phase # "down" /\ phase' # "down" =>
       /\ \A s \in Known : sess'[s] \notin {"none", "READY"} \ {sess[s]}
       /\ \A l \in LeaseIds : leases[l].state # "none" =>
            /\ leases'[l].res = leases[l].res
            /\ leases'[l].sess = leases[l].sess
            /\ leases[l].state # "LEASED" => leases'[l].state = leases[l].state]_vars

(* When Recover ends, both files say the same of the past: every session   *)
(* in sessions.json is STOPPED, every LEASED lease in leases.json belongs  *)
(* to a session in sessions.json, although one of the two may have been    *)
(* the older when the daemon went down, and although Recover itself may    *)
(* have been cut short before (daemon/service.go Recover).                 *)
RecoveredSettled ==
  [][phase # "up" /\ phase' = "up" =>
       /\ \A s \in SessionIds : file'.sessions[s] \in {"none", "STOPPED"}
       /\ \A l \in LeaseIds : file'.leases[l].state = "LEASED" =>
            file'.sessions[file'.leases[l].sess] # "none"]_vars

=============================================================================
