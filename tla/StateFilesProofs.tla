-------------------------- MODULE StateFilesProofs --------------------------
(***************************************************************************)
(* Safety of sessions.json and leases.json, for any number of goroutines,  *)
(* resources, sessions, leases, crashes and failing saves.  The heart of   *)
(* the invariant is what a save that is under way will write: the records  *)
(* it has read and, for those it has not, the table as it is now (Mixed).  *)
(***************************************************************************)
EXTENDS StateFiles, FiniteSetTheorems, WellFoundedInduction, TLAPS

(* A lease table, as it will be in the file. *)
Mixed(left, table, read) ==
  [l \in LeaseIds |-> IF l \in left THEN table[l] ELSE read[l]]

Held(table, x) ==
  {l \in LeaseIds : table[l].state = "LEASED" /\ table[l].res = x}

(* What no step of the daemon undoes in the table. *)
Kept(new, old) ==
  \A l \in LeaseIds : old[l].state # "none" =>
    /\ new[l].state # "none"
    /\ new[l].res = old[l].res
    /\ new[l].sess = old[l].sess
    /\ old[l].state # "LEASED" => new[l].state = old[l].state

(* Goroutine k: what is left to read exists, what it will write is sound,  *)
(* and its session is in the table.                                        *)
Sound(k, known, table) ==
  /\ k.key = "sessions" => k.left \subseteq known
  /\ k.key = "leases" =>
       /\ \A l \in k.left : l \in LeaseIds /\ table[l].state # "none"
       /\ OneLeased(Mixed(k.left, table, k.read.leases))
  /\ k.then # "nothing" => k.sess \in known

Given == {l \in LeaseIds : leases[l].state # "none"}

Numbered == Known \subseteq 1 .. sseq /\ Given \subseteq 1 .. lseq

Exact == \A x \in Resources : holders[x] = Held(leases, x)

Quiet == phase # "up" => \A c \in Callers : call[c] = Idle

Sounds == \A c \in Callers : Sound(call[c], Known, leases)

(* The last phases of Recover *)
Reaped ==
  /\ phase \in {"reaped", "persisted"} => Live = {} /\ Orphaned = {}
  /\ phase = "persisted" => file.leases = leases

Inv == TypeOK /\ Numbered /\ Exact /\ Quiet /\ Sounds /\ Reaped /\ OneHolder

-----------------------------------------------------------------------------
(* Tables of leases *)

Tables == [LeaseIds -> Lease]

(* A table with fewer LEASED leases is sound. *)
LEMMA FewerLeased ==
  ASSUME NEW new, NEW old, OneLeased(old),
         \A l \in LeaseIds : new[l].state = "LEASED" =>
           old[l].state = "LEASED" /\ new[l].res = old[l].res
  PROVE  OneLeased(new)
BY DEF OneLeased

EndedOf(old, ls, state) ==
  [l \in LeaseIds |-> IF l \in ls THEN [old[l] EXCEPT !.state = state] ELSE old[l]]

GrantedOf(old, n, r, s) ==
  [old EXCEPT ![n] = [state |-> "LEASED", res |-> r, sess |-> s]]

LEMMA EndedTable ==
  ASSUME NEW old \in Tables, NEW ls \in SUBSET LeaseIds,
         \A l \in ls : old[l].state = "LEASED",
         NEW state \in {"RELEASED", "EXPIRED"}
  PROVE  /\ EndedOf(old, ls, state) \in Tables
         /\ Kept(EndedOf(old, ls, state), old)
         /\ \A l \in LeaseIds :
              EndedOf(old, ls, state)[l].state = "none" <=> old[l].state = "none"
         /\ \A l \in LeaseIds : EndedOf(old, ls, state)[l].state = "LEASED" =>
              old[l].state = "LEASED" /\ l \notin ls /\ EndedOf(old, ls, state)[l] = old[l]
         /\ \A x : Held(EndedOf(old, ls, state), x) = Held(old, x) \ ls
         /\ OneLeased(old) => OneLeased(EndedOf(old, ls, state))
<1> DEFINE new == EndedOf(old, ls, state)
<1>1. \A l \in LeaseIds : old[l] \in Lease /\ old[l].state \in {"none", "LEASED", "RELEASED", "EXPIRED"}
  BY DEF Tables, Lease
<1>2. \A l \in LeaseIds : l \in ls =>
        /\ new[l] \in Lease /\ new[l].state = state
        /\ new[l].res = old[l].res /\ new[l].sess = old[l].sess
  BY <1>1 DEF Lease, EndedOf
<1>3. \A l \in LeaseIds : l \notin ls => new[l] = old[l]
  BY DEF EndedOf
<1>4. new \in Tables
  <2>1. \A l \in LeaseIds : new[l] \in Lease
    BY <1>1, <1>2, <1>3
  <2> QED
    BY <2>1 DEF Tables, EndedOf
<1> HIDE DEF new
<1>5. \A l \in LeaseIds : new[l].state = "LEASED" =>
        old[l].state = "LEASED" /\ l \notin ls /\ new[l] = old[l]
  BY <1>2, <1>3
<1>6. Kept(new, old) /\ \A l \in LeaseIds : new[l].state = "none" <=> old[l].state = "none"
  BY <1>2, <1>3 DEF Kept
<1>7. \A x : Held(new, x) = Held(old, x) \ ls
  BY <1>2, <1>3 DEF Held
<1> QED
  BY <1>3, <1>4, <1>5, <1>6, <1>7, FewerLeased DEF new

LEMMA GrantedTable ==
  ASSUME NEW old \in Tables, NEW n \in LeaseIds, old[n].state = "none",
         NEW r \in Resources \cup {None}, NEW s \in SessionIds,
         Held(old, r) = {}, OneLeased(old)
  PROVE  /\ GrantedOf(old, n, r, s) \in Tables
         /\ Kept(GrantedOf(old, n, r, s), old)
         /\ \A l \in LeaseIds :
              GrantedOf(old, n, r, s)[l].state # "none" => old[l].state # "none" \/ l = n
         /\ Held(GrantedOf(old, n, r, s), r) = {n}
         /\ \A y \in Resources : y # r => Held(GrantedOf(old, n, r, s), y) = Held(old, y)
         /\ OneLeased(GrantedOf(old, n, r, s))
<1> DEFINE e == [state |-> "LEASED", res |-> r, sess |-> s]
           new == GrantedOf(old, n, r, s)
<1>1. e \in Lease /\ e.state = "LEASED" /\ e.res = r
  BY DEF Lease
<1>2. new \in Tables /\ new[n] = e /\ \A l \in LeaseIds : l # n => new[l] = old[l]
  BY <1>1 DEF Tables, GrantedOf
<1> HIDE DEF e, new
<1>3. Kept(new, old)
  BY <1>2 DEF Kept
<1>4. /\ \A l \in LeaseIds : old[l].state = "LEASED" => old[l].res # r
      /\ \A y : n \notin Held(old, y)
  BY DEF Held
<1>5. Held(new, r) = {n} /\ \A y \in Resources : y # r => Held(new, y) = Held(old, y)
  BY <1>1, <1>2, <1>4 DEF Held
<1>6. OneLeased(new)
  BY <1>1, <1>2, <1>4 DEF OneLeased
<1> QED
  BY <1>2, <1>3, <1>5, <1>6 DEF new

(* A save under way stays sound. *)
LEMMA SoundKept ==
  ASSUME NEW k, NEW known, NEW more, known \subseteq more, NEW old, NEW new,
         Kept(new, old), Sound(k, known, old)
  PROVE  Sound(k, more, new)
<1>1. CASE k.key = "leases"
  <2> DEFINE m == Mixed(k.left, old, k.read.leases)
             n == Mixed(k.left, new, k.read.leases)
  <2>1. /\ \A l \in k.left : l \in LeaseIds /\ old[l].state # "none"
        /\ OneLeased(m)
    BY <1>1 DEF Sound
  <2>2. \A l \in LeaseIds : n[l].state = "LEASED" =>
          m[l].state = "LEASED" /\ n[l].res = m[l].res
    BY <2>1 DEF Mixed, Kept
  <2>3. \A l \in k.left : l \in LeaseIds /\ new[l].state # "none"
    BY <2>1 DEF Kept
  <2> HIDE DEF m, n
  <2>4. OneLeased(n)
    BY <2>1, <2>2, FewerLeased
  <2> QED
    BY <1>1, <2>3, <2>4 DEF Sound, n
<1>2. CASE k.key # "leases"
  BY <1>2 DEF Sound
<1> QED
  BY <1>1, <1>2

(* A new snapshot is sound. *)
LEMMA SnapshotSound ==
  ASSUME NEW table, OneLeased(table), NEW known, NEW k,
         k.key = "leases",
         k.left = {l \in LeaseIds : table[l].state # "none"},
         k.read.leases = NoLeases,
         k.then # "nothing" => k.sess \in known
  PROVE  Sound(k, known, table)
<1>1. \A l \in LeaseIds : Mixed(k.left, table, k.read.leases)[l].state = "LEASED" =>
        /\ table[l].state = "LEASED"
        /\ Mixed(k.left, table, k.read.leases)[l].res = table[l].res
  BY DEF Mixed, NoLeases, NoLease
<1>2. OneLeased(Mixed(k.left, table, k.read.leases))
  BY <1>1, FewerLeased
<1> QED
  BY <1>2 DEF Sound

(* The greatest of the numbers in a file *)
LEMMA Greatest ==
  ASSUME NEW N \in Nat, NEW T \in SUBSET (0 .. N), T # {}
  PROVE  Max(T) \in T /\ \A n \in T : n <= Max(T)
<1> DEFINE U == {N - n : n \in T}
           L == OpToRel(<, Nat)
<1>1. U \in SUBSET Nat /\ U # {}
  <2>1. \A n \in T : n \in 0 .. N /\ N - n \in Nat
    OBVIOUS
  <2> QED
    BY <2>1, Zenon
<1>2. ASSUME NEW x \in Nat, NEW y \in Nat, <<y, x>> \notin L
      PROVE  x <= y
  BY <1>2 DEF OpToRel
<1>3. IsWellFoundedOn(L, Nat)
  BY NatLessThanWellFounded
<1> HIDE DEF L
<1>4. PICK u \in U : \A v \in U : <<v, u>> \notin L
  <2> HIDE DEF U
  <2> QED
    BY <1>1, <1>3, WFMin
<1>5. PICK m \in T : u = N - m
  OBVIOUS
<1>6. \A n \in T : m >= n
  <2> TAKE n \in T
  <2>1. N - n \in U /\ N - n \in Nat /\ N - m \in Nat
    OBVIOUS
  <2>2. N - m <= N - n
    BY <1>2, <1>4, <1>5, <2>1
  <2> QED
    BY <2>2
<1>7. Max(T) \in T /\ \A n \in T : Max(T) >= n
  BY <1>6 DEF Max
<1> QED
  BY <1>7

-----------------------------------------------------------------------------
(* While the daemon serves: what a step of goroutine c does to the tables  *)
(* and to c.                                                               *)

(* Step: goroutine c is k after it, the tables only grow and keep what     *)
(* they had.                                                               *)
Works(c, k) ==
  /\ phase = "up" /\ UNCHANGED phase /\ faults' \in 0 .. MaxFaults
  /\ sess' \in [SessionIds -> SessionState] /\ sseq' \in 0 .. MaxSessions
  /\ leases' \in Tables /\ lseq' \in 0 .. MaxLeases
  /\ holders' \in [Resources -> SUBSET LeaseIds]
  /\ k \in Call /\ call' = [call EXCEPT ![c] = k]
  /\ Known \subseteq Known' /\ Numbered' /\ Exact'
  /\ Kept(leases', leases) /\ OneLeased(leases')
  /\ \A s \in Known : sess'[s] \notin {"none", "READY"} \ {sess[s]}

Saving(key, left, then, s) ==
  [Idle EXCEPT !.key = key, !.left = left, !.then = then, !.sess = s]

LEMMA SavingIs ==
  ASSUME NEW key \in {"sessions", "leases"},
         NEW left \in SUBSET (SessionIds \cup LeaseIds),
         NEW then \in {"nothing", "stop", "release", "finish"},
         NEW s \in SessionIds \cup {0}
  PROVE  /\ Saving(key, left, then, s) \in Call
         /\ Saving(key, left, then, s).key = key
         /\ Saving(key, left, then, s).left = left
         /\ Saving(key, left, then, s).then = then
         /\ Saving(key, left, then, s).sess = s
         /\ Saving(key, left, then, s).read.leases = NoLeases
<1>1. NoFile \in File
  BY DEF NoFile, File, NoSessions, NoLeases, NoLease, SessionState, Lease
<1> QED
  BY <1>1 DEF Saving, Idle, Call, NoFile

LEMMA IdleIs ==
  /\ Idle \in Call /\ Idle.key = "none" /\ Idle.then = "nothing" /\ Idle.left = {}
  /\ \A known, table : Sound(Idle, known, table)
<1>1. NoFile \in File
  BY DEF NoFile, File, NoSessions, NoLeases, NoLease, SessionState, Lease
<1> QED
  BY <1>1 DEF Idle, Call, Sound

LEMMA Counted ==
  ASSUME TypeOK, Numbered
  PROVE  /\ sseq \in Nat /\ lseq \in Nat
         /\ sseq < MaxSessions =>
              sseq + 1 \in SessionIds /\ sess[sseq + 1] = "none" /\ sseq + 1 \in 0 .. MaxSessions
         /\ lseq < MaxLeases =>
              lseq + 1 \in LeaseIds /\ leases[lseq + 1].state = "none" /\ lseq + 1 \in 0 .. MaxLeases
<1>1. /\ sseq \in Nat /\ lseq \in Nat /\ MaxSessions \in Nat /\ MaxLeases \in Nat
      /\ Known \subseteq 1 .. sseq /\ Given \subseteq 1 .. lseq
  BY FilesBounds DEF TypeOK, Numbered
<1>2. ASSUME sseq < MaxSessions
      PROVE  sseq + 1 \in SessionIds /\ sess[sseq + 1] = "none" /\ sseq + 1 \in 0 .. MaxSessions
  <2>1. sseq + 1 \in 1 .. MaxSessions /\ sseq + 1 \notin 1 .. sseq /\ sseq + 1 \in 0 .. MaxSessions
    BY <1>1, <1>2
  <2>2. sseq + 1 \notin Known
    BY <1>1, <2>1
  <2> QED
    BY <2>1, <2>2 DEF Known, SessionIds
<1>3. ASSUME lseq < MaxLeases
      PROVE  lseq + 1 \in LeaseIds /\ leases[lseq + 1].state = "none" /\ lseq + 1 \in 0 .. MaxLeases
  <2>1. lseq + 1 \in 1 .. MaxLeases /\ lseq + 1 \notin 1 .. lseq /\ lseq + 1 \in 0 .. MaxLeases
    BY <1>1, <1>3
  <2>2. lseq + 1 \notin Given
    BY <1>1, <2>1
  <2> QED
    BY <2>1, <2>2 DEF Given, LeaseIds
<1> QED
  BY <1>1, <1>2, <1>3

LEMMA SessionsWork ==
  ASSUME Inv, NEW c \in Callers,
         \/ CreateSession(c)
         \/ \E s \in SessionIds : MarkRunning(c, s)
         \/ MarkStopping(c) \/ Finish(c)
  PROVE  \E k : Works(c, k) /\ Sound(k, Known', leases') /\ UNCHANGED file
<1>0. /\ sess \in [SessionIds -> SessionState] /\ sseq \in Nat
      /\ sseq \in 0 .. MaxSessions
      /\ Known \subseteq 1 .. sseq
      /\ call[c] \in Call /\ Sound(call[c], Known, leases)
  BY Counted DEF Inv, TypeOK, Numbered, Sounds
<1>1. phase = "up" /\ faults \in 0 .. MaxFaults
  <2>0. faults \in 0 .. MaxFaults
    BY DEF Inv, TypeOK
  <2>1. CASE call[c] = Idle /\ Up
    BY <2>0, <2>1 DEF Up
  <2>2. CASE call[c].then # "nothing"
    BY <2>0, <2>2, IdleIs DEF Inv, Quiet
  <2> QED
    BY <2>1, <2>2 DEF CreateSession, MarkRunning, MarkStopping, Finish
<1>2. /\ UNCHANGED <<phase, faults, leases, holders, lseq, file>>
      /\ \E then \in {"nothing", "stop", "release", "finish"}, s \in SessionIds \cup {0} :
           /\ then # "nothing" => s \in Known
           /\ call' = [call EXCEPT ![c] = Saving("sessions", Known', then, s)]
  <2>1. CASE CreateSession(c)
    BY <1>0, <2>1, Counted DEF CreateSession, SaveSessions, Saving, Inv
  <2>2. CASE \E s \in SessionIds : MarkRunning(c, s)
    BY <2>2 DEF MarkRunning, SaveSessions, Saving
  <2>3. CASE MarkStopping(c)
    <3>1. call[c].sess \in Known /\ call[c].sess \in SessionIds
      BY <1>0, <2>3 DEF MarkStopping, Sound, Known
    <3> QED
      BY <2>3, <3>1 DEF MarkStopping, SaveSessions, Saving
  <2>4. CASE Finish(c)
    BY <2>4 DEF Finish, SaveSessions, Saving
  <2> QED
    BY <2>1, <2>2, <2>3, <2>4
<1>3. /\ sess' \in [SessionIds -> SessionState] /\ sseq' \in 0 .. MaxSessions
      /\ Known \subseteq Known' /\ Known' \subseteq 1 .. sseq'
      /\ \A s \in Known : sess'[s] \notin {"none", "READY"} \ {sess[s]}
  <2>1. CASE CreateSession(c)
    <3>1. /\ sseq + 1 \in SessionIds /\ sess[sseq + 1] = "none"
          /\ sseq + 1 \in 0 .. MaxSessions
          /\ sess' = [sess EXCEPT ![sseq + 1] = "READY"] /\ sseq' = sseq + 1
      BY <2>1, Counted DEF CreateSession, Inv
    <3>2. sseq + 1 \notin Known
      BY <3>1 DEF Known
    <3>3. Known' = Known \cup {sseq + 1}
      BY <1>0, <3>1 DEF Known
    <3>4. \A s \in Known : sess'[s] = sess[s]
      BY <1>0, <3>1, <3>2 DEF Known
    <3>5. 1 .. sseq \subseteq 1 .. sseq + 1 /\ sseq + 1 \in 1 .. sseq + 1
      BY <1>0
    <3>6. sess' \in [SessionIds -> SessionState]
      BY <1>0, <3>1 DEF SessionState
    <3> QED
      BY <1>0, <3>1, <3>3, <3>4, <3>5, <3>6
  <2>2. ASSUME NEW s \in Known, NEW v \in SessionState, v \notin {"none", "READY"} \ {sess[s]},
               sess' = [sess EXCEPT ![s] = v], sseq' = sseq
        PROVE  <1>3!1 /\ <1>3!2 /\ <1>3!3
    <3>1. s \in SessionIds /\ sess[s] # "none" /\ v # "none"
      BY <2>2 DEF Known
    <3>2. sess' \in [SessionIds -> SessionState] /\ sess'[s] = v
          /\ \A j \in SessionIds : j # s => sess'[j] = sess[j]
      BY <1>0, <2>2, <3>1
    <3>3. Known' = Known
      BY <2>2, <3>1, <3>2 DEF Known
    <3>4. Known \subseteq SessionIds
      BY DEF Known
    <3> QED
      BY <1>0, <2>2, <3>2, <3>3, <3>4
  <2>3. CASE \E s \in SessionIds : MarkRunning(c, s)
    <3>1. PICK s \in SessionIds : MarkRunning(c, s)
      BY <2>3
    <3>2. /\ s \in Known /\ sseq' = sseq
          /\ sess' = [sess EXCEPT ![s] = IF sess[s] = "READY" THEN "RUNNING" ELSE sess[s]]
      BY <3>1 DEF MarkRunning
    <3> QED
      BY <1>0, <2>2, <3>2 DEF SessionState
  <2>4. CASE MarkStopping(c)
    <3>1. call[c].sess \in Known /\ sess' = [sess EXCEPT ![call[c].sess] = "STOPPING"] /\ sseq' = sseq
      BY <1>0, <2>4 DEF MarkStopping, Sound
    <3> QED
      BY <2>2, <3>1 DEF SessionState
  <2>5. CASE Finish(c)
    <3>1. call[c].sess \in Known /\ sess' = [sess EXCEPT ![call[c].sess] = "STOPPED"] /\ sseq' = sseq
      BY <1>0, <2>5 DEF Finish, Sound
    <3> QED
      BY <2>2, <3>1 DEF SessionState
  <2> QED
    BY <2>1, <2>3, <2>4, <2>5
<1>4. PICK then \in {"nothing", "stop", "release", "finish"}, s \in SessionIds \cup {0} :
        /\ then # "nothing" => s \in Known
        /\ call' = [call EXCEPT ![c] = Saving("sessions", Known', then, s)]
  BY <1>2
<1> DEFINE k == Saving("sessions", Known', then, s)
<1>5. /\ k \in Call /\ k.key = "sessions" /\ k.left = Known' /\ k.then = then /\ k.sess = s
  <2>1. Known' \in SUBSET (SessionIds \cup LeaseIds)
    BY DEF Known
  <2>2. "sessions" \in {"sessions", "leases"}
    OBVIOUS
  <2> QED
    BY <1>4, <2>1, <2>2, SavingIs
<1> HIDE DEF k
<1>6. Sound(k, Known', leases')
  BY <1>3, <1>4, <1>5 DEF Sound
<1>7. /\ leases' \in Tables /\ lseq' \in 0 .. MaxLeases /\ Exact'
      /\ holders' \in [Resources -> SUBSET LeaseIds]
      /\ Kept(leases', leases) /\ OneLeased(leases') /\ Given' \subseteq 1 .. lseq'
  BY <1>2 DEF Inv, TypeOK, Exact, Numbered, Given, Kept, OneHolder, Tables
<1>8. Works(c, k)
  BY <1>1, <1>2, <1>3, <1>4, <1>5, <1>7 DEF Works, Numbered, k
<1> QED
  BY <1>2, <1>6, <1>8

(* The lease tables after an end, ... *)
LEMMA EndWorks ==
  ASSUME Inv, NEW ls \in SUBSET LeaseIds, \A l \in ls : leases[l].state = "LEASED",
         NEW state \in {"RELEASED", "EXPIRED"}, lseq' = lseq,
         leases' = Ended(ls, state), holders' = Without(ls)
  PROVE  /\ leases' \in Tables /\ Kept(leases', leases) /\ OneLeased(leases')
         /\ Exact' /\ holders' \in [Resources -> SUBSET LeaseIds]
         /\ Given' \subseteq 1 .. lseq'
         /\ \A l \in LeaseIds : leases'[l].state = "LEASED" =>
              leases[l].state = "LEASED" /\ l \notin ls /\ leases'[l] = leases[l]
<1>1. leases \in Tables /\ OneLeased(leases) /\ \A x \in Resources : holders[x] = Held(leases, x)
  BY DEF Inv, TypeOK, OneHolder, Tables, Exact
<1> DEFINE new == leases'
<1>2. new = EndedOf(leases, ls, state)
  BY DEF Ended, EndedOf
<1>3. holders' = [x \in Resources |-> holders[x] \ ls]
  BY DEF Without
<1> HIDE DEF new
<1>4. /\ new \in Tables /\ Kept(new, leases) /\ OneLeased(new)
      /\ \A l \in LeaseIds : new[l].state = "none" <=> leases[l].state = "none"
      /\ \A x : Held(new, x) = Held(leases, x) \ ls
      /\ \A l \in LeaseIds : new[l].state = "LEASED" =>
              leases[l].state = "LEASED" /\ l \notin ls /\ new[l] = leases[l]
  BY <1>1, <1>2, EndedTable
<1>5. \A x \in Resources : holders'[x] = Held(new, x) /\ Held(new, x) \subseteq LeaseIds
  BY <1>1, <1>3, <1>4 DEF Held
<1>6. holders' \in [Resources -> SUBSET LeaseIds]
  BY <1>3, <1>5
<1>7. Given' \subseteq 1 .. lseq'
  BY <1>4 DEF Inv, Numbered, Given, new
<1> QED
  BY <1>4, <1>5, <1>6, <1>7 DEF new, Exact

(* ... and after a grant, once a lease has ended or none has. *)
LEMMA GrantWorks ==
  ASSUME Inv, NEW ls \in SUBSET LeaseIds, \A l \in ls : leases[l].state = "LEASED",
         lseq < MaxLeases, lseq' = lseq + 1,
         NEW x \in Resources \cup {None}, NEW s \in SessionIds, Held(leases, x) \subseteq ls,
         ls \subseteq Held(leases, x),
         leases' = [Ended(ls, "RELEASED") EXCEPT
                      ![lseq + 1] = [state |-> "LEASED", res |-> x, sess |-> s]],
         holders' = [holders EXCEPT ![x] = {lseq + 1}]
  PROVE  /\ leases' \in Tables /\ Kept(leases', leases) /\ OneLeased(leases')
         /\ Exact' /\ holders' \in [Resources -> SUBSET LeaseIds]
         /\ Given' \subseteq 1 .. lseq' /\ lseq' \in 0 .. MaxLeases
<1> DEFINE mid == Ended(ls, "RELEASED")
           new == leases'
           n == lseq + 1
<1>1. /\ leases \in Tables /\ OneLeased(leases)
      /\ \A y \in Resources : holders[y] = Held(leases, y)
      /\ n \in LeaseIds /\ leases[n].state = "none" /\ n \in 0 .. MaxLeases /\ lseq \in Nat
      /\ holders \in [Resources -> SUBSET LeaseIds]
      /\ Given \subseteq 1 .. lseq
  BY Counted DEF Inv, TypeOK, OneHolder, Tables, Exact, Numbered
<1>2. mid = EndedOf(leases, ls, "RELEASED")
  BY DEF Ended, EndedOf
<1>3. new = GrantedOf(mid, n, x, s)
  BY DEF GrantedOf
<1> HIDE DEF mid, new, n
<1>4. /\ mid \in Tables /\ Kept(mid, leases) /\ OneLeased(mid)
      /\ \A l \in LeaseIds : mid[l].state = "none" <=> leases[l].state = "none"
      /\ \A y : Held(mid, y) = Held(leases, y) \ ls
  BY <1>1, <1>2, EndedTable
<1>5. Held(mid, x) = {} /\ \A y \in Resources : y # x => Held(mid, y) = Held(leases, y)
  <2>1. \A y \in Resources : y # x => Held(leases, y) \cap Held(leases, x) = {}
    BY DEF Held
  <2>2. Held(leases, x) = ls
    OBVIOUS
  <2>3. ASSUME NEW y \in Resources, y # x PROVE Held(mid, y) = Held(leases, y)
    <3>1. Held(leases, y) \cap ls = {} /\ Held(mid, y) = Held(leases, y) \ ls
      BY <1>4, <2>1, <2>2, <2>3
    <3> QED
      BY <3>1
  <2> QED
    BY <1>4, <2>2, <2>3
<1>6. /\ new \in Tables /\ Kept(new, mid) /\ OneLeased(new)
      /\ \A l \in LeaseIds : new[l].state # "none" => mid[l].state # "none" \/ l = n
      /\ Held(new, x) = {n}
      /\ \A y \in Resources : y # x => Held(new, y) = Held(mid, y)
  <2>1. mid[n].state = "none"
    BY <1>1, <1>4
  <2> QED
    BY <1>1, <1>3, <1>4, <1>5, <2>1, GrantedTable
<1>7. Kept(new, leases)
  <2>1. ASSUME NEW l \in LeaseIds, leases[l].state # "none"
        PROVE  /\ new[l].state # "none"
               /\ new[l].res = leases[l].res /\ new[l].sess = leases[l].sess
               /\ leases[l].state # "LEASED" => new[l].state = leases[l].state
    <3>1. /\ mid[l].state # "none" /\ mid[l].res = leases[l].res /\ mid[l].sess = leases[l].sess
          /\ leases[l].state # "LEASED" => mid[l].state = leases[l].state
      BY <1>4, <2>1 DEF Kept
    <3>2. /\ new[l].state # "none" /\ new[l].res = mid[l].res /\ new[l].sess = mid[l].sess
          /\ mid[l].state # "LEASED" => new[l].state = mid[l].state
      BY <1>6, <3>1 DEF Kept
    <3> QED
      BY <3>1, <3>2
  <2> QED
    BY <2>1 DEF Kept
<1>8. /\ holders' \in [Resources -> SUBSET LeaseIds]
      /\ \A y \in Resources : holders'[y] = Held(new, y)
  <2>1. holders' = [holders EXCEPT ![x] = {n}]
    BY DEF n
  <2>2. CASE x \in Resources
    BY <1>1, <1>5, <1>6, <2>1, <2>2
  <2>3. CASE x \notin Resources
    <3>1. holders' = holders
      BY <1>1, <2>1, <2>3
    <3> QED
      BY <1>1, <1>5, <1>6, <2>3, <3>1
  <2> QED
    BY <2>2, <2>3
<1>9. Given' \subseteq 1 .. lseq'
  <2>1. \A l \in LeaseIds : new[l].state # "none" => l \in Given \/ l = n
    BY <1>4, <1>6 DEF Given
  <2>2. n \in 1 .. n /\ 1 .. lseq \subseteq 1 .. n
    BY <1>1 DEF n
  <2> QED
    BY <1>1, <2>1, <2>2 DEF Given, new, n
<1> QED
  BY <1>1, <1>6, <1>7, <1>8, <1>9 DEF new, n, Exact

LEMMA LeasesWork ==
  ASSUME Inv, NEW c \in Callers,
         \/ \E s \in SessionIds, x \in Resources : Acquire(c, s, x)
         \/ \E l \in LeaseIds : Release(c, l) \/ \E s \in SessionIds : HandOff(c, l, s)
         \/ ReleaseAll(c)
  PROVE  \E k : Works(c, k) /\ Sound(k, Known', leases') /\ UNCHANGED file
<1>0. /\ leases \in Tables /\ OneLeased(leases) /\ call[c] \in Call
      /\ sess \in [SessionIds -> SessionState] /\ sseq \in 0 .. MaxSessions
      /\ lseq \in 0 .. MaxLeases /\ Sound(call[c], Known, leases)
      /\ \A x \in Resources : holders[x] = Held(leases, x)
  BY DEF Inv, TypeOK, Tables, OneHolder, Sounds, Exact
<1>1. phase = "up" /\ faults \in 0 .. MaxFaults
  <2>0. faults \in 0 .. MaxFaults
    BY DEF Inv, TypeOK
  <2>1. CASE call[c] = Idle /\ Up
    BY <2>0, <2>1 DEF Up
  <2>2. CASE call[c].then # "nothing"
    BY <2>0, <2>2, IdleIs DEF Inv, Quiet
  <2> QED
    BY <2>1, <2>2 DEF Acquire, Release, HandOff, ReleaseAll
<1>2. /\ UNCHANGED <<phase, faults, sess, sseq, file>>
      /\ leases' \in Tables /\ Kept(leases', leases) /\ OneLeased(leases')
      /\ Exact' /\ holders' \in [Resources -> SUBSET LeaseIds]
      /\ Given' \subseteq 1 .. lseq' /\ lseq' \in 0 .. MaxLeases
  <2>1. ASSUME NEW s \in SessionIds, NEW x \in Resources, Acquire(c, s, x) PROVE <1>2
    <3>1. Ended({}, "RELEASED") = leases
      BY <1>0 DEF Ended, Tables
    <3>2. /\ holders[x] = {} /\ lseq < MaxLeases /\ lseq' = lseq + 1
          /\ leases' = [Ended({}, "RELEASED") EXCEPT
                          ![lseq + 1] = [state |-> "LEASED", res |-> x, sess |-> s]]
          /\ holders' = [holders EXCEPT ![x] = {lseq + 1}]
          /\ UNCHANGED <<phase, faults, sess, sseq, file>>
      BY <2>1, <3>1 DEF Acquire
    <3>3. Held(leases, x) = {}
      BY <1>0, <3>2
    <3> QED
      BY <3>2, <3>3, GrantWorks
  <2>2. ASSUME NEW l \in LeaseIds, Release(c, l) PROVE <1>2
    <3>1. /\ leases[l].state = "LEASED" /\ lseq' = lseq
          /\ leases' = Ended({l}, "RELEASED") /\ holders' = Without({l})
          /\ UNCHANGED <<phase, faults, sess, sseq, file>>
      BY <2>2 DEF Release
    <3>2. {l} \in SUBSET LeaseIds /\ \A i \in {l} : leases[i].state = "LEASED"
      BY <3>1
    <3> QED
      BY <1>0, <3>1, <3>2, EndWorks
  <2>3. ASSUME NEW l \in LeaseIds, NEW s \in SessionIds, HandOff(c, l, s) PROVE <1>2
    <3> DEFINE x == leases[l].res
    <3>1. /\ leases[l].state = "LEASED" /\ lseq < MaxLeases /\ lseq' = lseq + 1
          /\ leases' = [Ended({l}, "RELEASED") EXCEPT
                          ![lseq + 1] = [state |-> "LEASED", res |-> x, sess |-> s]]
          /\ holders' = [holders EXCEPT ![x] = (holders[x] \ {l}) \cup {lseq + 1}]
          /\ UNCHANGED <<phase, faults, sess, sseq, file>>
      BY <2>3 DEF HandOff
    <3>2. x \in Resources \cup {None}
      BY <1>0 DEF Tables, Lease
    <3>3. Held(leases, x) = {l}
      BY <1>0, <3>1 DEF Held, OneLeased
    <3>4. holders' = [holders EXCEPT ![x] = {lseq + 1}]
      <4>1. CASE x \in Resources
        <5>1. (holders[x] \ {l}) \cup {lseq + 1} = {lseq + 1}
          BY <1>0, <3>3, <4>1
        <5> QED
          BY <3>1, <5>1
      <4>2. CASE x \notin Resources
        <5>1. holders \in [Resources -> SUBSET LeaseIds]
          BY DEF Inv, TypeOK
        <5> HIDE DEF x
        <5> QED
          BY <3>1, <4>2, <5>1
      <4> QED
        BY <4>1, <4>2
    <3>5. {l} \in SUBSET LeaseIds /\ \A i \in {l} : leases[i].state = "LEASED"
      BY <3>1
    <3> HIDE DEF x
    <3> QED
      BY <3>1, <3>2, <3>3, <3>4, <3>5, GrantWorks
  <2>4. CASE ReleaseAll(c)
    <3> DEFINE ls == LeasesOf(call[c].sess)
    <3>1. /\ lseq' = lseq /\ leases' = Ended(ls, "RELEASED") /\ holders' = Without(ls)
          /\ UNCHANGED <<phase, faults, sess, sseq, file>>
      BY <2>4 DEF ReleaseAll
    <3>2. ls \in SUBSET LeaseIds /\ \A i \in ls : leases[i].state = "LEASED"
      BY DEF LeasesOf
    <3> HIDE DEF ls
    <3> QED
      BY <1>0, <3>1, <3>2, EndWorks
  <2> QED
    BY <2>1, <2>2, <2>3, <2>4
<1> DEFINE left == {l \in LeaseIds : leases'[l].state # "none"}
<1>3. Known' = Known
  BY <1>2 DEF Known
<1>4. \/ \E then \in {"nothing", "finish"}, s \in SessionIds \cup {0} :
           /\ then # "nothing" => s \in Known
           /\ call' = [call EXCEPT ![c] = Saving("leases", left, then, s)]
      \/ call' = [call EXCEPT ![c].then = "finish"] /\ call[c].key = "none" /\ call[c].sess \in Known
  <2>1. CASE ReleaseAll(c)
    <3>1. call[c].sess \in Known /\ call[c].sess \in SessionIds
      BY <1>0, <2>1 DEF ReleaseAll, Sound, Known
    <3> QED
      BY <2>1, <3>1 DEF ReleaseAll, SaveLeases, Saving
  <2>2. CASE \E s \in SessionIds, x \in Resources : Acquire(c, s, x)
    BY <2>2 DEF Acquire, SaveLeases, Saving
  <2>3. CASE \E l \in LeaseIds : Release(c, l) \/ \E s \in SessionIds : HandOff(c, l, s)
    BY <2>3 DEF Release, HandOff, SaveLeases, Saving
  <2> QED
    BY <2>1, <2>2, <2>3
<1>5. ASSUME NEW k \in Call, call' = [call EXCEPT ![c] = k]
      PROVE  Works(c, k)
  BY <1>0, <1>1, <1>2, <1>3, <1>5 DEF Works, Numbered, Inv, Known
<1>6. CASE \E then \in {"nothing", "finish"}, s \in SessionIds \cup {0} :
             /\ then # "nothing" => s \in Known
             /\ call' = [call EXCEPT ![c] = Saving("leases", left, then, s)]
  <2>1. PICK then \in {"nothing", "stop", "release", "finish"}, s \in SessionIds \cup {0} :
             /\ then # "nothing" => s \in Known
             /\ call' = [call EXCEPT ![c] = Saving("leases", left, then, s)]
    BY <1>6
  <2> DEFINE k == Saving("leases", left, then, s)
  <2>2. left \in SUBSET (SessionIds \cup LeaseIds)
    OBVIOUS
  <2>3. "leases" \in {"sessions", "leases"}
    OBVIOUS
  <2> HIDE DEF left
  <2>4. /\ k \in Call /\ k.key = "leases" /\ k.left = left /\ k.then = then /\ k.sess = s
        /\ k.read.leases = NoLeases
    BY <2>1, <2>2, <2>3, SavingIs
  <2>5. call' = [call EXCEPT ![c] = k]
    BY <2>1
  <2> HIDE DEF k
  <2>6. Sound(k, Known', leases')
    <3>1. k.left = {l \in LeaseIds : leases'[l].state # "none"}
      BY <2>4 DEF left
    <3>2. k.then # "nothing" => k.sess \in Known'
      BY <1>3, <2>1, <2>4
    <3> QED
      BY <1>2, <2>4, <3>1, <3>2, SnapshotSound, Zenon
  <2> QED
    BY <1>2, <1>5, <2>4, <2>5, <2>6
<1>7. CASE call' = [call EXCEPT ![c].then = "finish"] /\ call[c].key = "none" /\ call[c].sess \in Known
  <2> DEFINE k == [call[c] EXCEPT !.then = "finish"]
  <2>1. k \in Call /\ k.key = "none" /\ k.sess \in Known /\ call' = [call EXCEPT ![c] = k]
    BY <1>0, <1>7 DEF Call
  <2> HIDE DEF k
  <2>2. Sound(k, Known', leases')
    BY <1>3, <2>1 DEF Sound
  <2> QED
    BY <1>2, <1>5, <2>1, <2>2
<1> QED
  BY <1>4, <1>6, <1>7

(* A step that leaves the tables alone *)
LEMMA TablesStay ==
  ASSUME Inv, NEW c \in Callers, NEW k \in Call, phase = "up",
         call' = [call EXCEPT ![c] = k], faults' \in 0 .. MaxFaults,
         UNCHANGED <<phase, sess, sseq, leases, holders, lseq>>
  PROVE  Works(c, k) /\ Known' = Known
<1>1. Known' = Known /\ Given' = Given
  BY DEF Known, Given
<1>2. /\ leases \in Tables /\ OneLeased(leases) /\ Kept(leases, leases) /\ Exact'
      /\ sess \in [SessionIds -> SessionState] /\ sseq \in 0 .. MaxSessions
      /\ lseq \in 0 .. MaxLeases /\ holders \in [Resources -> SUBSET LeaseIds]
      /\ Numbered'
  BY <1>1 DEF Inv, TypeOK, Tables, OneHolder, Kept, Exact, Numbered
<1>3. \A s \in Known : sess'[s] \notin {"none", "READY"} \ {sess[s]}
  OBVIOUS
<1> QED
  BY <1>1, <1>2, <1>3 DEF Works

(* A record is read: what will be written is the same as before. *)
LEMMA MixedRead ==
  ASSUME NEW table \in Tables, NEW read \in Tables, NEW left, NEW i \in left, i \in LeaseIds
  PROVE  Mixed(left \ {i}, table, [read EXCEPT ![i] = table[i]]) = Mixed(left, table, read)
BY DEF Mixed, Tables

LEMMA MarshalWorks ==
  ASSUME Inv, NEW c \in Callers, NEW i \in SessionIds \cup LeaseIds, Marshal(c, i)
  PROVE  \E k : Works(c, k) /\ Sound(k, Known', leases') /\ UNCHANGED file
<1>0. /\ call[c] \in Call /\ call[c].read \in File /\ Sound(call[c], Known, leases)
      /\ leases \in Tables /\ sess \in [SessionIds -> SessionState]
      /\ i \in call[c].left
      /\ UNCHANGED <<phase, faults, sess, sseq, leases, holders, lseq, file>>
  BY DEF Inv, TypeOK, Tables, Sounds, Call, Marshal
<1>1. phase = "up" /\ faults \in 0 .. MaxFaults
  BY <1>0, IdleIs DEF Inv, Quiet, TypeOK
<1>2. CASE call[c].key = "sessions"
  <2> DEFINE k == [call[c] EXCEPT !.left = @ \ {i}, !.read.sessions[i] = sess[i]]
  <2>1. call' = [call EXCEPT ![c] = k]
    BY <1>2 DEF Marshal
  <2>2. i \in SessionIds
    BY <1>0, <1>2 DEF Sound, Known
  <2>3. /\ k \in Call /\ k.key = "sessions" /\ k.left = call[c].left \ {i}
        /\ k.then = call[c].then /\ k.sess = call[c].sess
    <3>1. [call[c].read EXCEPT !.sessions[i] = sess[i]] \in File
      BY <1>0, <2>2 DEF File
    <3> QED
      BY <1>0, <1>2, <3>1 DEF Call
  <2> HIDE DEF k
  <2>4. Sound(k, Known, leases)
    BY <1>0, <1>2, <2>3 DEF Sound
  <2> QED
    BY <1>0, <1>1, <2>1, <2>3, <2>4, TablesStay
<1>3. CASE call[c].key = "leases"
  <2> DEFINE k == [call[c] EXCEPT !.left = @ \ {i}, !.read.leases[i] = leases[i]]
             read == call[c].read.leases
  <2>1. call' = [call EXCEPT ![c] = k]
    BY <1>3 DEF Marshal
  <2>2. i \in LeaseIds /\ read \in Tables
    BY <1>0, <1>3 DEF Sound, File, Tables
  <2>3. /\ k \in Call /\ k.key = "leases" /\ k.left = call[c].left \ {i}
        /\ k.then = call[c].then /\ k.sess = call[c].sess
        /\ k.read.leases = [read EXCEPT ![i] = leases[i]]
    <3>1. [call[c].read EXCEPT !.leases[i] = leases[i]] \in File
      BY <1>0, <2>2 DEF File, Tables
    <3>2. [call[c].read EXCEPT !.leases[i] = leases[i]].leases = [read EXCEPT ![i] = leases[i]]
      BY <1>0 DEF File
    <3> QED
      BY <1>0, <1>3, <3>1, <3>2 DEF Call
  <2> HIDE DEF k
  <2>4. Mixed(k.left, leases, k.read.leases) = Mixed(call[c].left, leases, read)
    <3>1. /\ i \in call[c].left /\ leases \in Tables
          /\ k.left = call[c].left \ {i} /\ k.read.leases = [read EXCEPT ![i] = leases[i]]
      BY <1>0, <2>3
    <3> HIDE DEF read
    <3>2. Mixed(call[c].left \ {i}, leases, [read EXCEPT ![i] = leases[i]])
            = Mixed(call[c].left, leases, read)
      BY <2>2, <3>1, MixedRead
    <3> QED
      BY <3>1, <3>2
  <2>5. Sound(k, Known, leases)
    BY <1>0, <1>3, <2>3, <2>4 DEF Sound
  <2> QED
    BY <1>0, <1>1, <2>1, <2>3, <2>5, TablesStay
<1> QED
  BY <1>2, <1>3 DEF Marshal

(* Rename puts a sound table in place, SaveFails leaves one. *)
LEMMA RenameWorks ==
  ASSUME Inv, NEW c \in Callers, Rename(c) \/ SaveFails(c)
  PROVE  \E k : /\ Works(c, k) /\ Sound(k, Known', leases')
                /\ file' \in File /\ OneLeased(file'.leases)
<1>0. /\ call[c] \in Call /\ call[c].read \in File /\ Sound(call[c], Known, leases)
      /\ file \in File /\ OneLeased(file.leases)
      /\ call[c].key \in {"sessions", "leases"} /\ call[c].left = {}
      /\ UNCHANGED <<phase, sess, sseq, leases, holders, lseq>>
  BY DEF Inv, TypeOK, Sounds, Call, Rename, SaveFails, SaveReturns, OneHolder
<1>5. faults' \in 0 .. MaxFaults
  <2>1. faults \in 0 .. MaxFaults /\ MaxFaults \in Nat
    BY FilesBounds DEF Inv, TypeOK
  <2>2. faults' = faults \/ (faults < MaxFaults /\ faults' = faults + 1)
    BY DEF Rename, SaveFails
  <2> QED
    BY <2>1, <2>2
<1>1. phase = "up"
  BY <1>0, IdleIs DEF Inv, Quiet
<1>2. file' \in File /\ OneLeased(file'.leases)
  <2>0. CASE SaveFails(c)
    BY <1>0, <2>0 DEF SaveFails
  <2>1. CASE Rename(c) /\ call[c].key = "sessions"
    <3>1. file' = [file EXCEPT !.sessions = call[c].read.sessions]
      BY <1>0, <2>1 DEF Rename, File
    <3> QED
      BY <1>0, <3>1 DEF File
  <2>2. CASE Rename(c) /\ call[c].key = "leases"
    <3>1. file' = [file EXCEPT !.leases = call[c].read.leases]
      BY <1>0, <2>2 DEF Rename, File
    <3>2. Mixed({}, leases, call[c].read.leases) = call[c].read.leases
      BY <1>0 DEF Mixed, File
    <3>3. OneLeased(call[c].read.leases)
      BY <1>0, <2>2, <3>2 DEF Sound
    <3> QED
      BY <1>0, <3>1, <3>3 DEF File
  <2> QED
    BY <1>0, <2>0, <2>1, <2>2
<1> DEFINE k == IF call[c].then \in {"release", "finish"}
                THEN [Idle EXCEPT !.then = call[c].then, !.sess = call[c].sess]
                ELSE Idle
<1>3. call' = [call EXCEPT ![c] = k]
  BY DEF Rename, SaveFails, SaveReturns
<1>4. k \in Call /\ Sound(k, Known, leases)
  <2>1. CASE call[c].then \in {"release", "finish"}
    <3>1. /\ k \in Call /\ k.key = "none" /\ k.then = call[c].then /\ k.sess = call[c].sess
      BY <1>0, <2>1, IdleIs DEF Call, Idle
    <3> HIDE DEF k
    <3> QED
      BY <1>0, <2>1, <3>1 DEF Sound
  <2>2. CASE call[c].then \notin {"release", "finish"}
    BY <2>2, IdleIs
  <2> QED
    BY <2>1, <2>2
<1> HIDE DEF k
<1> QED
  BY <1>0, <1>1, <1>2, <1>3, <1>4, <1>5, TablesStay

LEMMA TerminateWorks ==
  ASSUME Inv, NEW c \in Callers, NEW s \in SessionIds, TerminateSession(c, s)
  PROVE  \E k : Works(c, k) /\ Sound(k, Known', leases') /\ UNCHANGED file
<1> DEFINE k == [Idle EXCEPT !.then = "stop", !.sess = s]
<1>1. /\ call' = [call EXCEPT ![c] = k] /\ s \in Known /\ phase = "up"
      /\ faults \in 0 .. MaxFaults
      /\ UNCHANGED <<phase, faults, sess, sseq, leases, holders, lseq, file>>
  <2>1. call[c] = Idle /\ call' = [call EXCEPT ![c].then = "stop", ![c].sess = s]
    BY DEF TerminateSession
  <2> QED
    BY <2>1 DEF TerminateSession, Live, Up, Idle, Inv, TypeOK
<1>2. k \in Call /\ k.key = "none" /\ k.then = "stop" /\ k.sess = s
  BY IdleIs DEF Call, Idle
<1> HIDE DEF k
<1>3. Sound(k, Known, leases)
  BY <1>1, <1>2 DEF Sound
<1> QED
  BY <1>1, <1>2, <1>3, TablesStay

-----------------------------------------------------------------------------
(* The invariant holds ... *)

LEMMA WorkKeeps ==
  ASSUME Inv, NEW c \in Callers, NEW k, Works(c, k), Sound(k, Known', leases'),
         file' \in File, OneLeased(file'.leases)
  PROVE  Inv'
<1>1. TypeOK'
  BY DEF Inv, TypeOK, Works, Tables
<1>2. ASSUME NEW d \in Callers PROVE Sound(call'[d], Known', leases')
  <2>1. CASE d = c
    BY <2>1 DEF Works, Inv, TypeOK
  <2>2. CASE d # c
    <3>1. call'[d] = call[d] /\ Sound(call[d], Known, leases)
      BY <2>2 DEF Works, Inv, TypeOK, Sounds
    <3>2. Sound(call[d], Known', leases')
      BY <3>1, SoundKept DEF Works
    <3> QED
      BY <3>1, <3>2
  <2> QED
    BY <2>1, <2>2
<1>3. phase' = "up" /\ Numbered' /\ Exact' /\ OneLeased(leases')
  BY DEF Works
<1> QED
  BY <1>1, <1>2, <1>3 DEF Inv, Sounds, Quiet, Reaped, OneHolder

LEMMA InitInv == Init => Inv
<1> SUFFICES ASSUME Init PROVE Inv
  OBVIOUS
<1>1. NoLeases \in Tables /\ NoSessions \in [SessionIds -> SessionState] /\ NoFile \in File
  BY DEF NoFile, File, NoSessions, NoLeases, NoLease, SessionState, Lease, Tables
<1>2. TypeOK
  BY <1>1, IdleIs, FilesBounds DEF Init, TypeOK, Tables
<1>3. Known = {} /\ Given = {} /\ \A x : Held(leases, x) = {}
  BY DEF Init, Known, Given, Held, NoSessions, NoLeases, NoLease
<1>4. OneHolder
  BY DEF Init, OneHolder, OneLeased, NoFile, NoLeases, NoLease
<1> QED
  BY <1>2, <1>3, <1>4, IdleIs DEF Inv, Numbered, Exact, Quiet, Sounds, Reaped, Init

LEMMA CrashKeeps == Inv /\ Crash => Inv'
<1> SUFFICES ASSUME Inv, Crash PROVE Inv'
  OBVIOUS
<1>1. /\ phase' = "down" /\ sess' = NoSessions /\ leases' = NoLeases
      /\ sseq' = 0 /\ lseq' = 0 /\ faults' = faults + 1 /\ faults < MaxFaults
      /\ holders' = [x \in Resources |-> {}] /\ call' = [c \in Callers |-> Idle]
      /\ file' = file
  BY DEF Crash
<1>2. NoLeases \in Tables /\ NoSessions \in [SessionIds -> SessionState]
  BY DEF NoSessions, NoLeases, NoLease, SessionState, Lease, Tables
<1>3. faults + 1 \in 0 .. MaxFaults /\ 0 \in 0 .. MaxSessions /\ 0 \in 0 .. MaxLeases
  BY <1>1, FilesBounds DEF Inv, TypeOK
<1>4. TypeOK'
  <2>1. call' \in [Callers -> Call] /\ holders' \in [Resources -> SUBSET LeaseIds]
    BY <1>1, IdleIs
  <2>2. file' \in File
    BY <1>1 DEF Inv, TypeOK
  <2> QED
    BY <1>1, <1>2, <1>3, <2>1, <2>2 DEF TypeOK, Tables
<1>5. Known' = {} /\ Given' = {} /\ \A x : Held(leases', x) = {}
  BY <1>1 DEF Known, Given, Held, NoSessions, NoLeases, NoLease
<1>6. OneLeased(leases') /\ OneLeased(file'.leases)
  BY <1>1 DEF OneLeased, NoLeases, NoLease, Inv, OneHolder
<1>7. Numbered' /\ Exact' /\ Quiet' /\ Sounds' /\ Reaped'
  BY <1>1, <1>5, IdleIs DEF Numbered, Exact, Quiet, Sounds, Reaped
<1> QED
  BY <1>4, <1>6, <1>7 DEF Inv, OneHolder

LEMMA RestoreKeeps == Inv /\ Restore => Inv'
<1> SUFFICES ASSUME Inv, Restore PROVE Inv'
  OBVIOUS
<1>1. /\ phase' = "restored" /\ UNCHANGED <<faults, call, file>>
      /\ sess' = file.sessions /\ leases' = file.leases
      /\ sseq' = Max(Numbers(file.sessions, "none") \cup {0})
      /\ lseq' = Max(Numbers(file.leases, NoLease) \cup {0})
      /\ holders' = [x \in Resources |-> Held(file.leases, x)]
      /\ phase = "down"
  BY DEF Restore, Held
<1>2. /\ file \in File /\ file.sessions \in [SessionIds -> SessionState]
      /\ file.leases \in Tables /\ OneLeased(file.leases)
      /\ \A c \in Callers : call[c] = Idle /\ call \in [Callers -> Call]
  BY <1>1 DEF Inv, TypeOK, File, Tables, OneHolder, Quiet
<1> DEFINE S == Numbers(file.sessions, "none") \cup {0}
           L == Numbers(file.leases, NoLease) \cup {0}
<1>3. /\ S \in SUBSET (0 .. MaxSessions) /\ S # {} /\ MaxSessions \in Nat
      /\ L \in SUBSET (0 .. MaxLeases) /\ L # {} /\ MaxLeases \in Nat
  BY <1>2, FilesBounds DEF Numbers, SessionIds, LeaseIds, Tables
<1>4. /\ Max(S) \in 0 .. MaxSessions /\ \A n \in S : n <= Max(S)
      /\ Max(L) \in 0 .. MaxLeases /\ \A n \in L : n <= Max(L)
  <2> HIDE DEF S, L
  <2> QED
    BY <1>3, Greatest
<1>5. Known' \subseteq 1 .. sseq'
  <2>1. \A i \in SessionIds : file.sessions[i] # "none" => i \in S
    BY <1>2 DEF Numbers
  <2>2. sseq' = Max(S)
    BY <1>1
  <2> HIDE DEF S
  <2>3. ASSUME NEW i \in Known' PROVE i \in 1 .. sseq'
    <3>1. i \in SessionIds /\ i \in S
      BY <1>1, <2>1, <2>3 DEF Known
    <3> QED
      BY <1>3, <1>4, <2>2, <3>1 DEF SessionIds
  <2> QED
    BY <2>3
<1>6. Given' \subseteq 1 .. lseq'
  <2>1. \A i \in LeaseIds : file.leases[i].state # "none" => i \in L
    BY <1>2 DEF Numbers, NoLease, Tables
  <2>2. lseq' = Max(L)
    BY <1>1
  <2> HIDE DEF L
  <2>3. ASSUME NEW i \in Given' PROVE i \in 1 .. lseq'
    <3>1. i \in LeaseIds /\ i \in L
      BY <1>1, <2>1, <2>3 DEF Given
    <3> QED
      BY <1>3, <1>4, <2>2, <3>1 DEF LeaseIds
  <2> QED
    BY <2>3
<1>7. /\ holders' \in [Resources -> SUBSET LeaseIds] /\ Exact'
  BY <1>1 DEF Exact, Held
<1>8. TypeOK'
  <2>1. sseq' \in 0 .. MaxSessions /\ lseq' \in 0 .. MaxLeases
    BY <1>1, <1>4
  <2> QED
    BY <1>1, <1>2, <1>7, <2>1 DEF Inv, TypeOK, Tables
<1>9. Quiet' /\ Sounds' /\ Reaped' /\ OneHolder'
  BY <1>1, <1>2, IdleIs DEF Quiet, Sounds, Reaped, OneHolder
<1> QED
  BY <1>5, <1>6, <1>7, <1>8, <1>9 DEF Inv, Numbered

(* The steps of Recover that end leases *)
LEMMA RecoverLeasesKeeps ==
  ASSUME Inv, NEW s \in SessionIds, RecoverLeases(s)
  PROVE  Inv' /\ Kept(leases', leases)
<1> DEFINE ls == LeasesOf(s)
<1>1. /\ phase = "restored" /\ leases' = Ended(ls, "RELEASED") /\ holders' = Without(ls)
      /\ file' = [file EXCEPT !.leases = leases']
      /\ UNCHANGED <<phase, faults, sess, sseq, lseq, call>>
  BY DEF RecoverLeases
<1>2. ls \in SUBSET LeaseIds /\ \A l \in ls : leases[l].state = "LEASED"
  BY DEF LeasesOf
<1> HIDE DEF ls
<1>3. /\ leases' \in Tables /\ Kept(leases', leases) /\ OneLeased(leases')
      /\ Exact' /\ holders' \in [Resources -> SUBSET LeaseIds]
      /\ Given' \subseteq 1 .. lseq'
  BY <1>1, <1>2, EndWorks
<1>4. file' \in File /\ file'.leases = leases'
  BY <1>1, <1>3 DEF Inv, TypeOK, File, Tables
<1>5. Known' = Known
  BY <1>1 DEF Known
<1>6. TypeOK' /\ Numbered'
  BY <1>1, <1>3, <1>4, <1>5 DEF Inv, TypeOK, Tables, Numbered
<1>7. Quiet' /\ Sounds' /\ Reaped' /\ OneHolder'
  BY <1>1, <1>3, <1>4, IdleIs DEF Inv, Quiet, Sounds, Reaped, OneHolder
<1> QED
  BY <1>3, <1>6, <1>7 DEF Inv

LEMMA ReapKeeps ==
  ASSUME Inv, ReapOrphans
  PROVE  Inv' /\ Kept(leases', leases)
<1> DEFINE ls == Orphaned
<1>1. /\ phase = "restored" /\ leases' = Ended(ls, "EXPIRED") /\ holders' = Without(ls)
      /\ file' \in {file, [file EXCEPT !.leases = leases']}
      /\ phase' = "reaped" /\ Live = {}
      /\ UNCHANGED <<faults, sess, sseq, lseq, call>>
  BY DEF ReapOrphans
<1>2. ls \in SUBSET LeaseIds /\ \A l \in ls : leases[l].state = "LEASED"
  BY DEF Orphaned
<1> HIDE DEF ls
<1>3. /\ leases' \in Tables /\ Kept(leases', leases) /\ OneLeased(leases')
      /\ Exact' /\ holders' \in [Resources -> SUBSET LeaseIds]
      /\ Given' \subseteq 1 .. lseq'
      /\ \A l \in LeaseIds : leases'[l].state = "LEASED" =>
              leases[l].state = "LEASED" /\ l \notin ls /\ leases'[l] = leases[l]
  BY <1>1, <1>2, EndWorks
<1>4. file' \in File /\ OneLeased(file'.leases)
  BY <1>1, <1>3 DEF Inv, TypeOK, File, Tables, OneHolder
<1>5. Known' = Known /\ Live' = {}
  BY <1>1 DEF Known, Live
<1>6. Orphaned' = {}
  BY <1>3, <1>5 DEF Orphaned, ls
<1>7. TypeOK' /\ Numbered'
  BY <1>1, <1>3, <1>4, <1>5 DEF Inv, TypeOK, Tables, Numbered
<1>8. Quiet' /\ Sounds' /\ Reaped' /\ OneHolder'
  BY <1>1, <1>3, <1>4, <1>5, <1>6, IdleIs DEF Inv, Quiet, Sounds, Reaped, OneHolder
<1> QED
  BY <1>3, <1>7, <1>8 DEF Inv

(* ... and those that do not *)
LEMMA OthersRecover ==
  ASSUME Inv, (\E s \in SessionIds : RecoverSession(s)) \/ PersistLeases \/ PersistSessions
  PROVE  Inv' /\ UNCHANGED leases /\ \A s \in Known : sess'[s] \in {sess[s], "STOPPED"}
<1>1. /\ UNCHANGED <<faults, sseq, leases, holders, lseq, call>>
      /\ phase # "up"
  BY DEF RecoverSession, PersistLeases, PersistSessions
<1>2. /\ file \in File /\ sess \in [SessionIds -> SessionState] /\ leases \in [LeaseIds -> Lease]
      /\ OneLeased(leases) /\ OneLeased(file.leases) /\ \A c \in Callers : call[c] = Idle
  BY <1>1 DEF Inv, TypeOK, OneHolder, Quiet
<1>3. /\ sess' \in [SessionIds -> SessionState] /\ Known' = Known
      /\ \A s \in Known : sess'[s] \in {sess[s], "STOPPED"}
  <2>1. ASSUME NEW s \in SessionIds, RecoverSession(s) PROVE <1>3
    <3>1. s \in SessionIds /\ sess[s] # "none" /\ sess' = [sess EXCEPT ![s] = "STOPPED"]
      BY <2>1 DEF RecoverSession, Live, Known
    <3> QED
      BY <1>2, <3>1 DEF Known, SessionState
  <2>2. CASE PersistLeases \/ PersistSessions
    BY <1>2, <2>2 DEF PersistLeases, PersistSessions, Known
  <2> QED
    BY <2>1, <2>2
<1>4. file' \in File /\ file'.leases \in {file.leases, leases}
  BY <1>2, <1>3 DEF RecoverSession, PersistLeases, PersistSessions, File
<1>5. OneHolder'
  BY <1>1, <1>2, <1>4 DEF OneHolder
<1>6. Quiet' /\ Sounds' /\ Exact' /\ Numbered'
  <2>1. Given' = Given
    BY <1>1 DEF Given
  <2> QED
    BY <1>1, <1>2, <1>3, <2>1, IdleIs DEF Inv, Quiet, Sounds, Exact, Numbered
<1>7. Reaped'
  <2>1. CASE \E s \in SessionIds : RecoverSession(s)
    BY <2>1 DEF RecoverSession, Reaped
  <2>2. CASE PersistLeases \/ PersistSessions
    <3>1. Live' = Live /\ Orphaned' = Orphaned
      BY <1>1, <1>3, <2>2 DEF PersistLeases, PersistSessions, Live, Orphaned
    <3> QED
      BY <1>1, <1>2, <2>2, <3>1 DEF PersistLeases, PersistSessions, Reaped, Inv, File
  <2> QED
    BY <2>1, <2>2
<1>8. phase' \in {"up", "down", "restored", "reaped", "persisted"}
  BY DEF RecoverSession, PersistLeases, PersistSessions
<1> QED
  BY <1>1, <1>3, <1>4, <1>5, <1>6, <1>7, <1>8 DEF Inv, TypeOK

LEMMA ServingSteps ==
  ASSUME Inv, NEW c \in Callers, Request(c) \/ Continue(c)
  PROVE  \E k : /\ Works(c, k) /\ Sound(k, Known', leases')
                /\ file' \in File /\ OneLeased(file'.leases)
<1>0. file \in File /\ OneLeased(file.leases)
  BY DEF Inv, TypeOK, OneHolder
<1>1. CASE CreateSession(c) \/ (\E s \in SessionIds : MarkRunning(c, s))
           \/ MarkStopping(c) \/ Finish(c)
  BY <1>0, <1>1, SessionsWork
<1>2. CASE \/ \E s \in SessionIds, x \in Resources : Acquire(c, s, x)
           \/ \E l \in LeaseIds : Release(c, l) \/ \E s \in SessionIds : HandOff(c, l, s)
           \/ ReleaseAll(c)
  BY <1>0, <1>2, LeasesWork
<1>3. CASE \E s \in SessionIds : TerminateSession(c, s)
  BY <1>0, <1>3, TerminateWorks
<1>4. CASE \E i \in SessionIds \cup LeaseIds : Marshal(c, i)
  BY <1>0, <1>4, MarshalWorks
<1>5. CASE Rename(c) \/ SaveFails(c)
  BY <1>5, RenameWorks
<1> QED
  BY <1>1, <1>2, <1>3, <1>4, <1>5 DEF Request, Continue

Serving ==
  \E c \in Callers : \E k :
    /\ Works(c, k) /\ Sound(k, Known', leases')
    /\ file' \in File /\ OneLeased(file'.leases)

LEMMA Steps ==
  ASSUME Inv, [Next]_vars
  PROVE  \/ Serving
         \/ Crash \/ Restore \/ ReapOrphans \/ UNCHANGED vars
         \/ \E s \in SessionIds : RecoverLeases(s)
         \/ (\E s \in SessionIds : RecoverSession(s)) \/ PersistLeases \/ PersistSessions
<1>1. ASSUME NEW c \in Callers, Request(c) \/ Continue(c) PROVE Serving
  BY <1>1, ServingSteps DEF Serving
<1> QED
  BY <1>1 DEF Next, Recover

LEMMA InvStep == Inv /\ [Next]_vars => Inv'
<1> SUFFICES ASSUME Inv, [Next]_vars PROVE Inv'
  OBVIOUS
<1>1. CASE Serving
  BY <1>1, WorkKeeps DEF Serving
<1>2. CASE UNCHANGED vars
  BY <1>2 DEF vars, Inv, TypeOK, Numbered, Known, Given, Exact, Quiet, Sounds, Reaped,
              Live, Orphaned, OneHolder
<1> QED
  BY <1>1, <1>2, Steps, CrashKeeps, RestoreKeeps, RecoverLeasesKeeps, ReapKeeps, OthersRecover

LEMMA InvHolds == Spec => []Inv
BY InitInv, InvStep, PTL DEF Spec

-----------------------------------------------------------------------------
(* Theorems *)

(* The tables, the saves under way and the files have their types, and the *)
(* counters that Restore computes stay within the ids.                     *)
THEOREM TypeCorrect == Spec => []TypeOK
<1>1. Inv => TypeOK
  BY DEF Inv
<1> QED
  BY <1>1, InvHolds, PTL

(* An exclusive resource is LEASED at most once, in the table and in       *)
(* leases.json, however saves read the table and overtake each other       *)
(* (lease/manager.go, snapshotLocked and Save).                            *)
THEOREM OneHolderAlways == Spec => []OneHolder
<1>1. Inv => OneHolder
  BY DEF Inv
<1> QED
  BY <1>1, InvHolds, PTL

(* No record is overwritten by another of the same id, no lease comes back *)
(* and no session becomes READY again: Restore resumes the counters above  *)
(* all ids of the files.                                                   *)
THEOREM HistoryIsKept == Spec => HistoryKept
<1> DEFINE A == phase # "down" /\ phase' # "down" =>
       /\ \A s \in Known : sess'[s] \notin {"none", "READY"} \ {sess[s]}
       /\ \A l \in LeaseIds : leases[l].state # "none" =>
            /\ leases'[l].res = leases[l].res
            /\ leases'[l].sess = leases[l].sess
            /\ leases[l].state # "LEASED" => leases'[l].state = leases[l].state
<1>1. Inv /\ [Next]_vars => [A]_vars
  <2> SUFFICES ASSUME Inv, [Next]_vars, phase # "down", phase' # "down"
               PROVE  /\ \A s \in Known : sess'[s] \notin {"none", "READY"} \ {sess[s]}
                      /\ Kept(leases', leases)
    BY DEF Kept
  <2>1. CASE Serving
    BY <2>1 DEF Serving, Works
  <2>2. CASE Crash \/ Restore
    BY <2>2 DEF Crash, Restore
  <2>3. ASSUME UNCHANGED sess PROVE \A s \in Known : sess'[s] \notin {"none", "READY"} \ {sess[s]}
    BY <2>3
  <2>4. ASSUME UNCHANGED leases PROVE Kept(leases', leases)
    BY <2>4 DEF Kept
  <2>5. CASE UNCHANGED vars
    BY <2>3, <2>4, <2>5 DEF vars
  <2>6. CASE ReapOrphans
    BY <2>3, <2>6, ReapKeeps DEF ReapOrphans
  <2>7. CASE \E s \in SessionIds : RecoverLeases(s)
    BY <2>3, <2>7, RecoverLeasesKeeps DEF RecoverLeases
  <2>8. CASE (\E s \in SessionIds : RecoverSession(s)) \/ PersistLeases \/ PersistSessions
    BY <2>4, <2>8, OthersRecover
  <2> QED
    BY <2>1, <2>2, <2>5, <2>6, <2>7, <2>8, Steps
<1> QED
  BY <1>1, InvHolds, PTL DEF Spec, HistoryKept

(* When Recover ends, sessions.json has only STOPPED sessions, and every   *)
(* LEASED lease in leases.json belongs to one of them, whichever of the    *)
(* two files was the older (daemon/service.go Recover).                    *)
THEOREM RecoveryIsSettled == Spec => RecoveredSettled
<1> DEFINE A == phase # "up" /\ phase' = "up" =>
       /\ \A s \in SessionIds : file'.sessions[s] \in {"none", "STOPPED"}
       /\ \A l \in LeaseIds : file'.leases[l].state = "LEASED" =>
            file'.sessions[file'.leases[l].sess] # "none"
<1>1. Inv /\ [Next]_vars => [A]_vars
  <2> SUFFICES ASSUME Inv, [Next]_vars, phase # "up", phase' = "up"
               PROVE  /\ \A s \in SessionIds : file'.sessions[s] \in {"none", "STOPPED"}
                      /\ \A l \in LeaseIds : file'.leases[l].state = "LEASED" =>
                           file'.sessions[file'.leases[l].sess] # "none"
    OBVIOUS
  <2>1. PersistSessions
    BY Steps DEF Serving, Works, Crash, Restore, ReapOrphans, vars, RecoverLeases,
                 RecoverSession, PersistLeases
  <2>2. /\ file'.sessions = sess /\ file'.leases = leases
        /\ Live = {} /\ Orphaned = {}
    BY <2>1 DEF PersistSessions, Inv, Reaped, TypeOK, File
  <2> QED
    BY <2>2 DEF Live, Known, Orphaned
<1> QED
  BY <1>1, InvHolds, PTL DEF Spec, RecoveredSettled

=============================================================================
