---------------------------- MODULE LeaseManager ----------------------------
(***************************************************************************)
(* The lease manager (internal/lease/manager.go): a table of resources, a  *)
(* table of leases, a holder set and a FIFO queue of waiters per resource, *)
(* all guarded by one mutex.                                               *)
(*                                                                         *)
(* An action is one critical section of a method.  The methods that loop   *)
(* over a Go map while they change it (ReleaseAll, Sweep, ReapOrphans)     *)
(* keep the mutex over several actions: variable walk is the loop of the   *)
(* method that holds it, and every other method waits for walk to be Free. *)
(* Only the receive on a waiter's done channel needs no mutex.             *)
(*                                                                         *)
(* The writes of leases.json, which the code makes after it has unlocked,  *)
(* are in StateFiles.                                                      *)
(***************************************************************************)
EXTENDS Integers, FiniteSets, Sequences, SequencesExt

CONSTANTS
  Resources,    \* ids of resources
  Configured,   \* the resources of the configuration file
  Mode,         \* Resource.Mode of each resource
  Capacity,     \* Resource.Capacity of each resource
  Sessions,     \* session ids
  Calls,        \* goroutines that run Acquire
  None,         \* no session, no resource
  TTLs,         \* the ttl arguments of Acquire and Renew; 0 is "no ttl"
  MaxLeases,    \* bound: leases ever granted
  MaxTime       \* bound: the clock

ASSUME ConfiguredAssumption == Configured \subseteq Resources
ASSUME ModeAssumption ==
  /\ Mode \in [Resources -> {"exclusive", "shared", "capacity"}]
  /\ Capacity \in [Resources -> Int]
ASSUME NoneAssumption == None \notin Sessions \cup Resources
ASSUME BoundAssumption ==
  /\ TTLs \subseteq Nat
  /\ MaxLeases \in Nat
  /\ MaxTime \in Nat

VARIABLES
  res,        \* keys of m.res
  seq,        \* m.seq
  leases,     \* m.leases: lease id -> lease
  holders,    \* m.holders: resource -> set of lease ids
  waiters,    \* m.waiters: resource -> sequence of calls
  calls,      \* each goroutine in Acquire, with its Waiter
  walk,       \* the loop that holds m.mu, if any
  now         \* the clock

vars == <<res, seq, leases, holders, waiters, calls, walk, now>>

-----------------------------------------------------------------------------

LeaseIds == 1 .. seq

Lease == [res: Resources, sess: Sessions, exp: Nat,
          state: {"LEASED", "RELEASED", "EXPIRED"}]

(* A goroutine in Acquire.  "waiting": queued, in the select, its done     *)
(* channel open.  "granted" and "cancelled": done was closed with a lease  *)
(* or with an error and the select has not run yet.  "leased", "failed":   *)
(* what Acquire returned last.                                             *)
Call == [pc: {"idle", "waiting", "granted", "cancelled", "leased", "failed"},
         sess: Sessions \cup {None}, res: Resources \cup {None},
         ttl: Nat, bounded: BOOLEAN, lease: Nat]

(* A call after it returned: only how it ended, and the lease its waiter   *)
(* was given, are kept.                                                    *)
Returned(how, lease) ==
  [pc |-> how, sess |-> None, res |-> None,
   ttl |-> 0, bounded |-> FALSE, lease |-> lease]

Idle == Returned("idle", 0)

Walk == [op: {"none", "ReleaseAll", "Sweep", "ReapOrphans"},
         doomed: SUBSET Sessions, todo: SUBSET Nat, base: Nat]

Free == [op |-> "none", doomed |-> {}, todo |-> {}, base |-> 0]

Active(l) == leases[l].state = "LEASED"

ActiveOn(r) == {l \in LeaseIds : leases[l].res = r /\ Active(l)}

Queued(c) == calls[c].pc = "waiting"

(* capacityOf.  A shared resource is "effectively unlimited" (1 << 30). *)
Unlimited == 1073741824

CapacityOf(r) ==
  CASE Mode[r] = "exclusive" -> 1
    [] Mode[r] = "shared"    -> Unlimited
    [] Mode[r] = "capacity"  -> IF Capacity[r] <= 0 THEN 1 ELSE Capacity[r]

(* The table of leases after grant adds lease seq + 1 to the table t. *)
Granted(t, r, s, ttl) ==
  [l \in 1 .. seq + 1 |->
     IF l = seq + 1
     THEN [res |-> r, sess |-> s, exp |-> IF ttl > 0 THEN now + ttl ELSE 0,
           state |-> "LEASED"]
     ELSE t[l]]

Init ==
  /\ res = Configured
  /\ seq = 0
  /\ leases = [l \in {} |-> Idle]
  /\ holders = [r \in Resources |-> {}]
  /\ waiters = [r \in Resources |-> <<>>]
  /\ calls = [c \in Calls |-> Idle]
  /\ walk = Free
  /\ now = 0

-----------------------------------------------------------------------------
(* Acquire *)

(* Bound: leave room for a lease for every waiter, so that the bound never *)
(* withholds a grant from a queue.                                         *)
Room == seq + Cardinality({c \in Calls : Queued(c)}) < MaxLeases

MutexFree == walk.op = "none"

(* The resource is not registered: Acquire returns an error at once. *)
AcquireUnknown(c, r) ==
  /\ MutexFree
  /\ calls[c].pc \in {"idle", "leased", "failed"}
  /\ r \notin res
  /\ calls' = [calls EXCEPT ![c] = Returned("failed", 0)]
  /\ UNCHANGED <<res, seq, leases, holders, waiters, walk, now>>

(* Mutant: an off-by-one in the capacity test. *)
AcquireNowOffByOne(c, r, s, ttl) ==
  /\ MutexFree /\ Room
  /\ calls[c].pc \in {"idle", "leased", "failed"}
  /\ r \in res
  /\ Cardinality(holders[r]) <= CapacityOf(r)
  /\ seq' = seq + 1
  /\ leases' = Granted(leases, r, s, ttl)
  /\ holders' = [holders EXCEPT ![r] = @ \cup {seq + 1}]
  /\ \E how \in {"leased", "failed"} :
       calls' = [calls EXCEPT ![c] = Returned(how, seq + 1)]
  /\ UNCHANGED <<res, waiters, walk, now>>

(* Fewer holders than the capacity: grant.  If the write of leases.json    *)
(* fails afterwards, Acquire returns an error and the lease stays.         *)
AcquireNow(c, r, s, ttl) ==
  /\ MutexFree /\ Room
  /\ calls[c].pc \in {"idle", "leased", "failed"}
  /\ r \in res
  /\ Cardinality(holders[r]) < CapacityOf(r)
  /\ seq' = seq + 1
  /\ leases' = Granted(leases, r, s, ttl)
  /\ holders' = [holders EXCEPT ![r] = @ \cup {seq + 1}]
  /\ \E how \in {"leased", "failed"} :
       calls' = [calls EXCEPT ![c] = Returned(how, seq + 1)]
  /\ UNCHANGED <<res, waiters, walk, now>>

(* Otherwise queue up.  bounded: ctx ends (the 30s ceiling of a caller     *)
(* that does not want to queue, or a cancelled run).                       *)
AcquireWait(c, r, s, ttl, bounded) ==
  /\ MutexFree /\ Room
  /\ calls[c].pc \in {"idle", "leased", "failed"}
  /\ r \in res
  /\ Cardinality(holders[r]) >= CapacityOf(r)
  /\ waiters' = [waiters EXCEPT ![r] = Append(@, c)]
  /\ calls' = [calls EXCEPT ![c] =
                 [pc |-> "waiting", sess |-> s, res |-> r, ttl |-> ttl,
                  bounded |-> bounded, lease |-> 0]]
  /\ UNCHANGED <<res, seq, leases, holders, walk, now>>

(* The select takes w.done: Acquire returns the lease, or the error. *)
Wake(c) ==
  /\ \/ /\ calls[c].pc = "granted"
        /\ calls' = [calls EXCEPT ![c] = Returned("leased", @.lease)]
     \/ /\ calls[c].pc = "cancelled"
        /\ calls' = [calls EXCEPT ![c] = Returned("failed", 0)]
  /\ UNCHANGED <<res, seq, leases, holders, waiters, walk, now>>

(* Mutant: no removeWaiter. *)
GiveUpStaysQueued(c) ==
  /\ MutexFree
  /\ calls[c].pc \in {"waiting", "granted", "cancelled"}
  /\ calls[c].bounded
  /\ calls' = [calls EXCEPT ![c] = Returned("failed", @.lease)]
  /\ UNCHANGED <<res, seq, leases, holders, waiters, walk, now>>

(* The select takes ctx.Done: removeWaiter under the mutex, and the error  *)
(* of ctx is returned whether or not the waiter was still queued.  The     *)
(* waiter may have been granted or cancelled since, or before (a select    *)
(* with two ready channels picks either).                                  *)
GiveUp(c) ==
  /\ MutexFree
  /\ calls[c].pc \in {"waiting", "granted", "cancelled"}
  /\ calls[c].bounded
  /\ LET r == calls[c].res
     IN \/ \E i \in DOMAIN waiters[r] :
              /\ waiters[r][i] = c
              /\ waiters' = [waiters EXCEPT ![r] = RemoveAt(@, i)]
        \/ /\ \A i \in DOMAIN waiters[r] : waiters[r][i] # c
           /\ UNCHANGED waiters
  /\ calls' = [calls EXCEPT ![c] = Returned("failed", @.lease)]
  /\ UNCHANGED <<res, seq, leases, holders, walk, now>>

-----------------------------------------------------------------------------
(* The end of a lease *)

(* What Release, ExpireNow and the bodies of the three loops share: lease  *)
(* l leaves the holders of its resource in state final, then trySatisfy    *)
(* grants the head of the queue if there is room.  A grant from the queue  *)
(* has no expiry, whatever ttl the call asked for.  HandOff grants to call *)
(* w for session s and leaves rest of the queue.                           *)
HandOff(l, final, w, s, rest) ==
  LET r == leases[l].res
  IN /\ waiters[r] # <<>>
     /\ Cardinality(holders[r] \ {l}) < CapacityOf(r)
     /\ seq' = seq + 1
     /\ leases' = Granted([leases EXCEPT ![l].state = final], r, s, 0)
     /\ holders' = [holders EXCEPT ![r] = (@ \ {l}) \cup {seq + 1}]
     /\ waiters' = [waiters EXCEPT ![r] = rest]
     /\ calls' = [calls EXCEPT ![w].pc = "granted", ![w].lease = seq + 1]

(* Mutants of the end of a lease: the holder set is forgotten; trySatisfy  *)
(* is not called; the lease goes to the last waiter; it is made out to the *)
(* session whose lease ended; the waiter stays in the queue.               *)
EndOnlyKeepsHolder(l, final) ==
  /\ waiters[leases[l].res] = <<>>
  /\ leases' = [leases EXCEPT ![l].state = final]
  /\ UNCHANGED <<seq, holders, waiters, calls>>

EndOnlyWakesNobody(l, final) ==
  /\ leases' = [leases EXCEPT ![l].state = final]
  /\ holders' = [holders EXCEPT ![leases[l].res] = @ \ {l}]
  /\ UNCHANGED <<seq, waiters, calls>>

HandOffToLast(l, final) ==
  LET q == waiters[leases[l].res]
  IN HandOff(l, final, Last(q), calls[Last(q)].sess, Front(q))

HandOffToOldSession(l, final) ==
  LET q == waiters[leases[l].res]
  IN HandOff(l, final, Head(q), leases[l].sess, Tail(q))

HandOffKeepsWaiter(l, final) ==
  LET q == waiters[leases[l].res]
  IN HandOff(l, final, Head(q), calls[Head(q)].sess, q)

EndOnly(l, final) ==
  LET r == leases[l].res
  IN /\ \/ waiters[r] = <<>>
        \/ Cardinality(holders[r] \ {l}) >= CapacityOf(r)
     /\ leases' = [leases EXCEPT ![l].state = final]
     /\ holders' = [holders EXCEPT ![r] = @ \ {l}]
     /\ UNCHANGED <<seq, waiters, calls>>

EndAndHandOff(l, final) ==
  LET q == waiters[leases[l].res]
  IN HandOff(l, final, Head(q), calls[Head(q)].sess, Tail(q))

End(l, final) == EndOnly(l, final) \/ EndAndHandOff(l, final)

(* An unknown or ended lease is an error and changes nothing. *)
Release(l) ==
  /\ MutexFree
  /\ Active(l)
  /\ End(l, "RELEASED")
  /\ UNCHANGED <<res, walk, now>>

ExpireNow(l) ==
  /\ MutexFree
  /\ Active(l)
  /\ End(l, "EXPIRED")
  /\ UNCHANGED <<res, walk, now>>

Renew(l, ttl) ==
  /\ MutexFree
  /\ ttl > 0
  /\ Active(l)
  /\ leases' = [leases EXCEPT ![l].exp = now + ttl]
  /\ UNCHANGED <<res, seq, holders, waiters, calls, walk, now>>

-----------------------------------------------------------------------------
(* The loops over m.leases *)

(* Lock, and collect the leases whose test the loop will find true.  Only  *)
(* the loop itself ends leases while it holds the mutex, so the test gives *)
(* the same answer when the iteration reaches them.                        *)
Begin(op, doomed, todo) ==
  /\ MutexFree
  /\ walk' = [op |-> op, doomed |-> doomed, todo |-> todo, base |-> seq]
  /\ UNCHANGED <<res, seq, leases, holders, waiters, calls, now>>

(* Mutants: the sweep takes the leases that have not lapsed; the loop      *)
(* stops after one lease.                                                  *)
BeginSweepEarly(t) ==
  LET early == {l \in LeaseIds : Active(l) /\ leases[l].exp > t}
  IN early # {} /\ Begin("Sweep", {}, early)

StepThenStop(l) ==
  /\ l \in walk.todo
  /\ End(l, IF walk.op = "ReleaseAll" THEN "RELEASED" ELSE "EXPIRED")
  /\ walk' = [walk EXCEPT !.todo = {}]
  /\ UNCHANGED <<res, now>>

BeginReleaseAll(s) ==
  Begin("ReleaseAll", {s},
        {l \in LeaseIds : Active(l) /\ leases[l].sess = s})

(* t: the time the ticker read before it called Sweep. *)
BeginSweep(t) ==
  LET late == {l \in LeaseIds : Active(l) /\ leases[l].exp # 0
                                          /\ leases[l].exp < t}
  IN late # {} /\ Begin("Sweep", {}, late)

BeginReap(live) ==
  LET orphans == {l \in LeaseIds : Active(l) /\ leases[l].sess \notin live}
  IN orphans # {} /\ Begin("ReapOrphans", Sessions \ live, orphans)

(* One iteration, in any order.  A lease that trySatisfy inserts during    *)
(* the iteration may or may not be visited, as Go leaves it open; if its   *)
(* session is doomed, a visit ends it.  (It has no expiry: Sweep would     *)
(* pass it over.)                                                          *)
Step(l) ==
  /\ l \in walk.todo
  /\ End(l, IF walk.op = "ReleaseAll" THEN "RELEASED" ELSE "EXPIRED")
  /\ \E visited \in SUBSET {n \in (seq + 1) .. seq' :
                              leases'[n].sess \in walk.doomed} :
       walk' = [walk EXCEPT !.todo = (@ \ {l}) \cup visited]
  /\ UNCHANGED <<res, now>>

(* The second loop of ReleaseAll drops the waiters of the session. *)
Cancel(r, i) ==
  /\ walk.op = "ReleaseAll" /\ walk.todo = {}
  /\ LET c == waiters[r][i]
     IN /\ calls[c].sess \in walk.doomed
        /\ calls' = [calls EXCEPT ![c].pc = "cancelled"]
  /\ waiters' = [waiters EXCEPT ![r] = RemoveAt(@, i)]
  /\ UNCHANGED <<res, seq, leases, holders, walk, now>>

Unlock ==
  /\ walk.op # "none" /\ walk.todo = {}
  /\ walk.op = "ReleaseAll" =>
       \A c \in Calls : Queued(c) => calls[c].sess \notin walk.doomed
  /\ walk' = Free
  /\ UNCHANGED <<res, seq, leases, holders, waiters, calls, now>>

-----------------------------------------------------------------------------

EnsureResource(r) ==
  /\ MutexFree
  /\ r \notin res
  /\ res' = res \cup {r}
  /\ UNCHANGED <<seq, leases, holders, waiters, calls, walk, now>>

Tick ==
  /\ now < MaxTime
  /\ now' = now + 1
  /\ UNCHANGED <<res, seq, leases, holders, waiters, calls, walk>>

Acquire(c) ==
  \E r \in Resources :
    \/ AcquireUnknown(c, r)
    \/ \E s \in Sessions, ttl \in TTLs :
         \/ AcquireNow(c, r, s, ttl)
         \/ \E bounded \in BOOLEAN : AcquireWait(c, r, s, ttl, bounded)

Next ==
  \/ \E c \in Calls : Acquire(c) \/ Wake(c) \/ GiveUp(c)
  \/ \E l \in LeaseIds : Release(l) \/ ExpireNow(l) \/ Step(l)
  \/ \E l \in LeaseIds, ttl \in TTLs : Renew(l, ttl)
  \/ \E s \in Sessions : BeginReleaseAll(s)
  \/ \E t \in 0 .. now : BeginSweep(t)
  \/ \E live \in SUBSET Sessions : BeginReap(live)
  \/ \E r \in Resources : EnsureResource(r)
                          \/ \E i \in DOMAIN waiters[r] : Cancel(r, i)
  \/ Unlock
  \/ Tick

Spec == Init /\ [][Next]_vars

-----------------------------------------------------------------------------
(* Fairness.  The goroutine that holds the mutex runs its loop to the end  *)
(* and a select with a ready channel returns: weak fairness.  sync.Mutex   *)
(* hands over to a waiter that starves, so a goroutine that wants the      *)
(* mutex gets it although it is not free at every moment: strong fairness  *)
(* for the ticker's sweep and for a call whose context has ended.  Clients *)
(* are not fair: nothing makes them release, renew or acquire.             *)

Fairness ==
  /\ WF_vars(\E l \in LeaseIds : Step(l))
  /\ WF_vars(\E r \in Resources : \E i \in DOMAIN waiters[r] : Cancel(r, i))
  /\ WF_vars(Unlock)
  /\ WF_vars(Tick)
  /\ SF_vars(BeginSweep(now))
  /\ \A c \in Calls : WF_vars(Wake(c)) /\ SF_vars(GiveUp(c))

FairSpec == Spec /\ Fairness

-----------------------------------------------------------------------------
(* Invariants *)

TypeOK ==
  /\ res \subseteq Resources
  /\ seq \in Nat
  /\ leases \in [LeaseIds -> Lease]
  /\ holders \in [Resources -> SUBSET LeaseIds]
  /\ waiters \in [Resources -> Seq(Calls)]
  /\ calls \in [Calls -> Call]
  /\ walk \in Walk
  /\ now \in 0 .. MaxTime

(* The holder set that decides grants is the set of LEASED leases of the   *)
(* resource: no path (release, expiry, reaping, hand-off) updates one and  *)
(* forgets the other.                                                      *)
HoldersExact == \A r \in Resources : holders[r] = ActiveOn(r)

(* At most CapacityOf(r) leases of r are LEASED at a time: one if it is    *)
(* exclusive, however releases, expiries, hand-offs and loops interleave.  *)
CapacityRespected ==
  \A r \in Resources : Cardinality(ActiveOn(r)) <= CapacityOf(r)

(* No lost wakeup: nobody waits for a resource that has room.  Each path   *)
(* that frees a slot calls trySatisfy once, and that one grant is enough.  *)
NoIdleCapacity ==
  \A r \in Resources :
    waiters[r] # <<>> => Cardinality(ActiveOn(r)) >= CapacityOf(r)

(* A goroutine blocked with an open done channel is in the queue of its    *)
(* resource exactly once, and nothing else is in a queue: no grant goes to *)
(* a call that has given up, and no call waits outside every queue.        *)
QueuesExact ==
  /\ \A c \in Calls : Queued(c) =>
       \E i \in DOMAIN waiters[calls[c].res] : waiters[calls[c].res][i] = c
  /\ \A r \in Resources : \A i \in DOMAIN waiters[r] :
       /\ Queued(waiters[r][i])
       /\ calls[waiters[r][i]].res = r
       /\ calls[waiters[r][i]].sess \in Sessions
       /\ \A j \in DOMAIN waiters[r] : waiters[r][i] = waiters[r][j] => i = j

(* While a loop holds the mutex, the leases it has still to visit are      *)
(* LEASED: no iteration ends a lease of another one, so none is ended      *)
(* twice and no slot is freed twice.                                       *)
WalkExact ==
  /\ walk.todo \subseteq {l \in LeaseIds : Active(l)}
  /\ MutexFree => walk.todo = {}

(* The lease a call returns is for the session and the resource it asked   *)
(* for, and no two calls are handed the same lease.                        *)
GrantMatchesCall ==
  /\ \A c \in Calls : calls[c].pc = "granted" =>
       /\ calls[c].lease \in LeaseIds
       /\ leases[calls[c].lease].res = calls[c].res
       /\ leases[calls[c].lease].sess = calls[c].sess
  /\ \A c, d \in Calls :
       calls[c].lease = calls[d].lease /\ calls[c].lease # 0 => c = d

-----------------------------------------------------------------------------
(* Action properties *)

(* "Nobody can jump the queue" (docs/leases.md): while calls wait for r,   *)
(* the next lease on r goes to the session of the call at the head, and    *)
(* that call leaves the queue.                                             *)
NoBarging ==
  [][\A r \in Resources :
       waiters[r] # <<>> /\ seq' > seq /\ leases'[seq'].res = r =>
         /\ leases'[seq'].sess = calls[Head(waiters[r])].sess
         /\ waiters'[r] = Tail(waiters[r])]_vars

(* When ReleaseAll or a reaping unlocks, no lease that was LEASED when it  *)
(* locked is still LEASED for a doomed session: the hand-offs made on the  *)
(* way do not make the loop skip one.                                      *)
DoomedLeasesEnd ==
  [][walk.op \in {"ReleaseAll", "ReapOrphans"} /\ walk'.op = "none" =>
       \A l \in 1 .. walk.base : Active(l) => leases[l].sess \notin walk.doomed
    ]_vars

-----------------------------------------------------------------------------
(* Liveness *)

(* A lease whose expiry has come is ended by the sweep, unless it is       *)
(* renewed.  The clock stops at MaxTime, hence the bound.                  *)
Lapsing(l) ==
  l \in LeaseIds /\ Active(l) /\ leases[l].exp # 0 /\ leases[l].exp < MaxTime

LapsedLeaseEnds ==
  \A l \in 1 .. MaxLeases : Lapsing(l) ~> ~Lapsing(l)

(* If every lease ends sooner or later, every call gets an answer.         *)
HoldersLetGo ==
  \A l \in 1 .. MaxLeases : []<>~(l \in LeaseIds /\ Active(l))

Waiting(c) == calls[c].pc \in {"waiting", "granted", "cancelled"}

EveryCallAnswered ==
  HoldersLetGo => \A c \in Calls : Waiting(c) ~> ~Waiting(c)

-----------------------------------------------------------------------------
(* What the manager promises of a resource is FairSemaphore: these are its *)
(* variables grantee and queue (held is ActiveOn).                         *)

GranteesOn(r) == [l \in {k \in LeaseIds : leases[k].res = r} |-> leases[l].sess]

SessionsWaitingFor(r) == [i \in DOMAIN waiters[r] |-> calls[waiters[r][i]].sess]

=============================================================================
