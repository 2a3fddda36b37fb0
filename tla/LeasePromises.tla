--------------------------- MODULE LeasePromises ----------------------------
(***************************************************************************)
(* What clients of the lease manager rely on, proved on top of the         *)
(* inductive invariant of LeaseManagerProofs: a call gets the lease it     *)
(* asked for, a loop ends what it met, and each resource is a fair         *)
(* semaphore.                                                              *)
(***************************************************************************)
EXTENDS LeaseSemaphore, LeaseManagerProofs

(* A lease stays with its resource and its session. *)
KeepsLeases ==
  /\ LeaseIds \subseteq LeaseIds'
  /\ \A k \in LeaseIds : /\ leases'[k].res = leases[k].res
                         /\ leases'[k].sess = leases[k].sess

LEMMA SameLeases ==
  ASSUME UNCHANGED <<seq, leases>> PROVE KeepsLeases
BY DEF KeepsLeases, LeaseIds

LEMMA OneMoreLease ==
  ASSUME Inv, NEW t, t \in [LeaseIds -> Lease],
         \A k \in LeaseIds : t[k].res = leases[k].res /\ t[k].sess = leases[k].sess,
         NEW r, NEW s, NEW ttl, seq' = seq + 1, leases' = Granted(t, r, s, ttl)
  PROVE  /\ KeepsLeases
         /\ seq + 1 \in LeaseIds' /\ seq + 1 \notin LeaseIds
         /\ leases'[seq + 1].res = r /\ leases'[seq + 1].sess = s
<1>1. seq \in Nat
  BY DEF Inv, TypeOK
<1>2. /\ LeaseIds' = LeaseIds \cup {seq + 1} /\ seq + 1 \notin LeaseIds
      /\ LeaseIds' = 1 .. seq + 1
  BY <1>1, OneMoreId
<1>3. /\ \A k \in LeaseIds : leases'[k] = t[k]
      /\ leases'[seq + 1].res = r /\ leases'[seq + 1].sess = s
  <2>1. leases' = [l \in LeaseIds' |->
                     IF l = seq + 1
                     THEN [res |-> r, sess |-> s,
                           exp |-> IF ttl > 0 THEN now + ttl ELSE 0,
                           state |-> "LEASED"]
                     ELSE t[l]]
    BY <1>2 DEF Granted
  <2> QED
    BY <1>2, <2>1
<1> QED
  BY <1>2, <1>3 DEF KeepsLeases

(* The end of a lease: nothing more than its state changes, or the lease   *)
(* seq + 1 is new, for the call at the head of the queue.                  *)
LEMMA EndKeepsLeases ==
  ASSUME Inv, NEW l \in LeaseIds, NEW final \in {"RELEASED", "EXPIRED"},
         End(l, final)
  PROVE  /\ KeepsLeases
         /\ \/ seq' = seq /\ calls' = calls
            \/ LET r == leases[l].res
                   w == Head(waiters[r])
               IN /\ r \in Resources /\ waiters[r] # <<>> /\ w \in Calls
                  /\ Queued(w) /\ calls[w].res = r
                  /\ seq' = seq + 1 /\ seq + 1 \in LeaseIds'
                  /\ calls' = [calls EXCEPT ![w].pc = "granted",
                                            ![w].lease = seq + 1]
                  /\ leases'[seq + 1].res = r
                  /\ leases'[seq + 1].sess = calls[w].sess
<1> DEFINE r == leases[l].res
           w == Head(waiters[r])
           t == [leases EXCEPT ![l].state = final]
<1>1. /\ leases \in [LeaseIds -> Lease] /\ r \in Resources
      /\ waiters[r] \in Seq(Calls)
  BY DEF Inv, TypeOK, Lease
<1>2. /\ t \in [LeaseIds -> Lease]
      /\ \A k \in LeaseIds : t[k].res = leases[k].res /\ t[k].sess = leases[k].sess
  BY <1>1 DEF Lease
<1>3. CASE EndOnly(l, final)
  <2>1. seq' = seq /\ calls' = calls /\ leases' = t
    BY <1>3 DEF EndOnly
  <2> QED
    BY <1>2, <2>1 DEF KeepsLeases, LeaseIds
<1>4. CASE EndAndHandOff(l, final)
  <2>1. /\ waiters[r] # <<>> /\ seq' = seq + 1
        /\ leases' = Granted(t, r, calls[w].sess, 0)
        /\ calls' = [calls EXCEPT ![w].pc = "granted", ![w].lease = seq + 1]
    BY <1>4 DEF EndAndHandOff, HandOff
  <2>2. w = waiters[r][1] /\ 1 \in DOMAIN waiters[r] /\ w \in Calls
    BY <1>1, <2>1, HeadIsFirst
  <2>3. Queued(w) /\ calls[w].res = r
    BY <1>1, <2>2 DEF Inv, QueuedCallsWait
  <2> HIDE DEF t
  <2>4. /\ KeepsLeases /\ seq + 1 \in LeaseIds'
        /\ leases'[seq + 1].res = r /\ leases'[seq + 1].sess = calls[w].sess
    BY <1>2, <2>1, OneMoreLease
  <2> QED
    BY <1>1, <2>1, <2>2, <2>3, <2>4
<1> QED
  BY <1>3, <1>4 DEF End

-----------------------------------------------------------------------------
(* A call gets what it asked for *)

GrantsDistinct ==
  /\ \A c \in Calls : calls[c].lease \in 0 .. seq
  /\ GrantMatchesCall

(* Of the calls only c changes: it keeps its lease, has none, or gets one  *)
(* that is new; if it is granted it is granted what it asked for.          *)
LEMMA OneCallChanges ==
  ASSUME Inv, GrantsDistinct, KeepsLeases, NEW c \in Calls,
         \A d \in Calls : d # c => calls'[d] = calls[d],
         \/ seq' = seq /\ calls'[c].lease \in {0, calls[c].lease}
         \/ seq' = seq + 1 /\ calls'[c].lease = seq + 1,
         calls'[c].pc = "granted" =>
           /\ calls'[c].lease \in LeaseIds'
           /\ leases'[calls'[c].lease].res = calls'[c].res
           /\ leases'[calls'[c].lease].sess = calls'[c].sess
  PROVE  GrantsDistinct'
<1>1. seq \in Nat /\ \A d \in Calls : calls[d].lease \in 0 .. seq
  BY DEF Inv, TypeOK, GrantsDistinct
<1>2. \A d \in Calls : calls'[d].lease \in 0 .. seq'
  BY <1>1
<1>3. ASSUME NEW d \in Calls, calls'[d].pc = "granted"
      PROVE  /\ calls'[d].lease \in LeaseIds'
             /\ leases'[calls'[d].lease].res = calls'[d].res
             /\ leases'[calls'[d].lease].sess = calls'[d].sess
  <2>1. CASE d = c
    BY <1>3, <2>1
  <2>2. CASE d # c
    <3>1. calls'[d] = calls[d]
      BY <2>2
    <3>2. /\ calls[d].lease \in LeaseIds
          /\ leases[calls[d].lease].res = calls[d].res
          /\ leases[calls[d].lease].sess = calls[d].sess
      BY <1>3, <3>1 DEF GrantsDistinct, GrantMatchesCall
    <3> QED
      BY <3>1, <3>2 DEF KeepsLeases
  <2> QED
    BY <2>1, <2>2
<1>4. ASSUME NEW d \in Calls, NEW e \in Calls,
             calls'[d].lease = calls'[e].lease, calls'[d].lease # 0
      PROVE  d = e
  <2>1. CASE d # c /\ e # c
    BY <1>4, <2>1 DEF GrantsDistinct, GrantMatchesCall
  <2>2. ASSUME NEW x \in Calls, x # c, calls'[x].lease = calls'[c].lease,
               calls'[c].lease # 0
        PROVE  FALSE
    <3>1. calls'[x] = calls[x] /\ calls[x].lease \in 0 .. seq
      BY <1>1, <2>2
    <3>2. calls'[c].lease # seq + 1
      BY <1>1, <2>2, <3>1
    <3>3. calls'[c].lease = calls[c].lease
      BY <2>2, <3>2
    <3> QED
      BY <2>2, <3>1, <3>3 DEF GrantsDistinct, GrantMatchesCall
  <2> QED
    BY <1>4, <2>1, <2>2
<1> QED
  BY <1>2, <1>3, <1>4 DEF GrantsDistinct, GrantMatchesCall

LEMMA NoCallChanges ==
  ASSUME Inv, GrantsDistinct, KeepsLeases, calls' = calls, seq' = seq
  PROVE  GrantsDistinct'
BY DEF GrantsDistinct, GrantMatchesCall, KeepsLeases

LEMMA EndKeepsGrants ==
  ASSUME Inv, GrantsDistinct, NEW l \in LeaseIds,
         NEW final \in {"RELEASED", "EXPIRED"}, End(l, final)
  PROVE  GrantsDistinct'
<1> DEFINE w == Head(waiters[leases[l].res])
<1>1. KeepsLeases
  BY EndKeepsLeases
<1>2. CASE seq' = seq /\ calls' = calls
  BY <1>1, <1>2, NoCallChanges
<1>3. CASE ~(seq' = seq /\ calls' = calls)
  <2>1. /\ w \in Calls /\ calls[w].res = leases[l].res
        /\ seq' = seq + 1 /\ seq + 1 \in LeaseIds'
        /\ calls' = [calls EXCEPT ![w].pc = "granted", ![w].lease = seq + 1]
        /\ leases'[seq + 1].res = leases[l].res
        /\ leases'[seq + 1].sess = calls[w].sess
    BY <1>3, EndKeepsLeases
  <2>2. calls \in [Calls -> Call]
    BY DEF Inv, TypeOK
  <2> HIDE DEF w
  <2>3. /\ \A d \in Calls : d # w => calls'[d] = calls[d]
        /\ calls'[w].lease = seq + 1 /\ calls'[w].res = calls[w].res
        /\ calls'[w].sess = calls[w].sess
    BY <2>1, <2>2 DEF Call
  <2> QED
    BY <1>1, <2>1, <2>3, OneCallChanges
<1> QED
  BY <1>2, <1>3

LEMMA AcquireKeepsGrants ==
  ASSUME Inv, GrantsDistinct, NEW c \in Calls, Acquire(c)
  PROVE  GrantsDistinct'
<1>1. calls \in [Calls -> Call] /\ leases \in [LeaseIds -> Lease]
  BY DEF Inv, TypeOK
<1>2. ASSUME NEW r \in Resources, AcquireUnknown(c, r)
      PROVE  GrantsDistinct'
  <2>1. /\ calls' = [calls EXCEPT ![c] = Returned("failed", 0)]
        /\ UNCHANGED <<seq, leases>>
    BY <1>2 DEF AcquireUnknown
  <2> QED
    BY <1>1, <2>1, SameLeases, OneCallChanges DEF Returned
<1>3. ASSUME NEW r \in Resources, NEW s \in Sessions, NEW ttl \in TTLs,
             AcquireNow(c, r, s, ttl)
      PROVE  GrantsDistinct'
  <2>1. PICK how \in {"leased", "failed"} :
          calls' = [calls EXCEPT ![c] = Returned(how, seq + 1)]
    BY <1>3 DEF AcquireNow
  <2>2. seq' = seq + 1 /\ leases' = Granted(leases, r, s, ttl)
    BY <1>3 DEF AcquireNow
  <2>3. KeepsLeases
    BY <1>1, <2>2, OneMoreLease
  <2>4. /\ calls'[c].lease = seq + 1 /\ calls'[c].pc # "granted"
        /\ \A d \in Calls : d # c => calls'[d] = calls[d]
    BY <1>1, <2>1 DEF Returned
  <2> QED
    BY <2>2, <2>3, <2>4, OneCallChanges
<1>4. ASSUME NEW r \in Resources, NEW s \in Sessions, NEW ttl \in TTLs,
             NEW bounded \in BOOLEAN, AcquireWait(c, r, s, ttl, bounded)
      PROVE  GrantsDistinct'
  <2>1. /\ calls' = [calls EXCEPT ![c] =
                       [pc |-> "waiting", sess |-> s, res |-> r, ttl |-> ttl,
                        bounded |-> bounded, lease |-> 0]]
        /\ UNCHANGED <<seq, leases>>
    BY <1>4 DEF AcquireWait
  <2> QED
    BY <1>1, <2>1, SameLeases, OneCallChanges
<1> QED
  BY <1>2, <1>3, <1>4 DEF Acquire

LEMMA LeavingKeepsGrants ==
  ASSUME Inv, GrantsDistinct, NEW c \in Calls,
         \/ Wake(c)
         \/ GiveUp(c)
         \/ \E r \in Resources : \E i \in DOMAIN waiters[r] :
              waiters[r][i] = c /\ Cancel(r, i)
  PROVE  GrantsDistinct'
<1>1. calls \in [Calls -> Call]
  BY DEF Inv, TypeOK
<1>2. UNCHANGED <<seq, leases>>
  BY DEF Wake, GiveUp, Cancel
<1>3. \/ \E how \in {"leased", "failed"}, l \in {0, calls[c].lease} :
           calls' = [calls EXCEPT ![c] = Returned(how, l)]
      \/ calls' = [calls EXCEPT ![c].pc = "cancelled"]
  BY <1>1 DEF Wake, GiveUp, Cancel
<1>4. /\ calls'[c].lease \in {0, calls[c].lease} /\ calls'[c].pc # "granted"
      /\ \A d \in Calls : d # c => calls'[d] = calls[d]
  <2>1. CASE calls' = [calls EXCEPT ![c].pc = "cancelled"]
    BY <1>1, <2>1 DEF Call
  <2>2. ASSUME NEW how \in {"leased", "failed"}, NEW l \in {0, calls[c].lease},
               calls' = [calls EXCEPT ![c] = Returned(how, l)]
        PROVE  /\ calls'[c] = Returned(how, l)
               /\ \A d \in Calls : d # c => calls'[d] = calls[d]
    BY <1>1, <2>2
  <2> QED
    BY <1>3, <2>1, <2>2 DEF Returned
<1> QED
  BY <1>2, <1>4, SameLeases, OneCallChanges

(* The steps that change no call. *)
LEMMA OthersKeepLeases ==
  ASSUME Inv,
         \/ \E l \in LeaseIds, ttl \in TTLs : Renew(l, ttl)
         \/ \E s \in Sessions : BeginReleaseAll(s)
         \/ \E t \in 0 .. now : BeginSweep(t)
         \/ \E live \in SUBSET Sessions : BeginReap(live)
         \/ \E r \in Resources : EnsureResource(r)
         \/ Unlock
         \/ Tick
         \/ UNCHANGED vars
  PROVE  /\ KeepsLeases /\ UNCHANGED <<seq, waiters, calls>>
         /\ \A k \in LeaseIds : leases'[k].state = leases[k].state
<1>1. leases \in [LeaseIds -> Lease]
  BY DEF Inv, TypeOK
<1>2. ASSUME NEW l \in LeaseIds, NEW ttl \in TTLs, Renew(l, ttl)
      PROVE  /\ KeepsLeases /\ UNCHANGED <<seq, waiters, calls>>
             /\ \A k \in LeaseIds : leases'[k].state = leases[k].state
  <2>1. /\ leases' = [leases EXCEPT ![l].exp = now + ttl]
        /\ UNCHANGED <<seq, waiters, calls>>
    BY <1>2 DEF Renew
  <2> QED
    BY <1>1, <2>1 DEF KeepsLeases, LeaseIds, Lease
<1>3. ASSUME NEW op, NEW doomed, NEW todo, Begin(op, doomed, todo)
      PROVE  UNCHANGED <<seq, leases, waiters, calls>>
  BY <1>3 DEF Begin
<1>4. CASE ~ \E l \in LeaseIds, ttl \in TTLs : Renew(l, ttl)
  <2>1. UNCHANGED <<seq, leases, waiters, calls>>
    BY <1>3, <1>4 DEF BeginReleaseAll, BeginSweep, BeginReap, EnsureResource,
       Unlock, Tick, vars
  <2> QED
    BY <2>1, SameLeases
<1> QED
  BY <1>2, <1>4

LEMMA NextKeepsGrants == Inv /\ GrantsDistinct /\ [Next]_vars => GrantsDistinct'
<1> SUFFICES ASSUME Inv, GrantsDistinct, [Next]_vars PROVE GrantsDistinct'
  OBVIOUS
<1>1. ASSUME NEW c \in Calls, Acquire(c) \/ Wake(c) \/ GiveUp(c)
      PROVE  GrantsDistinct'
  BY <1>1, AcquireKeepsGrants, LeavingKeepsGrants
<1>2. ASSUME NEW l \in LeaseIds, Release(l) \/ ExpireNow(l) \/ Step(l)
      PROVE  GrantsDistinct'
  <2>1. End(l, "RELEASED") \/ End(l, "EXPIRED")
    BY <1>2 DEF Release, ExpireNow, Step
  <2> QED
    BY <2>1, EndKeepsGrants
<1>3. ASSUME NEW r \in Resources, NEW i \in DOMAIN waiters[r], Cancel(r, i)
      PROVE  GrantsDistinct'
  <2>1. waiters[r][i] \in Calls
    BY DEF Inv, TypeOK
  <2> QED
    BY <1>3, <2>1, LeavingKeepsGrants
<1>4. CASE \/ \E l \in LeaseIds, ttl \in TTLs : Renew(l, ttl)
           \/ \E s \in Sessions : BeginReleaseAll(s)
           \/ \E t \in 0 .. now : BeginSweep(t)
           \/ \E live \in SUBSET Sessions : BeginReap(live)
           \/ \E r \in Resources : EnsureResource(r)
           \/ Unlock
           \/ Tick
           \/ UNCHANGED vars
  BY <1>4, OthersKeepLeases, NoCallChanges
<1> QED
  BY <1>1, <1>2, <1>3, <1>4 DEF Next

(* The lease a call returns is on the resource and for the session that    *)
(* the call asked for, and no two calls are handed the same lease,         *)
(* whatever released it and however long the call was queued               *)
(* (internal/lease/manager.go:297, 387).                                   *)
THEOREM GrantsMatchCalls == Spec => []GrantMatchesCall
<1>1. Init => GrantsDistinct
  BY DEF Init, GrantsDistinct, GrantMatchesCall, Idle, Returned
<1>2. GrantsDistinct => GrantMatchesCall
  BY DEF GrantsDistinct
<1> QED
  BY <1>1, <1>2, NextKeepsGrants, InvHolds, PTL DEF Spec

-----------------------------------------------------------------------------
(* A loop ends what it met *)

DoomedListed ==
  /\ walk.base <= seq
  /\ walk.op \in {"ReleaseAll", "ReapOrphans"} =>
       \A l \in 1 .. walk.base :
         Active(l) /\ leases[l].sess \in walk.doomed => l \in walk.todo

LEMMA StepKeepsDoomed ==
  ASSUME Inv, DoomedListed, NEW l \in LeaseIds, Step(l)
  PROVE  DoomedListed' /\ walk'.op = walk.op
<1> DEFINE final == IF walk.op = "ReleaseAll" THEN "RELEASED" ELSE "EXPIRED"
<1>1. /\ l \in walk.todo /\ End(l, final) /\ final \in {"RELEASED", "EXPIRED"}
      /\ \E visited \in SUBSET ((seq + 1) .. seq') :
           walk' = [walk EXCEPT !.todo = (@ \ {l}) \cup visited]
  BY DEF Step
<1>2. /\ walk \in Walk /\ seq \in Nat /\ Active(l)
      /\ leases \in [LeaseIds -> Lease]
  BY <1>1 DEF Inv, TypeOK, WalkExact
<1>3. /\ KeepsLeases /\ (seq' = seq \/ seq' = seq + 1)
  BY <1>1, EndKeepsLeases
<1>4. /\ walk'.op = walk.op /\ walk'.base = walk.base
      /\ walk'.doomed = walk.doomed /\ walk.todo \ {l} \subseteq walk'.todo
  BY <1>1, <1>2 DEF Walk
<1>5. ASSUME NEW k \in LeaseIds, Active(k)'
      PROVE  Active(k) /\ k # l
  <2>1. CASE EndOnly(l, final)
    BY <1>1, <1>2, <1>5, <2>1 DEF EndOnly, Active, Lease
  <2>2. CASE EndAndHandOff(l, final)
    <3>1. k # seq + 1 /\ k \in LeaseIds'
      BY <1>2, <1>3 DEF LeaseIds, KeepsLeases
    <3> QED
      BY <1>1, <1>2, <1>5, <2>2, <3>1, HandOffStep
  <2> QED
    BY <1>1, <2>1, <2>2 DEF End
<1>6. ASSUME NEW k \in 1 .. walk.base
      PROVE  k \in LeaseIds
  BY <1>2, <1>6 DEF DoomedListed, LeaseIds, Walk
<1>7. walk'.base <= seq'
  BY <1>2, <1>3, <1>4 DEF DoomedListed, Walk
<1>8. ASSUME walk'.op \in {"ReleaseAll", "ReapOrphans"},
             NEW k \in 1 .. walk'.base, Active(k)', leases'[k].sess \in walk'.doomed
      PROVE  k \in walk'.todo
  <2>1. k \in LeaseIds
    BY <1>4, <1>6
  <2>2. Active(k) /\ k # l /\ leases[k].sess \in walk.doomed
    BY <1>3, <1>4, <1>5, <1>8, <2>1 DEF KeepsLeases
  <2> QED
    BY <1>4, <1>8, <2>2 DEF DoomedListed
<1> QED
  BY <1>4, <1>7, <1>8 DEF DoomedListed

LEMMA NextKeepsDoomed ==
  ASSUME Inv, DoomedListed, [Next]_vars
  PROVE  /\ DoomedListed'
         /\ walk.op \in {"ReleaseAll", "ReapOrphans"} /\ walk'.op = "none" =>
              \A l \in 1 .. walk.base : Active(l) => leases[l].sess \notin walk.doomed
<1> DEFINE Ended ==
      walk.op \in {"ReleaseAll", "ReapOrphans"} /\ walk'.op = "none" =>
        \A l \in 1 .. walk.base : Active(l) => leases[l].sess \notin walk.doomed
<1>0. walk \in Walk /\ seq \in Nat
  BY DEF Inv, TypeOK
<1>1. CASE walk.op = "none" /\ walk' = walk /\ seq' \in {seq, seq + 1}
  BY <1>0, <1>1 DEF DoomedListed, Walk
<1>2. CASE walk' = walk /\ UNCHANGED <<seq, leases>>
  BY <1>2 DEF DoomedListed, Active
<1>3. ASSUME NEW op, NEW doomed, NEW todo, Begin(op, doomed, todo),
             op \in {"ReleaseAll", "ReapOrphans"} =>
               \A l \in LeaseIds : Active(l) /\ leases[l].sess \in doomed => l \in todo
      PROVE  DoomedListed' /\ Ended
  <2>1. /\ walk.op = "none"
        /\ walk' = [op |-> op, doomed |-> doomed, todo |-> todo, base |-> seq]
        /\ UNCHANGED <<seq, leases>>
    BY <1>3 DEF Begin, MutexFree
  <2> QED
    BY <1>0, <1>3, <2>1 DEF DoomedListed, Active, LeaseIds
<1>4. ASSUME NEW c \in Calls, Acquire(c) \/ Wake(c) \/ GiveUp(c)
      PROVE  DoomedListed' /\ Ended
  <2>1. \/ walk' = walk /\ UNCHANGED <<seq, leases>>
        \/ walk.op = "none" /\ walk' = walk /\ seq' \in {seq, seq + 1}
    BY <1>4 DEF Acquire, AcquireUnknown, AcquireNow, AcquireWait, Wake, GiveUp,
       MutexFree
  <2> QED
    BY <1>1, <1>2, <2>1
<1>5. ASSUME NEW l \in LeaseIds, Release(l) \/ ExpireNow(l)
      PROVE  DoomedListed' /\ Ended
  <2>1. walk.op = "none" /\ walk' = walk
    BY <1>5 DEF Release, ExpireNow, MutexFree
  <2>2. End(l, "RELEASED") \/ End(l, "EXPIRED")
    BY <1>5 DEF Release, ExpireNow
  <2>3. seq' = seq \/ seq' = seq + 1
    BY <2>2, EndKeepsLeases
  <2> QED
    BY <1>1, <2>1, <2>3
<1>6. ASSUME NEW l \in LeaseIds, Step(l)
      PROVE  DoomedListed' /\ Ended
  BY <1>6, StepKeepsDoomed
<1>7. ASSUME NEW l \in LeaseIds, NEW ttl \in TTLs, Renew(l, ttl)
      PROVE  DoomedListed' /\ Ended
  BY <1>1, <1>7 DEF Renew, MutexFree
<1>8. CASE \/ \E s \in Sessions : BeginReleaseAll(s)
           \/ \E t \in 0 .. now : BeginSweep(t)
  BY <1>3, <1>8 DEF BeginReleaseAll, BeginSweep
<1>9. ASSUME NEW live \in SUBSET Sessions, BeginReap(live)
      PROVE  DoomedListed' /\ Ended
  BY <1>3, <1>9 DEF BeginReap
<1>10. CASE Unlock
  <2>1. walk.todo = {} /\ walk' = Free /\ UNCHANGED <<seq, leases>>
    BY <1>10 DEF Unlock
  <2> QED
    BY <1>0, <2>1 DEF DoomedListed, Free
<1>11. CASE \/ \E r \in Resources : EnsureResource(r)
                 \/ \E i \in DOMAIN waiters[r] : Cancel(r, i)
            \/ Tick \/ UNCHANGED vars
  BY <1>2, <1>11 DEF EnsureResource, Cancel, Tick, vars
<1> QED
  BY <1>4, <1>5, <1>6, <1>7, <1>8, <1>9, <1>10, <1>11 DEF Next

(* When ReleaseAll or ReapOrphans unlocks, no lease that was there when it *)
(* locked is LEASED for a session that it is about, although the slots it  *)
(* frees are given away in between (internal/lease/manager.go:404, 503).   *)
THEOREM DoomedLeasesHaveEnded == Spec => DoomedLeasesEnd
<1>1. Init => DoomedListed
  BY DEF Init, DoomedListed, Free
<1>2. Inv /\ DoomedListed /\ [Next]_vars => DoomedListed'
  BY NextKeepsDoomed
<1>3. Inv /\ DoomedListed /\ [Next]_vars =>
        [walk.op \in {"ReleaseAll", "ReapOrphans"} /\ walk'.op = "none" =>
           \A l \in 1 .. walk.base :
             Active(l) => leases[l].sess \notin walk.doomed]_vars
  BY NextKeepsDoomed
<1> QED
  BY <1>1, <1>2, <1>3, InvHolds, PTL DEF Spec, DoomedLeasesEnd

-----------------------------------------------------------------------------
(* Each resource is a fair semaphore *)

Blocked == {c \in Calls : Queued(c)}

(* The bound on lease ids leaves one for each call that is blocked. *)
Bounded == seq + Cardinality(Blocked) <= MaxLeases

LEMMA BlockedFinite ==
  IsFiniteSet(Blocked) /\ Cardinality(Blocked) \in Nat
<1>1. IsFiniteSet(Blocked)
  BY SlotAssumption, FS_Subset DEF Blocked
<1> QED
  BY <1>1, FS_CardinalityType

LEMMA FewerBlocked ==
  ASSUME Inv, Bounded, seq' = seq, Blocked' \subseteq Blocked
  PROVE  Bounded'
<1> DEFINE b == Blocked'
<1>1. b \subseteq Blocked /\ IsFiniteSet(Blocked)
  BY BlockedFinite
<1>2. Cardinality(b) <= Cardinality(Blocked) /\ IsFiniteSet(b)
  BY <1>1, FS_Subset
<1>3. Cardinality(b) \in Nat /\ Cardinality(Blocked) \in Nat
  BY <1>2, BlockedFinite, FS_CardinalityType
<1>4. Cardinality(b) = Cardinality(Blocked)'
  OBVIOUS
<1>5. seq \in Nat /\ MaxLeases \in Nat
  BY BoundAssumption DEF Inv, TypeOK
<1> HIDE DEF b
<1> QED
  BY <1>2, <1>3, <1>4, <1>5 DEF Bounded

LEMMA EndKeepsBounded ==
  ASSUME Inv, Bounded, NEW l \in LeaseIds,
         NEW final \in {"RELEASED", "EXPIRED"}, End(l, final)
  PROVE  Bounded' /\ (seq' = seq + 1 => seq + 1 <= MaxLeases)
<1> DEFINE w == Head(waiters[leases[l].res])
<1>0. seq \in Nat /\ calls \in [Calls -> Call] /\ MaxLeases \in Nat
  BY BoundAssumption DEF Inv, TypeOK
<1>1. CASE seq' = seq /\ calls' = calls
  <2>1. Blocked' \subseteq Blocked
    BY <1>1 DEF Blocked, Queued
  <2> QED
    BY <1>0, <1>1, <2>1, FewerBlocked
<1>2. CASE ~(seq' = seq /\ calls' = calls)
  <2>1. /\ w \in Calls /\ Queued(w) /\ seq' = seq + 1
        /\ calls' = [calls EXCEPT ![w].pc = "granted", ![w].lease = seq + 1]
    BY <1>2, EndKeepsLeases
  <2> HIDE DEF w
  <2>2. Blocked' = Blocked \ {w} /\ w \in Blocked
    BY <1>0, <2>1 DEF Blocked, Queued, Call
  <2>3. Cardinality(Blocked \ {w}) = Cardinality(Blocked) - 1
    BY <2>2, BlockedFinite, FS_RemoveElement
  <2>4. Cardinality(Blocked)' = Cardinality(Blocked) - 1
    BY <2>2, <2>3
  <2>5. Cardinality(Blocked) \in Nat /\ Cardinality(Blocked) # 0
    BY <2>2, BlockedFinite, FS_EmptySet
  <2> QED
    BY <1>0, <2>1, <2>4, <2>5 DEF Bounded
<1> QED
  BY <1>1, <1>2

LEMMA AcquireKeepsBounded ==
  ASSUME Inv, Bounded, NEW c \in Calls, Acquire(c)
  PROVE  Bounded' /\ (seq' = seq + 1 => seq + 1 <= MaxLeases)
<1>0. /\ seq \in Nat /\ calls \in [Calls -> Call] /\ MaxLeases \in Nat
      /\ IsFiniteSet(Blocked) /\ Cardinality(Blocked) \in Nat
  BY BoundAssumption, BlockedFinite DEF Inv, TypeOK
<1>1. ASSUME NEW r \in Resources, AcquireUnknown(c, r)
      PROVE  seq' = seq /\ Blocked' \subseteq Blocked
  BY <1>0, <1>1 DEF AcquireUnknown, Blocked, Queued, Returned
<1>2. ASSUME NEW r \in Resources, NEW s \in Sessions, NEW ttl \in TTLs,
             AcquireNow(c, r, s, ttl)
      PROVE  Bounded' /\ seq' = seq + 1 /\ seq + 1 <= MaxLeases
  <2>1. PICK how \in {"leased", "failed"} :
          calls' = [calls EXCEPT ![c] = Returned(how, seq + 1)]
    BY <1>2 DEF AcquireNow
  <2>2. Room /\ seq' = seq + 1 /\ calls[c].pc # "waiting"
    BY <1>2 DEF AcquireNow
  <2>3. Blocked' = Blocked
    BY <1>0, <2>1, <2>2 DEF Blocked, Queued, Returned
  <2>4. Cardinality(Blocked)' = Cardinality(Blocked)
    BY <2>3
  <2>5. seq + Cardinality(Blocked) < MaxLeases
    BY <2>2 DEF Room, Blocked
  <2> QED
    BY <1>0, <2>2, <2>4, <2>5 DEF Bounded
<1>3. ASSUME NEW r \in Resources, NEW s \in Sessions, NEW ttl \in TTLs,
             NEW bounded \in BOOLEAN, AcquireWait(c, r, s, ttl, bounded)
      PROVE  Bounded' /\ seq' = seq
  <2>1. /\ Room /\ seq' = seq /\ ~Queued(c)
        /\ calls' = [calls EXCEPT ![c] =
                       [pc |-> "waiting", sess |-> s, res |-> r, ttl |-> ttl,
                        bounded |-> bounded, lease |-> 0]]
    BY <1>3 DEF AcquireWait, Queued
  <2>2. Blocked' = Blocked \cup {c} /\ c \notin Blocked
    BY <1>0, <2>1 DEF Blocked, Queued
  <2>3. Cardinality(Blocked \cup {c}) = Cardinality(Blocked) + 1
    BY <1>0, <2>2, FS_AddElement
  <2>4. Cardinality(Blocked)' = Cardinality(Blocked) + 1
    BY <2>2, <2>3
  <2>5. seq + Cardinality(Blocked) < MaxLeases
    BY <2>1 DEF Room, Blocked
  <2> QED
    BY <1>0, <2>1, <2>4, <2>5 DEF Bounded
<1>4. \/ \E r \in Resources : AcquireUnknown(c, r)
      \/ \E r \in Resources, s \in Sessions, ttl \in TTLs : AcquireNow(c, r, s, ttl)
      \/ \E r \in Resources, s \in Sessions, ttl \in TTLs, bounded \in BOOLEAN :
           AcquireWait(c, r, s, ttl, bounded)
  BY DEF Acquire
<1>5. CASE \E r \in Resources : AcquireUnknown(c, r)
  BY <1>0, <1>1, <1>5, FewerBlocked
<1>6. CASE \E r \in Resources, s \in Sessions, ttl \in TTLs : AcquireNow(c, r, s, ttl)
  BY <1>2, <1>6
<1>7. CASE \E r \in Resources, s \in Sessions, ttl \in TTLs, bounded \in BOOLEAN :
             AcquireWait(c, r, s, ttl, bounded)
  BY <1>0, <1>3, <1>7
<1> QED
  BY <1>4, <1>5, <1>6, <1>7

LEMMA NextKeepsBounded ==
  ASSUME Inv, Bounded, [Next]_vars
  PROVE  Bounded' /\ (seq' = seq + 1 => seq + 1 <= MaxLeases)
<1>0. seq \in Nat /\ calls \in [Calls -> Call]
  BY DEF Inv, TypeOK
<1>1. ASSUME NEW c \in Calls, Wake(c) \/ GiveUp(c)
      PROVE  seq' = seq /\ Blocked' \subseteq Blocked
  <2>1. seq' = seq /\ \A d \in Calls : d # c => calls'[d] = calls[d]
    BY <1>0, <1>1 DEF Wake, GiveUp
  <2>2. ~Queued(c)'
    BY <1>0, <1>1 DEF Wake, GiveUp, Queued, Returned
  <2> QED
    BY <2>1, <2>2 DEF Blocked, Queued
<1>2. ASSUME NEW l \in LeaseIds, Release(l) \/ ExpireNow(l) \/ Step(l)
      PROVE  Bounded' /\ (seq' = seq + 1 => seq + 1 <= MaxLeases)
  <2>1. End(l, "RELEASED") \/ End(l, "EXPIRED")
    BY <1>2 DEF Release, ExpireNow, Step
  <2> QED
    BY <2>1, EndKeepsBounded
<1>3. ASSUME NEW r \in Resources, NEW i \in DOMAIN waiters[r], Cancel(r, i)
      PROVE  seq' = seq /\ Blocked' \subseteq Blocked
  <2>1. waiters[r][i] \in Calls
    BY DEF Inv, TypeOK
  <2> QED
    BY <1>0, <1>3, <2>1 DEF Cancel, Blocked, Queued, Call
<1>4. CASE \/ \E l \in LeaseIds, ttl \in TTLs : Renew(l, ttl)
           \/ \E s \in Sessions : BeginReleaseAll(s)
           \/ \E t \in 0 .. now : BeginSweep(t)
           \/ \E live \in SUBSET Sessions : BeginReap(live)
           \/ \E r \in Resources : EnsureResource(r)
           \/ Unlock
           \/ Tick
           \/ UNCHANGED vars
  <2>1. seq' = seq /\ calls' = calls
    BY <1>4, OthersKeepLeases
  <2>2. Blocked' \subseteq Blocked
    BY <2>1 DEF Blocked, Queued
  <2> QED
    BY <1>0, <2>1, <2>2, FewerBlocked
<1>5. ASSUME seq' = seq, Blocked' \subseteq Blocked
      PROVE  Bounded' /\ (seq' = seq + 1 => seq + 1 <= MaxLeases)
  BY <1>0, <1>5, FewerBlocked
<1> QED
  BY <1>1, <1>2, <1>3, <1>4, <1>5, AcquireKeepsBounded DEF Next

(* The sessions that wait for Slot, and how the queue of calls shows them. *)
LEMMA QueueOfSessions ==
  ASSUME Inv
  PROVE  /\ waiters[Slot] \in Seq(Calls)
         /\ SessionsWaitingFor(Slot) \in Seq(Sessions)
         /\ Len(SessionsWaitingFor(Slot)) = Len(waiters[Slot])
         /\ Len(waiters[Slot]) \in Nat
         /\ \A i \in 1 .. Len(waiters[Slot]) :
              SessionsWaitingFor(Slot)[i] = calls[waiters[Slot][i]].sess
         /\ SessionsWaitingFor(Slot) = <<>> <=> waiters[Slot] = <<>>
<1> DEFINE q == waiters[Slot]
           v == SessionsWaitingFor(Slot)
<1>1. q \in Seq(Calls) /\ DOMAIN q = 1 .. Len(q) /\ Len(q) \in Nat
  BY SlotAssumption, LenProperties DEF Inv, TypeOK
<1>2. \A i \in 1 .. Len(q) : calls[q[i]].sess \in Sessions
  BY <1>1, SlotAssumption DEF Inv, QueuedCallsWait
<1>3. v = [i \in 1 .. Len(q) |-> calls[q[i]].sess]
  BY <1>1 DEF SessionsWaitingFor
<1> HIDE DEF q
<1>4. v \in Seq(Sessions) /\ Len(v) = Len(q)
  BY <1>1, <1>2, <1>3, IsASeq, LenProperties
<1>5. \A i \in 1 .. Len(q) : v[i] = calls[q[i]].sess
  BY <1>3
<1>6. v = <<>> <=> Len(v) = 0
  BY <1>4, EmptySeq
<1>7. q = <<>> <=> Len(q) = 0
  BY <1>1, EmptySeq
<1> QED
  BY <1>1, <1>4, <1>5, <1>6, <1>7 DEF q

(* A sequence with the length and the elements of the next queue is the    *)
(* next queue as the semaphore sees it.                                    *)
LEMMA NextQueue ==
  ASSUME waiters' \in [Resources -> Seq(Calls)],
         NEW u \in Seq(Sessions), Len(u) = Len(waiters'[Slot]),
         \A i \in 1 .. Len(u) : u[i] = calls'[waiters'[Slot][i]].sess
  PROVE  SessionsWaitingFor(Slot)' = u
<1> DEFINE q == waiters'[Slot]
<1>1. DOMAIN q = 1 .. Len(q) /\ Len(u) \in Nat /\ u \in Seq(Sessions)
  BY SlotAssumption, LenProperties
<1>2. SessionsWaitingFor(Slot)' = [i \in 1 .. Len(q) |-> calls'[q[i]].sess]
  BY <1>1 DEF SessionsWaitingFor
<1> HIDE DEF q
<1>3. Len(u) = Len(q) /\ \A i \in 1 .. Len(u) : u[i] = calls'[q[i]].sess
  BY DEF q
<1>4. u = [i \in 1 .. Len(u) |-> u[i]]
  BY <1>1
<1> QED
  BY <1>2, <1>3, <1>4

LEMMA QueueUnchanged ==
  ASSUME Inv, Inv', waiters'[Slot] = waiters[Slot],
         \A i \in DOMAIN waiters[Slot] :
           calls'[waiters[Slot][i]].sess = calls[waiters[Slot][i]].sess
  PROVE  SessionsWaitingFor(Slot)' = SessionsWaitingFor(Slot)
BY SlotAssumption DEF SessionsWaitingFor

LEMMA QueueServed ==
  ASSUME Inv, Inv', waiters[Slot] # <<>>, waiters'[Slot] = Tail(waiters[Slot]),
         \A d \in Calls : calls'[d].sess = calls[d].sess
  PROVE  /\ SessionsWaitingFor(Slot)' = Tail(SessionsWaitingFor(Slot))
         /\ Head(SessionsWaitingFor(Slot)) = calls[Head(waiters[Slot])].sess
         /\ SessionsWaitingFor(Slot) # <<>>
<1> DEFINE q == waiters[Slot]
           v == SessionsWaitingFor(Slot)
<1>1. /\ q \in Seq(Calls) /\ v \in Seq(Sessions) /\ Len(v) = Len(q)
      /\ \A i \in 1 .. Len(q) : v[i] = calls[q[i]].sess
      /\ v # <<>> /\ q # <<>> /\ Len(q) \in Nat
  BY QueueOfSessions
<1>2. waiters' \in [Resources -> Seq(Calls)] /\ waiters'[Slot] = Tail(q)
  BY DEF Inv, TypeOK
<1> HIDE DEF q, v
<1>3. /\ Tail(q) \in Seq(Calls) /\ Len(Tail(q)) = Len(q) - 1
      /\ \A i \in 1 .. Len(Tail(q)) : Tail(q)[i] = q[i + 1]
  BY <1>1, HeadTailProperties
<1>4. /\ Tail(v) \in Seq(Sessions) /\ Len(Tail(v)) = Len(q) - 1
      /\ \A i \in 1 .. Len(Tail(v)) : Tail(v)[i] = v[i + 1]
  BY <1>1, HeadTailProperties
<1>5. \A i \in 1 .. Len(Tail(v)) :
        i + 1 \in 1 .. Len(q) /\ Tail(q)[i] = q[i + 1] /\ Tail(q)[i] \in Calls
  BY <1>1, <1>3, <1>4
<1>6. \A i \in 1 .. Len(Tail(v)) : Tail(v)[i] = calls'[Tail(q)[i]].sess
  BY <1>1, <1>4, <1>5
<1>7. SessionsWaitingFor(Slot)' = Tail(v)
  BY <1>2, <1>3, <1>4, <1>6, NextQueue
<1>8. Head(v) = v[1] /\ Head(q) = q[1] /\ 1 \in 1 .. Len(q)
  BY <1>1, HeadIsFirst
<1> QED
  BY <1>1, <1>7, <1>8 DEF q, v

LEMMA QueueLeft ==
  ASSUME Inv, Inv', NEW i \in DOMAIN waiters[Slot],
         waiters'[Slot] = RemoveAt(waiters[Slot], i),
         \A d \in Calls : d # waiters[Slot][i] => calls'[d].sess = calls[d].sess
  PROVE  /\ SessionsWaitingFor(Slot)' = RemoveAt(SessionsWaitingFor(Slot), i)
         /\ i \in DOMAIN SessionsWaitingFor(Slot)
<1> DEFINE q == waiters[Slot]
           v == SessionsWaitingFor(Slot)
           x == RemoveAt(q, i)
           y == RemoveAt(v, i)
<1>1. /\ q \in Seq(Calls) /\ v \in Seq(Sessions) /\ Len(v) = Len(q)
      /\ \A j \in 1 .. Len(q) : v[j] = calls[q[j]].sess
      /\ Len(q) \in Nat /\ i \in 1 .. Len(q)
  BY QueueOfSessions, LenProperties
<1>2. \A j \in 1 .. Len(q) : j # i => q[j] # q[i] /\ q[j] \in Calls
  BY <1>1, SlotAssumption DEF Inv, QueuedCallsWait
<1>3. /\ waiters' \in [Resources -> Seq(Calls)] /\ waiters'[Slot] = x
      /\ \A d \in Calls : d # q[i] => calls'[d].sess = calls[d].sess
  BY DEF Inv, TypeOK
<1>4. /\ x \in Seq(Calls) /\ Len(x) = Len(q) - 1
      /\ \A j \in 1 .. Len(x) : x[j] = IF j < i THEN q[j] ELSE q[j + 1]
  <2> HIDE DEF q
  <2> QED
    BY <1>1, RemoveAtProperties
<1>5. /\ y \in Seq(Sessions) /\ Len(y) = Len(q) - 1
      /\ \A j \in 1 .. Len(y) : y[j] = IF j < i THEN v[j] ELSE v[j + 1]
  <2> HIDE DEF q, v
  <2> QED
    BY <1>1, RemoveAtProperties
<1> HIDE DEF q, v, x, y
<1>6. ASSUME NEW j \in 1 .. Len(y)
      PROVE  y[j] = calls'[x[j]].sess
  <2> DEFINE m == IF j < i THEN j ELSE j + 1
  <2>1. j \in 1 .. Len(q) - 1 /\ j \in 1 .. Len(x)
    BY <1>4, <1>5, <1>6
  <2>2. y[j] = v[m]
    BY <1>5, <1>6
  <2>3. x[j] = q[m]
    BY <1>4, <2>1
  <2>4. m \in 1 .. Len(q) /\ m # i
    BY <1>1, <2>1
  <2> HIDE DEF m
  <2> QED
    BY <1>1, <1>2, <1>3, <2>2, <2>3, <2>4
<1>7. SessionsWaitingFor(Slot)' = y
  BY <1>3, <1>4, <1>5, <1>6, NextQueue
<1>8. i \in DOMAIN v
  BY <1>1, LenProperties
<1> QED
  BY <1>7, <1>8 DEF v, y

LEMMA QueueJoined ==
  ASSUME Inv, Inv', NEW c \in Calls, NEW s \in Sessions, ~Queued(c),
         waiters'[Slot] = Append(waiters[Slot], c), calls'[c].sess = s,
         \A d \in Calls : d # c => calls'[d].sess = calls[d].sess
  PROVE  SessionsWaitingFor(Slot)' = Append(SessionsWaitingFor(Slot), s)
<1> DEFINE q == waiters[Slot]
           v == SessionsWaitingFor(Slot)
<1>1. /\ q \in Seq(Calls) /\ v \in Seq(Sessions) /\ Len(v) = Len(q)
      /\ \A j \in 1 .. Len(q) : v[j] = calls[q[j]].sess
      /\ Len(q) \in Nat
  BY QueueOfSessions
<1>2. \A j \in 1 .. Len(q) : q[j] \in Calls /\ q[j] # c
  BY <1>1, SlotAssumption DEF Inv, QueuedCallsWait
<1>3. /\ waiters' \in [Resources -> Seq(Calls)] /\ waiters'[Slot] = Append(q, c)
  BY DEF Inv, TypeOK
<1> HIDE DEF q, v
<1>4. /\ Len(Append(q, c)) = Len(q) + 1 /\ Append(q, c)[Len(q) + 1] = c
      /\ \A j \in 1 .. Len(q) : Append(q, c)[j] = q[j]
  BY <1>1, AppendProperties
<1>5. /\ Len(Append(v, s)) = Len(v) + 1 /\ Append(v, s)[Len(v) + 1] = s
      /\ \A j \in 1 .. Len(v) : Append(v, s)[j] = v[j]
      /\ Append(v, s) \in Seq(Sessions)
  BY <1>1, AppendProperties
<1>6. ASSUME NEW j \in 1 .. Len(Append(v, s))
      PROVE  Append(v, s)[j] = calls'[Append(q, c)[j]].sess
  <2>1. j \in 1 .. Len(q) \/ j = Len(q) + 1
    BY <1>1, <1>5, <1>6
  <2>2. CASE j \in 1 .. Len(q)
    BY <1>1, <1>2, <1>4, <1>5, <2>2
  <2>3. CASE j = Len(q) + 1
    BY <1>1, <1>4, <1>5, <2>3
  <2> QED
    BY <2>1, <2>2, <2>3
<1>7. SessionsWaitingFor(Slot)' = Append(v, s)
  BY <1>1, <1>3, <1>4, <1>5, <1>6, NextQueue
<1> QED
  BY <1>7 DEF v

(* The operators of the library are those of the instance. *)
LEMMA SameCardinality ==
  ASSUME NEW S
  PROVE  Semaphore!Cardinality(S) = Cardinality(S)
BY DEF Semaphore!Cardinality, Cardinality

LEMMA SameRemoveAt ==
  ASSUME NEW S, NEW i
  PROVE  Semaphore!RemoveAt(S, i) = RemoveAt(S, i)
BY DEF Semaphore!RemoveAt, RemoveAt

(* The grants of the semaphore. *)
LEMMA SameGrants ==
  ASSUME Inv, KeepsLeases, seq' = seq
  PROVE  GranteesOn(Slot)' = GranteesOn(Slot)
BY DEF GranteesOn, KeepsLeases, LeaseIds

LEMMA OtherGrant ==
  ASSUME Inv, KeepsLeases, seq' = seq + 1, leases'[seq + 1].res # Slot
  PROVE  GranteesOn(Slot)' = GranteesOn(Slot)
<1>1. LeaseIds' = LeaseIds \cup {seq + 1}
  BY OneMoreId DEF Inv, TypeOK
<1>2. {k \in LeaseIds' : leases'[k].res = Slot} = {k \in LeaseIds : leases[k].res = Slot}
  BY <1>1 DEF KeepsLeases
<1> QED
  BY <1>2 DEF GranteesOn, KeepsLeases

LEMMA NewGrant ==
  ASSUME Inv, KeepsLeases, NEW s, seq' = seq + 1,
         leases'[seq + 1].res = Slot, leases'[seq + 1].sess = s
  PROVE  Semaphore!Grant(seq + 1, s)
<1> DEFINE on == {k \in LeaseIds : leases[k].res = Slot}
<1>1. LeaseIds' = LeaseIds \cup {seq + 1} /\ seq + 1 \notin LeaseIds
  BY OneMoreId DEF Inv, TypeOK
<1>2. {k \in LeaseIds' : leases'[k].res = Slot} = on \cup {seq + 1}
  BY <1>1 DEF KeepsLeases
<1>3. DOMAIN GranteesOn(Slot) = on /\ seq + 1 \notin on
  BY <1>1 DEF GranteesOn
<1>4. GranteesOn(Slot)' = [k \in on \cup {seq + 1} |-> leases'[k].sess]
  BY <1>2 DEF GranteesOn
<1>5. \A k \in on \cup {seq + 1} :
        leases'[k].sess = IF k = seq + 1 THEN s ELSE GranteesOn(Slot)[k]
  BY <1>3 DEF GranteesOn, KeepsLeases
<1> HIDE DEF on
<1>6. GranteesOn(Slot)' =
        [k \in on \cup {seq + 1} |-> IF k = seq + 1 THEN s ELSE GranteesOn(Slot)[k]]
  BY <1>4, <1>5
<1> QED
  BY <1>3, <1>6 DEF Semaphore!Grant

(* A step of the semaphore, or none. *)
SemaphoreStep ==
  \/ Semaphore!Next
  \/ UNCHANGED <<GranteesOn(Slot), ActiveOn(Slot), SessionsWaitingFor(Slot)>>

LEMMA AcquireIsStep ==
  ASSUME Inv, Inv', Bounded, NEW c \in Calls, Acquire(c)
  PROVE  SemaphoreStep
<1>0. /\ calls \in [Calls -> Call] /\ leases \in [LeaseIds -> Lease] /\ seq \in Nat
      /\ waiters \in [Resources -> Seq(Calls)] /\ Slot \in Resources
      /\ waiters[Slot] \in Seq(Calls)
  BY SlotAssumption DEF Inv, TypeOK
<1>1. ~Queued(c) => \A i \in DOMAIN waiters[Slot] : waiters[Slot][i] # c
                                              /\ waiters[Slot][i] \in Calls
  BY <1>0 DEF Inv, QueuedCallsWait
<1>2. ASSUME NEW r \in Resources, AcquireUnknown(c, r)
      PROVE  SemaphoreStep
  <2>1. /\ UNCHANGED <<seq, leases, waiters>> /\ ~Queued(c)
        /\ \A d \in Calls : d # c => calls'[d] = calls[d]
    BY <1>0, <1>2 DEF AcquireUnknown, Queued
  <2>2. SessionsWaitingFor(Slot)' = SessionsWaitingFor(Slot)
    BY <1>1, <2>1, QueueUnchanged
  <2>3. GranteesOn(Slot)' = GranteesOn(Slot) /\ ActiveOn(Slot)' = ActiveOn(Slot)
    BY <2>1 DEF GranteesOn, ActiveOn, Active, LeaseIds
  <2> QED
    BY <2>2, <2>3 DEF SemaphoreStep
<1>3. ASSUME NEW r \in Resources, NEW s \in Sessions, NEW ttl \in TTLs,
             AcquireNow(c, r, s, ttl)
      PROVE  SemaphoreStep
  <2>1. /\ seq' = seq + 1 /\ leases' = Granted(leases, r, s, ttl)
        /\ Cardinality(holders[r]) < CapacityOf(r) /\ waiters' = waiters
        /\ ~Queued(c) /\ \A d \in Calls : d # c => calls'[d] = calls[d]
    BY <1>0, <1>3 DEF AcquireNow, Queued
  <2>2. /\ KeepsLeases /\ seq + 1 \in LeaseIds' /\ seq + 1 \notin LeaseIds
        /\ leases'[seq + 1].res = r /\ leases'[seq + 1].sess = s
    BY <1>0, <2>1, OneMoreLease
  <2>3. SessionsWaitingFor(Slot)' = SessionsWaitingFor(Slot)
    BY <1>1, <2>1, QueueUnchanged
  <2>4. /\ LeaseIds' = LeaseIds \cup {seq + 1}
        /\ \A k \in LeaseIds : leases'[k] = leases[k]
        /\ leases'[seq + 1].state = "LEASED"
    <3>1. LeaseIds' = LeaseIds \cup {seq + 1} /\ LeaseIds' = 1 .. seq + 1
      BY <1>0, <2>1, OneMoreId
    <3> QED
      BY <1>0, <2>1, <2>2, <3>1 DEF Granted
  <2>5. CASE r # Slot
    <3>1. ActiveOn(Slot)' = ActiveOn(Slot)
      BY <2>2, <2>4, <2>5 DEF ActiveOn, Active
    <3> QED
      BY <2>1, <2>2, <2>3, <2>5, <3>1, OtherGrant DEF SemaphoreStep
  <2>6. CASE r = Slot
    <3>1. ActiveOn(Slot)' = ActiveOn(Slot) \cup {seq + 1}
      BY <2>2, <2>4, <2>6 DEF ActiveOn, Active
    <3>2. waiters[Slot] = <<>>
      BY <1>0, <2>1, <2>6, RoomMeansNoQueue
    <3>3. SessionsWaitingFor(Slot) = <<>>
      BY <3>2, QueueOfSessions
    <3>4. Cardinality(ActiveOn(Slot)) < CapacityOf(Slot)
      BY <1>0, <2>1, <2>6 DEF Inv, HoldersExact
    <3>5. Semaphore!Grant(seq + 1, s)
      BY <2>1, <2>2, <2>6, NewGrant
    <3>6. Semaphore!Take(s, seq + 1)
      BY <2>3, <3>1, <3>3, <3>4, <3>5, SameCardinality DEF Semaphore!Take
    <3>7. [Next]_vars
      BY <1>3 DEF Next, Acquire
    <3>8. seq + 1 \in 1 .. MaxLeases
      BY <1>0, <2>1, <3>7, BoundAssumption, NextKeepsBounded
    <3> QED
      BY <3>6, <3>8 DEF SemaphoreStep, Semaphore!Next
  <2> QED
    BY <2>5, <2>6
<1>4. ASSUME NEW r \in Resources, NEW s \in Sessions, NEW ttl \in TTLs,
             NEW bounded \in BOOLEAN, AcquireWait(c, r, s, ttl, bounded)
      PROVE  SemaphoreStep
  <2>1. /\ UNCHANGED <<seq, leases>> /\ ~Queued(c)
        /\ Cardinality(holders[r]) >= CapacityOf(r)
        /\ waiters' = [waiters EXCEPT ![r] = Append(waiters[r], c)]
        /\ calls'[c].sess = s
        /\ \A d \in Calls : d # c => calls'[d] = calls[d]
    BY <1>0, <1>4 DEF AcquireWait, Queued
  <2>2. GranteesOn(Slot)' = GranteesOn(Slot) /\ ActiveOn(Slot)' = ActiveOn(Slot)
    BY <2>1 DEF GranteesOn, ActiveOn, Active, LeaseIds
  <2>3. CASE r # Slot
    <3>1. waiters'[Slot] = waiters[Slot]
      BY <1>0, <2>1, <2>3
    <3>2. SessionsWaitingFor(Slot)' = SessionsWaitingFor(Slot)
      BY <1>1, <2>1, <3>1, QueueUnchanged
    <3> QED
      BY <2>2, <3>2 DEF SemaphoreStep
  <2>4. CASE r = Slot
    <3>1. waiters'[Slot] = Append(waiters[Slot], c)
      BY <1>0, <2>1, <2>4
    <3>2. SessionsWaitingFor(Slot)' = Append(SessionsWaitingFor(Slot), s)
      BY <2>1, <3>1, QueueJoined
    <3>3. Cardinality(ActiveOn(Slot)) >= CapacityOf(Slot)
      BY <1>0, <2>1, <2>4 DEF Inv, HoldersExact
    <3>4. Semaphore!Join(s)
      BY <2>2, <3>2, <3>3, SameCardinality DEF Semaphore!Join
    <3> QED
      BY <3>4 DEF SemaphoreStep, Semaphore!Next
  <2> QED
    BY <2>3, <2>4
<1> QED
  BY <1>2, <1>3, <1>4 DEF Acquire

(* A call leaves the queue of its resource: it gave up or was cancelled. *)
LEMMA LeavingIsStep ==
  ASSUME Inv, Inv', NEW c \in Calls, NEW r \in Resources, NEW i \in DOMAIN waiters[r],
         waiters[r][i] = c, UNCHANGED <<seq, leases>>,
         waiters' = [waiters EXCEPT ![r] = RemoveAt(waiters[r], i)],
         \A d \in Calls : d # c => calls'[d] = calls[d]
  PROVE  SemaphoreStep
<1>0. /\ waiters \in [Resources -> Seq(Calls)] /\ Slot \in Resources
      /\ waiters[Slot] \in Seq(Calls)
  BY SlotAssumption DEF Inv, TypeOK
<1>1. GranteesOn(Slot)' = GranteesOn(Slot) /\ ActiveOn(Slot)' = ActiveOn(Slot)
  BY DEF GranteesOn, ActiveOn, Active, LeaseIds
<1>2. CASE r # Slot
  <2>1. waiters'[Slot] = waiters[Slot]
    BY <1>0, <1>2
  <2>2. calls[c].res = r
    BY DEF Inv, QueuedCallsWait
  <2>3. \A j \in DOMAIN waiters[Slot] : waiters[Slot][j] # c /\ waiters[Slot][j] \in Calls
    BY <1>0, <1>2, <2>2 DEF Inv, QueuedCallsWait
  <2>4. SessionsWaitingFor(Slot)' = SessionsWaitingFor(Slot)
    BY <2>1, <2>3, QueueUnchanged
  <2> QED
    BY <1>1, <2>4 DEF SemaphoreStep
<1>3. CASE r = Slot
  <2>1. waiters'[Slot] = RemoveAt(waiters[Slot], i)
    BY <1>0, <1>3
  <2>2. /\ SessionsWaitingFor(Slot)' = RemoveAt(SessionsWaitingFor(Slot), i)
        /\ i \in DOMAIN SessionsWaitingFor(Slot)
    BY <1>3, <2>1, QueueLeft
  <2>3. Semaphore!Leave(i)
    BY <1>1, <2>2, SameRemoveAt DEF Semaphore!Leave
  <2> QED
    BY <2>2, <2>3 DEF SemaphoreStep, Semaphore!Next
<1> QED
  BY <1>2, <1>3

LEMMA GiveUpIsStep ==
  ASSUME Inv, Inv', NEW c \in Calls, Wake(c) \/ GiveUp(c)
  PROVE  SemaphoreStep
<1>0. /\ calls \in [Calls -> Call] /\ waiters \in [Resources -> Seq(Calls)]
      /\ Slot \in Resources
  BY SlotAssumption DEF Inv, TypeOK
<1>1. /\ UNCHANGED <<seq, leases>>
      /\ \A d \in Calls : d # c => calls'[d] = calls[d]
  BY <1>0 DEF Wake, GiveUp
<1>2. GranteesOn(Slot)' = GranteesOn(Slot) /\ ActiveOn(Slot)' = ActiveOn(Slot)
  BY <1>1 DEF GranteesOn, ActiveOn, Active, LeaseIds
<1>3. CASE /\ waiters'[Slot] = waiters[Slot]
           /\ \A j \in DOMAIN waiters[Slot] : waiters[Slot][j] # c
  <2>1. \A j \in DOMAIN waiters[Slot] : waiters[Slot][j] \in Calls
    BY <1>0
  <2>2. SessionsWaitingFor(Slot)' = SessionsWaitingFor(Slot)
    BY <1>1, <1>3, <2>1, QueueUnchanged
  <2> QED
    BY <1>2, <2>2 DEF SemaphoreStep
<1>4. CASE Wake(c)
  <2>1. waiters' = waiters /\ ~Queued(c)
    BY <1>4 DEF Wake, Queued
  <2>2. \A j \in DOMAIN waiters[Slot] : waiters[Slot][j] # c
    BY <1>0, <2>1 DEF Inv, QueuedCallsWait
  <2> QED
    BY <1>3, <2>1, <2>2
<1>5. CASE GiveUp(c)
  <2> DEFINE r == calls[c].res
  <2>1. \/ \E i \in DOMAIN waiters[r] :
             waiters[r][i] = c /\ waiters' = [waiters EXCEPT ![r] = RemoveAt(waiters[r], i)]
        \/ (\A i \in DOMAIN waiters[r] : waiters[r][i] # c) /\ waiters' = waiters
    BY <1>5 DEF GiveUp
  <2>2. \A j \in DOMAIN waiters[Slot] : waiters[Slot][j] = c => r = Slot
    BY <1>0 DEF Inv, QueuedCallsWait
  <2>3. CASE r \notin Resources
    <3>1. r # Slot /\ waiters'[Slot] = waiters[Slot]
      BY <1>0, <2>1, <2>3
    <3> QED
      BY <1>3, <2>2, <3>1
  <2>4. CASE (\A i \in DOMAIN waiters[r] : waiters[r][i] # c) /\ waiters' = waiters
    BY <1>3, <2>2, <2>4
  <2>5. CASE r \in Resources /\ \E i \in DOMAIN waiters[r] :
               waiters[r][i] = c /\ waiters' = [waiters EXCEPT ![r] = RemoveAt(waiters[r], i)]
    <3> HIDE DEF r
    <3> QED
      BY <1>1, <2>5, LeavingIsStep
  <2> QED
    BY <2>1, <2>3, <2>4, <2>5
<1> QED
  BY <1>4, <1>5

LEMMA EndIsStep ==
  ASSUME Inv, Inv', Bounded, NEW l \in LeaseIds, Active(l),
         NEW final \in {"RELEASED", "EXPIRED"}, End(l, final)
  PROVE  SemaphoreStep
<1> DEFINE r == leases[l].res
           w == Head(waiters[r])
<1>0. /\ calls \in [Calls -> Call] /\ leases \in [LeaseIds -> Lease] /\ seq \in Nat
      /\ waiters \in [Resources -> Seq(Calls)] /\ Slot \in Resources
      /\ waiters[Slot] \in Seq(Calls) /\ r \in Resources
  BY SlotAssumption DEF Inv, TypeOK, Lease
<1>1. KeepsLeases /\ Bounded' /\ (seq' = seq + 1 => seq + 1 <= MaxLeases)
  BY EndKeepsLeases, EndKeepsBounded
<1>2. CASE EndOnly(l, final)
  <2>1. /\ seq' = seq /\ waiters' = waiters /\ calls' = calls
        /\ waiters[r] = <<>> \/ Cardinality(holders[r] \ {l}) >= CapacityOf(r)
    BY <1>2 DEF EndOnly
  <2>2. GranteesOn(Slot)' = GranteesOn(Slot)
    BY <1>1, <2>1, SameGrants
  <2>3. SessionsWaitingFor(Slot)' = SessionsWaitingFor(Slot)
    BY <2>1 DEF SessionsWaitingFor
  <2>4. ActiveOn(Slot)' = ActiveOn(Slot) \ {l}
    BY <1>0, <1>2, EndOnlyStep
  <2>5. CASE r # Slot
    <3>1. l \notin ActiveOn(Slot)
      BY <2>5 DEF ActiveOn
    <3> QED
      BY <2>2, <2>3, <2>4, <3>1 DEF SemaphoreStep
  <2>6. CASE r = Slot
    <3>1. l \in ActiveOn(Slot) /\ holders[r] = ActiveOn(Slot)
      BY <1>0, <2>6 DEF ActiveOn, Inv, HoldersExact
    <3>2. IsFiniteSet(ActiveOn(Slot)) /\ Cardinality(ActiveOn(Slot)) \in Nat
      BY <1>0, ActiveFinite
    <3>3. Cardinality(ActiveOn(Slot) \ {l}) = Cardinality(ActiveOn(Slot)) - 1
      BY <3>1, <3>2, FS_RemoveElement
    <3>4. Cardinality(ActiveOn(Slot)) <= CapacityOf(Slot) /\ CapacityOf(Slot) \in Nat
      BY <1>0, CapacityPositive DEF Inv, CapacityRespected
    <3>5. ~(Cardinality(holders[r] \ {l}) >= CapacityOf(r))
      BY <2>6, <3>1, <3>2, <3>3, <3>4
    <3>6. SessionsWaitingFor(Slot) = <<>>
      BY <2>1, <2>6, <3>5, QueueOfSessions
    <3>7. Semaphore!Return(l)
      BY <2>2, <2>3, <2>4, <3>6 DEF Semaphore!Return
    <3> QED
      BY <3>1, <3>7 DEF SemaphoreStep, Semaphore!Next
  <2> QED
    BY <2>5, <2>6
<1>3. CASE EndAndHandOff(l, final)
  <2>1. /\ waiters[r] # <<>> /\ seq' = seq + 1
        /\ calls' = [calls EXCEPT ![w].pc = "granted", ![w].lease = seq + 1]
        /\ waiters' = [waiters EXCEPT ![r] = Tail(waiters[r])]
        /\ w \in Calls
        /\ leases'[seq + 1].res = r /\ leases'[seq + 1].sess = calls[w].sess
    <3>1. /\ waiters[r] # <<>> /\ seq' = seq + 1
          /\ calls' = [calls EXCEPT ![w].pc = "granted", ![w].lease = seq + 1]
          /\ waiters' = [waiters EXCEPT ![r] = Tail(waiters[r])]
      BY <1>3 DEF EndAndHandOff, HandOff
    <3>2. ~(seq' = seq)
      BY <1>0, <3>1
    <3> QED
      BY <3>1, <3>2, EndKeepsLeases
  <2>2. \A d \in Calls : calls'[d].sess = calls[d].sess
    <3> HIDE DEF w
    <3> QED
      BY <1>0, <2>1 DEF Call
  <2>3. /\ LeaseIds' = LeaseIds \cup {seq + 1} /\ seq + 1 \notin LeaseIds
        /\ \A k \in LeaseIds' : Active(k)' <=> k = seq + 1 \/ (Active(k) /\ k # l)
    BY <1>0, <1>3, <2>1, OneMoreId, HandOffStep
  <2>4. CASE r # Slot
    <3>1. ActiveOn(Slot)' = ActiveOn(Slot)
      BY <1>1, <2>1, <2>3, <2>4 DEF ActiveOn, KeepsLeases
    <3>2. GranteesOn(Slot)' = GranteesOn(Slot)
      BY <1>1, <2>1, <2>4, OtherGrant
    <3>3. waiters'[Slot] = waiters[Slot]
      BY <1>0, <2>1, <2>4
    <3>4. SessionsWaitingFor(Slot)' = SessionsWaitingFor(Slot)
      BY <1>0, <2>2, <3>3, QueueUnchanged
    <3> QED
      BY <3>1, <3>2, <3>4 DEF SemaphoreStep
  <2>5. CASE r = Slot
    <3>1. ActiveOn(Slot)' = (ActiveOn(Slot) \ {l}) \cup {seq + 1}
      BY <1>1, <2>1, <2>3, <2>5 DEF ActiveOn, KeepsLeases
    <3>2. Semaphore!Grant(seq + 1, calls[w].sess)
      BY <1>1, <2>1, <2>5, NewGrant
    <3>3. waiters'[Slot] = Tail(waiters[Slot]) /\ waiters[Slot] # <<>>
      BY <1>0, <2>1, <2>5
    <3>4. /\ SessionsWaitingFor(Slot)' = Tail(SessionsWaitingFor(Slot))
          /\ Head(SessionsWaitingFor(Slot)) = calls[w].sess
          /\ SessionsWaitingFor(Slot) # <<>>
      BY <2>2, <2>5, <3>3, QueueServed
    <3>5. Semaphore!PassOn(l, seq + 1)
      BY <3>1, <3>2, <3>4 DEF Semaphore!PassOn
    <3>6. l \in ActiveOn(Slot) /\ seq + 1 \in 1 .. MaxLeases
      BY <1>0, <1>1, <2>1, <2>5, BoundAssumption DEF ActiveOn
    <3> QED
      BY <3>5, <3>6 DEF SemaphoreStep, Semaphore!Next
  <2> QED
    BY <2>4, <2>5
<1> QED
  BY <1>2, <1>3 DEF End

LEMMA NextIsStep ==
  ASSUME Inv, Inv', Bounded, [Next]_vars
  PROVE  SemaphoreStep
<1>1. ASSUME NEW l \in LeaseIds, Release(l) \/ ExpireNow(l) \/ Step(l)
      PROVE  SemaphoreStep
  <2>1. Active(l)
    BY <1>1 DEF Release, ExpireNow, Step, Inv, WalkExact
  <2>2. End(l, "RELEASED") \/ End(l, "EXPIRED")
    BY <1>1 DEF Release, ExpireNow, Step
  <2> QED
    BY <2>1, <2>2, EndIsStep
<1>2. ASSUME NEW r \in Resources, NEW i \in DOMAIN waiters[r], Cancel(r, i)
      PROVE  SemaphoreStep
  <2> DEFINE c == waiters[r][i]
  <2>1. c \in Calls /\ calls \in [Calls -> Call]
    BY DEF Inv, TypeOK
  <2>2. /\ UNCHANGED <<seq, leases>>
        /\ waiters' = [waiters EXCEPT ![r] = RemoveAt(waiters[r], i)]
        /\ calls' = [calls EXCEPT ![c].pc = "cancelled"]
    BY <1>2 DEF Cancel
  <2> HIDE DEF c
  <2>3. \A d \in Calls : d # c => calls'[d] = calls[d]
    BY <2>1, <2>2
  <2> QED
    BY <2>1, <2>2, <2>3, LeavingIsStep DEF c
<1>3. CASE \/ \E l \in LeaseIds, ttl \in TTLs : Renew(l, ttl)
           \/ \E s \in Sessions : BeginReleaseAll(s)
           \/ \E t \in 0 .. now : BeginSweep(t)
           \/ \E live \in SUBSET Sessions : BeginReap(live)
           \/ \E r \in Resources : EnsureResource(r)
           \/ Unlock
           \/ Tick
           \/ UNCHANGED vars
  <2>1. /\ KeepsLeases /\ UNCHANGED <<seq, waiters, calls>>
        /\ \A k \in LeaseIds : leases'[k].state = leases[k].state
    BY <1>3, OthersKeepLeases
  <2>2. GranteesOn(Slot)' = GranteesOn(Slot)
    BY <2>1, SameGrants
  <2>3. ActiveOn(Slot)' = ActiveOn(Slot)
    BY <2>1 DEF ActiveOn, Active, LeaseIds, KeepsLeases
  <2>4. SessionsWaitingFor(Slot)' = SessionsWaitingFor(Slot)
    BY <2>1 DEF SessionsWaitingFor
  <2> QED
    BY <2>2, <2>3, <2>4 DEF SemaphoreStep
<1> QED
  BY <1>1, <1>2, <1>3, AcquireIsStep, GiveUpIsStep DEF Next

(* Each resource is a fair semaphore to its clients: no step of a method,  *)
(* of a loop or of a call that gives up does anything to it that is not    *)
(* one of the five steps of the semaphore (internal/lease/manager.go:297,  *)
(* 354, 387, 471).                                                         *)
THEOREM ImplementsSemaphore == Spec => SlotIsSemaphore
<1>1. Init => Bounded /\ Semaphore!Init
  <2> SUFFICES ASSUME Init PROVE Bounded /\ Semaphore!Init
    OBVIOUS
  <2>1. Blocked = {}
    BY DEF Init, Blocked, Queued, Idle, Returned
  <2>2. Bounded
    BY <2>1, FS_EmptySet, BoundAssumption DEF Init, Bounded
  <2>3. LeaseIds = {} /\ waiters[Slot] = <<>>
    BY SlotAssumption DEF Init, LeaseIds
  <2>4. GranteesOn(Slot) = [g \in {} |-> {}]
    BY <2>3 DEF GranteesOn
  <2>5. ActiveOn(Slot) = {} /\ SessionsWaitingFor(Slot) = <<>>
    BY <2>3 DEF ActiveOn, SessionsWaitingFor
  <2> QED
    BY <2>2, <2>4, <2>5 DEF Semaphore!Init
<1>2. Inv /\ Bounded /\ [Next]_vars => Bounded'
  BY NextKeepsBounded
<1>3. Inv /\ Inv' /\ Bounded /\ [Next]_vars => [Semaphore!Next]_(Semaphore!vars)
  BY NextIsStep DEF SemaphoreStep, Semaphore!vars
<1> QED
  BY <1>1, <1>2, <1>3, InvHolds, PTL DEF Spec, SlotIsSemaphore, Semaphore!Spec

=============================================================================
