------------------------- MODULE LeaseManagerProofs -------------------------
(***************************************************************************)
(* Safety of the lease manager for every set of resources, modes,          *)
(* capacities, sessions and calls.  The inductive invariant is the         *)
(* conjunction Inv below; each lemma shows that one kind of step           *)
(* preserves it.                                                           *)
(***************************************************************************)
EXTENDS LeaseManager, FiniteSetTheorems, SequenceTheorems, TLAPS

(* Every call in the queue of r waits for r, for a session, and once. *)
QueuedCallsWait ==
  \A r \in Resources : \A i \in DOMAIN waiters[r] :
    /\ Queued(waiters[r][i])
    /\ calls[waiters[r][i]].res = r
    /\ calls[waiters[r][i]].sess \in Sessions
    /\ \A j \in DOMAIN waiters[r] : waiters[r][i] = waiters[r][j] => i = j

Inv ==
  /\ TypeOK
  /\ HoldersExact
  /\ CapacityRespected
  /\ NoIdleCapacity
  /\ QueuedCallsWait
  /\ WalkExact

-----------------------------------------------------------------------------

(* RemoveAt closes the gap: it keeps the order and the other elements. *)
LEMMA RemoveAtProperties ==
  ASSUME NEW S, NEW q \in Seq(S), NEW i \in 1 .. Len(q)
  PROVE  /\ RemoveAt(q, i) \in Seq(S)
         /\ Len(RemoveAt(q, i)) = Len(q) - 1
         /\ \A j \in 1 .. Len(RemoveAt(q, i)) :
              RemoveAt(q, i)[j] = IF j < i THEN q[j] ELSE q[j + 1]
<1> DEFINE front == SubSeq(q, 1, i - 1)
           back  == SubSeq(q, i + 1, Len(q))
<1>1. /\ front \in Seq(S) /\ Len(front) = i - 1
      /\ \A j \in 1 .. i - 1 : front[j] = q[j]
  <2>1. \A j \in 1 .. i - 1 : q[j] \in S
    OBVIOUS
  <2>2. /\ SubSeq(q, 1, i - 1) \in Seq(S)
        /\ Len(SubSeq(q, 1, i - 1)) = IF 1 <= i - 1 THEN (i - 1) - 1 + 1 ELSE 0
        /\ \A j \in 1 .. (i - 1) - 1 + 1 : SubSeq(q, 1, i - 1)[j] = q[1 + j - 1]
    BY <2>1, SubSeqProperties
  <2> QED
    BY <2>2
<1>2. /\ back \in Seq(S) /\ Len(back) = Len(q) - i
      /\ \A j \in 1 .. Len(q) - i : back[j] = q[i + j]
  <2>1. \A j \in i + 1 .. Len(q) : q[j] \in S
    OBVIOUS
  <2>2. /\ SubSeq(q, i + 1, Len(q)) \in Seq(S)
        /\ Len(SubSeq(q, i + 1, Len(q))) =
             IF i + 1 <= Len(q) THEN Len(q) - (i + 1) + 1 ELSE 0
        /\ \A j \in 1 .. Len(q) - (i + 1) + 1 :
             SubSeq(q, i + 1, Len(q))[j] = q[(i + 1) + j - 1]
    BY <2>1, SubSeqProperties
  <2> QED
    BY <2>2
<1>3. RemoveAt(q, i) = front \o back
  BY DEF RemoveAt
<1> HIDE DEF front, back
<1>4. /\ front \o back \in Seq(S)
      /\ Len(front \o back) = Len(front) + Len(back)
      /\ \A j \in 1 .. Len(front) + Len(back) : (front \o back)[j] =
           IF j <= Len(front) THEN front[j] ELSE back[j - Len(front)]
  BY <1>1, <1>2, ConcatProperties
<1>5. ASSUME NEW j \in 1 .. Len(q) - 1
      PROVE  (front \o back)[j] = IF j < i THEN q[j] ELSE q[j + 1]
  <2> Len(q) \in Nat /\ i \in Int /\ j \in Int
    OBVIOUS
  <2>1. CASE j < i
    <3>1. j \in 1 .. i - 1
      BY <2>1
    <3> QED
      BY <1>1, <1>2, <1>4, <2>1, <3>1
  <2>2. CASE ~(j < i)
    <3>1. j - Len(front) \in 1 .. Len(q) - i /\ i + (j - Len(front)) = j + 1
      BY <1>1, <2>2
    <3>2. back[j - Len(front)] = q[j + 1]
      BY <1>2, <3>1
    <3>3. j \in 1 .. Len(front) + Len(back) /\ ~(j <= Len(front))
      BY <1>1, <1>2, <2>2
    <3>4. (front \o back)[j] = q[j + 1]
      BY <1>4, <3>2, <3>3
    <3> QED
      BY <2>2, <3>4
  <2> QED
    BY <2>1, <2>2, Zenon
<1>6. Len(front \o back) = Len(q) - 1
  <2> Len(q) \in Nat /\ i \in Int
    OBVIOUS
  <2> QED
    BY <1>1, <1>2, <1>4
<1>7. front \o back \in Seq(S)
  BY <1>4
<1>8. \A j \in 1 .. Len(q) - 1 : (front \o back)[j] = IF j < i THEN q[j] ELSE q[j + 1]
  BY <1>5
<1> QED
  BY <1>3, <1>6, <1>7, <1>8, Zenon

LEMMA HeadIsFirst ==
  ASSUME NEW S, NEW q \in Seq(S), q # <<>>
  PROVE  Len(q) \in Nat \ {0} /\ Head(q) = q[1]
BY EmptySeq

(* The ids in use after a grant. *)
LEMMA OneMoreId ==
  ASSUME seq \in Nat, seq' = seq + 1
  PROVE  /\ LeaseIds' = 1 .. seq + 1
         /\ LeaseIds' = LeaseIds \cup {seq + 1}
         /\ seq + 1 \notin LeaseIds
<1>1. LeaseIds' = 1 .. seq + 1
  BY DEF LeaseIds
<1>2. 1 .. seq + 1 = (1 .. seq) \cup {seq + 1} /\ seq + 1 \notin 1 .. seq
  OBVIOUS
<1> QED
  BY <1>1, <1>2 DEF LeaseIds

LEMMA ReturnedIsCall ==
  ASSUME NEW how \in {"leased", "failed"}, NEW l \in Nat
  PROVE  Returned(how, l) \in Call
BY DEF Call, Returned

LEMMA GrantedIsCall ==
  ASSUME NEW call \in Call, NEW l \in Nat
  PROVE  [call EXCEPT !.pc = "granted", !.lease = l] \in Call
BY DEF Call

(* The capacity of a resource is at least one. *)
LEMMA CapacityPositive ==
  ASSUME NEW r \in Resources
  PROVE  CapacityOf(r) \in Nat \ {0}
BY ModeAssumption, SMT DEF CapacityOf, Unlimited

(* The LEASED leases of a resource are finitely many. *)
LEMMA ActiveFinite ==
  ASSUME seq \in Nat, NEW r
  PROVE  IsFiniteSet(ActiveOn(r)) /\ Cardinality(ActiveOn(r)) \in Nat
<1>1. IsFiniteSet(LeaseIds)
  BY FS_Interval DEF LeaseIds
<1>2. ActiveOn(r) \in SUBSET LeaseIds
  BY DEF ActiveOn
<1> QED
  BY <1>1, <1>2, FS_Subset, FS_CardinalityType

-----------------------------------------------------------------------------

THEOREM InitInv == Init => Inv
<1> SUFFICES ASSUME Init PROVE Inv
  OBVIOUS
<1> USE DEF Init
<1>1. TypeOK
  BY ConfiguredAssumption, BoundAssumption
  DEF TypeOK, LeaseIds, Lease, Call, Idle, Returned, Walk, Free
<1>2. HoldersExact
  BY DEF HoldersExact, ActiveOn, LeaseIds
<1>3. CapacityRespected
  <2> SUFFICES ASSUME NEW r \in Resources
               PROVE  Cardinality(ActiveOn(r)) <= CapacityOf(r)
    BY DEF CapacityRespected
  <2>1. ActiveOn(r) = {}
    BY DEF ActiveOn, LeaseIds
  <2> QED
    BY <2>1, FS_EmptySet, CapacityPositive
<1>4. NoIdleCapacity /\ QueuedCallsWait
  BY DEF NoIdleCapacity, QueuedCallsWait
<1>5. WalkExact
  BY DEF WalkExact, Free
<1> QED
  BY <1>1, <1>2, <1>3, <1>4, <1>5 DEF Inv

-----------------------------------------------------------------------------

(* A call that leaves a queue leaves the others in order: the queues stay  *)
(* exact if only that call changes.                                        *)
LEMMA DequeueKeepsQueues ==
  ASSUME waiters \in [Resources -> Seq(Calls)], QueuedCallsWait,
         NEW r \in Resources, NEW i \in 1 .. Len(waiters[r]),
         NEW q \in Seq(Calls), Len(q) = Len(waiters[r]) - 1,
         \A j \in 1 .. Len(q) :
           q[j] = IF j < i THEN waiters[r][j] ELSE waiters[r][j + 1],
         waiters' = [waiters EXCEPT ![r] = q],
         \A c \in Calls : c # waiters[r][i] => calls'[c] = calls[c]
  PROVE  QueuedCallsWait'
<1> DEFINE gone == waiters[r][i]
<1>1. gone \in Calls /\ calls[gone].res = r
  BY DEF QueuedCallsWait
<1>2. ASSUME NEW t \in Resources, t # r
      PROVE  /\ waiters'[t] = waiters[t]
             /\ \A k \in DOMAIN waiters[t] :
                  /\ waiters[t][k] \in Calls
                  /\ waiters[t][k] # gone
  BY <1>1, <1>2 DEF QueuedCallsWait
<1>3. \A k \in 1 .. Len(q) :
        \E m \in 1 .. Len(waiters[r]) :
          /\ m # i
          /\ m = IF k < i THEN k ELSE k + 1
          /\ q[k] = waiters[r][m]
          /\ q[k] # gone
          /\ q[k] \in Calls
  BY SMTT(40) DEF QueuedCallsWait
<1>4. ASSUME NEW t \in Resources, NEW k \in DOMAIN waiters'[t]
      PROVE  /\ calls'[waiters'[t][k]].pc = "waiting"
             /\ calls'[waiters'[t][k]].res = t
             /\ calls'[waiters'[t][k]].sess \in Sessions
             /\ \A j \in DOMAIN waiters'[t] :
                  waiters'[t][k] = waiters'[t][j] => k = j
  <2>1. CASE t # r
    BY <1>2, <1>4, <2>1 DEF QueuedCallsWait, Queued
  <2>2. CASE t = r
    <3>1. waiters'[t] = q /\ DOMAIN q = 1 .. Len(q)
      BY <2>2
    <3>2. PICK m \in 1 .. Len(waiters[r]) :
            /\ m # i
            /\ m = IF k < i THEN k ELSE k + 1
            /\ q[k] = waiters[r][m]
            /\ q[k] # gone
            /\ q[k] \in Calls
      BY <1>3, <1>4, <3>1
    <3>3. calls'[q[k]] = calls[waiters[r][m]]
      BY <3>2
    <3>4. ASSUME NEW j \in 1 .. Len(q), q[k] = q[j]
          PROVE  k = j
      <4>1. PICK n \in 1 .. Len(waiters[r]) :
              n = (IF j < i THEN j ELSE j + 1) /\ n # i /\ q[j] = waiters[r][n]
        BY <1>3
      <4>2. waiters[r][m] = waiters[r][n]
        BY <3>2, <3>4, <4>1
      <4>3. m = n
        <5>1. m \in DOMAIN waiters[r] /\ n \in DOMAIN waiters[r]
          BY <3>2, <4>1
        <5> QED
          BY <4>2, <5>1 DEF QueuedCallsWait
      <4> QED
        BY <1>4, <3>1, <3>2, <4>1, <4>3
    <3> QED
      BY <2>2, <3>1, <3>2, <3>3, <3>4 DEF QueuedCallsWait, Queued
  <2> QED
    BY <2>1, <2>2
<1> QED
  BY <1>4 DEF QueuedCallsWait, Queued

-----------------------------------------------------------------------------
(* The end of a lease *)

(* The part of the type invariant that End can disturb. *)
TableOK ==
  /\ seq \in Nat
  /\ leases \in [LeaseIds -> Lease]
  /\ holders \in [Resources -> SUBSET LeaseIds]
  /\ waiters \in [Resources -> Seq(Calls)]
  /\ calls \in [Calls -> Call]

(* Ending l without a hand-off removes it, and nothing else, from the      *)
(* active leases; the queue was empty, because there is room afterwards.   *)
LEMMA EndOnlyStep ==
  ASSUME Inv, NEW l \in LeaseIds, Active(l),
         NEW final \in {"RELEASED", "EXPIRED"}, EndOnly(l, final)
  PROVE  /\ TableOK'
         /\ \A r \in Resources : ActiveOn(r)' = ActiveOn(r) \ {l}
         /\ (HoldersExact /\ CapacityRespected /\ NoIdleCapacity
             /\ QueuedCallsWait)'
<1> DEFINE r0 == leases[l].res
<1>1. r0 \in Resources /\ seq \in Nat /\ leases \in [LeaseIds -> Lease]
  BY DEF Inv, TypeOK, Lease
<1>2. /\ seq' = seq /\ waiters' = waiters /\ calls' = calls
      /\ leases' = [leases EXCEPT ![l].state = final]
      /\ holders' = [holders EXCEPT ![r0] = @ \ {l}]
  BY DEF EndOnly
<1>3. /\ leases' \in [LeaseIds -> Lease]
      /\ \A k \in LeaseIds :
           /\ leases'[k].res = leases[k].res
           /\ leases'[k].state = IF k = l THEN final ELSE leases[k].state
  BY <1>1, <1>2 DEF Lease
<1>4. ASSUME NEW r \in Resources
      PROVE  ActiveOn(r)' = ActiveOn(r) \ {l}
  BY <1>2, <1>3 DEF ActiveOn, Active, LeaseIds
<1>5. TableOK'
  BY <1>1, <1>2, <1>3 DEF Inv, TypeOK, TableOK, LeaseIds
<1>6. HoldersExact'
  <2> SUFFICES ASSUME NEW r \in Resources
               PROVE  holders'[r] = ActiveOn(r)'
    BY DEF HoldersExact
  <2>1. holders[r] = ActiveOn(r) /\ holders \in [Resources -> SUBSET LeaseIds]
    BY DEF Inv, HoldersExact, TypeOK
  <2>2. r # r0 => l \notin ActiveOn(r)
    BY DEF ActiveOn
  <2> QED
    BY <1>1, <1>2, <1>4, <2>1, <2>2
<1>7. ASSUME NEW r \in Resources
      PROVE  /\ IsFiniteSet(ActiveOn(r)) /\ Cardinality(ActiveOn(r)) \in Nat
             /\ CapacityOf(r) \in Nat \ {0}
             /\ Cardinality(ActiveOn(r)) <= CapacityOf(r)
             /\ Cardinality(ActiveOn(r)') =
                  IF l \in ActiveOn(r) THEN Cardinality(ActiveOn(r)) - 1
                                       ELSE Cardinality(ActiveOn(r))
  <2>1. IsFiniteSet(ActiveOn(r)) /\ Cardinality(ActiveOn(r)) \in Nat
    BY <1>1, ActiveFinite
  <2> QED
    BY <1>4, <2>1, CapacityPositive, FS_RemoveElement
    DEF Inv, CapacityRespected
<1>8. CapacityRespected'
  <2> SUFFICES ASSUME NEW r \in Resources
               PROVE  Cardinality(ActiveOn(r)') <= CapacityOf(r)
    BY DEF CapacityRespected, CapacityOf
  <2> QED
    BY <1>7
<1>9. NoIdleCapacity'
  <2> SUFFICES ASSUME NEW r \in Resources, waiters'[r] # <<>>
               PROVE  Cardinality(ActiveOn(r)') >= CapacityOf(r)
    BY DEF NoIdleCapacity, CapacityOf
  <2>1. Cardinality(ActiveOn(r)) >= CapacityOf(r)
    BY <1>2 DEF Inv, NoIdleCapacity
  <2>2. CASE r # r0
    BY <1>7, <2>1, <2>2 DEF ActiveOn
  <2>3. CASE r = r0
    <3>1. Cardinality(holders[r] \ {l}) >= CapacityOf(r)
      BY <1>2, <2>3 DEF EndOnly
    <3>2. holders[r] = ActiveOn(r) /\ ActiveOn(r)' = holders[r] \ {l}
      BY <1>4 DEF Inv, HoldersExact
    <3> QED
      BY <3>1, <3>2
  <2> QED
    BY <2>2, <2>3
<1>10. QueuedCallsWait'
  BY <1>2 DEF Inv, QueuedCallsWait, Queued
<1> QED
  BY <1>4, <1>5, <1>6, <1>8, <1>9, <1>10

(* A hand-off replaces l by one new lease among the holders of the same    *)
(* resource, so their number stays what it was.                            *)
LEMMA HandOffStep ==
  ASSUME Inv, NEW l \in LeaseIds, Active(l),
         NEW final \in {"RELEASED", "EXPIRED"}, EndAndHandOff(l, final)
  PROVE  /\ TableOK'
         /\ LeaseIds \subseteq LeaseIds'
         /\ seq + 1 \in LeaseIds' /\ seq + 1 \notin LeaseIds
         /\ \A k \in LeaseIds' : Active(k)' <=> k = seq + 1 \/ (Active(k) /\ k # l)
         /\ (HoldersExact /\ CapacityRespected /\ NoIdleCapacity
             /\ QueuedCallsWait)'
<1> DEFINE r0 == leases[l].res
           w  == Head(waiters[r0])
           new == seq + 1
<1>1. /\ r0 \in Resources /\ seq \in Nat /\ leases \in [LeaseIds -> Lease]
      /\ waiters \in [Resources -> Seq(Calls)] /\ calls \in [Calls -> Call]
      /\ holders \in [Resources -> SUBSET LeaseIds]
  BY DEF Inv, TypeOK, Lease
<1>2. /\ waiters[r0] # <<>> /\ waiters[r0] \in Seq(Calls)
      /\ seq' = new
      /\ leases' = Granted([leases EXCEPT ![l].state = final],
                           r0, calls[w].sess, 0)
      /\ holders' = [holders EXCEPT ![r0] = (@ \ {l}) \cup {new}]
      /\ waiters' = [waiters EXCEPT ![r0] = Tail(@)]
      /\ calls' = [calls EXCEPT ![w].pc = "granted", ![w].lease = new]
  BY <1>1 DEF EndAndHandOff, HandOff
<1>3. /\ w \in Calls /\ w = waiters[r0][1] /\ 1 \in 1 .. Len(waiters[r0])
      /\ calls[w].sess \in Sessions
  <2>1. Len(waiters[r0]) \in Nat \ {0} /\ Head(waiters[r0]) = waiters[r0][1]
    BY <1>2, HeadIsFirst
  <2> QED
    BY <1>1, <1>2, <2>1, SMTT(40) DEF Inv, QueuedCallsWait
<1>4. /\ LeaseIds' = LeaseIds \cup {new} /\ new \notin LeaseIds
      /\ leases' \in [LeaseIds' -> Lease]
      /\ \A k \in LeaseIds :
           /\ leases'[k].res = leases[k].res
           /\ leases'[k].state = IF k = l THEN final ELSE leases[k].state
      /\ leases'[new].res = r0 /\ leases'[new].state = "LEASED"
  <2>1. LeaseIds' = 1 .. seq + 1 /\ LeaseIds' = LeaseIds \cup {new}
        /\ new \notin LeaseIds
    BY <1>1, <1>2, OneMoreId
  <2>2. ASSUME NEW k \in LeaseIds
        PROVE  leases'[k] = [leases EXCEPT ![l].state = final][k]
    BY <1>1, <1>2, <2>1 DEF Granted
  <2>3. leases'[new] = [res |-> r0, sess |-> calls[w].sess, exp |-> 0,
                        state |-> "LEASED"]
    BY <1>1, <1>2, <2>1, SMTT(40) DEF Granted
  <2>4. [leases EXCEPT ![l].state = final] \in [LeaseIds -> Lease]
    BY <1>1 DEF Lease
  <2>5. leases' = [k \in LeaseIds' |-> leases'[k]]
    BY <1>2, <2>1, SMTT(40) DEF Granted
  <2>6. leases'[new] \in Lease
    BY <1>1, <1>3, <2>3 DEF Lease
  <2>7. leases' \in [LeaseIds' -> Lease]
    BY <2>1, <2>2, <2>4, <2>5, <2>6
  <2>8. \A k \in LeaseIds :
           /\ leases'[k].res = leases[k].res
           /\ leases'[k].state = IF k = l THEN final ELSE leases[k].state
    BY <1>1, <2>2 DEF Lease
  <2> QED
    BY <2>1, <2>3, <2>7, <2>8
<1>5. \A k \in LeaseIds' : Active(k)' <=> k = new \/ (Active(k) /\ k # l)
  BY <1>4 DEF Active
<1>6. ASSUME NEW r \in Resources
      PROVE  ActiveOn(r)' = IF r = r0 THEN (ActiveOn(r) \ {l}) \cup {new}
                                      ELSE ActiveOn(r)
  BY <1>4, <1>5 DEF ActiveOn
<1>7. l \in ActiveOn(r0) /\ new \notin ActiveOn(r0)
  BY <1>4 DEF ActiveOn
<1>8. QueuedCallsWait'
  <2>1. /\ Tail(waiters[r0]) \in Seq(Calls)
        /\ Len(Tail(waiters[r0])) = Len(waiters[r0]) - 1
        /\ \A i \in 1 .. Len(Tail(waiters[r0])) :
             Tail(waiters[r0])[i] = waiters[r0][i + 1]
    BY <1>2, HeadTailProperties
  <2>2. \A j \in 1 .. Len(Tail(waiters[r0])) : Tail(waiters[r0])[j] =
          IF j < 1 THEN waiters[r0][j] ELSE waiters[r0][j + 1]
    BY <2>1
  <2>3. waiters' = [waiters EXCEPT ![r0] = Tail(waiters[r0])]
    BY <1>2
  <2>4. \A c \in Calls : c # waiters[r0][1] => calls'[c] = calls[c]
    BY <1>1, <1>2, <1>3
  <2>5. QueuedCallsWait
    BY DEF Inv
  <2> QED
    BY <1>1, <1>3, <2>1, <2>2, <2>3, <2>4, <2>5, DequeueKeepsQueues
<1>9. TableOK'
  <2>1. calls' \in [Calls -> Call]
    <3>1. calls' = [calls EXCEPT ![w] = [calls[w] EXCEPT !.pc = "granted",
                                                         !.lease = new]]
      BY <1>1, <1>2, <1>3
    <3>2. [calls[w] EXCEPT !.pc = "granted", !.lease = new] \in Call
      <4>1. calls[w] \in Call /\ new \in Nat
        BY <1>1, <1>3
      <4> QED
        BY <4>1, GrantedIsCall
    <3> QED
      BY <1>1, <1>3, <3>1, <3>2
  <2>2. waiters' \in [Resources -> Seq(Calls)]
    BY <1>1, <1>2, HeadTailProperties
  <2>3. holders' \in [Resources -> SUBSET LeaseIds']
    BY <1>1, <1>2, <1>4
  <2>4. seq' \in Nat
    BY <1>1, <1>2, SMTT(40)
  <2> QED
    BY <1>4, <2>1, <2>2, <2>3, <2>4 DEF TableOK
<1>10. HoldersExact'
  <2> SUFFICES ASSUME NEW r \in Resources
               PROVE  holders'[r] = ActiveOn(r)'
    BY DEF HoldersExact
  <2>1. holders[r] = ActiveOn(r)
    BY DEF Inv, HoldersExact
  <2> QED
    BY <1>1, <1>2, <1>6, <2>1
<1>11. ASSUME NEW r \in Resources
       PROVE  Cardinality(ActiveOn(r)') = Cardinality(ActiveOn(r))
  <2>1. CASE r = r0
    <3>1. IsFiniteSet(ActiveOn(r)) /\ Cardinality(ActiveOn(r)) \in Nat
      BY <1>1, ActiveFinite
    <3>2. IsFiniteSet(ActiveOn(r) \ {l})
          /\ Cardinality(ActiveOn(r) \ {l}) = Cardinality(ActiveOn(r)) - 1
      BY <1>7, <2>1, <3>1, FS_RemoveElement
    <3>3. Cardinality((ActiveOn(r) \ {l}) \cup {new})
            = Cardinality(ActiveOn(r) \ {l}) + 1
      BY <1>7, <2>1, <3>2, FS_AddElement
    <3>4. ActiveOn(r)' = (ActiveOn(r) \ {l}) \cup {new}
      BY <1>6, <2>1
    <3> QED
      BY <3>1, <3>2, <3>3, <3>4
  <2>2. CASE r # r0
    BY <1>6, <2>2
  <2> QED
    BY <2>1, <2>2
<1>12. CapacityRespected'
  BY <1>11 DEF Inv, CapacityRespected, CapacityOf
<1>13. NoIdleCapacity'
  <2> SUFFICES ASSUME NEW r \in Resources, waiters'[r] # <<>>
               PROVE  Cardinality(ActiveOn(r)') >= CapacityOf(r)
    BY DEF NoIdleCapacity, CapacityOf
  <2>1. waiters[r] # <<>>
    BY <1>1, <1>2
  <2> QED
    BY <1>11, <2>1 DEF Inv, NoIdleCapacity
<1> QED
  BY <1>1, <1>4, <1>5, <1>8, <1>9, <1>10, <1>12, <1>13

(* What a loop has still to visit stays LEASED when it ends l. *)
LEMMA EndStep ==
  ASSUME Inv, NEW l \in LeaseIds, Active(l),
         NEW final \in {"RELEASED", "EXPIRED"}, End(l, final)
  PROVE  /\ TableOK'
         /\ LeaseIds \subseteq LeaseIds'
         /\ \A k \in LeaseIds : Active(k) /\ k # l => Active(k)'
         /\ \A k \in (seq + 1) .. seq' : k \in LeaseIds' /\ Active(k)'
         /\ (HoldersExact /\ CapacityRespected /\ NoIdleCapacity
             /\ QueuedCallsWait)'
<1>1. seq \in Nat /\ leases \in [LeaseIds -> Lease]
  BY DEF Inv, TypeOK
<1>2. CASE EndOnly(l, final)
  <2>1. seq' = seq /\ LeaseIds' = LeaseIds
    BY <1>2 DEF EndOnly, LeaseIds
  <2>2. \A k \in LeaseIds : Active(k) /\ k # l => Active(k)'
    BY <1>1, <1>2 DEF EndOnly, Active
  <2> QED
    BY <1>1, <1>2, <2>1, <2>2, EndOnlyStep
<1>3. CASE EndAndHandOff(l, final)
  <2>1. seq' = seq + 1
    BY <1>3 DEF EndAndHandOff, HandOff
  <2>2. \A k \in (seq + 1) .. seq' : k = seq + 1
    BY <1>1, <2>1
  <2> QED
    BY <1>3, <2>1, <2>2, HandOffStep
<1> QED
  BY <1>2, <1>3 DEF End

-----------------------------------------------------------------------------
(* Steps that leave the table of leases alone *)

(* The parts of the invariant that speak of resources, leases and loops    *)
(* depend on these variables only.                                         *)
LEMMA SameTable ==
  ASSUME Inv, UNCHANGED <<seq, leases, holders>>,
         \A r \in Resources : waiters'[r] # <<>> => waiters[r] # <<>>
  PROVE  (HoldersExact /\ CapacityRespected /\ NoIdleCapacity)'
<1>1. \A r \in Resources : ActiveOn(r)' = ActiveOn(r)
  BY DEF ActiveOn, Active, LeaseIds
<1> QED
  BY <1>1 DEF Inv, HoldersExact, CapacityRespected, NoIdleCapacity, CapacityOf

(* A call that is in no queue may change. *)
LEMMA OtherCallKeepsQueues ==
  ASSUME Inv, NEW c \in Calls, ~Queued(c), waiters' = waiters,
         \A d \in Calls : d # c => calls'[d] = calls[d]
  PROVE  QueuedCallsWait'
<1>1. \A r \in Resources : \A i \in DOMAIN waiters[r] :
        waiters[r][i] \in Calls /\ waiters[r][i] # c
  BY DEF Inv, TypeOK, QueuedCallsWait
<1> QED
  BY <1>1 DEF Inv, QueuedCallsWait, Queued

LEMMA WakeStep ==
  ASSUME Inv, NEW c \in Calls, Wake(c) PROVE Inv'
<1>1. ~Queued(c)
  BY DEF Wake, Queued
<1>2. \A d \in Calls : d # c => calls'[d] = calls[d]
  BY DEF Wake, Inv, TypeOK
<1>3. UNCHANGED <<res, seq, leases, holders, waiters, walk, now>>
  BY DEF Wake
<1>4. calls' \in [Calls -> Call]
  <2>1. calls \in [Calls -> Call] /\ calls[c].lease \in Nat
    BY DEF Inv, TypeOK, Call
  <2> QED
    BY <2>1, ReturnedIsCall DEF Wake
<1>5. TypeOK'
  BY <1>3, <1>4 DEF Inv, TypeOK, LeaseIds
<1>6. WalkExact'
  BY <1>3 DEF Inv, WalkExact, LeaseIds, Active, MutexFree
<1> QED
  BY <1>1, <1>2, <1>3, <1>5, <1>6, SameTable, OtherCallKeepsQueues DEF Inv

LEMMA AcquireUnknownStep ==
  ASSUME Inv, NEW c \in Calls, NEW r \in Resources, AcquireUnknown(c, r)
  PROVE  Inv'
<1>1. ~Queued(c)
  BY DEF AcquireUnknown, Queued
<1>2. \A d \in Calls : d # c => calls'[d] = calls[d]
  BY DEF AcquireUnknown, Inv, TypeOK
<1>3. UNCHANGED <<res, seq, leases, holders, waiters, walk, now>>
  BY DEF AcquireUnknown
<1>4. calls' \in [Calls -> Call]
  BY ReturnedIsCall DEF AcquireUnknown, Inv, TypeOK
<1>5. TypeOK'
  BY <1>3, <1>4 DEF Inv, TypeOK, LeaseIds
<1>6. WalkExact'
  BY <1>3 DEF Inv, WalkExact, LeaseIds, Active, MutexFree
<1> QED
  BY <1>1, <1>2, <1>3, <1>5, <1>6, SameTable, OtherCallKeepsQueues DEF Inv

(* A resource with room has an empty queue, so a newcomer that is granted  *)
(* at once passes nobody.                                                  *)
LEMMA RoomMeansNoQueue ==
  ASSUME Inv, NEW r \in Resources, Cardinality(holders[r]) < CapacityOf(r)
  PROVE  waiters[r] = <<>>
<1>1. holders[r] = ActiveOn(r) /\ seq \in Nat
  BY DEF Inv, HoldersExact, TypeOK
<1>2. Cardinality(ActiveOn(r)) \in Nat /\ CapacityOf(r) \in Nat
  BY <1>1, ActiveFinite, CapacityPositive
<1> QED
  BY <1>1, <1>2 DEF Inv, NoIdleCapacity

LEMMA AcquireNowStep ==
  ASSUME Inv, NEW c \in Calls, NEW r0 \in Resources, NEW s \in Sessions,
         NEW ttl \in TTLs, AcquireNow(c, r0, s, ttl)
  PROVE  Inv'
<1> DEFINE new == seq + 1
<1>1. /\ seq \in Nat /\ leases \in [LeaseIds -> Lease] /\ now \in Nat
      /\ calls \in [Calls -> Call]
      /\ holders \in [Resources -> SUBSET LeaseIds] /\ ttl \in Nat
  BY BoundAssumption DEF Inv, TypeOK
<1>2. /\ seq' = new
      /\ leases' = Granted(leases, r0, s, ttl)
      /\ holders' = [holders EXCEPT ![r0] = @ \cup {new}]
      /\ \E how \in {"leased", "failed"} :
           calls' = [calls EXCEPT ![c] = Returned(how, new)]
      /\ Cardinality(holders[r0]) < CapacityOf(r0)
      /\ UNCHANGED <<res, waiters, walk, now>>
  BY DEF AcquireNow
<1>3. /\ LeaseIds' = LeaseIds \cup {new} /\ new \notin LeaseIds
      /\ leases' \in [LeaseIds' -> Lease]
      /\ \A k \in LeaseIds : leases'[k] = leases[k]
      /\ leases'[new].res = r0 /\ leases'[new].state = "LEASED"
  <2>1. LeaseIds' = 1 .. seq + 1 /\ LeaseIds' = LeaseIds \cup {new}
        /\ new \notin LeaseIds
    BY <1>1, <1>2, OneMoreId
  <2>2. \A k \in LeaseIds : leases'[k] = leases[k]
    BY <1>1, <1>2, <2>1 DEF Granted
  <2>3. leases'[new] = [res |-> r0, sess |-> s,
                        exp |-> IF ttl > 0 THEN now + ttl ELSE 0,
                        state |-> "LEASED"]
    BY <1>1, <1>2, <2>1 DEF Granted
  <2>4. leases' = [k \in LeaseIds' |-> leases'[k]]
    BY <1>2, <2>1 DEF Granted
  <2>5. leases'[new] \in Lease
    BY <1>1, <2>3 DEF Lease
  <2> QED
    BY <1>1, <2>1, <2>2, <2>3, <2>4, <2>5
<1>4. ASSUME NEW r \in Resources
      PROVE  ActiveOn(r)' = IF r = r0 THEN ActiveOn(r) \cup {new} ELSE ActiveOn(r)
  BY <1>3 DEF ActiveOn, Active
<1>5. TypeOK'
  <2>1. calls' \in [Calls -> Call]
    BY <1>1, <1>2, ReturnedIsCall
  <2>2. holders' \in [Resources -> SUBSET LeaseIds']
    BY <1>1, <1>2, <1>3
  <2>3. seq' \in Nat
    BY <1>1, <1>2
  <2> QED
    BY <1>2, <1>3, <2>1, <2>2, <2>3 DEF Inv, TypeOK
<1>6. HoldersExact'
  BY <1>1, <1>2, <1>4 DEF Inv, HoldersExact
<1>7. ASSUME NEW r \in Resources
      PROVE  /\ Cardinality(ActiveOn(r)') =
                  IF r = r0 THEN Cardinality(ActiveOn(r)) + 1
                            ELSE Cardinality(ActiveOn(r))
             /\ Cardinality(ActiveOn(r)) \in Nat /\ CapacityOf(r) \in Nat
  <2>1. IsFiniteSet(ActiveOn(r)) /\ Cardinality(ActiveOn(r)) \in Nat
    BY <1>1, ActiveFinite
  <2>2. new \notin ActiveOn(r)
    BY <1>3 DEF ActiveOn
  <2> QED
    BY <1>4, <2>1, <2>2, FS_AddElement, CapacityPositive
<1>8. CapacityRespected'
  <2> SUFFICES ASSUME NEW r \in Resources
               PROVE  Cardinality(ActiveOn(r)') <= CapacityOf(r)
    BY DEF CapacityRespected, CapacityOf
  <2>1. Cardinality(ActiveOn(r0)) < CapacityOf(r0)
    BY <1>2 DEF Inv, HoldersExact
  <2>2. Cardinality(ActiveOn(r)) <= CapacityOf(r)
    BY DEF Inv, CapacityRespected
  <2> QED
    BY <1>7, <2>1, <2>2
<1>9. NoIdleCapacity'
  <2> SUFFICES ASSUME NEW r \in Resources, waiters'[r] # <<>>
               PROVE  Cardinality(ActiveOn(r)') >= CapacityOf(r)
    BY DEF NoIdleCapacity, CapacityOf
  <2>1. Cardinality(ActiveOn(r)) >= CapacityOf(r)
    BY <1>2 DEF Inv, NoIdleCapacity
  <2> QED
    BY <1>7, <2>1
<1>10. QueuedCallsWait'
  <2>1. ~Queued(c)
    BY DEF AcquireNow, Queued
  <2>2. \A d \in Calls : d # c => calls'[d] = calls[d]
    BY <1>1, <1>2
  <2> QED
    BY <1>2, <2>1, <2>2, OtherCallKeepsQueues
<1>11. WalkExact'
  <2>1. walk.todo = {} /\ walk' = walk
    BY <1>2 DEF Inv, WalkExact, AcquireNow
  <2> QED
    BY <2>1 DEF WalkExact
<1> QED
  BY <1>5, <1>6, <1>8, <1>9, <1>10, <1>11 DEF Inv

LEMMA AcquireWaitStep ==
  ASSUME Inv, NEW c \in Calls, NEW r0 \in Resources, NEW s \in Sessions,
         NEW ttl \in TTLs, NEW b \in BOOLEAN, AcquireWait(c, r0, s, ttl, b)
  PROVE  Inv'
<1>1. /\ waiters \in [Resources -> Seq(Calls)] /\ calls \in [Calls -> Call]
      /\ seq \in Nat /\ holders[r0] = ActiveOn(r0) /\ ttl \in Nat
  BY BoundAssumption DEF Inv, TypeOK, HoldersExact
<1>2. /\ ~Queued(c)
      /\ Cardinality(holders[r0]) >= CapacityOf(r0)
      /\ waiters' = [waiters EXCEPT ![r0] = Append(@, c)]
      /\ calls' = [calls EXCEPT ![c] =
                     [pc |-> "waiting", sess |-> s, res |-> r0, ttl |-> ttl,
                      bounded |-> b, lease |-> 0]]
      /\ UNCHANGED <<res, seq, leases, holders, walk, now>>
  BY DEF AcquireWait, Queued
<1>3. /\ Append(waiters[r0], c) \in Seq(Calls)
      /\ Len(Append(waiters[r0], c)) = Len(waiters[r0]) + 1
      /\ \A i \in 1 .. Len(waiters[r0]) :
           Append(waiters[r0], c)[i] = waiters[r0][i]
      /\ Append(waiters[r0], c)[Len(waiters[r0]) + 1] = c
      /\ Len(waiters[r0]) \in Nat
  BY <1>1, AppendProperties
<1>4. TypeOK'
  <2>1. calls' \in [Calls -> Call]
    BY <1>1, <1>2 DEF Call
  <2>2. waiters' \in [Resources -> Seq(Calls)]
    BY <1>1, <1>2, <1>3
  <2> QED
    BY <1>2, <2>1, <2>2 DEF Inv, TypeOK, LeaseIds
<1>5. \A r \in Resources : ActiveOn(r)' = ActiveOn(r)
  BY <1>2 DEF ActiveOn, Active, LeaseIds
<1>6. (HoldersExact /\ CapacityRespected)'
  BY <1>2, <1>5 DEF Inv, HoldersExact, CapacityRespected, CapacityOf
<1>7. NoIdleCapacity'
  <2> SUFFICES ASSUME NEW r \in Resources, waiters'[r] # <<>>
               PROVE  Cardinality(ActiveOn(r)') >= CapacityOf(r)
    BY DEF NoIdleCapacity, CapacityOf
  <2>1. CASE r = r0
    BY <1>1, <1>2, <1>5, <2>1
  <2>2. CASE r # r0
    BY <1>1, <1>2, <1>5, <2>2 DEF Inv, NoIdleCapacity
  <2> QED
    BY <2>1, <2>2
<1>8. QueuedCallsWait'
  <2>1. \A r \in Resources : \A i \in DOMAIN waiters[r] :
          waiters[r][i] \in Calls /\ waiters[r][i] # c
    BY <1>1, <1>2 DEF Inv, QueuedCallsWait
  <2>2. ASSUME NEW r \in Resources, NEW i \in DOMAIN waiters'[r]
        PROVE  /\ calls'[waiters'[r][i]].pc = "waiting"
               /\ calls'[waiters'[r][i]].res = r
               /\ calls'[waiters'[r][i]].sess \in Sessions
               /\ \A j \in DOMAIN waiters'[r] :
                    waiters'[r][i] = waiters'[r][j] => i = j
    <3>1. CASE r # r0
      <4>1. waiters'[r] = waiters[r]
        BY <1>1, <1>2, <3>1
      <4>2. calls'[waiters[r][i]] = calls[waiters[r][i]]
        BY <1>1, <1>2, <2>1, <2>2, <4>1
      <4> QED
        BY <2>2, <4>1, <4>2 DEF Inv, QueuedCallsWait, Queued
    <3>2. CASE r = r0 /\ i \in 1 .. Len(waiters[r0])
      <4>1. /\ waiters'[r][i] = waiters[r0][i]
            /\ calls'[waiters[r0][i]] = calls[waiters[r0][i]]
        BY <1>1, <1>2, <1>3, <2>1, <3>2
      <4>2. ASSUME NEW j \in DOMAIN waiters'[r], waiters'[r][i] = waiters'[r][j]
            PROVE  i = j
        <5>1. j \in 1 .. Len(waiters[r0]) + 1
          BY <1>1, <1>2, <1>3, <3>2, <4>2
        <5>2. j # Len(waiters[r0]) + 1
          BY <1>1, <1>2, <1>3, <2>1, <3>2, <4>1, <4>2
        <5>3. j \in 1 .. Len(waiters[r0]) /\ waiters[r0][i] = waiters[r0][j]
          BY <1>1, <1>2, <1>3, <3>2, <4>1, <4>2, <5>1, <5>2
        <5> QED
          BY <1>1, <3>2, <5>3 DEF Inv, QueuedCallsWait
      <4> QED
        BY <1>1, <3>2, <4>1, <4>2 DEF Inv, QueuedCallsWait, Queued
    <3>3. CASE r = r0 /\ i = Len(waiters[r0]) + 1
      <4>1. waiters'[r][i] = c /\ waiters'[r] = Append(waiters[r0], c)
        BY <1>1, <1>2, <1>3, <3>3
      <4>2. \A j \in 1 .. Len(waiters[r0]) : waiters'[r][j] # c
        BY <1>1, <1>3, <2>1, <4>1
      <4>3. DOMAIN waiters'[r] = 1 .. Len(waiters[r0]) + 1
        BY <1>1, <1>3, <4>1
      <4>4. \A j \in DOMAIN waiters'[r] : waiters'[r][i] = waiters'[r][j] => i = j
        BY <1>3, <3>3, <4>1, <4>2, <4>3
      <4> QED
        BY <1>1, <1>2, <3>3, <4>1, <4>4
    <3>4. r = r0 => i \in 1 .. Len(waiters[r0]) \/ i = Len(waiters[r0]) + 1
      BY <1>1, <1>2, <1>3, <2>2
    <3> QED
      BY <3>1, <3>2, <3>3, <3>4
  <2> QED
    BY <2>2 DEF QueuedCallsWait, Queued
<1>9. WalkExact'
  BY <1>2 DEF Inv, WalkExact, LeaseIds, Active, MutexFree
<1> QED
  BY <1>4, <1>6, <1>7, <1>8, <1>9 DEF Inv

(* A call that is removed from a queue, wherever it stands in it. *)
LEMMA RemovalKeepsQueues ==
  ASSUME waiters \in [Resources -> Seq(Calls)], QueuedCallsWait,
         NEW r \in Resources, NEW i \in 1 .. Len(waiters[r]),
         waiters' = [waiters EXCEPT ![r] = RemoveAt(waiters[r], i)],
         \A c \in Calls : c # waiters[r][i] => calls'[c] = calls[c]
  PROVE  /\ QueuedCallsWait'
         /\ waiters' \in [Resources -> Seq(Calls)]
         /\ \A t \in Resources : waiters'[t] # <<>> => waiters[t] # <<>>
<1> DEFINE q == RemoveAt(waiters[r], i)
<1>1. waiters[r] \in Seq(Calls)
  OBVIOUS
<1>2. /\ q \in Seq(Calls)
      /\ Len(q) = Len(waiters[r]) - 1
      /\ \A j \in 1 .. Len(q) :
           q[j] = IF j < i THEN waiters[r][j] ELSE waiters[r][j + 1]
  BY <1>1, RemoveAtProperties
<1>3. waiters' = [waiters EXCEPT ![r] = q]
  OBVIOUS
<1> HIDE DEF q
<1>4. QueuedCallsWait'
  BY <1>2, <1>3, DequeueKeepsQueues
<1>5. waiters' \in [Resources -> Seq(Calls)]
  BY <1>2, <1>3
<1>6. \A t \in Resources : waiters'[t] # <<>> => waiters[t] # <<>>
  BY <1>1, <1>3
<1> QED
  BY <1>4, <1>5, <1>6

LEMMA GiveUpStep ==
  ASSUME Inv, NEW c \in Calls, GiveUp(c) PROVE Inv'
<1> DEFINE r0 == calls[c].res
<1>1. /\ waiters \in [Resources -> Seq(Calls)] /\ calls \in [Calls -> Call]
      /\ QueuedCallsWait /\ calls[c].lease \in Nat
  BY DEF Inv, TypeOK, Call
<1>2. /\ calls' = [calls EXCEPT ![c] = Returned("failed", @.lease)]
      /\ UNCHANGED <<res, seq, leases, holders, walk, now>>
  BY DEF GiveUp
<1>3. /\ calls' \in [Calls -> Call]
      /\ \A d \in Calls : d # c => calls'[d] = calls[d]
  BY <1>1, <1>2, ReturnedIsCall
<1>4. WalkExact'
  BY <1>2 DEF Inv, WalkExact, LeaseIds, Active, MutexFree
<1>5. CASE /\ r0 \in Resources
           /\ \E i \in DOMAIN waiters[r0] :
                /\ waiters[r0][i] = c
                /\ waiters' = [waiters EXCEPT ![r0] = RemoveAt(@, i)]
  <2>1. PICK i \in DOMAIN waiters[r0] :
          /\ waiters[r0][i] = c
          /\ waiters' = [waiters EXCEPT ![r0] = RemoveAt(@, i)]
    BY <1>5
  <2>2. i \in 1 .. Len(waiters[r0])
    BY <1>1, <1>5, <2>1
  <2>3. waiters' = [waiters EXCEPT ![r0] = RemoveAt(waiters[r0], i)]
    BY <2>1
  <2>4. \A d \in Calls : d # waiters[r0][i] => calls'[d] = calls[d]
    BY <1>3, <2>1
  <2>5. /\ QueuedCallsWait'
        /\ waiters' \in [Resources -> Seq(Calls)]
        /\ \A t \in Resources : waiters'[t] # <<>> => waiters[t] # <<>>
    <3> HIDE DEF r0
    <3> QED
      BY <1>1, <1>5, <2>2, <2>3, <2>4, RemovalKeepsQueues
  <2>6. TypeOK'
    BY <1>2, <1>3, <2>5 DEF Inv, TypeOK, LeaseIds
  <2> QED
    BY <1>2, <1>4, <2>5, <2>6, SameTable DEF Inv
<1>6. CASE UNCHANGED waiters /\ \A i \in DOMAIN waiters[r0] : waiters[r0][i] # c
  <2>1. \A r \in Resources : \A i \in DOMAIN waiters[r] :
          waiters[r][i] \in Calls /\ waiters[r][i] # c
    BY <1>1, <1>6 DEF QueuedCallsWait
  <2>2. QueuedCallsWait'
    BY <1>1, <1>3, <1>6, <2>1 DEF QueuedCallsWait, Queued
  <2>3. TypeOK'
    BY <1>2, <1>3, <1>6 DEF Inv, TypeOK, LeaseIds
  <2> QED
    BY <1>2, <1>4, <1>6, <2>2, <2>3, SameTable DEF Inv
<1>7. r0 \in Resources \/ r0 = None
  BY <1>1 DEF Call
<1>8. CASE r0 = None
  <2>1. waiters' = waiters
    BY <1>1, <1>8, NoneAssumption DEF GiveUp
  <2>2. \A r \in Resources : \A i \in DOMAIN waiters[r] :
          waiters[r][i] \in Calls /\ waiters[r][i] # c
    BY <1>1, <1>8, NoneAssumption DEF QueuedCallsWait
  <2>3. QueuedCallsWait'
    BY <1>1, <1>3, <2>1, <2>2 DEF QueuedCallsWait, Queued
  <2>4. TypeOK'
    BY <1>2, <1>3, <2>1 DEF Inv, TypeOK, LeaseIds
  <2> QED
    BY <1>2, <1>4, <2>1, <2>3, <2>4, SameTable DEF Inv
<1> QED
  BY <1>5, <1>6, <1>7, <1>8 DEF GiveUp

LEMMA CancelStep ==
  ASSUME Inv, NEW r0 \in Resources, NEW i \in DOMAIN waiters[r0], Cancel(r0, i)
  PROVE  Inv'
<1> DEFINE c == waiters[r0][i]
<1>1. /\ waiters \in [Resources -> Seq(Calls)] /\ calls \in [Calls -> Call]
      /\ QueuedCallsWait /\ waiters[r0] \in Seq(Calls)
      /\ i \in 1 .. Len(waiters[r0]) /\ c \in Calls
  BY DEF Inv, TypeOK
<1>2. /\ calls' = [calls EXCEPT ![c].pc = "cancelled"]
      /\ waiters' = [waiters EXCEPT ![r0] = RemoveAt(waiters[r0], i)]
      /\ UNCHANGED <<res, seq, leases, holders, walk, now>>
  BY <1>1 DEF Cancel
<1>3. /\ calls' \in [Calls -> Call]
      /\ \A d \in Calls : d # c => calls'[d] = calls[d]
  BY <1>1, <1>2, ZenonT(60) DEF Call
<1>4. /\ QueuedCallsWait'
      /\ waiters' \in [Resources -> Seq(Calls)]
      /\ \A t \in Resources : waiters'[t] # <<>> => waiters[t] # <<>>
  <2>1. /\ waiters \in [Resources -> Seq(Calls)]
        /\ QueuedCallsWait
        /\ i \in 1 .. Len(waiters[r0])
    BY <1>1
  <2>2. waiters' = [waiters EXCEPT ![r0] = RemoveAt(waiters[r0], i)]
    BY <1>2
  <2>3. \A d \in Calls : d # waiters[r0][i] => calls'[d] = calls[d]
    BY <1>3
  <2> QED
    BY <2>1, <2>2, <2>3, RemovalKeepsQueues
<1>5. TypeOK'
  BY <1>2, <1>3, <1>4 DEF Inv, TypeOK, LeaseIds
<1>6. WalkExact'
  BY <1>2 DEF Inv, WalkExact, LeaseIds, Active, MutexFree
<1> QED
  BY <1>2, <1>4, <1>5, <1>6, SameTable DEF Inv

(* The steps that change neither the table nor the queues. *)
LEMMA QuietStep ==
  ASSUME Inv, UNCHANGED <<seq, leases, holders, waiters, calls>>,
         res' \subseteq Resources, now' \in 0 .. MaxTime, walk' \in Walk,
         walk'.todo \subseteq {l \in LeaseIds : Active(l)},
         walk'.op = "none" => walk'.todo = {}
  PROVE  Inv'
<1>1. TypeOK'
  BY DEF Inv, TypeOK, LeaseIds
<1>2. QueuedCallsWait'
  BY DEF Inv, QueuedCallsWait, Queued
<1>3. WalkExact'
  BY DEF WalkExact, LeaseIds, Active, MutexFree
<1> QED
  BY <1>1, <1>2, <1>3, SameTable DEF Inv

LEMMA RenewStep ==
  ASSUME Inv, NEW l \in LeaseIds, NEW ttl \in TTLs, Renew(l, ttl)
  PROVE  Inv'
<1>1. /\ leases' = [leases EXCEPT ![l].exp = now + ttl] /\ walk.todo = {}
      /\ UNCHANGED <<res, seq, holders, waiters, calls, walk, now>>
      /\ leases \in [LeaseIds -> Lease] /\ now + ttl \in Nat
  BY BoundAssumption DEF Renew, Inv, TypeOK, WalkExact
<1>2. /\ leases' \in [LeaseIds -> Lease]
      /\ \A k \in LeaseIds : leases'[k].res = leases[k].res
                             /\ leases'[k].state = leases[k].state
  BY <1>1 DEF Lease
<1>3. \A r \in Resources : ActiveOn(r)' = ActiveOn(r)
  BY <1>1, <1>2 DEF ActiveOn, Active, LeaseIds
<1>4. (HoldersExact /\ CapacityRespected /\ NoIdleCapacity)'
  BY <1>1, <1>3
  DEF Inv, HoldersExact, CapacityRespected, NoIdleCapacity, CapacityOf
<1>5. TypeOK'
  BY <1>1, <1>2 DEF Inv, TypeOK, LeaseIds
<1>6. QueuedCallsWait'
  BY <1>1 DEF Inv, QueuedCallsWait, Queued
<1>7. WalkExact'
  BY <1>1 DEF WalkExact
<1> QED
  BY <1>4, <1>5, <1>6, <1>7 DEF Inv

-----------------------------------------------------------------------------
(* The steps that end a lease *)

(* Outside a loop there is nothing left to visit, before and after. *)
LEMMA ReleaseStep ==
  ASSUME Inv, NEW l \in LeaseIds, Release(l) \/ ExpireNow(l)
  PROVE  Inv'
<1>1. /\ Active(l) /\ MutexFree
      /\ \E final \in {"RELEASED", "EXPIRED"} : End(l, final)
      /\ UNCHANGED <<res, walk, now>>
  BY DEF Release, ExpireNow
<1>2. PICK final \in {"RELEASED", "EXPIRED"} : End(l, final)
  BY <1>1
<1>3. /\ TableOK'
      /\ (HoldersExact /\ CapacityRespected /\ NoIdleCapacity
          /\ QueuedCallsWait)'
  BY <1>1, <1>2, EndStep
<1>4. TypeOK'
  BY <1>1, <1>3 DEF Inv, TypeOK, TableOK
<1>5. WalkExact'
  BY <1>1 DEF Inv, WalkExact
<1> QED
  BY <1>3, <1>4, <1>5 DEF Inv

(* An iteration ends the lease it visits, which is LEASED, and what it     *)
(* adds to the loop was granted in the same step.                          *)
LEMMA StepStep ==
  ASSUME Inv, NEW l \in LeaseIds, Step(l)
  PROVE  Inv'
<1>1. /\ l \in walk.todo /\ Active(l) /\ walk \in Walk
      /\ walk.todo \subseteq {k \in LeaseIds : Active(k)}
      /\ walk.op # "none" /\ seq \in Nat
  BY DEF Step, Inv, TypeOK, WalkExact, MutexFree
<1>2. PICK final \in {"RELEASED", "EXPIRED"} : End(l, final)
  BY DEF Step
<1>3. /\ TableOK'
      /\ LeaseIds \subseteq LeaseIds'
      /\ \A k \in LeaseIds : Active(k) /\ k # l => Active(k)'
      /\ \A k \in (seq + 1) .. seq' : k \in LeaseIds' /\ Active(k)'
      /\ (HoldersExact /\ CapacityRespected /\ NoIdleCapacity
          /\ QueuedCallsWait)'
  BY <1>1, <1>2, EndStep
<1>4. PICK visited \in SUBSET {n \in (seq + 1) .. seq' :
                                leases'[n].sess \in walk.doomed} :
        walk' = [walk EXCEPT !.todo = (@ \ {l}) \cup visited]
  BY DEF Step
<1>5. walk' = [op |-> walk.op, doomed |-> walk.doomed, base |-> walk.base,
               todo |-> (walk.todo \ {l}) \cup visited]
  BY <1>1, <1>4 DEF Walk
<1>6. visited \subseteq (seq + 1) .. seq'
  BY <1>4
<1>7. walk' \in Walk
  <2>1. visited \subseteq Nat
    <3>1. \A n \in (seq + 1) .. seq' : n \in Nat
      BY <1>1
    <3> QED
      BY <1>6, <3>1
  <2>2. walk.todo \subseteq Nat
    BY <1>1 DEF Walk
  <2> QED
    BY <1>1, <1>5, <2>1, <2>2 DEF Walk
<1>8. TypeOK'
  <2>1. UNCHANGED <<res, now>>
    BY DEF Step
  <2> QED
    BY <1>3, <1>7, <2>1 DEF Inv, TypeOK, TableOK
<1>9. WalkExact'
  <2>1. walk'.todo = (walk.todo \ {l}) \cup visited /\ walk'.op # "none"
    BY <1>1, <1>5
  <2>2. ASSUME NEW k \in walk.todo \ {l} PROVE k \in LeaseIds' /\ Active(k)'
    BY <1>1, <1>3
  <2>3. ASSUME NEW k \in visited PROVE k \in LeaseIds' /\ Active(k)'
    BY <1>3, <1>6
  <2> QED
    BY <2>1, <2>2, <2>3 DEF WalkExact, MutexFree
<1> QED
  BY <1>3, <1>8, <1>9 DEF Inv

-----------------------------------------------------------------------------
(* The beginnings and ends of loops, and the rest *)

(* A loop starts with LEASED leases to visit. *)
LEMMA BeginStep ==
  ASSUME Inv, NEW op \in {"ReleaseAll", "Sweep", "ReapOrphans"},
         NEW doomed \in SUBSET Sessions,
         NEW todo, todo \subseteq {l \in LeaseIds : Active(l)},
         Begin(op, doomed, todo)
  PROVE  Inv'
<1>1. /\ walk' = [op |-> op, doomed |-> doomed, todo |-> todo, base |-> seq]
      /\ UNCHANGED <<res, seq, leases, holders, waiters, calls, now>>
  BY DEF Begin
<1>2. seq \in Nat /\ res \subseteq Resources /\ now \in 0 .. MaxTime
  BY DEF Inv, TypeOK
<1>3. todo \subseteq Nat
  <2>1. \A l \in LeaseIds : l \in Nat
    BY <1>2 DEF LeaseIds
  <2> QED
    BY <2>1
<1>4. walk' \in Walk
  BY <1>1, <1>2, <1>3 DEF Walk
<1>5. walk'.op # "none" /\ walk'.todo = todo
  BY <1>1
<1> QED
  BY <1>1, <1>2, <1>4, <1>5, QuietStep

LEMMA LoopStep ==
  ASSUME Inv,
         \/ \E s \in Sessions : BeginReleaseAll(s)
         \/ \E t \in 0 .. now : BeginSweep(t)
         \/ \E live \in SUBSET Sessions : BeginReap(live)
         \/ Unlock
  PROVE  Inv'
<1>1. CASE \E s \in Sessions : BeginReleaseAll(s)
  <2>1. PICK s \in Sessions : BeginReleaseAll(s)
    BY <1>1
  <2> DEFINE todo == {l \in LeaseIds : Active(l) /\ leases[l].sess = s}
  <2>2. Begin("ReleaseAll", {s}, todo)
        /\ todo \subseteq {l \in LeaseIds : Active(l)}
    BY <2>1 DEF BeginReleaseAll
  <2> HIDE DEF todo
  <2> QED
    BY <2>2, BeginStep
<1>2. CASE \E t \in 0 .. now : BeginSweep(t)
  <2>1. PICK t \in 0 .. now : BeginSweep(t)
    BY <1>2
  <2> DEFINE todo == {l \in LeaseIds : Active(l) /\ leases[l].exp # 0
                                                 /\ leases[l].exp < t}
  <2>2. Begin("Sweep", {}, todo) /\ todo \subseteq {l \in LeaseIds : Active(l)}
    BY <2>1 DEF BeginSweep
  <2> HIDE DEF todo
  <2> QED
    BY <2>2, BeginStep
<1>3. CASE \E live \in SUBSET Sessions : BeginReap(live)
  <2>1. PICK live \in SUBSET Sessions : BeginReap(live)
    BY <1>3
  <2> DEFINE todo == {l \in LeaseIds : Active(l) /\ leases[l].sess \notin live}
  <2>2. Begin("ReapOrphans", Sessions \ live, todo)
        /\ todo \subseteq {l \in LeaseIds : Active(l)}
    BY <2>1 DEF BeginReap
  <2> HIDE DEF todo
  <2> QED
    BY <2>2, BeginStep
<1>4. CASE Unlock
  <2>1. /\ walk' = Free
        /\ UNCHANGED <<res, seq, leases, holders, waiters, calls, now>>
    BY <1>4 DEF Unlock
  <2>2. Free \in Walk /\ Free.todo = {}
    BY DEF Free, Walk
  <2> QED
    BY <2>1, <2>2, QuietStep DEF Inv, TypeOK
<1> QED
  BY <1>1, <1>2, <1>3, <1>4

LEMMA EnsureOrTickStep ==
  ASSUME Inv, (\E r \in Resources : EnsureResource(r)) \/ Tick
  PROVE  Inv'
<1>1. /\ UNCHANGED <<seq, leases, holders, waiters, calls, walk>>
      /\ res' \subseteq Resources /\ now' \in 0 .. MaxTime
  BY BoundAssumption DEF EnsureResource, Tick, Inv, TypeOK
<1>2. /\ walk' \in Walk
      /\ walk'.todo \subseteq {l \in LeaseIds : Active(l)}
      /\ walk'.op = "none" => walk'.todo = {}
  BY <1>1 DEF Inv, TypeOK, WalkExact, MutexFree
<1> QED
  BY <1>1, <1>2, QuietStep

-----------------------------------------------------------------------------

(* Every step of Next preserves the inductive invariant. *)
THEOREM NextInv == Inv /\ [Next]_vars => Inv'
<1> SUFFICES ASSUME Inv, [Next]_vars PROVE Inv'
  OBVIOUS
<1>1. ASSUME NEW c \in Calls, Acquire(c) PROVE Inv'
  BY <1>1, AcquireUnknownStep, AcquireNowStep, AcquireWaitStep DEF Acquire
<1>2. ASSUME NEW c \in Calls, Wake(c) \/ GiveUp(c) PROVE Inv'
  BY <1>2, WakeStep, GiveUpStep
<1>3. ASSUME NEW l \in LeaseIds, Release(l) \/ ExpireNow(l) \/ Step(l)
      PROVE  Inv'
  BY <1>3, ReleaseStep, StepStep
<1>4. ASSUME NEW l \in LeaseIds, NEW ttl \in TTLs, Renew(l, ttl) PROVE Inv'
  BY <1>4, RenewStep
<1>5. ASSUME NEW r \in Resources, NEW i \in DOMAIN waiters[r], Cancel(r, i)
      PROVE  Inv'
  BY <1>5, CancelStep
<1>6. CASE \/ \E s \in Sessions : BeginReleaseAll(s)
           \/ \E t \in 0 .. now : BeginSweep(t)
           \/ \E live \in SUBSET Sessions : BeginReap(live)
           \/ Unlock
  BY <1>6, LoopStep
<1>7. CASE (\E r \in Resources : EnsureResource(r)) \/ Tick
  BY <1>7, EnsureOrTickStep
<1>8. CASE UNCHANGED vars
  BY <1>8 DEF vars, Inv, TypeOK, HoldersExact, CapacityRespected,
     NoIdleCapacity, QueuedCallsWait, WalkExact, LeaseIds, Active, ActiveOn,
     Queued, MutexFree
<1> QED
  BY <1>1, <1>2, <1>3, <1>4, <1>5, <1>6, <1>7, <1>8 DEF Next

(* Inv holds in every reachable state. *)
THEOREM InvHolds == Spec => []Inv
BY InitInv, NextInv, PTL DEF Spec

(* Every variable keeps the shape the code gives it; in particular a grant *)
(* from the queue goes to a session, never to the None of a call that has  *)
(* already returned.                                                       *)
THEOREM TypeCorrect == Spec => []TypeOK
<1>1. Inv => TypeOK
  BY DEF Inv
<1> QED
  BY <1>1, InvHolds, PTL

(* The holder set that decides grants is the set of LEASED leases. *)
THEOREM HoldersAreExact == Spec => []HoldersExact
<1>1. Inv => HoldersExact
  BY DEF Inv
<1> QED
  BY <1>1, InvHolds, PTL

(* No resource is ever leased more often than its capacity allows, for any *)
(* number of sessions, calls, leases and loops.                            *)
THEOREM CapacityIsRespected == Spec => []CapacityRespected
<1>1. Inv => CapacityRespected
  BY DEF Inv
<1> QED
  BY <1>1, InvHolds, PTL

(* No call waits for a resource that has room. *)
THEOREM NoCapacityIsIdle == Spec => []NoIdleCapacity
<1>1. Inv => NoIdleCapacity
  BY DEF Inv
<1> QED
  BY <1>1, InvHolds, PTL

(* A loop never ends a lease that has ended. *)
THEOREM WalksAreExact == Spec => []WalkExact
<1>1. Inv => WalkExact
  BY DEF Inv
<1> QED
  BY <1>1, InvHolds, PTL

-----------------------------------------------------------------------------
(* The queue is fair *)

(* The lease that a hand-off grants goes to the head of the queue. *)
LEMMA HandOffServesHead ==
  ASSUME Inv, NEW l \in LeaseIds, NEW final, EndAndHandOff(l, final),
         NEW r \in Resources, leases'[seq'].res = r
  PROVE  /\ leases'[seq'].sess = calls[Head(waiters[r])].sess
         /\ waiters'[r] = Tail(waiters[r])
<1> DEFINE r0 == leases[l].res
           w  == Head(waiters[r0])
<1>1. /\ seq \in Nat /\ seq' = seq + 1
      /\ leases' = Granted([leases EXCEPT ![l].state = final],
                           r0, calls[w].sess, 0)
      /\ waiters' = [waiters EXCEPT ![r0] = Tail(waiters[r0])]
      /\ waiters \in [Resources -> Seq(Calls)]
  BY DEF EndAndHandOff, HandOff, Inv, TypeOK
<1>2. leases'[seq'] = [res |-> r0, sess |-> calls[w].sess, exp |-> 0,
                       state |-> "LEASED"]
  BY <1>1, SMTT(40) DEF Granted
<1>3. r = r0 /\ leases'[seq'].sess = calls[w].sess
  BY <1>2
<1>4. waiters'[r0] = Tail(waiters[r0])
  <2>1. /\ waiters' = [waiters EXCEPT ![r0] = Tail(waiters[r0])]
        /\ waiters \in [Resources -> Seq(Calls)] /\ r0 \in Resources
    BY <1>1, <1>3
  <2> QED
    BY <2>1
<1> QED
  BY <1>3, <1>4

LEMMA StepServesHead ==
  ASSUME Inv, [Next]_vars, NEW r \in Resources,
         waiters[r] # <<>>, seq' > seq, leases'[seq'].res = r
  PROVE  /\ leases'[seq'].sess = calls[Head(waiters[r])].sess
         /\ waiters'[r] = Tail(waiters[r])
<1>1. seq \in Nat /\ ~(seq > seq)
  BY DEF Inv, TypeOK
<1>2. ASSUME NEW c \in Calls, NEW t \in Resources, NEW s \in Sessions,
             NEW ttl \in TTLs, AcquireNow(c, t, s, ttl)
      PROVE  FALSE
  <2>1. waiters[t] = <<>>
    BY <1>2, RoomMeansNoQueue DEF AcquireNow
  <2>2. leases'[seq + 1].res = t /\ seq' = seq + 1
    BY <1>1, <1>2 DEF AcquireNow, Granted
  <2> QED
    BY <2>1, <2>2
<1>3. ASSUME NEW l \in LeaseIds, NEW final, End(l, final)
      PROVE  EndAndHandOff(l, final)
  BY <1>1, <1>3 DEF End, EndOnly
<1>4. seq' # seq
  BY <1>1
<1>5. ASSUME NEW l \in LeaseIds, Release(l) \/ ExpireNow(l) \/ Step(l)
      PROVE  \E final : EndAndHandOff(l, final)
  BY <1>3, <1>5 DEF Release, ExpireNow, Step
<1>6. \/ \E c \in Calls, t \in Resources, s \in Sessions, ttl \in TTLs :
           AcquireNow(c, t, s, ttl)
      \/ \E l \in LeaseIds : Release(l) \/ ExpireNow(l) \/ Step(l)
  BY <1>4, ZenonT(60) DEF Next, vars, Acquire, AcquireUnknown, AcquireWait, Wake, GiveUp,
     Renew, BeginReleaseAll, BeginSweep, BeginReap, Begin, EnsureResource,
     Cancel, Unlock, Tick
<1>7. PICK l \in LeaseIds : Release(l) \/ ExpireNow(l) \/ Step(l)
  BY <1>2, <1>6
<1>8. PICK final : EndAndHandOff(l, final)
  BY <1>5, <1>7
<1> QED
  BY <1>8, HandOffServesHead

(* "Nobody can jump the queue": a lease granted while calls wait for the   *)
(* resource goes to the first of them.  A call that arrives when there is  *)
(* room finds an empty queue (RoomMeansNoQueue), so it passes nobody.      *)
THEOREM NobodyJumpsTheQueue == Spec => NoBarging
<1>1. Inv /\ [Next]_vars =>
        [\A r \in Resources :
           waiters[r] # <<>> /\ seq' > seq /\ leases'[seq'].res = r =>
             /\ leases'[seq'].sess = calls[Head(waiters[r])].sess
             /\ waiters'[r] = Tail(waiters[r])]_vars
  BY StepServesHead
<1> QED
  BY <1>1, InvHolds, PTL DEF Spec, NoBarging

-----------------------------------------------------------------------------
(* Nobody waits outside the queues *)

(* Every call that waits is in the queue of its resource. *)
WaitingCallsQueued ==
  \A c \in Calls : Queued(c) =>
    /\ calls[c].res \in Resources
    /\ \E i \in DOMAIN waiters[calls[c].res] : waiters[calls[c].res][i] = c

(* The calls that a removal leaves in a queue are still in it. *)
LEMMA RemovalKeepsWaiters ==
  ASSUME waiters \in [Resources -> Seq(Calls)], WaitingCallsQueued,
         NEW r \in Resources, NEW i \in 1 .. Len(waiters[r]),
         NEW q \in Seq(Calls), Len(q) = Len(waiters[r]) - 1,
         \A j \in 1 .. Len(q) :
           q[j] = IF j < i THEN waiters[r][j] ELSE waiters[r][j + 1],
         waiters' = [waiters EXCEPT ![r] = q],
         \A c \in Calls : Queued(c)' =>
           c # waiters[r][i] /\ calls'[c] = calls[c]
  PROVE  WaitingCallsQueued'
<1> SUFFICES ASSUME NEW c \in Calls, Queued(c)'
             PROVE  /\ calls'[c].res \in Resources
                    /\ \E k \in DOMAIN waiters'[calls'[c].res] :
                         waiters'[calls'[c].res][k] = c
  BY DEF WaitingCallsQueued
<1>1. c # waiters[r][i] /\ calls'[c] = calls[c] /\ Queued(c)
  BY DEF Queued
<1>2. PICK t \in Resources : t = calls[c].res
  BY <1>1 DEF WaitingCallsQueued
<1>3. PICK k \in DOMAIN waiters[t] : waiters[t][k] = c
  BY <1>1, <1>2 DEF WaitingCallsQueued
<1>4. CASE t # r
  BY <1>1, <1>2, <1>3, <1>4
<1>5. CASE t = r
  <2> DEFINE m == IF k < i THEN k ELSE k - 1
  <2>1. k \in 1 .. Len(waiters[r]) /\ k # i /\ Len(waiters[r]) \in Nat
    BY <1>1, <1>3, <1>5
  <2>2. m \in 1 .. Len(q)
    BY <2>1
  <2>3. q[m] = c
    BY <1>3, <1>5, <2>1, <2>2
  <2>4. waiters'[r] = q /\ m \in DOMAIN q
    BY <2>2
  <2> QED
    BY <1>1, <1>2, <1>5, <2>3, <2>4
<1> QED
  BY <1>4, <1>5

(* A step that leaves the queues and starts no wait. *)
LEMMA SameQueuesKeepWaiters ==
  ASSUME WaitingCallsQueued, waiters' = waiters,
         \A c \in Calls : Queued(c)' => calls'[c] = calls[c]
  PROVE  WaitingCallsQueued'
BY DEF WaitingCallsQueued, Queued

LEMMA RemoveAtKeepsWaiters ==
  ASSUME Inv, WaitingCallsQueued,
         NEW r \in Resources, NEW i \in DOMAIN waiters[r],
         waiters' = [waiters EXCEPT ![r] = RemoveAt(waiters[r], i)],
         \A c \in Calls : Queued(c)' =>
           c # waiters[r][i] /\ calls'[c] = calls[c]
  PROVE  WaitingCallsQueued'
<1> DEFINE q == RemoveAt(waiters[r], i)
<1>1. /\ waiters \in [Resources -> Seq(Calls)]
      /\ waiters[r] \in Seq(Calls) /\ i \in 1 .. Len(waiters[r])
  BY DEF Inv, TypeOK
<1>2. /\ q \in Seq(Calls)
      /\ Len(q) = Len(waiters[r]) - 1
      /\ \A j \in 1 .. Len(q) :
           q[j] = IF j < i THEN waiters[r][j] ELSE waiters[r][j + 1]
  BY <1>1, RemoveAtProperties
<1>3. waiters' = [waiters EXCEPT ![r] = q]
  OBVIOUS
<1> HIDE DEF q
<1> QED
  BY <1>1, <1>2, <1>3, RemovalKeepsWaiters

LEMMA HandOffKeepsWaiters ==
  ASSUME Inv, WaitingCallsQueued,
         NEW l \in LeaseIds, NEW final, EndAndHandOff(l, final), Active(l)
  PROVE  WaitingCallsQueued'
<1> DEFINE r0 == leases[l].res
           w  == Head(waiters[r0])
<1>1. /\ waiters \in [Resources -> Seq(Calls)] /\ calls \in [Calls -> Call]
      /\ r0 \in Resources /\ waiters[r0] \in Seq(Calls)
  BY DEF Inv, TypeOK, Lease
<1>2. /\ waiters[r0] # <<>>
      /\ waiters' = [waiters EXCEPT ![r0] = Tail(waiters[r0])]
      /\ calls' = [calls EXCEPT ![w].pc = "granted", ![w].lease = seq + 1]
  BY DEF EndAndHandOff, HandOff
<1>3. /\ w = waiters[r0][1] /\ 1 \in 1 .. Len(waiters[r0]) /\ w \in Calls
  <2>1. Len(waiters[r0]) \in Nat \ {0} /\ Head(waiters[r0]) = waiters[r0][1]
    BY <1>1, <1>2, HeadIsFirst
  <2> QED
    BY <1>1, <2>1
<1>4. \A c \in Calls : Queued(c)' =>
        c # waiters[r0][1] /\ calls'[c] = calls[c]
  <2>1. calls'[w].pc = "granted"
    BY <1>1, <1>2, <1>3 DEF Call
  <2>2. \A c \in Calls : c # w => calls'[c] = calls[c]
    BY <1>1, <1>2
  <2> QED
    BY <1>3, <2>1, <2>2 DEF Queued
<1> DEFINE q == Tail(waiters[r0])
<1>5. /\ q \in Seq(Calls) /\ Len(q) = Len(waiters[r0]) - 1
      /\ \A j \in 1 .. Len(q) :
           q[j] = IF j < 1 THEN waiters[r0][j] ELSE waiters[r0][j + 1]
  <2>1. /\ q \in Seq(Calls) /\ Len(q) = Len(waiters[r0]) - 1
        /\ \A j \in 1 .. Len(q) : q[j] = waiters[r0][j + 1]
    BY <1>1, <1>2, HeadTailProperties
  <2> QED
    BY <2>1
<1>6. waiters' = [waiters EXCEPT ![r0] = q]
  BY <1>2
<1> HIDE DEF q, r0
<1> QED
  BY <1>1, <1>3, <1>4, <1>5, <1>6, RemovalKeepsWaiters

LEMMA AcquireWaitKeepsWaiters ==
  ASSUME Inv, WaitingCallsQueued, NEW c \in Calls, NEW r0 \in Resources,
         NEW s \in Sessions, NEW ttl \in TTLs, NEW b \in BOOLEAN,
         AcquireWait(c, r0, s, ttl, b)
  PROVE  WaitingCallsQueued'
<1>1. /\ waiters \in [Resources -> Seq(Calls)] /\ calls \in [Calls -> Call]
      /\ waiters' = [waiters EXCEPT ![r0] = Append(@, c)]
      /\ calls' = [calls EXCEPT ![c] =
                     [pc |-> "waiting", sess |-> s, res |-> r0, ttl |-> ttl,
                      bounded |-> b, lease |-> 0]]
  BY DEF Inv, TypeOK, AcquireWait
<1>2. /\ DOMAIN waiters'[r0] = 1 .. Len(waiters[r0]) + 1
      /\ \A i \in 1 .. Len(waiters[r0]) : waiters'[r0][i] = waiters[r0][i]
      /\ waiters'[r0][Len(waiters[r0]) + 1] = c
      /\ Len(waiters[r0]) \in Nat
  BY <1>1, AppendProperties
<1>3. ASSUME NEW d \in Calls, Queued(d)'
      PROVE  /\ calls'[d].res \in Resources
             /\ \E k \in DOMAIN waiters'[calls'[d].res] :
                  waiters'[calls'[d].res][k] = d
  <2>1. CASE d = c
    <3>1. calls'[d].res = r0
      BY <1>1, <2>1
    <3>2. Len(waiters[r0]) + 1 \in DOMAIN waiters'[r0]
      BY <1>2
    <3> QED
      BY <1>2, <2>1, <3>1, <3>2
  <2>2. CASE d # c
    <3>1. calls'[d] = calls[d] /\ Queued(d)
      BY <1>1, <1>3, <2>2 DEF Queued
    <3>2. PICK t \in Resources : t = calls[d].res
      BY <3>1 DEF WaitingCallsQueued
    <3>3. PICK k \in DOMAIN waiters[t] : waiters[t][k] = d
      BY <3>1, <3>2 DEF WaitingCallsQueued
    <3>4. k \in DOMAIN waiters'[t] /\ waiters'[t][k] = d
      <4>1. CASE t = r0
        <5>1. k \in 1 .. Len(waiters[r0])
          BY <1>1, <3>3, <4>1
        <5> QED
          BY <1>2, <3>3, <4>1, <5>1
      <4>2. CASE t # r0
        BY <1>1, <3>3, <4>2
      <4> QED
        BY <4>1, <4>2
    <3> QED
      BY <3>1, <3>2, <3>4
  <2> QED
    BY <2>1, <2>2
<1> QED
  BY <1>3 DEF WaitingCallsQueued

LEMMA GiveUpKeepsWaiters ==
  ASSUME Inv, WaitingCallsQueued, NEW c \in Calls, GiveUp(c)
  PROVE  WaitingCallsQueued'
<1> DEFINE r0 == calls[c].res
<1>1. /\ calls \in [Calls -> Call] /\ calls[c] \in Call
      /\ calls' = [calls EXCEPT ![c] = Returned("failed", @.lease)]
  BY DEF Inv, TypeOK, GiveUp
<1>2. ~Queued(c)' /\ \A d \in Calls : d # c => calls'[d] = calls[d]
  BY <1>1 DEF Queued, Returned
<1>3. CASE waiters' = waiters
  BY <1>2, <1>3, SameQueuesKeepWaiters
<1>4. CASE \E i \in DOMAIN waiters[r0] :
             /\ waiters[r0][i] = c
             /\ waiters' = [waiters EXCEPT ![r0] = RemoveAt(@, i)]
  <2>1. PICK i \in DOMAIN waiters[r0] :
          /\ waiters[r0][i] = c
          /\ waiters' = [waiters EXCEPT ![r0] = RemoveAt(@, i)]
    BY <1>4
  <2>2. CASE r0 \in Resources
    <3>1. waiters' = [waiters EXCEPT ![r0] = RemoveAt(waiters[r0], i)]
      BY <2>1
    <3>2. \A d \in Calls : Queued(d)' =>
            d # waiters[r0][i] /\ calls'[d] = calls[d]
      BY <1>2, <2>1
    <3> HIDE DEF r0
    <3> QED
      BY <2>1, <2>2, <3>1, <3>2, RemoveAtKeepsWaiters
  <2>3. CASE r0 = None
    <3>1. waiters' = waiters
      BY <2>1, <2>3, NoneAssumption DEF Inv, TypeOK
    <3> QED
      BY <1>3, <3>1
  <2> QED
    BY <1>1, <2>2, <2>3 DEF Call
<1> QED
  BY <1>3, <1>4 DEF GiveUp

LEMMA NextKeepsWaiters ==
  ASSUME Inv, WaitingCallsQueued, [Next]_vars
  PROVE  WaitingCallsQueued'
<1>1. calls \in [Calls -> Call] /\ waiters \in [Resources -> Seq(Calls)]
  BY DEF Inv, TypeOK
<1>2. ASSUME NEW c \in Calls, NEW r \in Resources, AcquireUnknown(c, r)
      PROVE  WaitingCallsQueued'
  <2>1. waiters' = waiters
        /\ \A d \in Calls : Queued(d)' => calls'[d] = calls[d]
    BY <1>1, <1>2 DEF AcquireUnknown, Queued, Returned
  <2> QED
    BY <2>1, SameQueuesKeepWaiters
<1>3. ASSUME NEW c \in Calls, NEW r \in Resources, NEW s \in Sessions,
             NEW ttl \in TTLs, AcquireNow(c, r, s, ttl)
      PROVE  WaitingCallsQueued'
  <2>1. waiters' = waiters
        /\ \A d \in Calls : Queued(d)' => calls'[d] = calls[d]
    BY <1>1, <1>3 DEF AcquireNow, Queued, Returned
  <2> QED
    BY <2>1, SameQueuesKeepWaiters
<1>4. ASSUME NEW c \in Calls, Wake(c) PROVE WaitingCallsQueued'
  <2>1. waiters' = waiters
        /\ \A d \in Calls : Queued(d)' => calls'[d] = calls[d]
    BY <1>1, <1>4 DEF Wake, Queued, Returned
  <2> QED
    BY <2>1, SameQueuesKeepWaiters
<1>5. ASSUME NEW l \in LeaseIds, Release(l) \/ ExpireNow(l) \/ Step(l)
      PROVE  WaitingCallsQueued'
  <2>1. Active(l) /\ \E final : End(l, final)
    BY <1>5 DEF Release, ExpireNow, Step, Inv, WalkExact
  <2>2. PICK final : End(l, final)
    BY <2>1
  <2>3. CASE EndOnly(l, final)
    BY <2>3, SameQueuesKeepWaiters DEF EndOnly
  <2> QED
    BY <2>1, <2>2, <2>3, HandOffKeepsWaiters DEF End
<1>6. ASSUME NEW r \in Resources, NEW i \in DOMAIN waiters[r], Cancel(r, i)
      PROVE  WaitingCallsQueued'
  <2>1. waiters' = [waiters EXCEPT ![r] = RemoveAt(waiters[r], i)]
    BY <1>6 DEF Cancel
  <2>2. waiters[r][i] \in Calls
    BY <1>1
  <2>3. \A d \in Calls : Queued(d)' =>
          d # waiters[r][i] /\ calls'[d] = calls[d]
    <3>1. calls' = [calls EXCEPT ![waiters[r][i]].pc = "cancelled"]
      BY <1>6 DEF Cancel
    <3>2. calls'[waiters[r][i]].pc = "cancelled"
      BY <1>1, <2>2, <3>1 DEF Call
    <3> QED
      BY <1>1, <2>2, <3>1, <3>2 DEF Queued
  <2> QED
    BY <2>1, <2>3, RemoveAtKeepsWaiters
<1>7. CASE UNCHANGED <<waiters, calls>>
  BY <1>7, SameQueuesKeepWaiters
<1> QED
  BY <1>2, <1>3, <1>4, <1>5, <1>6, <1>7,
     AcquireWaitKeepsWaiters, GiveUpKeepsWaiters
  DEF Next, vars, Acquire, Renew, BeginReleaseAll, BeginSweep, BeginReap,
      Begin, EnsureResource, Unlock, Tick

(* A goroutine blocked in Acquire is in the queue of its resource exactly  *)
(* once, and nothing else is in a queue, whatever calls give up and        *)
(* whatever sessions are ended meanwhile.                                  *)
THEOREM QueuesAreExact == Spec => []QueuesExact
<1>1. Init => WaitingCallsQueued
  BY DEF Init, WaitingCallsQueued, Queued, Idle, Returned
<1>2. Inv /\ WaitingCallsQueued /\ [Next]_vars => WaitingCallsQueued'
  BY NextKeepsWaiters
<1>3. Inv /\ WaitingCallsQueued => QueuesExact
  BY DEF Inv, WaitingCallsQueued, QueuedCallsWait, QueuesExact
<1> QED
  BY <1>1, <1>2, <1>3, InvHolds, PTL DEF Spec

=============================================================================
