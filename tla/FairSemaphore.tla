--------------------------- MODULE FairSemaphore ----------------------------
(***************************************************************************)
(* What a resource promises its clients, without tables, mutex, goroutines *)
(* or loops: Size permits, each grant of a permit numbered and made out    *)
(* to a client, and a queue.  A permit that comes back goes to the head of *)
(* the queue in the same step; a newcomer gets a permit only if nobody     *)
(* waits.                                                                  *)
(***************************************************************************)
EXTENDS Integers, FiniteSets, Sequences, SequencesExt

CONSTANTS
  Clients,   \* who asks for permits
  Grants,    \* grant numbers
  Size    \* how many permits there are

VARIABLES
  grantee,   \* grant number -> the client it was made out to, ever
  held,      \* the grants not returned yet
  queue      \* the clients that wait, first come first

vars == <<grantee, held, queue>>

Init ==
  /\ grantee = [g \in {} |-> {}]
  /\ held = {}
  /\ queue = <<>>

Grant(g, c) ==
  /\ g \notin DOMAIN grantee
  /\ grantee' = [h \in DOMAIN grantee \cup {g} |->
                   IF h = g THEN c ELSE grantee[h]]

Take(c, g) ==
  /\ queue = <<>>
  /\ Cardinality(held) < Size
  /\ Grant(g, c)
  /\ held' = held \cup {g}
  /\ UNCHANGED queue

Join(c) ==
  /\ Cardinality(held) >= Size
  /\ queue' = Append(queue, c)
  /\ UNCHANGED <<grantee, held>>

Leave(i) ==
  /\ queue' = RemoveAt(queue, i)
  /\ UNCHANGED <<grantee, held>>

Return(g) ==
  /\ queue = <<>>
  /\ held' = held \ {g}
  /\ UNCHANGED <<grantee, queue>>

PassOn(g, h) ==
  /\ queue # <<>>
  /\ Grant(h, Head(queue))
  /\ held' = (held \ {g}) \cup {h}
  /\ queue' = Tail(queue)

Next ==
  \/ \E c \in Clients : Join(c) \/ \E g \in Grants : Take(c, g)
  \/ \E i \in DOMAIN queue : Leave(i)
  \/ \E g \in held : Return(g) \/ \E h \in Grants : PassOn(g, h)

Spec == Init /\ [][Next]_vars

=============================================================================
