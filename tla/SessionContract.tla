--------------------------- MODULE SessionContract ---------------------------
(***************************************************************************)
(* What the daemon promises of one session, without goroutines, managers   *)
(* or the stages of a termination.  Any number of endings of the session   *)
(* may be under way; each owes what the session had when it began and may  *)
(* call the session stopped only when all of that is gone.  When the       *)
(* daemon comes back after a crash, the session is stopped and none of its *)
(* runs is open.  A stopped session may be given things all the same.      *)
(***************************************************************************)
CONSTANTS
  Things,   \* what sessions have: leases, ports, processes
  Runs,     \* runs
  Endings   \* endings of the session

VARIABLES
  serving,  \* the daemon serves
  state,    \* of the session: none, live, stopping, stopped
  has,      \* what the session has
  open,     \* its runs that are not over
  ending,   \* the endings that are under way
  owed      \* what each of them has still to take

vars == <<serving, state, has, open, ending, owed>>

Nothing == [e \in Endings |-> {}]

Init ==
  /\ serving = TRUE
  /\ state = "none"
  /\ has = {}
  /\ open = {}
  /\ ending = {}
  /\ owed = Nothing

Create ==
  /\ serving /\ state = "none"
  /\ state' = "live"
  /\ UNCHANGED <<serving, has, open, ending, owed>>

Gain(x) ==
  /\ serving /\ state # "none"
  /\ has' = has \cup {x}
  /\ UNCHANGED <<serving, state, open, ending, owed>>

Lose(lost) ==
  /\ has' = has \ lost
  /\ owed' = [e \in Endings |-> owed[e] \ lost]
  /\ UNCHANGED <<serving, state, open, ending>>

Open(r) ==
  /\ serving /\ state # "none"
  /\ open' = open \cup {r}
  /\ UNCHANGED <<serving, state, has, ending, owed>>

Shut(r) ==
  /\ open' = open \ {r}
  /\ UNCHANGED <<serving, state, has, ending, owed>>

Mark(e) ==
  /\ serving /\ state # "none"
  /\ e \notin ending
  /\ state' = "stopping"
  /\ ending' = ending \cup {e}
  /\ owed' = [owed EXCEPT ![e] = has]
  /\ UNCHANGED <<serving, has, open>>

Stop(e) ==
  /\ e \in ending
  /\ owed[e] = {}
  /\ state' = "stopped"
  /\ ending' = ending \ {e}
  /\ UNCHANGED <<serving, has, open, owed>>

Crash ==
  /\ serving' = FALSE
  /\ has' \subseteq has
  /\ ending' = {}
  /\ owed' = Nothing
  /\ UNCHANGED <<state, open>>

Close ==
  /\ ~serving
  /\ state # "none" /\ has = {}
  /\ state' = "stopped"
  /\ UNCHANGED <<serving, has, open, ending, owed>>

Serve ==
  /\ ~serving
  /\ state \in {"none", "stopped"}
  /\ open = {}
  /\ serving' = TRUE
  /\ UNCHANGED <<state, has, open, ending, owed>>

Next ==
  \/ Create \/ Crash \/ Close \/ Serve
  \/ \E x \in Things : Gain(x)
  \/ \E lost \in SUBSET Things : Lose(lost)
  \/ \E r \in Runs : Open(r) \/ Shut(r)
  \/ \E e \in Endings : Mark(e) \/ Stop(e)

Spec == Init /\ [][Next]_vars

=============================================================================
