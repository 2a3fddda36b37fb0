---------------------------- MODULE DaemonSessions ----------------------------
(***************************************************************************)
(* What Daemon promises one session, Session: the SessionContract.  Its    *)
(* leases, ports and registered processes are what it has, a termination   *)
(* that has marked it STOPPING is an ending, and the history variable      *)
(* claim is what an ending owes.                                           *)
(***************************************************************************)
EXTENDS Daemon

CONSTANT Session  \* a session

ASSUME SessionAssumption == Session \in Sessions

StateOf(s) ==
  CASE sess[s] = "none"     -> "none"
    [] sess[s] = "STOPPING" -> "stopping"
    [] sess[s] = "STOPPED"  -> "stopped"
    [] OTHER                -> "live"

HasOf(s) == Holdings(s) \cup Children(s)

OpenOf(s) == {r \in Unfinished : run[r].sess = s}

(* t has marked its session STOPPING. *)
AtTheEnd(t) == term[t].pc \notin {"idle", "called"}

EndingsOf(s) == {t \in Terms : term[t].sess = s /\ AtTheEnd(t)}

OwedTo(s) == [t \in Terms |-> IF t \in EndingsOf(s) THEN claim[t] ELSE {}]

Contract ==
  INSTANCE SessionContract WITH
    Things  <- Resources \cup Ports \cup Runs,
    Endings <- Terms,
    serving <- Up,
    state   <- StateOf(Session),
    has     <- HasOf(Session),
    open    <- OpenOf(Session),
    ending  <- EndingsOf(Session),
    owed    <- OwedTo(Session)

(* TerminateSession, Execute and Recover, each of them many critical       *)
(* sections of several managers, keep the contract of every session,       *)
(* however they interleave and wherever the daemon crashes: STOPPED is     *)
(* written only when what the session had at its marking is gone, and the  *)
(* daemon serves again only when its runs are over                         *)
(* (daemon/service.go:137, 311, 545).                                      *)
SessionKeepsContract == Contract!Spec

=============================================================================
