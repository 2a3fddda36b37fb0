------------------------------ MODULE MCDaemon ------------------------------
(* Instances of Daemon for TLC. *)
EXTENDS DaemonSessions, TLC

Symmetry == Permutations(Runs) \cup Permutations(Terms)

=============================================================================
