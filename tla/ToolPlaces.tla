----------------------------- MODULE ToolPlaces -----------------------------
(***************************************************************************)
(* ToolRun has queues of its own.  One of its resources, Place, is the     *)
(* same FairSemaphore that LeaseSemaphore shows the lease manager to be:   *)
(* the clients are the runs, and each run is granted the place once.       *)
(***************************************************************************)
EXTENDS ToolRun

CONSTANT Place  \* a resource

ASSUME PlaceAssumption == Place \in Resources

(* The runs that were ever given a lease on x, each with itself. *)
Grantees(x) == [r \in {q \in Runs : lease[q][x].state # "none"} |-> r]

Places ==
  INSTANCE FairSemaphore WITH
    Clients <- Runs,
    Grants  <- Runs,
    Size    <- Capacity[Place],
    grantee <- Grantees(Place),
    held    <- Holders(Place),
    queue   <- queue[Place]

(* A tool run meets nothing else than a fair semaphore where it needs the  *)
(* place: it is given it once, at once if nobody waits and there is room,  *)
(* else in its turn, in the step in which another's lease expires; what    *)
(* becomes of the run, of its session or of the tool does not matter       *)
(* (unity.go:92, lease/manager.go:297, 387).                               *)
PlaceIsSemaphore == Places!Spec

=============================================================================
