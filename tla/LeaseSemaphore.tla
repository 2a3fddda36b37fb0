--------------------------- MODULE LeaseSemaphore ---------------------------
(***************************************************************************)
(* What the manager promises of one resource, Slot: it is a FairSemaphore. *)
(* The grants are its leases on Slot, the queue is that of Slot.           *)
(***************************************************************************)
EXTENDS LeaseManager

CONSTANT Slot   \* a resource

ASSUME SlotAssumption == Slot \in Resources /\ IsFiniteSet(Calls)

Semaphore ==
  INSTANCE FairSemaphore WITH
    Clients <- Sessions,
    Grants  <- 1 .. MaxLeases,
    Size    <- CapacityOf(Slot),
    grantee <- GranteesOn(Slot),
    held    <- ActiveOn(Slot),
    queue   <- SessionsWaitingFor(Slot)

(* The manager implements the abstract semaphore: every step of every      *)
(* method is a step of the semaphore or leaves it as it was                *)
(* (internal/lease/manager.go:297, 387).                                   *)
SlotIsSemaphore == Semaphore!Spec

=============================================================================
