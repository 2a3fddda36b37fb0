--------------------------- MODULE MCLeaseManager ---------------------------
(* Instances of LeaseSemaphore for TLC: an exclusive resource as gpu, a    *)
(* capacity resource as build-slot, an adb device that the configuration   *)
(* does not name.                                                          *)
EXTENDS LeaseSemaphore

CONSTANTS gpu, slot, adb

Modes == [r \in {gpu, slot, adb} |->
            IF r = slot THEN "capacity" ELSE "exclusive"]
Capacities == [r \in {gpu, slot, adb} |-> IF r = slot THEN 2 ELSE 0]
ModesOfResources == [r \in Resources |-> Modes[r]]
CapacitiesOfResources == [r \in Resources |-> Capacities[r]]

Symmetry == Permutations(Calls) \cup Permutations(Sessions)

=============================================================================
