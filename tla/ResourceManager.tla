-------------------------- MODULE ResourceManager --------------------------
(***************************************************************************)
(* The ResourceManager of kernel/src/worker_runtime.cpp: what the running  *)
(* attempts hold of the configured capacity.                               *)
(*                                                                         *)
(* The code has separate counters for CPU slots, RAM bytes and the VRAM of *)
(* each GPU and treats them alike, so they are the values of one function  *)
(* over ResourceKinds.  A requirement is a function over the same kinds;   *)
(* a GPU missing from the capacity map is one of capacity 0, which no      *)
(* requirement naming it fits because validate_requirement makes a named   *)
(* GPU's VRAM positive.  The code subtracts unsigned byte counts; the      *)
(* difference never wraps because used <= Capacity (CapacityRespected).    *)
(***************************************************************************)
EXTENDS Integers

CONSTANTS ResourceKinds, Capacity

ASSUME CapacityAssumption == Capacity \in [ResourceKinds -> Nat]

VARIABLE used

Requirements == [ResourceKinds -> Nat]

\* can_ever_reserve: an idle Kernel could run it.
CanEverReserve(need) == \A k \in ResourceKinds : need[k] <= Capacity[k]

\* Mutant of Fits: what is already reserved is not subtracted.
FitsWhenIdle(need) == CanEverReserve(need)

\* The test of try_reserve.
Fits(need) == \A k \in ResourceKinds : need[k] <= Capacity[k] - used[k]

\* try_reserve when it succeeds: the Lease it returns is held by the caller.
Reserve(need) ==
    /\ Fits(need)
    /\ used' = [k \in ResourceKinds |-> used[k] + need[k]]

\* release, by the destructor of the Lease.
Release(need) == used' = [k \in ResourceKinds |-> used[k] - need[k]]

NothingUsed == [k \in ResourceKinds |-> 0]
=============================================================================
