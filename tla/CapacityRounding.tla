-------------------------- MODULE CapacityRounding --------------------------
(***************************************************************************)
(* The capacity of a persistent volume: that of its device, rounded down   *)
(* to a whole number of GiB if there are ten of them, else of MiB.  The    *)
(* units are parameters.                                                   *)
(***************************************************************************)
EXTENDS Naturals

CONSTANTS
    MiB, GiB,
    MaxBytes  \* bound: the largest capacity

ASSUME UnitAssumption == /\ MiB \in Nat \ {0} /\ GiB \in Nat \ {0} /\ MaxBytes \in Nat

VARIABLE capacityBytes

Units(capacity, unit) == capacity \div unit

\* Mutant: one unit is enough to round.
RoundFromOne(capacity) ==
    IF Units(capacity, GiB) >= 1 THEN Units(capacity, GiB) * GiB
    ELSE IF Units(capacity, MiB) >= 1 THEN Units(capacity, MiB) * MiB
    ELSE capacity

RoundDownCapacityPretty(capacity) ==
    IF Units(capacity, GiB) >= 10 THEN Units(capacity, GiB) * GiB
    ELSE IF Units(capacity, MiB) >= 10 THEN Units(capacity, MiB) * MiB
    ELSE capacity

CapacityInit == capacityBytes = 0

Grow ==
    /\ capacityBytes < MaxBytes
    /\ capacityBytes' = capacityBytes + 1

CapacitySpec == CapacityInit /\ [][Grow]_capacityBytes

-----------------------------------------------------------------------------
(* The volume is never larger than its device, and less than a tenth of the  *)
(* device is lost.                                                           *)
LosesLessThanTenth ==
    LET rounded == RoundDownCapacityPretty(capacityBytes)
    IN /\ rounded <= capacityBytes
       /\ capacityBytes > 0 => 10 * (capacityBytes - rounded) < capacityBytes
=============================================================================
