---------------------------- MODULE DeviceCommon ----------------------------
(***************************************************************************)
(* The value-level part of firmware/common/components/device_common: the   *)
(* mapping between canonical positions and motor steps, the validation of  *)
(* a command, and the fixed-size cache of command ids.  The module has no  *)
(* variables: the modules that hold the state EXTEND it.                   *)
(***************************************************************************)
EXTENDS Integers

CONSTANTS
    PositionMax,  \* kPositionMax100ths: the fully open canonical position
    Capacity,     \* CommandDeduplicator::kCapacity
    TimeLimit,    \* the largest value of a uint64_t time stamp
    NoId          \* the id field of an unoccupied cache entry

ASSUME PositionMaxAssumption == PositionMax \in Nat \ {0}
ASSUME CapacityAssumption == Capacity \in Nat \ {0}
ASSUME TimeLimitAssumption == TimeLimit \in Nat

(***************************************************************************)
(* Position mapping                                                        *)
(***************************************************************************)

\* Mutants of Rounded: the half is not added; the whole divisor is.
RoundedDown(numerator, denominator) == numerator \div denominator
RoundedUp(numerator, denominator) == (numerator + denominator) \div denominator

\* Division rounded to the nearest integer, the half rounded up.
Rounded(numerator, denominator) ==
    (numerator + denominator \div 2) \div denominator

ValidPosition(position) == position \in 0..PositionMax

\* Fails (in the code: returns false) unless the position is valid.
PositionToSteps(position, minSteps, maxSteps) ==
    minSteps + Rounded((maxSteps - minSteps) * position, PositionMax)

StepsInRange(steps, minSteps, maxSteps) ==
    minSteps < maxSteps /\ steps \in minSteps..maxSteps

\* Fails unless StepsInRange(steps, minSteps, maxSteps).
StepsToPosition(steps, minSteps, maxSteps) ==
    Rounded((steps - minSteps) * PositionMax, maxSteps - minSteps)

(***************************************************************************)
(* Command validation                                                      *)
(***************************************************************************)

Actions == {"open", "close", "stop", "set_position"}

\* The age of a command reaches its time to live.
Expired(command, time) ==
    /\ command.ttl # 0
    /\ time >= command.receivedAt
    /\ time - command.receivedAt >= command.ttl

ValidCommand(command, time, requireTtl) ==
    /\ command.action = "set_position" => ValidPosition(command.position)
    /\ requireTtl => command.ttl # 0
    /\ ~Expired(command, time)

(***************************************************************************)
(* The command id cache: a ring of Capacity entries.  An accepted id       *)
(* always takes the slot after the one taken last, whatever that slot      *)
(* holds.                                                                  *)
(***************************************************************************)

Slots == 0..Capacity-1

Free == [id |-> NoId, expiresAt |-> 0]

EmptyCache == [entries |-> [slot \in Slots |-> Free], next |-> 0]

NextSlot(slot) == IF slot = Capacity - 1 THEN 0 ELSE slot + 1

\* Mutant of IsLive: the entry outlives its expiry by one.
IsLiveTooLong(entry, time) == entry.id # NoId /\ time <= entry.expiresAt

IsLive(entry, time) == entry.id # NoId /\ time < entry.expiresAt

LiveSlotsOf(cache, id, time) ==
    {slot \in Slots : /\ cache.entries[slot].id = id
                      /\ IsLive(cache.entries[slot], time)}

\* What the scan of accept leaves behind: it frees the expired entries, and
\* stops at the first live entry that has the id.
Swept(cache, id, time) ==
    [slot \in Slots |->
        IF IsLive(cache.entries[slot], time)
           \/ \E hit \in LiveSlotsOf(cache, id, time) : hit < slot
        THEN cache.entries[slot]
        ELSE Free]

\* The id is cached for ttl from time on, unless the sum overflows.
Cacheable(time, ttl) == ttl # 0 /\ ttl <= TimeLimit - time

Accepts(cache, id, time, ttl) ==
    Cacheable(time, ttl) /\ LiveSlotsOf(cache, id, time) = {}

\* Mutant of AfterAccept: the next slot does not advance.
AfterAcceptInPlace(cache, id, time, ttl) ==
    IF ~Cacheable(time, ttl) THEN cache
    ELSE IF LiveSlotsOf(cache, id, time) # {}
         THEN [cache EXCEPT !.entries = Swept(cache, id, time)]
         ELSE [cache EXCEPT !.entries = [Swept(cache, id, time) EXCEPT
                  ![cache.next] = [id |-> id, expiresAt |-> time + ttl]]]

\* The cache after accept(id, time, ttl), whatever it answers.
AfterAccept(cache, id, time, ttl) ==
    IF ~Cacheable(time, ttl) THEN cache
    ELSE LET swept == Swept(cache, id, time) IN
         IF LiveSlotsOf(cache, id, time) # {}
         THEN [cache EXCEPT !.entries = swept]
         ELSE [entries |-> [swept EXCEPT ![cache.next] =
                               [id |-> id, expiresAt |-> time + ttl]],
               next |-> NextSlot(cache.next)]
=============================================================================
