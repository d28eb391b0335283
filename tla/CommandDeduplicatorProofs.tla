---------------------- MODULE CommandDeduplicatorProofs ----------------------
(***************************************************************************)
(* Proofs that the command id cache keeps its promise for every capacity,  *)
(* every set of ids and every time to live.                                *)
(***************************************************************************)
EXTENDS CommandDeduplicator, TLAPS

\* No acceptance lies in the future.
StampsBehind == \A k \in DOMAIN history : history[k].at <= now

IInv ==
    /\ TypeOK
    /\ StampsBehind
    /\ RingMirrorsHistory
    /\ DuplicateNeedsFullRing
    /\ NoFalseRefusal

\* accept: an accepted command's entry goes into the slot `next`, the other
\* slots keep their live entries.
LEMMA AcceptedCache ==
    ASSUME NEW id, NEW ttl, NEW time, NEW c, Accepts(c, id, time, ttl)
    PROVE  AfterAccept(c, id, time, ttl) =
             [entries |-> [Swept(c, id, time) EXCEPT ![c.next] =
                              [id |-> id, expiresAt |-> time + ttl]],
              next |-> NextSlot(c.next)]
BY DEF AfterAccept, Accepts

\* The scan only ever replaces an entry that is not live by a free one.
LEMMA SweptEntries ==
    ASSUME NEW id, NEW time, NEW c, NEW slot \in Slots
    PROVE  \/ Swept(c, id, time)[slot] = c.entries[slot]
           \/ /\ Swept(c, id, time)[slot] = Free
              /\ ~IsLive(c.entries[slot], time)
BY DEF Swept

LEMMA SlotArithmetic ==
    /\ 0 \in Slots
    /\ \A slot \in Slots : NextSlot(slot) \in Slots
BY CapacityAssumption DEF Slots, NextSlot

\* Every successful sweep keeps the cache's type.
LEMMA SweptType ==
    ASSUME NEW id, NEW time, NEW c,
           c.entries \in [Slots -> [id : Ids \cup {NoId}, expiresAt : Nat]]
    PROVE  Swept(c, id, time) \in [Slots -> [id : Ids \cup {NoId}, expiresAt : Nat]]
BY DEF Swept, Free

LEMMA TypeInit == Init => TypeOK
BY SlotArithmetic DEF Init, TypeOK, EmptyCache, Free, NoRefusal

LEMMA TypeStep == TypeOK /\ [Next]_vars => TypeOK'
<1> SUFFICES ASSUME TypeOK, [Next]_vars PROVE TypeOK'
  OBVIOUS
<1> USE DEF TypeOK
<1>1. CASE Tick
  BY <1>1 DEF Tick
<1>2. ASSUME NEW id \in Ids, NEW ttl \in Ttls, Accept(id, ttl) PROVE TypeOK'
  <2>1. ttl \in Nat
    BY TtlsAssumption
  <2>2. cache' = [entries |-> [Swept(cache, id, now) EXCEPT ![cache.next] =
                                  [id |-> id, expiresAt |-> now + ttl]],
                  next |-> NextSlot(cache.next)]
    BY <1>2, AcceptedCache DEF Accept
  <2>3. cache' \in [entries : [Slots -> [id : Ids \cup {NoId}, expiresAt : Nat]],
                    next : Slots]
    BY <2>1, <2>2, SweptType, SlotArithmetic
  <2>4. history' \in Seq(Acceptance)
    BY <1>2, <2>1 DEF Accept, Acceptance
  <2> QED
    BY <1>2, <2>3, <2>4 DEF Accept
<1>3. ASSUME NEW id \in Ids, NEW ttl \in Ttls, Refuse(id, ttl) PROVE TypeOK'
  <2>1. ttl \in Nat
    BY TtlsAssumption
  <2>2. \/ cache' = cache
        \/ cache' = [cache EXCEPT !.entries = Swept(cache, id, now)]
    BY <1>3 DEF Refuse, AfterAccept, Accepts
  <2>3. Swept(cache, id, now) \in [Slots -> [id : Ids \cup {NoId}, expiresAt : Nat]]
    BY SweptType
  <2>4. cache' \in [entries : [Slots -> [id : Ids \cup {NoId}, expiresAt : Nat]],
                    next : Slots]
    BY <2>2, <2>3
  <2> QED
    BY <1>3, <2>1, <2>4 DEF Refuse
<1>4. CASE UNCHANGED vars
  BY <1>4 DEF vars
<1> QED
  BY <1>1, <1>2, <1>3, <1>4 DEF Next

(***************************************************************************)
(* What an acceptance does to the ages of the slots: the slot taken gets   *)
(* age 0, every other slot is one acceptance older.                        *)
(***************************************************************************)
LEMMA AgeRange ==
    ASSUME TypeOK, NEW slot \in Slots
    PROVE  Age(slot) \in 0..Capacity-1
BY CapacityAssumption DEF TypeOK, Slots, Age

LEMMA SlotOfAge ==
    ASSUME TypeOK, NEW age \in 0..Capacity-1
    PROVE  \E slot \in Slots : Age(slot) = age
<1>1. CASE age < cache.next
  <2>1. cache.next - 1 - age \in Slots /\ Age(cache.next - 1 - age) = age
    BY <1>1, CapacityAssumption DEF TypeOK, Slots, Age
  <2> QED
    BY <2>1
<1>2. CASE age >= cache.next
  <2>1. /\ cache.next - 1 - age + Capacity \in Slots
        /\ Age(cache.next - 1 - age + Capacity) = age
    BY <1>2, CapacityAssumption DEF TypeOK, Slots, Age
  <2> QED
    BY <2>1
<1> QED
  BY <1>1, <1>2, CapacityAssumption DEF TypeOK, Slots

LEMMA AgeAfterAccept ==
    ASSUME TypeOK, cache'.next = NextSlot(cache.next), NEW slot \in Slots
    PROVE  Age(slot)' = IF slot = cache.next THEN 0 ELSE Age(slot) + 1
<1> DEFINE old == cache.next
           new == cache'.next
<1>1. old \in Slots
  BY DEF TypeOK
<1>2. new = IF old = Capacity - 1 THEN 0 ELSE old + 1
  BY DEF NextSlot
<1>3. Age(slot)' = new - 1 - slot + (IF slot < new THEN 0 ELSE Capacity)
  BY DEF Age
<1>4. Age(slot) = old - 1 - slot + (IF slot < old THEN 0 ELSE Capacity)
  BY DEF Age
<1> HIDE DEF old, new
<1>5. Age(slot)' = IF slot = old THEN 0 ELSE Age(slot) + 1
  <2>1. CASE slot = old /\ old = Capacity - 1
    BY <2>1, <1>1, <1>2, <1>3, <1>4, CapacityAssumption DEF Slots
  <2>2. CASE slot = old /\ old # Capacity - 1
    BY <2>2, <1>1, <1>2, <1>3, <1>4, CapacityAssumption DEF Slots
  <2>3. CASE slot # old /\ old = Capacity - 1
    BY <2>3, <1>1, <1>2, <1>3, <1>4, CapacityAssumption DEF Slots
  <2>4. CASE slot # old /\ old # Capacity - 1
    BY <2>4, <1>1, <1>2, <1>3, <1>4, CapacityAssumption DEF Slots
  <2> QED
    BY <2>1, <2>2, <2>3, <2>4
<1> QED
  BY <1>5 DEF old

LEMMA HistoryFacts ==
    ASSUME TypeOK
    PROVE  /\ Len(history) \in Nat
           /\ DOMAIN history = 1..Len(history)
           /\ \A k \in 1..Len(history) : /\ history[k].id \in Ids
                                         /\ history[k].at \in Nat
                                         /\ history[k].expiresAt \in Nat
<1>1. history \in Seq(Acceptance)
  BY DEF TypeOK
<1>2. /\ Len(history) \in Nat
      /\ DOMAIN history = 1..Len(history)
      /\ \A k \in 1..Len(history) : history[k] \in Acceptance
  BY <1>1
<1> QED
  BY <1>2 DEF Acceptance

(***************************************************************************)
(* An acceptance means that no slot holds the id alive.                    *)
(***************************************************************************)
LEMMA AcceptanceFacts ==
    ASSUME TypeOK, NEW id \in Ids, NEW ttl \in Ttls, Accept(id, ttl)
    PROVE  /\ cache'.entries = [Swept(cache, id, now) EXCEPT ![cache.next] =
                                    [id |-> id, expiresAt |-> now + ttl]]
           /\ cache'.next = NextSlot(cache.next)
           /\ Len(history') = Len(history) + 1
           /\ DOMAIN history' = 1..Len(history)+1
           /\ history'[Len(history) + 1] =
                 [id |-> id, at |-> now, expiresAt |-> now + ttl]
           /\ \A k \in 1..Len(history) : history'[k] = history[k]
           /\ \A slot \in Slots : cache.entries[slot].id = id =>
                 ~IsLive(cache.entries[slot], now)
           /\ now' = now /\ refused' = refused
<1>1. cache' = [entries |-> [Swept(cache, id, now) EXCEPT ![cache.next] =
                                [id |-> id, expiresAt |-> now + ttl]],
                next |-> NextSlot(cache.next)]
  BY AcceptedCache DEF Accept
<1>2. history' = Append(history, [id |-> id, at |-> now, expiresAt |-> now + ttl])
  BY DEF Accept
<1>3. history \in Seq(Acceptance)
  BY DEF TypeOK
<1>4. LiveSlotsOf(cache, id, now) = {}
  BY DEF Accept, Accepts
<1>5. \A slot \in Slots : cache.entries[slot].id = id =>
        ~IsLive(cache.entries[slot], now)
  BY <1>4 DEF LiveSlotsOf
<1>6. now' = now /\ refused' = refused
  BY DEF Accept
<1>7. [id |-> id, at |-> now, expiresAt |-> now + ttl] \in Acceptance
  BY TtlsAssumption DEF TypeOK, Acceptance
<1>8. /\ Len(history') = Len(history) + 1
      /\ DOMAIN history' = 1..Len(history)+1
      /\ history'[Len(history) + 1] = [id |-> id, at |-> now, expiresAt |-> now + ttl]
      /\ \A k \in 1..Len(history) : history'[k] = history[k]
  BY <1>2, <1>3, <1>7
<1> QED
  BY <1>1, <1>5, <1>6, <1>8

LEMMA MirrorAfterAccept ==
    ASSUME TypeOK, TypeOK', RingMirrorsHistory,
           NEW id \in Ids, NEW ttl \in Ttls, Accept(id, ttl)
    PROVE  RingMirrorsHistory'
<1>1. Len(history) \in Nat /\ Len(history') = Len(history) + 1
  <2>1. Len(history') = Len(history) + 1
    BY AcceptanceFacts
  <2> QED
    BY <2>1, HistoryFacts
<1> SUFFICES ASSUME NEW slot \in Slots
             PROVE  LET k == Len(history') - Age(slot)'
                        entry == cache'.entries[slot]
                    IN  IF k < 1 THEN entry = Free
                        ELSE \/ entry = [id |-> history'[k].id,
                                         expiresAt |-> history'[k].expiresAt]
                             \/ entry = Free /\ history'[k].expiresAt <= now'
  BY DEF RingMirrorsHistory
<1>2. Age(slot)' = IF slot = cache.next THEN 0 ELSE Age(slot) + 1
  BY AcceptanceFacts, AgeAfterAccept
<1>3. Age(slot) \in 0..Capacity-1
  BY AgeRange
<1>4. cache.next \in Slots /\ DOMAIN Swept(cache, id, now) = Slots
  BY DEF TypeOK, Swept
<1>5. CASE slot = cache.next
  <2>1. cache'.entries[slot] = [id |-> id, expiresAt |-> now + ttl]
    BY <1>4, <1>5, AcceptanceFacts
  <2>2. Len(history') - Age(slot)' = Len(history) + 1
    BY <1>1, <1>2, <1>5
  <2>3. history'[Len(history) + 1] = [id |-> id, at |-> now, expiresAt |-> now + ttl]
    BY AcceptanceFacts
  <2> QED
    BY <2>1, <2>2, <2>3, <1>1
<1>6. CASE slot # cache.next
  <2> DEFINE k == Len(history) - Age(slot)
  <2>1. Len(history') - Age(slot)' = k
    BY <1>1, <1>2, <1>3, <1>6
  <2>2. cache'.entries[slot] = Swept(cache, id, now)[slot]
    BY <1>4, <1>6, AcceptanceFacts
  <2>3. \/ cache'.entries[slot] = cache.entries[slot]
        \/ cache'.entries[slot] = Free /\ ~IsLive(cache.entries[slot], now)
    BY <2>2, SweptEntries
  <2>4. now' = now /\ now \in Nat
    BY AcceptanceFacts DEF TypeOK
  <2>5. CASE k < 1
    <3>1. cache.entries[slot] = Free
      BY <2>5 DEF RingMirrorsHistory
    <3> QED
      BY <2>1, <2>3, <2>5, <3>1
  <2>6. CASE ~(k < 1)
    <3>1. k \in 1..Len(history)
      BY <2>6, <1>1, <1>3
    <3>2. history'[k] = history[k]
      BY <3>1, AcceptanceFacts
    <3>3. \/ cache.entries[slot] = [id |-> history[k].id,
                                    expiresAt |-> history[k].expiresAt]
          \/ cache.entries[slot] = Free /\ history[k].expiresAt <= now
      BY <2>6 DEF RingMirrorsHistory
    <3>4. history[k].id \in Ids /\ history[k].expiresAt \in Nat
      BY <3>1, HistoryFacts
    <3>5. CASE cache'.entries[slot] = cache.entries[slot]
      BY <2>1, <2>4, <2>6, <3>2, <3>3, <3>5
    <3>6. CASE cache'.entries[slot] = Free /\ ~IsLive(cache.entries[slot], now)
      <4>1. history[k].expiresAt <= now
        BY <3>3, <3>4, <3>6, <2>4, IdsAssumption DEF IsLive
      <4> QED
        BY <4>1, <3>6, <2>1, <2>4, <2>6, <3>2
    <3> QED
      BY <3>5, <3>6, <2>3
  <2> QED
    BY <2>5, <2>6
<1> QED
  BY <1>5, <1>6

\* A refusal leaves the history alone and only frees slots.
LEMMA MirrorAfterRefuse ==
    ASSUME TypeOK, RingMirrorsHistory,
           NEW id \in Ids, NEW ttl \in Ttls, Refuse(id, ttl)
    PROVE  RingMirrorsHistory'
<1>1. history' = history /\ now' = now
  BY DEF Refuse
<1>2. \/ cache' = cache
      \/ cache' = [cache EXCEPT !.entries = Swept(cache, id, now)]
  BY DEF Refuse, AfterAccept, Accepts
<1>3. /\ cache'.next = cache.next
      /\ \A slot \in Slots : \/ cache'.entries[slot] = cache.entries[slot]
                            \/ /\ cache'.entries[slot] = Free
                               /\ ~IsLive(cache.entries[slot], now)
  BY <1>2, SweptEntries DEF TypeOK
<1> SUFFICES ASSUME NEW slot \in Slots
             PROVE  LET k == Len(history) - Age(slot)
                        entry == cache'.entries[slot]
                    IN  IF k < 1 THEN entry = Free
                        ELSE \/ entry = [id |-> history[k].id,
                                         expiresAt |-> history[k].expiresAt]
                             \/ entry = Free /\ history[k].expiresAt <= now
  BY <1>1, <1>3 DEF RingMirrorsHistory, Age
<1> DEFINE k == Len(history) - Age(slot)
<1>4. CASE k < 1
  <2>1. cache.entries[slot] = Free
    BY <1>4 DEF RingMirrorsHistory
  <2> QED
    BY <2>1, <1>3, <1>4
<1>5. CASE ~(k < 1)
  <2>1. \/ cache.entries[slot] = [id |-> history[k].id,
                                  expiresAt |-> history[k].expiresAt]
        \/ cache.entries[slot] = Free /\ history[k].expiresAt <= now
    BY <1>5 DEF RingMirrorsHistory
  <2>2. k \in 1..Len(history)
    BY <1>5, HistoryFacts, AgeRange, CapacityAssumption
  <2>3. history[k].id \in Ids /\ history[k].expiresAt \in Nat /\ now \in Nat
    BY <2>2, HistoryFacts DEF TypeOK
  <2>4. CASE cache'.entries[slot] = cache.entries[slot]
    BY <2>1, <2>4, <1>5
  <2>5. CASE cache'.entries[slot] = Free /\ ~IsLive(cache.entries[slot], now)
    <3>1. history[k].expiresAt <= now
      BY <2>1, <2>3, <2>5, IdsAssumption DEF IsLive
    <3> QED
      BY <3>1, <2>5, <1>5
  <2> QED
    BY <2>4, <2>5, <1>3
<1> QED
  BY <1>4, <1>5

(***************************************************************************)
(* The inductive invariant.                                                *)
(***************************************************************************)
LEMMA InvInit == Init => IInv
<1> SUFFICES ASSUME Init PROVE IInv
  OBVIOUS
<1>1. TypeOK
  BY TypeInit
<1>2. history = <<>> /\ Len(history) = 0 /\ DOMAIN history = {} /\ refused = NoRefusal
  BY DEF Init
<1>3. RingMirrorsHistory
  <2>1. \A slot \in Slots : Age(slot) \in 0..Capacity-1
    BY <1>1, AgeRange
  <2>2. \A slot \in Slots : cache.entries[slot] = Free
    BY DEF Init, EmptyCache
  <2> QED
    BY <1>2, <2>1, <2>2, CapacityAssumption DEF RingMirrorsHistory
<1> QED
  BY <1>1, <1>2, <1>3 DEF IInv, StampsBehind, DuplicateNeedsFullRing, NoFalseRefusal

LEMMA StampsStep == IInv /\ TypeOK' /\ [Next]_vars => StampsBehind'
<1> SUFFICES ASSUME IInv, TypeOK', [Next]_vars PROVE StampsBehind'
  OBVIOUS
<1>1. TypeOK /\ StampsBehind
  BY DEF IInv
<1>2. CASE UNCHANGED <<cache, history, refused>> /\ now' \in {now, now + 1}
  BY <1>1, <1>2, HistoryFacts DEF StampsBehind, TypeOK
<1>3. ASSUME NEW id \in Ids, NEW ttl \in Ttls, Accept(id, ttl) PROVE StampsBehind'
  <2>1. DOMAIN history' = 1..Len(history)+1
    BY <1>1, <1>3, AcceptanceFacts
  <2>2. \A k \in 1..Len(history) : history'[k].at <= now
    BY <1>1, <1>3, AcceptanceFacts, HistoryFacts DEF StampsBehind
  <2>3. history'[Len(history) + 1] = [id |-> id, at |-> now, expiresAt |-> now + ttl]
    BY <1>1, <1>3, AcceptanceFacts
  <2>4. now' = now
    BY <1>3 DEF Accept
  <2> QED
    BY <2>1, <2>2, <2>3, <2>4, <1>1, HistoryFacts DEF StampsBehind, TypeOK
<1>4. ASSUME NEW id \in Ids, NEW ttl \in Ttls, Refuse(id, ttl) PROVE StampsBehind'
  BY <1>1, <1>4 DEF Refuse, StampsBehind
<1> QED
  BY <1>2, <1>3, <1>4 DEF Next, Tick, vars

\* An acceptance that repeats a live id: the earlier one has left the ring.
LEMMA NewAcceptanceIsNotInRing ==
    ASSUME IInv, NEW id \in Ids, NEW ttl \in Ttls, Accept(id, ttl),
           NEW i \in 1..Len(history), history[i].id = id, now < history[i].expiresAt
    PROVE  Len(history) + 1 - i > Capacity
<1> USE DEF IInv
<1> SUFFICES ASSUME Len(history) + 1 - i <= Capacity PROVE FALSE
  BY HistoryFacts, CapacityAssumption
<1>1. Len(history) - i \in 0..Capacity-1
  BY HistoryFacts, CapacityAssumption
<1>2. PICK slot \in Slots : Age(slot) = Len(history) - i
  BY <1>1, SlotOfAge
<1>3. Len(history) - Age(slot) = i
  BY <1>2, HistoryFacts
<1>4. \/ cache.entries[slot] = [id |-> history[i].id, expiresAt |-> history[i].expiresAt]
      \/ cache.entries[slot] = Free /\ history[i].expiresAt <= now
  BY <1>3, HistoryFacts DEF RingMirrorsHistory
<1>5. history[i].expiresAt \in Nat /\ now \in Nat
  BY HistoryFacts DEF TypeOK
<1>6. cache.entries[slot].id = id /\ IsLive(cache.entries[slot], now)
  BY <1>4, <1>5, IdsAssumption DEF IsLive
<1> QED
  BY <1>6, AcceptanceFacts

LEMMA DuplicatesStep ==
    ASSUME IInv, NEW id \in Ids, NEW ttl \in Ttls, Accept(id, ttl)
    PROVE  DuplicateNeedsFullRing'
<1> USE DEF IInv
<1> SUFFICES ASSUME NEW j \in 1..Len(history)+1, NEW i \in 1..j-1,
                    history'[i].id = history'[j].id,
                    history'[j].at < history'[i].expiresAt
             PROVE  j - i > Capacity
  BY AcceptanceFacts DEF DuplicateNeedsFullRing, RepeatsLive
<1>0. Len(history) \in Nat /\ \A k \in 1..Len(history) : history'[k] = history[k]
  BY AcceptanceFacts, HistoryFacts
<1>1. i \in 1..Len(history) /\ history'[i] = history[i]
  BY <1>0
<1>2. CASE j = Len(history) + 1
  <2>1. history'[j] = [id |-> id, at |-> now, expiresAt |-> now + ttl]
    BY <1>2, AcceptanceFacts
  <2>2. history[i].id = id /\ now < history[i].expiresAt
    BY <1>1, <2>1
  <2> QED
    BY <1>0, <1>1, <1>2, <2>2, NewAcceptanceIsNotInRing
<1>3. CASE j # Len(history) + 1
  <2>1. j \in 1..Len(history) /\ history'[j] = history[j]
    BY <1>0, <1>3
  <2> QED
    BY <1>1, <2>1, HistoryFacts DEF DuplicateNeedsFullRing, RepeatsLive
<1> QED
  BY <1>2, <1>3

\* A refusal points at a slot, and the slot at an acceptance.
LEMMA RefusalStep ==
    ASSUME IInv, NEW id \in Ids, NEW ttl \in Ttls, Refuse(id, ttl)
    PROVE  NoFalseRefusal'
<1> USE DEF IInv
<1>1. refused' = [id |-> id, at |-> now, ttl |-> ttl] /\ history' = history
  BY DEF Refuse
<1>2. CASE ~Cacheable(now, ttl)
  BY <1>1, <1>2 DEF NoFalseRefusal
<1>3. CASE LiveSlotsOf(cache, id, now) # {}
  <2>1. PICK slot \in Slots : cache.entries[slot].id = id /\ IsLive(cache.entries[slot], now)
    BY <1>3 DEF LiveSlotsOf
  <2> DEFINE k == Len(history) - Age(slot)
  <2>2. cache.entries[slot] # Free
    BY <2>1, IdsAssumption DEF Free
  <2>3. /\ ~(k < 1)
        /\ cache.entries[slot] = [id |-> history[k].id, expiresAt |-> history[k].expiresAt]
    BY <2>2 DEF RingMirrorsHistory
  <2>4. k \in 1..Len(history)
    BY <2>3, HistoryFacts, AgeRange, CapacityAssumption
  <2>5. history[k].id = id /\ now < history[k].expiresAt /\ history[k].at <= now
    BY <2>1, <2>3, <2>4, HistoryFacts DEF IsLive, StampsBehind
  <2> QED
    BY <1>1, <2>4, <2>5, HistoryFacts DEF NoFalseRefusal
<1> QED
  BY <1>2, <1>3 DEF Refuse, Accepts

LEMMA InvStep == IInv /\ [Next]_vars => IInv'
<1> SUFFICES ASSUME IInv, [Next]_vars PROVE IInv'
  OBVIOUS
<1>1. TypeOK /\ TypeOK' /\ StampsBehind'
  BY TypeStep, StampsStep DEF IInv
<1>2. CASE Tick
  <2>1. now' = now + 1 /\ UNCHANGED <<cache, history, refused>>
    BY <1>2 DEF Tick
  <2>2. RingMirrorsHistory'
    <3> SUFFICES ASSUME NEW slot \in Slots
                 PROVE  LET k == Len(history) - Age(slot)
                            entry == cache.entries[slot]
                        IN  IF k < 1 THEN entry = Free
                            ELSE \/ entry = [id |-> history[k].id,
                                             expiresAt |-> history[k].expiresAt]
                                 \/ entry = Free /\ history[k].expiresAt <= now + 1
      BY <2>1 DEF RingMirrorsHistory, Age
    <3>1. Age(slot) \in 0..Capacity-1 /\ now \in Nat
      BY <1>1, AgeRange DEF TypeOK
    <3>2. ~(Len(history) - Age(slot) < 1) => history[Len(history) - Age(slot)].expiresAt \in Nat
      BY <1>1, <3>1, HistoryFacts, CapacityAssumption
    <3> QED
      BY <3>1, <3>2 DEF IInv, RingMirrorsHistory
  <2> QED
    BY <1>1, <2>1, <2>2 DEF IInv, DuplicateNeedsFullRing, RepeatsLive, NoFalseRefusal
<1>3. ASSUME NEW id \in Ids, NEW ttl \in Ttls, Accept(id, ttl) PROVE IInv'
  <2>1. RingMirrorsHistory'
    BY <1>1, <1>3, MirrorAfterAccept DEF IInv
  <2>2. DuplicateNeedsFullRing'
    BY <1>3, DuplicatesStep
  <2>3. NoFalseRefusal'
    <3>1. /\ refused' = refused
          /\ DOMAIN history = 1..Len(history) /\ DOMAIN history' = 1..Len(history)+1
          /\ \A k \in 1..Len(history) : history'[k] = history[k]
          /\ Len(history) \in Nat
      BY <1>1, <1>3, AcceptanceFacts, HistoryFacts
    <3> QED
      BY <3>1 DEF IInv, NoFalseRefusal
  <2> QED
    BY <1>1, <2>1, <2>2, <2>3 DEF IInv
<1>4. ASSUME NEW id \in Ids, NEW ttl \in Ttls, Refuse(id, ttl) PROVE IInv'
  <2>1. RingMirrorsHistory'
    BY <1>1, <1>4, MirrorAfterRefuse DEF IInv
  <2>2. DuplicateNeedsFullRing'
    BY <1>4 DEF IInv, Refuse, DuplicateNeedsFullRing, RepeatsLive
  <2>3. NoFalseRefusal'
    BY <1>4, RefusalStep
  <2> QED
    BY <1>1, <2>1, <2>2, <2>3 DEF IInv
<1>5. CASE UNCHANGED vars
  BY <1>1, <1>5 DEF vars, IInv, RingMirrorsHistory, Age, DuplicateNeedsFullRing,
                    RepeatsLive, NoFalseRefusal
<1> QED
  BY <1>2, <1>3, <1>4, <1>5 DEF Next

(***************************************************************************)
(* The theorems.                                                           *)
(***************************************************************************)

LEMMA Invariant == Spec => []IInv
BY InvInit, InvStep, PTL DEF Spec

\* The cache, the history and the refusal always have their types.
THEOREM TypeCorrect == Spec => []TypeOK
BY Invariant, PTL DEF IInv

\* The ring of CommandDeduplicator holds the last Capacity accepted commands,
\* whatever the capacity, the ids and the times to live.
THEOREM RingHoldsHistory == Spec => []RingMirrorsHistory
BY Invariant, PTL DEF IInv

\* accept lets a live id through again only after Capacity other acceptances.
THEOREM AtMostOncePerTurn == Spec => []DuplicateNeedsFullRing
BY Invariant, PTL DEF IInv

\* accept refuses an id only when it was accepted and is still live.
THEOREM RefusalsAreJustified == Spec => []NoFalseRefusal
BY Invariant, PTL DEF IInv
=============================================================================
