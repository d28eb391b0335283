------------------------- MODULE CommandDeduplicator -------------------------
(***************************************************************************)
(* The command id cache on its own, offered commands by the one task that  *)
(* receives them (the MQTT task), whose time stamps never decrease.  The   *)
(* history of accepted commands is what the cache is meant to remember: it *)
(* is not in the code, it is there to say what the cache promises.         *)
(***************************************************************************)
EXTENDS DeviceCommon, Sequences

CONSTANTS
    Ids,         \* command ids clients choose from
    Ttls,        \* values of ttlMs they choose from
    MaxTime,     \* bound: the clock stops here
    MaxAccepted  \* bound: no command is offered once so many are accepted

ASSUME IdsAssumption == NoId \notin Ids
ASSUME TtlsAssumption == Ttls \subseteq Nat \ {0}
ASSUME BoundsAssumption == MaxTime \in Nat /\ MaxAccepted \in Nat

VARIABLES
    now,      \* esp_timer_get_time() / 1000 in the receiving task
    cache,    \* deduplicator_
    history,  \* the accepted commands, in the order of acceptance
    refused   \* the last refused command, or NoRefusal

vars == <<now, cache, history, refused>>

NoRefusal == [id |-> NoId, at |-> 0, ttl |-> 0]

Acceptance == [id : Ids, at : Nat, expiresAt : Nat]

TypeOK ==
    /\ now \in Nat
    /\ cache \in [entries : [Slots -> [id : Ids \cup {NoId}, expiresAt : Nat]],
                  next : Slots]
    /\ history \in Seq(Acceptance)
    /\ refused \in [id : Ids \cup {NoId}, at : Nat, ttl : Nat]

Init ==
    /\ now = 0
    /\ cache = EmptyCache
    /\ history = <<>>
    /\ refused = NoRefusal

Tick ==
    /\ now < MaxTime
    /\ now' = now + 1
    /\ UNCHANGED <<cache, history, refused>>

Accept(id, ttl) ==
    /\ Len(history) < MaxAccepted
    /\ Accepts(cache, id, now, ttl)
    /\ cache' = AfterAccept(cache, id, now, ttl)
    /\ history' = Append(history, [id |-> id, at |-> now, expiresAt |-> now + ttl])
    /\ UNCHANGED <<now, refused>>

Refuse(id, ttl) ==
    /\ ~Accepts(cache, id, now, ttl)
    /\ cache' = AfterAccept(cache, id, now, ttl)
    /\ refused' = [id |-> id, at |-> now, ttl |-> ttl]
    /\ UNCHANGED <<now, history>>

Next ==
    \/ Tick
    \/ \E id \in Ids, ttl \in Ttls : Accept(id, ttl) \/ Refuse(id, ttl)

Spec == Init /\ [][Next]_vars

(***************************************************************************)
(* Properties                                                              *)
(***************************************************************************)

\* How many commands were accepted after the one that took the slot.
Age(slot) ==
    cache.next - 1 - slot + (IF slot < cache.next THEN 0 ELSE Capacity)

\* The ring holds the last Capacity acceptances, each in the slot of its age,
\* except those it dropped after they expired: the slot arithmetic of accept
\* and the clearing of expired entries never lose a live id of those.
RingMirrorsHistory ==
    \A slot \in Slots :
        LET k == Len(history) - Age(slot)
            entry == cache.entries[slot]
        IN  IF k < 1 THEN entry = Free
            ELSE \/ entry = [id |-> history[k].id, expiresAt |-> history[k].expiresAt]
                 \/ entry = Free /\ history[k].expiresAt <= now

\* Whether acceptance j repeats the id of acceptance i before i expired.
RepeatsLive(i, j) ==
    /\ history[i].id = history[j].id
    /\ history[j].at < history[i].expiresAt

\* A live id is accepted a second time only after the ring has turned over:
\* at least Capacity other acceptances lie between the two.  This is what
\* CommandDeduplicator::accept guarantees of at-most-once execution, where
\* common/protocol/mqtt-v1.md:23 says "Duplicate live command IDs are rejected."
DuplicateNeedsFullRing ==
    \A j \in DOMAIN history : \A i \in 1..j-1 :
        RepeatsLive(i, j) => j - i > Capacity

\* An id is refused only when a command with that id was accepted and is
\* still live, or when its expiry cannot be represented: a new id is never
\* turned away because of what else the cache holds.
NoFalseRefusal ==
    refused # NoRefusal =>
        \/ ~Cacheable(refused.at, refused.ttl)
        \/ \E i \in DOMAIN history :
              /\ history[i].id = refused.id
              /\ history[i].at <= refused.at
              /\ refused.at < history[i].expiresAt
=============================================================================
