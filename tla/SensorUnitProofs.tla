-------------------------- MODULE SensorUnitProofs --------------------------
(***************************************************************************)
(* Proofs about SensorUnit for every publishing period, every width of the *)
(* tick counter and every number of samples.                               *)
(***************************************************************************)
EXTENDS SensorUnit, TLAPS

(***************************************************************************)
(* Types                                                                   *)
(***************************************************************************)

ButtonMoves ==
    \/ Toggle \/ LongPressStart \/ Released \/ LongPressUp
    \/ ClearSucceeds \/ ClearFails \/ FailureCallbackReturns
    \/ CallbackReturns(TRUE) \/ ButtonRestarts

\* The steps of the button's task keep the flags in line with the press.
LEMMA ButtonKept ==
    ASSUME ButtonTypeOK, FlagsFollowThePress, ButtonMoves \/ UNCHANGED buttonVars
    PROVE  ButtonTypeOK' /\ FlagsFollowThePress'
<1>1. CASE Toggle \/ Released \/ ClearSucceeds \/ FailureCallbackReturns
  BY <1>1 DEF ButtonTypeOK, FlagsFollowThePress, Handlers, Toggle, Released,
              ClearSucceeds, FailureCallbackReturns
<1>6. CASE ClearFails \/ ButtonRestarts
  <2>1. ~armed /\ ~armed' /\ ~committed'
    BY <1>6 DEF ClearFails, ButtonRestarts, FlagsFollowThePress
  <2> QED
    BY <1>6, <2>1 DEF ButtonTypeOK, FlagsFollowThePress, Handlers, ClearFails, ButtonRestarts
<1>2. CASE LongPressStart
  <2>1. handler = "watching" /\ ~armed /\ ~committed
    BY <1>2 DEF LongPressStart, FlagsFollowThePress
  <2>2. armed' = TRUE /\ handler' = "callback" /\ UNCHANGED <<key, committed>>
    BY <1>2, <2>1 DEF LongPressStart
  <2> QED
    BY <2>1, <2>2 DEF ButtonTypeOK, FlagsFollowThePress, Handlers
<1>3. CASE LongPressUp
  BY <1>3 DEF LongPressUp, ButtonTypeOK, FlagsFollowThePress, Handlers
<1>4. CASE CallbackReturns(TRUE)
  <2>1. armed' = armed
    BY <1>4 DEF CallbackReturns, ButtonTypeOK
  <2> QED
    BY <1>4, <2>1 DEF CallbackReturns, ButtonTypeOK, FlagsFollowThePress, Handlers
<1>5. CASE UNCHANGED buttonVars
  BY <1>5 DEF buttonVars, ButtonTypeOK, FlagsFollowThePress
<1> QED
  BY <1>1, <1>2, <1>3, <1>4, <1>5, <1>6 DEF ButtonMoves

\* Every step of the unit is one of the button or leaves it alone.
LEMMA ButtonAlways ==
    ASSUME ButtonTypeOK, FlagsFollowThePress, [Next]_vars
    PROVE  ButtonTypeOK' /\ FlagsFollowThePress'
<1>1. ButtonMoves \/ UNCHANGED buttonVars
  BY DEF Next, vars, buttonVars, ButtonMoves, BootStep, Start, LinkChanges, Sample, Adapt,
         Tick, Press, RequestStop, StopReturns, Restart, SamplerGoes, CheckStop,
         SampleOnce, StoreLatest, HandOver, Sleep, Wake, Receive, Decide, Publish,
         PublishEnds, PublishSucceeds, PublishFails
<1> QED
  BY <1>1, ButtonKept

SamplerTypes ==
    /\ sampler \in {"off", "checking", "sampling", "sampled", "stored", "handed",
                    "sleeping"}
    /\ stop \in BOOLEAN
    /\ revision \in Revisions /\ taken \in Revisions /\ latest \in Revisions
    /\ box \in Revisions

AdapterTypes ==
    /\ held \in Revisions /\ published \in Revisions
    /\ publisher \in {"receiving", "deciding", "publishing"}
    /\ lastPublish \in 0..TickModulus - 1
    /\ polled \in BOOLEAN

OtherTypes ==
    /\ boot \in {"service", "provisioning", "adapter", "start", "loop", "returned", "failed"}
    /\ connected \in BOOLEAN /\ startedLate \in BOOLEAN
    /\ tick \in 0..TickModulus - 1
    /\ since \in 0..Period

LEMMA TypeParts == TypeOK <=> ButtonTypeOK /\ SamplerTypes /\ AdapterTypes /\ OtherTypes
BY DEF TypeOK, SamplerTypes, AdapterTypes, OtherTypes

LEMMA TypeInit == Init => TypeOK /\ FlagsFollowThePress
<1> SUFFICES ASSUME Init PROVE TypeOK /\ FlagsFollowThePress
  OBVIOUS
<1>1. ButtonTypeOK /\ FlagsFollowThePress
  BY DEF Init, ButtonInit, ButtonTypeOK, FlagsFollowThePress, Handlers
<1>2. 0 \in Revisions /\ 0 \in 0..TickModulus - 1 /\ Period \in 0..Period
  BY PeriodAssumption, TicksAssumption, MaxRevisionAssumption DEF Revisions
<1>3. SamplerTypes /\ AdapterTypes /\ OtherTypes
  BY <1>2 DEF Init, SamplerTypes, AdapterTypes, OtherTypes
<1> QED
  BY <1>1, <1>3, TypeParts

LEMMA SamplerStep == TypeOK /\ [Next]_vars => SamplerTypes'
<1> SUFFICES ASSUME TypeOK, [Next]_vars PROVE SamplerTypes'
  OBVIOUS
<1>1. SamplerTypes /\ 0 \in Revisions
  BY TypeParts, MaxRevisionAssumption DEF Revisions
<1>2. CASE UNCHANGED <<samplerVars, box>>
  BY <1>1, <1>2 DEF SamplerTypes, samplerVars
<1>3. CASE Start \/ RequestStop
  BY <1>1, <1>3 DEF Start, RequestStop, SamplerTypes
<1>4. CASE Sample
  <2>1. CASE SampleOnce
    <3>1. revision' \in Revisions
      BY <1>1, <2>1, MaxRevisionAssumption DEF SampleOnce, SamplerTypes, Revisions
    <3> QED
      BY <1>1, <2>1, <3>1 DEF SampleOnce, SamplerGoes, SamplerTypes
  <2>2. CASE CheckStop \/ StoreLatest \/ HandOver \/ Sleep \/ Wake
    BY <1>1, <2>2 DEF CheckStop, StoreLatest, HandOver, Sleep, Wake, SamplerGoes, SamplerTypes
  <2> QED
    BY <1>4, <2>1, <2>2 DEF Sample
<1>5. CASE Receive
  BY <1>1, <1>5 DEF Receive, SamplerTypes, samplerVars
<1>6. CASE Restart
  BY <1>1, <1>6 DEF Restart, SamplerTypes
<1> QED
  BY <1>2, <1>3, <1>4, <1>5, <1>6
     DEF Next, vars, BootStep, LinkChanges, Adapt, Decide, Publish,
         PublishEnds, PublishSucceeds, PublishFails, Tick, Press, StopReturns

LEMMA AdapterStep == TypeOK /\ [Next]_vars => AdapterTypes'
<1> SUFFICES ASSUME TypeOK, [Next]_vars PROVE AdapterTypes'
  OBVIOUS
<1>1. AdapterTypes /\ box \in Revisions /\ 0 \in Revisions
      /\ tick \in 0..TickModulus - 1 /\ 0 \in 0..TickModulus - 1
  BY TypeParts, MaxRevisionAssumption, TicksAssumption
     DEF Revisions, SamplerTypes, OtherTypes
<1>2. CASE UNCHANGED adapterVars
  BY <1>1, <1>2 DEF AdapterTypes, adapterVars
<1>3. CASE Receive
  BY <1>1, <1>3 DEF Receive, AdapterTypes
<1>4. CASE Decide
  BY <1>1, <1>4 DEF Decide, AdapterTypes
<1>5. CASE Publish
  BY <1>1, <1>5 DEF Publish, PublishEnds, PublishSucceeds, PublishFails, AdapterTypes
<1>6. CASE Tick
  BY <1>1, <1>6 DEF Tick, AdapterTypes
<1>7. CASE Restart
  BY <1>1, <1>7 DEF Restart, AdapterTypes
<1> QED
  BY <1>2, <1>3, <1>4, <1>5, <1>6, <1>7
     DEF Next, vars, BootStep, Start, LinkChanges, Adapt, Press, RequestStop, StopReturns,
         Sample, SamplerGoes, CheckStop, SampleOnce, StoreLatest, HandOver, Sleep, Wake

LEMMA OtherStep == TypeOK /\ [Next]_vars => OtherTypes'
<1> SUFFICES ASSUME TypeOK, [Next]_vars PROVE OtherTypes'
  OBVIOUS
<1>1. OtherTypes
  BY TypeParts
<1>2. CASE UNCHANGED <<boot, tick, connected, since, startedLate>>
  BY <1>1, <1>2 DEF OtherTypes
<1>3. CASE BootStep \/ Start \/ LinkChanges
  <2>1. CASE BootStep
    BY <1>1, <2>1 DEF BootStep, OtherTypes, NextBoot
  <2>2. CASE Start
    <3>1. startedLate' \in BOOLEAN
      <4>1. CASE startedLate' = startedLate
        BY <1>1, <4>1 DEF OtherTypes
      <4>2. CASE startedLate' = (handler \notin {"watching", "callback"})
        BY <4>2
      <4> QED
        BY <2>2, <4>1, <4>2 DEF Start
    <3>2. boot' \in {"loop", "returned"} /\ UNCHANGED <<tick, connected, since>>
      BY <2>2 DEF Start
    <3> QED
      BY <1>1, <3>1, <3>2 DEF OtherTypes
  <2>3. CASE LinkChanges
    BY <1>1, <2>3 DEF LinkChanges, OtherTypes
  <2> QED
    BY <1>3, <2>1, <2>2, <2>3
<1>4. CASE Decide
  BY <1>1, <1>4, PeriodAssumption DEF Decide, OtherTypes
<1>5. CASE Tick
  <2>1. tick' \in 0..TickModulus - 1
    BY <1>1, <1>5, TicksAssumption DEF Tick, OtherTypes
  <2>2. since' \in 0..Period
    BY <1>1, <1>5, PeriodAssumption DEF Tick, OtherTypes
  <2> QED
    BY <1>1, <1>5, <2>1, <2>2 DEF Tick, OtherTypes
<1>6. CASE StopReturns
  BY <1>1, <1>6 DEF StopReturns, OtherTypes
<1>7. CASE Restart
  <2>1. 0 \in 0..TickModulus - 1 /\ Period \in 0..Period
    BY PeriodAssumption, TicksAssumption
  <2> QED
    BY <1>7, <2>1 DEF Restart, OtherTypes
<1> QED
  BY <1>2, <1>3, <1>4, <1>5, <1>6, <1>7
     DEF Next, vars, Adapt, Receive, Publish, PublishEnds, PublishSucceeds, PublishFails,
         Press, RequestStop, Sample, SamplerGoes, CheckStop, SampleOnce, StoreLatest,
         HandOver, Sleep, Wake

LEMMA TypesAlways == Spec => [](TypeOK /\ FlagsFollowThePress)
<1>1. TypeOK /\ FlagsFollowThePress /\ [Next]_vars => (TypeOK /\ FlagsFollowThePress)'
  <2> SUFFICES ASSUME TypeOK, FlagsFollowThePress, [Next]_vars
               PROVE  TypeOK' /\ FlagsFollowThePress'
    OBVIOUS
  <2>1. ButtonTypeOK' /\ FlagsFollowThePress'
    BY TypeParts, ButtonAlways
  <2>2. SamplerTypes' /\ AdapterTypes' /\ OtherTypes'
    BY SamplerStep, AdapterStep, OtherStep
  <2>3. (ButtonTypeOK /\ SamplerTypes /\ AdapterTypes /\ OtherTypes)' => TypeOK'
    BY DEF TypeOK, SamplerTypes, AdapterTypes, OtherTypes
  <2> QED
    BY <2>1, <2>2, <2>3
<1> QED
  BY <1>1, TypeInit, PTL DEF Spec

\* For every period, width of the counter and number of samples the variables
\* keep their types.
THEOREM TypeCorrect == Spec => []TypeOK
BY TypesAlways, PTL

(***************************************************************************)
(* The way of a snapshot to the broker                                     *)
(***************************************************************************)

\* What is handed over is what was stored.
StoredIsTaken == sampler = "stored" => latest = taken

Pipeline == StagesInOrder /\ StoredIsTaken

LEMMA PipelineInit == Init => Pipeline
BY DEF Init, Pipeline, StagesInOrder, StoredIsTaken

LEMMA PipelineStep == TypeOK /\ Pipeline /\ [Next]_vars => Pipeline'
<1> SUFFICES ASSUME TypeOK, Pipeline, [Next]_vars PROVE Pipeline'
  OBVIOUS
<1>1. {revision, taken, latest, box, held, published} \subseteq Nat /\ MaxRevision \in Nat
  BY MaxRevisionAssumption DEF TypeOK, Revisions
<1>2. CASE UNCHANGED <<sampler, revision, taken, latest, box, held, published>>
  BY <1>2 DEF Pipeline, StagesInOrder, StoredIsTaken
<1>3. CASE Start
  BY <1>3 DEF Start, adapterVars, Pipeline, StagesInOrder, StoredIsTaken
<1>4. CASE Sample
  <2>1. CASE CheckStop \/ Sleep \/ Wake
    BY <2>1 DEF CheckStop, Sleep, Wake, SamplerGoes, adapterVars, Pipeline, StagesInOrder,
                StoredIsTaken
  <2>2. CASE SampleOnce
    BY <1>1, <2>2 DEF SampleOnce, SamplerGoes, adapterVars, Pipeline, StagesInOrder,
                      StoredIsTaken
  <2>3. CASE StoreLatest
    BY <1>1, <2>3 DEF StoreLatest, SamplerGoes, adapterVars, Pipeline, StagesInOrder,
                      StoredIsTaken
  <2>4. CASE HandOver
    BY <1>1, <2>4 DEF HandOver, SamplerGoes, adapterVars, Pipeline, StagesInOrder,
                      StoredIsTaken
  <2> QED
    BY <1>4, <2>1, <2>2, <2>3, <2>4 DEF Sample
<1>5. CASE Receive
  BY <1>1, <1>5 DEF Receive, samplerVars, Pipeline, StagesInOrder, StoredIsTaken
<1>6. CASE Publish
  BY <1>1, <1>6 DEF Publish, PublishEnds, PublishSucceeds, PublishFails, samplerVars,
                    Pipeline, StagesInOrder, StoredIsTaken
<1>7. CASE Restart
  BY <1>7 DEF Restart, Pipeline, StagesInOrder, StoredIsTaken
<1> QED
  BY <1>2, <1>3, <1>4, <1>5, <1>6, <1>7
     DEF Next, vars, samplerVars, adapterVars, BootStep, LinkChanges, Adapt, Decide, Tick,
         Press, RequestStop, StopReturns

LEMMA PipelineAlways == Spec => [](TypeOK /\ Pipeline)
<1>1. TypeOK /\ Pipeline /\ [Next]_vars => Pipeline'
  BY PipelineStep
<1> QED
  BY <1>1, PipelineInit, TypesAlways, PTL DEF Spec

\* Each stage between the sensors and the broker holds a sample no newer than
\* the stage before it, however the two tasks interleave.
THEOREM StagesOrdered == Spec => []StagesInOrder
BY PipelineAlways, PTL DEF Pipeline

LEMMA ValuesStep ==
    TypeOK /\ Pipeline /\ Pipeline' /\ [Next]_vars
        => [Values!Next]_<<revision, published>>
<1> SUFFICES ASSUME TypeOK, Pipeline, Pipeline', [Next]_vars,
                    ~UNCHANGED <<revision, published>>
             PROVE  Values!Next
  OBVIOUS
<1>1. {revision, held, latest, taken, published} \subseteq Nat
  BY DEF TypeOK, Revisions
<1>2. published <= held /\ held <= revision
  BY <1>1 DEF Pipeline, StagesInOrder
<1>3. CASE SampleOnce
  BY <1>3 DEF SampleOnce, SamplerGoes, adapterVars, Values!Next, Values!Take
<1>4. CASE Publish
  BY <1>1, <1>2, <1>4 DEF Publish, PublishEnds, PublishSucceeds, PublishFails, samplerVars,
                          Values!Next, Values!Show
<1>5. CASE Restart
  BY <1>5 DEF Restart, Values!Next, Values!Restart
<1> QED
  BY <1>3, <1>4, <1>5
     DEF Next, vars, samplerVars, adapterVars, BootStep, Start, LinkChanges, Sample, Adapt,
         Tick, Press, RequestStop, StopReturns, SamplerGoes, CheckStop, StoreLatest,
         HandOver, Sleep, Wake, Receive, Decide

\* The sampling task, the overwriting queue and the publishing task implement
\* a value that subscribers only see move forward.
THEOREM ImplementsLatestValue == Spec => NeverBackwards
<1>1. Init => Values!Init
  BY DEF Init, Values!Init
<1> QED
  BY <1>1, ValuesStep, PipelineAlways, PTL DEF Spec, NeverBackwards, Values!Spec

(***************************************************************************)
(* The reset                                                               *)
(***************************************************************************)

LEMMA StopsStep ==
    TypeOK /\ FlagsFollowThePress /\ ResetStopsSampling /\ [Next]_vars
        => ResetStopsSampling'
<1> SUFFICES ASSUME TypeOK, FlagsFollowThePress, ResetStopsSampling, [Next]_vars
             PROVE  ResetStopsSampling'
  OBVIOUS
<1>1. CASE UNCHANGED <<buttonVars, sampler, startedLate>>
  BY <1>1 DEF buttonVars, ResetStopsSampling
<1>2. CASE Start
  <2>1. /\ UNCHANGED <<armed, committed, handler>> /\ sampler = "off"
        /\ \/ startedLate' = (handler \notin {"watching", "callback"})
           \/ UNCHANGED sampler
    BY <1>2 DEF Start, buttonVars
  <2>2. armed \/ committed => handler # "watching"
    BY DEF FlagsFollowThePress
  <2> QED
    BY <2>1, <2>2 DEF ResetStopsSampling
<1>3. CASE Sample
  <2>1. UNCHANGED <<armed, committed, handler, startedLate>> /\ sampler # "off"
    BY <1>3 DEF Sample, CheckStop, SampleOnce, StoreLatest, HandOver, Sleep, Wake,
                SamplerGoes, buttonVars
  <2> QED
    BY <2>1 DEF ResetStopsSampling
<1>4. CASE Press
  <2>1. UNCHANGED <<sampler, startedLate>>
    BY <1>4 DEF Press, samplerVars
  <2>2. CASE LongPressStart
    <3>1. handler' = "callback"
      BY <2>2 DEF LongPressStart, FlagsFollowThePress
    <3> QED
      BY <3>1 DEF ResetStopsSampling
  <2>3. CASE Toggle \/ Released
    BY <2>1, <2>3 DEF Toggle, Released, ResetStopsSampling
  <2>4. CASE LongPressUp
    <3>1. handler # "callback" /\ (committed' => committed \/ armed) /\ ~armed'
      BY <2>4 DEF LongPressUp
    <3> QED
      BY <2>1, <3>1 DEF ResetStopsSampling
  <2>5. CASE ClearSucceeds
    BY <2>1, <2>5 DEF ClearSucceeds, ResetStopsSampling
  <2>6. CASE ClearFails
    <3>1. ~armed' /\ ~committed'
      BY <2>6 DEF ClearFails, FlagsFollowThePress
    <3> QED
      BY <3>1 DEF ResetStopsSampling
  <2>7. CASE FailureCallbackReturns
    BY <2>1, <2>7 DEF FailureCallbackReturns, ResetStopsSampling
  <2> QED
    BY <1>4, <2>2, <2>3, <2>4, <2>5, <2>6, <2>7 DEF Press
<1>5. CASE StopReturns
  BY <1>5 DEF StopReturns, samplerVars, ResetStopsSampling
<1>6. CASE Restart
  BY <1>6 DEF Restart, ButtonRestarts, ResetStopsSampling
<1> QED
  BY <1>1, <1>2, <1>3, <1>4, <1>5, <1>6
     DEF Next, vars, samplerVars, BootStep, LinkChanges, Adapt, Receive, Decide, Publish,
         PublishEnds, PublishSucceeds, PublishFails, Tick, RequestStop

\* From the return of the reset callback to the restart no sample is taken,
\* but for a sampling that app_main started after the press.
THEOREM QuietBusForReset == Spec => []ResetStopsSampling
<1>1. Init => ResetStopsSampling
  BY DEF Init, ButtonInit, ResetStopsSampling
<1> QED
  BY <1>1, StopsStep, TypesAlways, PTL DEF Spec

(***************************************************************************)
(* The period                                                              *)
(***************************************************************************)

\* The difference of two readings of a counter that wraps.
LEMMA WrappedDifference ==
    ASSUME NEW n \in Nat, n > 0, NEW a \in 0..n - 1, NEW b \in 0..n - 1
    PROVE  (a - b) % n = IF a >= b THEN a - b ELSE a - b + n
<1>1. CASE a >= b
  BY <1>1
<1>2. CASE a < b
  BY <1>2
<1> QED
  BY <1>1, <1>2

LEMMA WrappedSuccessor ==
    ASSUME NEW n \in Nat, n > 0, NEW a \in 0..n - 1
    PROVE  (a + 1) % n = IF a + 1 < n THEN a + 1 ELSE 0
<1>1. CASE a + 1 < n
  BY <1>1
<1>2. CASE a + 1 = n
  BY <1>2
<1> QED
  BY <1>1, <1>2

\* Within a period of the last attempt the counter tells how long ago it was.
CounterTells ==
    lastPublish # 0 /\ since < Period => (tick - lastPublish) % TickModulus = since

LEMMA CounterStep == TypeOK /\ CounterTells /\ [Next]_vars => CounterTells'
<1> SUFFICES ASSUME TypeOK, CounterTells, [Next]_vars PROVE CounterTells'
  OBVIOUS
<1>1. /\ Period \in Nat /\ TickModulus \in Nat /\ TickModulus > Period /\ TickModulus > 0
      /\ tick \in 0..TickModulus - 1 /\ lastPublish \in 0..TickModulus - 1
      /\ since \in 0..Period
  BY PeriodAssumption, TicksAssumption DEF TypeOK
<1>2. CASE UNCHANGED <<lastPublish, since, tick>>
  BY <1>2 DEF CounterTells
<1>3. CASE Decide
  <2>1. CASE lastPublish' = tick /\ since' = 0
    <3>1. (tick' - lastPublish') % TickModulus = 0
      BY <1>1, <1>3, <2>1, WrappedDifference DEF Decide
    <3> QED
      BY <2>1, <3>1 DEF CounterTells
  <2> QED
    BY <1>2, <1>3, <2>1 DEF Decide
<1>4. CASE Tick
  <2>1. lastPublish' = lastPublish /\ tick' = (tick + 1) % TickModulus
        /\ since' = IF since < Period THEN since + 1 ELSE since
    BY <1>4 DEF Tick
  <2>2. SUFFICES ASSUME lastPublish # 0, since' < Period
                 PROVE  (tick' - lastPublish) % TickModulus = since'
    BY <2>1 DEF CounterTells
  <2>3. since < Period /\ since' = since + 1 /\ since + 1 < TickModulus
    BY <1>1, <2>1, <2>2
  <2>4. since = IF tick >= lastPublish THEN tick - lastPublish
                ELSE tick - lastPublish + TickModulus
    BY <1>1, <2>2, <2>3, WrappedDifference DEF CounterTells
  <2>5. tick' = IF tick + 1 < TickModulus THEN tick + 1 ELSE 0
    BY <1>1, <2>1, WrappedSuccessor
  <2>6. tick' \in 0..TickModulus - 1
    BY <1>1, <2>5
  <2>7. (tick' - lastPublish) % TickModulus
            = IF tick' >= lastPublish THEN tick' - lastPublish
              ELSE tick' - lastPublish + TickModulus
    BY <1>1, <2>6, WrappedDifference
  <2> QED
    BY <1>1, <2>2, <2>3, <2>4, <2>5, <2>7
<1>5. CASE Restart
  BY <1>5 DEF Restart, CounterTells
<1> QED
  BY <1>2, <1>3, <1>4, <1>5
     DEF Next, vars, adapterVars, BootStep, Start, LinkChanges, Sample, SamplerGoes,
         CheckStop, SampleOnce, StoreLatest, HandOver, Sleep, Wake, Adapt, Receive,
         Publish, PublishEnds, PublishSucceeds, PublishFails, Press, RequestStop, StopReturns

LEMMA SpacedStep ==
    TypeOK /\ CounterTells /\ [Next]_vars
        => [lastPublish # 0 /\ publisher = "deciding" /\ publisher' = "publishing"
               => since = Period]_vars
<1> SUFFICES ASSUME TypeOK, CounterTells, [Next]_vars, lastPublish # 0,
                    publisher = "deciding", publisher' = "publishing"
             PROVE  since = Period
  OBVIOUS
<1>1. Decide
  BY DEF Next, vars, adapterVars, BootStep, Start, LinkChanges, Sample, SamplerGoes,
         CheckStop, SampleOnce, StoreLatest, HandOver, Sleep, Wake, Adapt, Receive,
         Publish, PublishEnds, PublishSucceeds, PublishFails, Tick,
         Press, RequestStop, StopReturns, Restart
<1>2. Due
  BY <1>1 DEF Decide
<1>3. since \in 0..Period /\ Period \in Nat
  BY PeriodAssumption DEF TypeOK
<1> QED
  BY <1>2, <1>3 DEF Due, CounterTells

\* For every period and every width of the tick counter, attempts to publish
\* keep the period, but for the one after an attempt on tick 0.
THEOREM PeriodIsKept == Spec => PublishesSpaced
<1>1. Init => CounterTells
  BY DEF Init, CounterTells
<1> QED
  BY <1>1, CounterStep, SpacedStep, TypesAlways, PTL DEF Spec, PublishesSpaced
=============================================================================
