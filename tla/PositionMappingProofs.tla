------------------------ MODULE PositionMappingProofs ------------------------
(***************************************************************************)
(* Proofs about the mapping between canonical positions and motor steps,   *)
(* for every scale and every travel.                                       *)
(***************************************************************************)
EXTENDS PositionMapping, TLAPS

\* Division with remainder, as the provers need it.
LEMMA Division ==
    ASSUME NEW a \in Nat, NEW m \in Nat \ {0}
    PROVE  /\ a \div m \in Nat
           /\ m * (a \div m) <= a
           /\ a < m * (a \div m) + m
<1>1. a = m * (a \div m) + (a % m) /\ (a % m) \in 0..m-1 /\ a \div m \in Int
  OBVIOUS
<1> QED
  BY <1>1

\* Rounded(a, m) is a nearest integer to a / m.
LEMMA RoundedIsNearest ==
    ASSUME NEW a \in Nat, NEW m \in Nat \ {0}
    PROVE  /\ Rounded(a, m) \in Nat
           /\ m * Rounded(a, m) <= a + m \div 2
           /\ a + m \div 2 < m * Rounded(a, m) + m
BY Division DEF Rounded

LEMMA ProductMonotone ==
    ASSUME NEW a \in Nat, NEW b \in Nat, NEW m \in Nat, a <= b
    PROVE  m * a <= m * b
OBVIOUS

\* A quotient is determined by its bounds.
LEMMA QuotientUnique ==
    ASSUME NEW m \in Nat \ {0}, NEW s \in Nat, NEW t \in Nat, NEW x \in Nat,
           m * s <= x, x < m * s + m, m * t <= x, x < m * t + m
    PROVE  s = t
<1>1. ASSUME NEW a \in Nat, NEW b \in Nat, a < b PROVE m * a + m <= m * b
  <2>1. m * (a + 1) <= m * b
    BY <1>1, ProductMonotone
  <2>2. m * (a + 1) = m * a + m
    OBVIOUS
  <2> QED
    BY <2>1, <2>2
<1>2. ~(s < t)
  BY <1>1
<1>3. ~(t < s)
  BY <1>1
<1> QED
  BY <1>2, <1>3

LEMMA RoundedMonotone ==
    ASSUME NEW a \in Nat, NEW b \in Nat, NEW m \in Nat \ {0}, a <= b
    PROVE  Rounded(a, m) <= Rounded(b, m)
<1> DEFINE s == Rounded(a, m)
           t == Rounded(b, m)
<1>1. s \in Nat /\ m * s <= a + m \div 2
  BY RoundedIsNearest
<1>2. t \in Nat /\ b + m \div 2 < m * t + m
  BY RoundedIsNearest
<1>3. m \div 2 \in Nat
  BY Division
<1> HIDE DEF s, t
<1>4. s <= t
  <2> SUFFICES ASSUME t + 1 <= s PROVE FALSE
    BY <1>1, <1>2
  <2>1. m * (t + 1) <= m * s
    BY <1>1, <1>2, ProductMonotone
  <2>2. m * (t + 1) = m * t + m
    BY <1>2
  <2>3. m * s < m * t + m
    BY <1>1, <1>2, <1>3
  <2> QED
    BY <2>1, <2>2, <2>3, <1>1, <1>2
<1> QED
  BY <1>4 DEF s, t

\* Rounding a multiple of the denominator is exact.
LEMMA RoundedExact ==
    ASSUME NEW k \in Nat, NEW m \in Nat \ {0}
    PROVE  Rounded(m * k, m) = k
<1>1. m * k \in Nat
  OBVIOUS
<1>2. m \div 2 \in Nat /\ m \div 2 < m
  BY Division
<1>3. /\ Rounded(m * k, m) \in Nat
      /\ m * Rounded(m * k, m) <= m * k + m \div 2
      /\ m * k + m \div 2 < m * Rounded(m * k, m) + m
  BY <1>1, RoundedIsNearest
<1>4. /\ m * k + m \div 2 \in Nat
      /\ m * k <= m * k + m \div 2
      /\ m * k + m \div 2 < m * k + m
  BY <1>1, <1>2
<1> QED
  BY <1>3, <1>4, QuotientUnique

\* Scaling up to a finer grid and back down, rounding both times, is exact.
LEMMA RoundTrip ==
    ASSUME NEW m \in Nat \ {0}, NEW n \in Nat \ {0}, m <= n, NEW k \in Nat
    PROVE  Rounded(m * Rounded(n * k, m), n) = k
<1> DEFINE q == Rounded(n * k, m)
           t == Rounded(m * q, n)
<1>1. CASE m = n
  <2>1. q = k
    BY <1>1, RoundedExact
  <2> QED
    BY <1>1, <2>1, RoundedExact
<1>2. CASE m < n
  <2>1. n * k \in Nat
    OBVIOUS
  <2>2. q \in Nat /\ m * q <= n * k + m \div 2 /\ n * k + m \div 2 < m * q + m
    BY <2>1, RoundedIsNearest
  <2>3. m * q \in Nat
    BY <2>2
  <2>4. t \in Nat /\ n * t <= m * q + n \div 2 /\ m * q + n \div 2 < n * t + n
    BY <2>3, RoundedIsNearest
  <2>5. /\ m \div 2 \in Nat /\ 2 * (m \div 2) <= m /\ m < 2 * (m \div 2) + 2
        /\ n \div 2 \in Nat /\ 2 * (n \div 2) <= n /\ n < 2 * (n \div 2) + 2
    BY Division
  <2> HIDE DEF q, t
  <2>6. n * k <= m * q + n \div 2 /\ m * q + n \div 2 < n * k + n
    BY <1>2, <2>1, <2>2, <2>3, <2>5
  <2>7. m * q + n \div 2 \in Nat
    BY <2>3, <2>5
  <2>8. t = k
    BY <2>4, <2>6, <2>7, QuotientUnique
  <2> QED
    BY <2>8 DEF q, t
<1> QED
  BY <1>1, <1>2

(***************************************************************************)
(* The theorems.                                                           *)
(***************************************************************************)

\* position100thsToSteps never leaves the travel and hits both end points.
THEOREM StepsWithinTravel ==
    ASSUME NEW low \in Int, NEW high \in Int, low < high, NEW p \in 0..PositionMax
    PROVE  /\ PositionToSteps(p, low, high) \in low..high
           /\ PositionToSteps(0, low, high) = low
           /\ PositionToSteps(PositionMax, low, high) = high
<1> DEFINE r == high - low
<1>1. r \in Nat \ {0} /\ PositionMax \in Nat \ {0} /\ p \in Nat
  BY PositionMaxAssumption
<1>2. Rounded(r * PositionMax, PositionMax) = r
  <2>1. r * PositionMax = PositionMax * r
    BY <1>1
  <2>2. Rounded(PositionMax * r, PositionMax) = r
    BY <1>1, RoundedExact
  <2> QED
    BY <2>1, <2>2
<1>3. Rounded(r * 0, PositionMax) = 0
  <2>1. r * 0 = PositionMax * 0
    BY <1>1
  <2>2. Rounded(PositionMax * 0, PositionMax) = 0
    BY <1>1, RoundedExact
  <2> QED
    BY <2>1, <2>2
<1>4. Rounded(r * p, PositionMax) \in Nat /\ Rounded(r * p, PositionMax) <= r
  <2>1. r * p \in Nat /\ r * PositionMax \in Nat
    BY <1>1
  <2>2. r * p <= r * PositionMax
    BY <1>1, ProductMonotone
  <2>3. Rounded(r * p, PositionMax) \in Nat
    BY <1>1, <2>1, RoundedIsNearest
  <2>4. Rounded(r * p, PositionMax) <= Rounded(r * PositionMax, PositionMax)
    BY <1>1, <2>1, <2>2, RoundedMonotone
  <2> QED
    BY <2>3, <2>4, <1>2
<1> QED
  BY <1>1, <1>2, <1>3, <1>4 DEF PositionToSteps

\* stepsToPosition100ths: a step count within the travel is reported as a
\* valid canonical position.
THEOREM PositionsValid ==
    ASSUME NEW high \in Nat \ {0}, NEW s \in 0..high
    PROVE  StepsToPosition(s, 0, high) \in 0..PositionMax
<1>1. PositionMax \in Nat /\ s \in Nat /\ s <= high
  BY PositionMaxAssumption
<1>2. /\ s * PositionMax \in Nat
      /\ high * PositionMax \in Nat
      /\ s * PositionMax = PositionMax * s
      /\ high * PositionMax = PositionMax * high
  BY <1>1
<1>3. s * PositionMax <= high * PositionMax
  BY <1>1, <1>2, ProductMonotone
<1>4. Rounded(s * PositionMax, high) <= Rounded(high * PositionMax, high)
  BY <1>2, <1>3, RoundedMonotone
<1>5. Rounded(high * PositionMax, high) = PositionMax
  BY <1>1, RoundedExact
<1>6. Rounded(s * PositionMax, high) \in Nat
  BY <1>2, RoundedIsNearest
<1>7. s - 0 = s /\ high - 0 = high
  BY <1>1
<1> QED
  BY <1>1, <1>4, <1>5, <1>6, <1>7 DEF StepsToPosition

\* A higher position never maps to fewer steps.
THEOREM StepsMonotone ==
    ASSUME NEW low \in Int, NEW high \in Int, low < high,
           NEW p \in 0..PositionMax, NEW q \in 0..PositionMax, p <= q
    PROVE  PositionToSteps(p, low, high) <= PositionToSteps(q, low, high)
<1> DEFINE r == high - low
<1>1. r \in Nat /\ p \in Nat /\ q \in Nat
  BY PositionMaxAssumption
<1>2. r * p \in Nat /\ r * q \in Nat /\ r * p <= r * q
  BY <1>1, ProductMonotone
<1>3. /\ Rounded(r * p, PositionMax) <= Rounded(r * q, PositionMax)
      /\ Rounded(r * p, PositionMax) \in Nat /\ Rounded(r * q, PositionMax) \in Nat
  BY <1>2, PositionMaxAssumption, RoundedMonotone, RoundedIsNearest
<1> QED
  BY <1>3 DEF PositionToSteps

\* A travel of at least PositionMax steps represents every canonical position:
\* the position reported at the target's step count is the target itself, so
\* the equality test of MotorService::processFeedback can succeed.
THEOREM PositionsSurvive ==
    ASSUME NEW low \in Int, NEW high \in Int, PositionMax <= high - low,
           NEW p \in 0..PositionMax
    PROVE  StepsToPosition(PositionToSteps(p, low, high), low, high) = p
<1> DEFINE r == high - low
           q == Rounded(r * p, PositionMax)
<1>1. r \in Nat \ {0} /\ p \in Nat
  BY PositionMaxAssumption
<1>2. r * p \in Nat /\ q \in Nat
  BY <1>1, PositionMaxAssumption, RoundedIsNearest
<1>3. Rounded(PositionMax * q, r) = p
  BY <1>1, PositionMaxAssumption, RoundTrip
<1>4. PositionToSteps(p, low, high) - low = q /\ q * PositionMax = PositionMax * q
  BY <1>2, PositionMaxAssumption DEF PositionToSteps
<1> QED
  BY <1>3, <1>4 DEF StepsToPosition

\* A travel of at most PositionMax steps loses no step count on the way to
\* the canonical position and back.
THEOREM StepsSurvive ==
    ASSUME NEW low \in Int, NEW high \in Int, low < high, high - low <= PositionMax,
           NEW s \in low..high
    PROVE  PositionToSteps(StepsToPosition(s, low, high), low, high) = s
<1> DEFINE r == high - low
           k == s - low
           q == Rounded(k * PositionMax, r)
<1>1. r \in Nat \ {0} /\ k \in Nat
  OBVIOUS
<1>2. k * PositionMax = PositionMax * k
  BY <1>1, PositionMaxAssumption
<1>3. Rounded(r * q, PositionMax) = k
  BY <1>1, <1>2, PositionMaxAssumption, RoundTrip
<1> QED
  BY <1>1, <1>3 DEF StepsToPosition, PositionToSteps

(***************************************************************************)
(* The mapping against its reference definition                            *)
(***************************************************************************)

\* No multiple of m is closer to a than the one Rounded picks.
LEMMA RoundedClosest ==
    ASSUME NEW a \in Nat, NEW m \in Nat \ {0}, NEW other \in Nat
    PROVE  Distance(m * Rounded(a, m), a) <= Distance(m * other, a)
<1> DEFINE chosen == Rounded(a, m)
<1>1. /\ chosen \in Nat /\ m * chosen \in Nat /\ m * other \in Nat
      /\ m * chosen <= a + m \div 2
      /\ a + m \div 2 < m * chosen + m
  BY RoundedIsNearest
<1>2. m \div 2 \in Nat /\ 2 * (m \div 2) <= m /\ m < 2 * (m \div 2) + 2
  BY Division
<1> HIDE DEF chosen
<1>3. CASE other < chosen
  <2>1. m * (other + 1) <= m * chosen /\ m * (other + 1) = m * other + m
    BY <1>1, <1>3, ProductMonotone
  <2> QED  BY <1>1, <1>2, <2>1 DEF Distance, chosen
<1>4. CASE chosen < other
  <2>1. m * (chosen + 1) <= m * other /\ m * (chosen + 1) = m * chosen + m
    BY <1>1, <1>4, ProductMonotone
  <2> QED  BY <1>1, <1>2, <2>1 DEF Distance, chosen
<1>5. CASE chosen = other
  BY <1>1, <1>5 DEF Distance, chosen
<1> QED  BY <1>1, <1>3, <1>4, <1>5

\* Every travel, position and step count the walk reaches is one the code
\* accepts.
InRange ==
    /\ travel \in 1..MaxTravel
    /\ position \in 0..PositionMax
    /\ steps \in 0..travel

LEMMA WalkInRange == Spec => []InRange
<1>1. Init => InRange
  BY MaxTravelAssumption, PositionMaxAssumption DEF Init, InRange
<1>2. InRange /\ [Next]_vars => InRange'
  <2> SUFFICES ASSUME InRange, [Next]_vars PROVE InRange'
    OBVIOUS
  <2> USE MaxTravelAssumption, PositionMaxAssumption DEF InRange
  <2>1. CASE NextPosition
    BY <2>1 DEF NextPosition, ValidPosition
  <2>2. CASE NextSteps
    BY <2>2 DEF NextSteps, StepsInRange
  <2>3. CASE NextTravel
    BY <2>3 DEF NextTravel
  <2>4. CASE UNCHANGED vars
    BY <2>4 DEF vars
  <2> QED  BY <2>1, <2>2, <2>3, <2>4 DEF Next
<1> QED  BY <1>1, <1>2, PTL DEF Spec

\* position100thsToSteps and stepsToPosition100ths each pick a value no other is
\* closer to, at every travel: neither direction is off by one anywhere.
THEOREM MappingNearest == Spec => []Nearest
<1>1. InRange => Nearest
  <2> SUFFICES ASSUME InRange PROVE NearestSteps /\ NearestPosition
    BY DEF Nearest
  <2>1. /\ travel \in Nat \ {0} /\ position \in Nat /\ steps \in Nat
        /\ PositionMax \in Nat \ {0}
    BY MaxTravelAssumption, PositionMaxAssumption DEF InRange
  <2>2. NearestSteps
    <3>1. PositionToSteps(position, 0, travel) \in 0..travel
      BY <2>1, StepsWithinTravel DEF InRange
    <3>2. travel * position \in Nat
      BY <2>1
    <3>3. PositionToSteps(position, 0, travel) = Rounded(travel * position, PositionMax)
      BY <2>1, <3>2, RoundedIsNearest DEF PositionToSteps
    <3>4. \A other \in 0..travel :
             Distance(PositionMax * Rounded(travel * position, PositionMax), travel * position)
                 <= Distance(PositionMax * other, travel * position)
      <4> TAKE other \in 0..travel
      <4>1. other \in Nat
        BY <2>1
      <4> QED  BY <2>1, <3>2, <4>1, RoundedClosest
    <3> QED  BY <3>1, <3>3, <3>4 DEF NearestSteps
  <2>3. NearestPosition
    <3>1. ValidPosition(StepsToPosition(steps, 0, travel))
      BY <2>1, PositionsValid DEF InRange, ValidPosition
    <3>2. PositionMax * steps \in Nat /\ steps * PositionMax = PositionMax * steps
      BY <2>1
    <3>3. StepsToPosition(steps, 0, travel) = Rounded(PositionMax * steps, travel)
      BY <2>1, <3>2 DEF StepsToPosition
    <3>4. \A other \in 0..PositionMax :
             Distance(travel * Rounded(PositionMax * steps, travel), PositionMax * steps)
                 <= Distance(travel * other, PositionMax * steps)
      BY <2>1, <3>2, RoundedClosest
    <3> QED  BY <3>1, <3>3, <3>4 DEF NearestPosition
  <2> QED  BY <2>2, <2>3
<1> QED  BY <1>1, WalkInRange, PTL

\* Each round trip is exact on its side of PositionMax: the motor can be seen to
\* arrive where it was sent, and stays when it is sent where it stands.
THEOREM MappingRoundTrips == Spec => []RoundTrips
<1>1. InRange => RoundTrips
  <2> SUFFICES ASSUME InRange PROVE TargetsRecognised /\ HoldsStill
    BY DEF RoundTrips
  <2>1. travel \in Nat \ {0} /\ travel - 0 = travel /\ 0 < travel
    BY MaxTravelAssumption DEF InRange
  <2>2. TargetsRecognised
    BY <2>1, PositionsSurvive DEF TargetsRecognised, InRange
  <2>3. HoldsStill
    BY <2>1, StepsSurvive DEF HoldsStill, InRange
  <2> QED  BY <2>2, <2>3
<1> QED  BY <1>1, WalkInRange, PTL
=============================================================================
