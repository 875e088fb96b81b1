----------------------------- MODULE ChannelProofs -----------------------------
(***************************************************************************)
(* For every range, every servo and every curve: no coordinate drives a    *)
(* servo beyond its ends, the pulse follows the coordinate, reaches the    *)
(* ends and is on the side of the straight line that the curve is named    *)
(* for.  The facts that carry the proofs are about the curves: they map    *)
(* the range into itself, keep its order and its ends.                     *)
(***************************************************************************)
EXTENDS Channel, TLAPS

\* Products keep the order.
LEMMA ProductGrows ==
    ASSUME NEW a \in Nat, NEW b \in Nat, NEW c \in Nat, a <= b
    PROVE  a * c \in Nat /\ a * c <= b * c
<1>1. PICK d \in Nat : b = a + d
    <2>1. b - a \in Nat /\ b = a + (b - a)
        OBVIOUS
    <2> QED BY <2>1
<1>2. d * c \in Nat /\ a * c \in Nat
    OBVIOUS
<1>3. b * c = a * c + d * c
    BY <1>1
<1> QED BY <1>2, <1>3

\* Of two squares the smaller has the smaller root.
LEMMA SquareShrinks ==
    ASSUME NEW a \in Nat, NEW b \in Nat, a * a <= b * b
    PROVE  a <= b
<1>1. SUFFICES ASSUME b + 1 <= a
               PROVE  FALSE
    OBVIOUS
<1>2. (b + 1) * (b + 1) <= a * (b + 1)
    BY <1>1, ProductGrows
<1>3. (b + 1) * a <= a * a
    BY <1>1, ProductGrows
<1>4. (b + 1) * (b + 1) = b * b + 2 * b + 1
    OBVIOUS
<1>5. a * a \in Nat /\ b * b \in Nat /\ a * (b + 1) \in Nat /\ (b + 1) * a = a * (b + 1)
    OBVIOUS
<1> QED BY <1>2, <1>3, <1>4, <1>5

\* The quotient of a division stays in the range when its dividend is at most
\* the divisor's square.
LEMMA QuotientInRange ==
    ASSUME NEW d \in Nat \ {0}, NEW x \in Nat, x <= d * d
    PROVE  x \div d \in 0..d
<1>1. x \div d \in Nat
    OBVIOUS
<1>2. (x \div d) * d <= x
    OBVIOUS
<1>3. SUFFICES ASSUME d + 1 <= x \div d
               PROVE  FALSE
    BY <1>1
<1>4. (d + 1) * d <= (x \div d) * d
    BY <1>1, <1>3, ProductGrows
<1>5. (d + 1) * d = d * d + d
    OBVIOUS
<1> QED BY <1>1, <1>2, <1>4, <1>5

\* Every curve maps the range into itself (Channel.java 494-519).
LEMMA CurveInRange ==
    ASSUME NEW v \in 0..RANGE, ExpotentailSelect \in Curves
    PROVE  Curve(v) \in 0..RANGE
<1> USE RangeAssumption
<1>1. v \in Nat /\ v * v \in Nat /\ RANGE * v \in Nat
    OBVIOUS
<1>2. v * v <= RANGE * v /\ v * RANGE <= RANGE * RANGE /\ v * RANGE = RANGE * v
    BY <1>1, ProductGrows
<1>3. RANGE * RANGE \in Nat
    OBVIOUS
<1>4. SlowDownValue(v) \in 0..RANGE
    BY <1>1, <1>2, <1>3, QuotientInRange DEF SlowDownValue
<1>5. speedUpValue(v) \in 0..RANGE
    <2>1. Root[v] \in Nat /\ Root[v] * Root[v] <= RANGE * v
        BY RootAssumption
    <2>2. Root[v] * Root[v] \in Nat
        BY <2>1
    <2>3. Root[v] * Root[v] <= RANGE * RANGE
        BY <1>1, <1>2, <1>3, <2>1, <2>2
    <2>4. Root[v] <= RANGE
        BY <2>1, <2>3, SquareShrinks
    <2> QED BY <2>1, <2>4 DEF speedUpValue
<1> HIDE DEF SlowDownValue, speedUpValue
<1>6. CASE ExpotentailSelect = "linear"
    BY <1>6 DEF Curve
<1>7. CASE ExpotentailSelect = "slow"
    BY <1>4, <1>7 DEF Curve
<1>8. CASE ExpotentailSelect = "slower"
    BY <1>4, <1>8 DEF Curve
<1>9. CASE ExpotentailSelect = "fast"
    BY <1>5, <1>9 DEF Curve
<1>10. CASE ExpotentailSelect = "faster"
    BY <1>5, <1>10 DEF Curve
<1> QED BY <1>6, <1>7, <1>8, <1>9, <1>10 DEF Curves

\* The pulse of a coordinate lies within the ends (Channel.java 390-486).
Within(value) == minimunValue * RANGE <= value /\ value <= maximunValue * RANGE

TrimInOrder ==
    /\ minimunValue \in Nat /\ middleValue \in Nat /\ maximunValue \in Nat
    /\ minimunValue <= middleValue /\ middleValue <= maximunValue
    /\ ExpotentailSelect \in Curves
    /\ Reverse \in BOOLEAN

LEMMA MiddleWithin ==
    ASSUME TrimInOrder
    PROVE  Within(middleValue * RANGE)
BY RangeAssumption, ProductGrows DEF TrimInOrder, Within

LEMMA ResultWithin ==
    ASSUME TrimInOrder, NEW value \in -RANGE..RANGE
    PROVE  Within(calExpontenialValue(value))
<1> USE RangeAssumption
<1>1. /\ minimunValue \in Nat /\ middleValue \in Nat /\ maximunValue \in Nat
      /\ minimunValue <= middleValue /\ middleValue <= maximunValue
      /\ ExpotentailSelect \in Curves
    BY DEF TrimInOrder
<1>2. minimunValue * RANGE <= middleValue * RANGE /\ middleValue * RANGE <= maximunValue * RANGE
    BY MiddleWithin DEF Within
<1>3. /\ minimunValue * RANGE \in Nat /\ middleValue * RANGE \in Nat
      /\ maximunValue * RANGE \in Nat
    BY <1>1
<1>4. CASE value = 0
    BY <1>2, <1>4 DEF calExpontenialValue, Within
<1>5. CASE value > 0
    <2>1. Curve(value) \in 0..RANGE
        BY <1>1, <1>5, CurveInRange
    <2>2. HighScale \in Nat
        BY <1>1 DEF HighScale
    <2>3. Curve(value) * HighScale \in Nat /\ Curve(value) * HighScale <= RANGE * HighScale
        BY <2>1, <2>2, ProductGrows
    <2>4. RANGE * HighScale = maximunValue * RANGE - middleValue * RANGE
        BY <1>1 DEF HighScale
    <2>5. calExpontenialValue(value) = middleValue * RANGE + Curve(value) * HighScale
        BY <1>5 DEF calExpontenialValue
    <2> QED BY <1>2, <1>3, <2>3, <2>4, <2>5 DEF Within
<1>6. CASE value < 0
    <2>1. Curve(-value) \in 0..RANGE
        <3>1. -value \in 0..RANGE
            BY <1>6
        <3> QED BY <1>1, <3>1, CurveInRange
    <2>2. LowScale \in Nat
        BY <1>1 DEF LowScale
    <2>3. Curve(-value) * LowScale \in Nat /\ Curve(-value) * LowScale <= RANGE * LowScale
        BY <2>1, <2>2, ProductGrows
    <2>4. RANGE * LowScale = middleValue * RANGE - minimunValue * RANGE
        BY <1>1 DEF LowScale
    <2>5. calExpontenialValue(value) = middleValue * RANGE - Curve(-value) * LowScale
        BY <1>6 DEF calExpontenialValue
    <2> QED BY <1>2, <1>3, <2>3, <2>4, <2>5 DEF Within
<1> QED BY <1>4, <1>5, <1>6

\* No coordinate, curve, trim or direction drives a servo beyond its two ends.
THEOREM ServoWithinEnds == Spec => []WithinEnds
<1> DEFINE IInv == TrimInOrder /\ Within(ChannelValue)
<1>1. Init => IInv
    <2> SUFFICES ASSUME Init
                 PROVE  IInv
        OBVIOUS
    <2>1. TrimInOrder
        BY PulsesAssumption DEF Init, TrimInOrder
    <2>2. Within(middleValue * RANGE)
        BY <2>1, MiddleWithin
    <2> QED BY <2>1, <2>2 DEF Init, Within
<1>2. IInv /\ [Next]_vars => IInv'
    <2> SUFFICES ASSUME IInv, [Next]_vars
                 PROVE  IInv'
        OBVIOUS
    <2>1. CASE UNCHANGED vars
        BY <2>1 DEF vars, setting, trim, TrimInOrder, Within
    <2>2. CASE Next
        <3>1. PICK coordinate \in Coordinates : calculateResult(coordinate)
            BY <2>2 DEF Next
        <3>2. TrimInOrder'
            BY <3>1 DEF calculateResult, setting, trim, TrimInOrder
        <3>3. coordinate \in -RANGE..RANGE /\ -coordinate \in -RANGE..RANGE
            BY RangeAssumption, CoordinatesAssumption
        <3>4. Within(Result(coordinate))
            BY <3>3, ResultWithin DEF Result
        <3> QED BY <3>1, <3>2, <3>4 DEF calculateResult, setting, trim, Within
    <2> QED BY <2>1, <2>2
<1>3. IInv => WithinEnds
    BY DEF Within, WithinEnds
<1> QED BY <1>1, <1>2, <1>3, PTL DEF Spec

-----------------------------------------------------------------------------
(* The curves: where they end, that they do not fold back, and on which side *)
(* of the straight line they lie.                                             *)

\* A division keeps the order of its dividends.
LEMMA QuotientGrows ==
    ASSUME NEW d \in Nat \ {0}, NEW x \in Nat, NEW y \in Nat, x <= y
    PROVE  x \div d <= y \div d
<1>1. x \div d \in Nat /\ y \div d \in Nat
    OBVIOUS
<1>2. (x \div d) * d <= x /\ y < (y \div d) * d + d
    OBVIOUS
<1>3. SUFFICES ASSUME (y \div d) + 1 <= x \div d
               PROVE  FALSE
    BY <1>1
<1>4. ((y \div d) + 1) * d <= (x \div d) * d
    BY <1>1, <1>3, ProductGrows
<1>5. ((y \div d) + 1) * d = (y \div d) * d + d
    BY <1>1
<1> QED BY <1>1, <1>2, <1>4, <1>5

\* A multiple of the divisor divides without a rest.
LEMMA QuotientOfProduct ==
    ASSUME NEW d \in Nat \ {0}, NEW x \in Nat
    PROVE  (x * d) \div d = x
<1> DEFINE q == (x * d) \div d
<1>1. x * d \in Nat /\ q \in Nat
    OBVIOUS
<1>2. q * d <= x * d /\ x * d < q * d + d
    BY <1>1
<1>3. ~(x + 1 <= q)
    <2>1. SUFFICES ASSUME x + 1 <= q PROVE FALSE
        OBVIOUS
    <2>2. (x + 1) * d <= q * d
        BY <1>1, <2>1, ProductGrows
    <2>3. (x + 1) * d = x * d + d
        OBVIOUS
    <2> QED BY <1>1, <1>2, <2>2, <2>3
<1>4. ~(q + 1 <= x)
    <2>1. SUFFICES ASSUME q + 1 <= x PROVE FALSE
        OBVIOUS
    <2>2. (q + 1) * d <= x * d
        BY <1>1, <2>1, ProductGrows
    <2>3. (q + 1) * d = q * d + d
        BY <1>1
    <2> QED BY <1>1, <1>2, <2>2, <2>3
<1> HIDE DEF q
<1>5. q = x
    BY <1>1, <1>3, <1>4
<1> QED BY <1>5 DEF q

\* Of two squares the smaller has the smaller root, also without equality.
LEMMA SquareShrinksStrictly ==
    ASSUME NEW a \in Nat, NEW b \in Nat, a * a < b * b
    PROVE  a < b
<1>1. SUFFICES ASSUME b <= a
               PROVE  FALSE
    OBVIOUS
<1>2. b * b <= a * b /\ b * a <= a * a /\ a * b = b * a
    BY <1>1, ProductGrows
<1>3. a * a \in Nat /\ b * b \in Nat /\ a * b \in Nat
    OBVIOUS
<1> QED BY <1>2, <1>3

\* What is known of the square and of the root of a value (Channel.java 494-519).
LEMMA SquareAndRoot ==
    ASSUME NEW v \in 0..RANGE
    PROVE  /\ SlowDownValue(v) \in 0..v
           /\ speedUpValue(v) \in v..RANGE
           /\ v = RANGE => SlowDownValue(v) = RANGE
<1> USE RangeAssumption
<1>1. v \in Nat /\ v * v \in Nat /\ RANGE * v \in Nat /\ RANGE * RANGE \in Nat
    OBVIOUS
<1>2. v * v <= RANGE * v /\ v * RANGE <= RANGE * RANGE /\ v * RANGE = RANGE * v
    BY <1>1, ProductGrows
<1>3. SlowDownValue(v) \in 0..v
    <2>1. (v * v) \div RANGE <= (v * RANGE) \div RANGE
        BY <1>1, <1>2, QuotientGrows
    <2>2. (v * RANGE) \div RANGE = v
        BY <1>1, QuotientOfProduct
    <2>3. (v * v) \div RANGE \in Nat
        BY <1>1
    <2> QED BY <2>1, <2>2, <2>3 DEF SlowDownValue
<1>4. speedUpValue(v) \in v..RANGE
    <2>1. /\ Root[v] \in Nat /\ Root[v] * Root[v] <= RANGE * v
          /\ RANGE * v < (Root[v] + 1) * (Root[v] + 1)
        BY RootAssumption
    <2>2. Root[v] * Root[v] \in Nat /\ (Root[v] + 1) * (Root[v] + 1) \in Nat
        BY <2>1
    <2>3. Root[v] * Root[v] <= RANGE * RANGE
        BY <1>1, <1>2, <2>1, <2>2
    <2>4. Root[v] <= RANGE
        BY <2>1, <2>3, SquareShrinks
    <2>5. v * v < (Root[v] + 1) * (Root[v] + 1)
        BY <1>1, <1>2, <2>1, <2>2
    <2>6. v < Root[v] + 1
        BY <1>1, <2>1, <2>5, SquareShrinksStrictly
    <2> QED BY <1>1, <2>1, <2>4, <2>6 DEF speedUpValue
<1>5. v = RANGE => SlowDownValue(v) = RANGE
    BY QuotientOfProduct DEF SlowDownValue
<1> QED BY <1>3, <1>4, <1>5

\* Every curve ends where the range ends.
LEMMA CurveEnds ==
    ASSUME ExpotentailSelect \in Curves
    PROVE  Curve(RANGE) = RANGE
<1> USE RangeAssumption
<1>1. SlowDownValue(RANGE) = RANGE /\ speedUpValue(RANGE) = RANGE
    <2>1. RANGE \in 0..RANGE
        OBVIOUS
    <2>2. speedUpValue(RANGE) \in RANGE..RANGE
        BY <2>1, SquareAndRoot
    <2> QED BY <2>1, <2>2, SquareAndRoot
<1>2. (RANGE + RANGE) \div 2 = RANGE
    OBVIOUS
<1> QED BY <1>1, <1>2 DEF Curve

\* No curve folds back.
LEMMA CurveGrows ==
    ASSUME NEW v \in 0..RANGE, NEW w \in 0..RANGE, v <= w, ExpotentailSelect \in Curves
    PROVE  Curve(v) <= Curve(w)
<1> USE RangeAssumption
<1>1. v \in Nat /\ w \in Nat /\ v * v \in Nat /\ w * w \in Nat
    OBVIOUS
<1>2. SlowDownValue(v) <= SlowDownValue(w)
    <2>1. v * v <= w * v /\ v * w <= w * w /\ w * v = v * w /\ w * v \in Nat
        BY <1>1, ProductGrows
    <2> QED BY <1>1, <2>1, QuotientGrows DEF SlowDownValue
<1>3. speedUpValue(v) <= speedUpValue(w)
    <2>1. /\ Root[v] \in Nat /\ Root[w] \in Nat
          /\ Root[v] * Root[v] <= RANGE * v
          /\ RANGE * w < (Root[w] + 1) * (Root[w] + 1)
        BY RootAssumption
    <2>2. v * RANGE <= w * RANGE /\ v * RANGE = RANGE * v /\ w * RANGE = RANGE * w
        BY <1>1, ProductGrows
    <2>3. /\ Root[v] * Root[v] \in Nat /\ (Root[w] + 1) * (Root[w] + 1) \in Nat
          /\ RANGE * v \in Nat /\ RANGE * w \in Nat
        BY <1>1, <2>1
    <2>4. \A a, b, c, d \in Nat : a <= b /\ b <= c /\ c < d => a < d
        OBVIOUS
    <2>5. Root[v] * Root[v] < (Root[w] + 1) * (Root[w] + 1)
        BY <2>1, <2>2, <2>3, <2>4, Zenon
    <2>6. Root[v] < Root[w] + 1
        BY <2>1, <2>5, SquareShrinksStrictly
    <2> QED BY <2>1, <2>6 DEF speedUpValue
<1>4. /\ SlowDownValue(v) \in Nat /\ SlowDownValue(w) \in Nat
      /\ speedUpValue(v) \in Nat /\ speedUpValue(w) \in Nat
    BY <1>1, SquareAndRoot
<1> HIDE DEF SlowDownValue, speedUpValue
<1>5. (SlowDownValue(v) + v) \div 2 <= (SlowDownValue(w) + w) \div 2
    BY <1>1, <1>2, <1>4
<1>6. (speedUpValue(v) + v) \div 2 <= (speedUpValue(w) + w) \div 2
    BY <1>1, <1>3, <1>4
<1> QED BY <1>2, <1>3, <1>5, <1>6 DEF Curve

\* The slow curves lie below the straight line, the fast ones above it.
LEMMA CurveSide ==
    ASSUME NEW v \in 0..RANGE, ExpotentailSelect \in Curves
    PROVE  /\ ExpotentailSelect \in {"slow", "slower"} => Curve(v) <= v
           /\ ExpotentailSelect \in {"fast", "faster"} => Curve(v) >= v
<1>1. v \in Nat /\ SlowDownValue(v) \in 0..v /\ speedUpValue(v) \in v..RANGE
    BY RangeAssumption, SquareAndRoot
<1>2. (SlowDownValue(v) + v) \div 2 <= v /\ (speedUpValue(v) + v) \div 2 >= v
    BY RangeAssumption, <1>1
<1> QED BY <1>1, <1>2 DEF Curve

-----------------------------------------------------------------------------
(* The pulse of a coordinate.                                                *)

\* The pulse of a coordinate, still multiplied by the range, is an integer.
LEMMA PulseIsInt ==
    ASSUME TrimInOrder, NEW value \in -RANGE..RANGE
    PROVE  calExpontenialValue(value) \in Int
<1> USE RangeAssumption
<1>1. HighScale \in Int /\ LowScale \in Int /\ middleValue * RANGE \in Int
    BY DEF TrimInOrder, HighScale, LowScale
<1>2. CASE value > 0
    <2>1. Curve(value) \in Int
        BY <1>2, CurveInRange DEF TrimInOrder
    <2>2. Curve(value) * HighScale \in Int
        BY <1>1, <2>1
    <2> QED BY <1>1, <1>2, <2>2 DEF calExpontenialValue
<1>3. CASE value < 0
    <2>1. -value \in 0..RANGE
        BY <1>3
    <2>2. Curve(-value) \in Int
        BY <2>1, CurveInRange DEF TrimInOrder
    <2>3. Curve(-value) * LowScale \in Int
        BY <1>1, <2>2
    <2> QED BY <1>1, <1>3, <2>3 DEF calExpontenialValue
<1>4. CASE value = 0
    BY <1>1, <1>4 DEF calExpontenialValue
<1> QED BY <1>2, <1>3, <1>4

\* The pulse at the two ends of the range (390-486).
LEMMA ResultEnds ==
    ASSUME TrimInOrder
    PROVE  /\ calExpontenialValue(RANGE) = maximunValue * RANGE
           /\ calExpontenialValue(-RANGE) = minimunValue * RANGE
<1> USE RangeAssumption
<1>1. Curve(RANGE) = RANGE
    BY CurveEnds DEF TrimInOrder
<1>2. /\ minimunValue \in Nat /\ middleValue \in Nat /\ maximunValue \in Nat
    BY DEF TrimInOrder
<1>3. /\ middleValue * RANGE + RANGE * (maximunValue - middleValue) = maximunValue * RANGE
      /\ middleValue * RANGE - RANGE * (middleValue - minimunValue) = minimunValue * RANGE
    BY <1>2
<1>4. RANGE # 0 /\ RANGE > 0 /\ ~(-RANGE > 0) /\ -RANGE # 0 /\ -(-RANGE) = RANGE
    OBVIOUS
<1> QED BY <1>1, <1>3, <1>4 DEF calExpontenialValue, HighScale, LowScale

\* A coordinate further to one side gives a pulse at least as far to that side.
LEMMA ResultGrows ==
    ASSUME TrimInOrder, NEW v \in -RANGE..RANGE, NEW w \in -RANGE..RANGE, v <= w
    PROVE  calExpontenialValue(v) <= calExpontenialValue(w)
<1> USE RangeAssumption
<1>1. HighScale \in Nat /\ LowScale \in Nat /\ middleValue * RANGE \in Nat
    BY DEF TrimInOrder, HighScale, LowScale
<1>2. ASSUME NEW x \in -RANGE..RANGE
      PROVE  /\ x > 0 => /\ x \in 0..RANGE /\ Curve(x) \in Nat /\ Curve(x) * HighScale \in Nat
                         /\ calExpontenialValue(x) = middleValue * RANGE + Curve(x) * HighScale
             /\ x < 0 => /\ -x \in 0..RANGE /\ Curve(-x) \in Nat /\ Curve(-x) * LowScale \in Nat
                         /\ calExpontenialValue(x) = middleValue * RANGE - Curve(-x) * LowScale
             /\ x = 0 => calExpontenialValue(x) = middleValue * RANGE
    <2>1. CASE x > 0
        <3>1. x \in 0..RANGE
            BY <2>1
        <3>2. Curve(x) \in 0..RANGE
            BY <3>1, CurveInRange DEF TrimInOrder
        <3>3. Curve(x) * HighScale \in Nat
            BY <1>1, <3>2
        <3> QED BY <2>1, <3>1, <3>2, <3>3 DEF calExpontenialValue
    <2>2. CASE x < 0
        <3>1. -x \in 0..RANGE
            BY <2>2
        <3>2. Curve(-x) \in 0..RANGE
            BY <3>1, CurveInRange DEF TrimInOrder
        <3>3. Curve(-x) * LowScale \in Nat
            BY <1>1, <3>2
        <3> QED BY <2>2, <3>1, <3>2, <3>3 DEF calExpontenialValue
    <2>3. CASE x = 0
        BY <2>3 DEF calExpontenialValue
    <2> QED BY <2>1, <2>2, <2>3
<1>3. CASE v > 0
    <2>1. w > 0
        BY <1>3
    <2>2. Curve(v) \in Nat /\ Curve(w) \in Nat /\ v \in 0..RANGE /\ w \in 0..RANGE
        BY <1>2, <1>3, <2>1
    <2>3. Curve(v) <= Curve(w)
        BY <2>2, CurveGrows DEF TrimInOrder
    <2>4. Curve(v) * HighScale <= Curve(w) * HighScale
        BY <1>1, <2>2, <2>3, ProductGrows
    <2> QED BY <1>1, <1>2, <1>3, <2>1, <2>4
<1>4. CASE w < 0
    <2>1. v < 0 /\ -w <= -v
        BY <1>4
    <2>2. Curve(-v) \in Nat /\ Curve(-w) \in Nat /\ -v \in 0..RANGE /\ -w \in 0..RANGE
        BY <1>2, <1>4, <2>1
    <2>3. Curve(-w) <= Curve(-v)
        BY <2>1, <2>2, CurveGrows DEF TrimInOrder
    <2>4. Curve(-w) * LowScale <= Curve(-v) * LowScale
        BY <1>1, <2>2, <2>3, ProductGrows
    <2> QED BY <1>1, <1>2, <1>4, <2>1, <2>4
<1>5. CASE v <= 0 /\ w >= 0
    <2>1. calExpontenialValue(v) <= middleValue * RANGE
        BY <1>1, <1>2, <1>5
    <2>2. middleValue * RANGE <= calExpontenialValue(w)
        BY <1>1, <1>2, <1>5
    <2>3. calExpontenialValue(v) \in Int /\ calExpontenialValue(w) \in Int
        BY <1>1, <1>2
    <2> QED BY <1>1, <2>1, <2>2, <2>3
<1> QED BY <1>3, <1>4, <1>5

\* Turning the sign of the middle changes nothing.
LEMMA ZeroNegated == \A x \in Int : x >= 0 /\ x <= 0 => -x \in Int /\ -x = 0
<1> TAKE x \in Int
<1>1. SUFFICES ASSUME x >= 0, x <= 0
               PROVE  -x = 0
    OBVIOUS
<1> DEFINE y == -x
<1>2. y \in Int /\ y >= 0 /\ y <= 0
    BY <1>1
<1> HIDE DEF y
<1>3. y = 0
    BY <1>2
<1> QED BY <1>3 DEF y

\* The pulse kept is that of the coordinate kept, so what holds of the curve holds
\* of the channel.
Kept == TrimInOrder /\ oldValue \in -RANGE..RANGE /\ ChannelValue = Result(oldValue)

\* KeepsResult: Kept holds in every reachable state.
THEOREM KeepsResult == Spec => []Kept
<1>1. Init => Kept
    <2> SUFFICES ASSUME Init
                 PROVE  Kept
        OBVIOUS
    <2>1. TrimInOrder
        BY PulsesAssumption DEF Init, TrimInOrder
    <2>2. 0 \in -RANGE..RANGE
        BY RangeAssumption
    <2>3. \A x \in Int : x = 0 => calExpontenialValue(x) = middleValue * RANGE
        BY DEF calExpontenialValue
    <2>4. oldValue = 0
        BY DEF Init
    <2>5. oldValue \in Int /\ -oldValue = 0
        <3>1. 0 \in Int /\ 0 >= 0 /\ 0 <= 0
            OBVIOUS
        <3> QED BY ZeroNegated, <2>4, <3>1, Zenon
    <2>6. Result(oldValue) = middleValue * RANGE
        BY <2>3, <2>4, <2>5 DEF Result
    <2> QED BY <2>1, <2>2, <2>4, <2>6 DEF Init, Kept
<1>2. Kept /\ [Next]_vars => Kept'
    <2> SUFFICES ASSUME Kept, [Next]_vars
                 PROVE  Kept'
        OBVIOUS
    <2>1. CASE UNCHANGED vars
        BY <2>1 DEF vars, setting, trim, TrimInOrder, Kept, Result, calExpontenialValue, Curve,
                    HighScale, LowScale
    <2>2. CASE Next
        <3>1. PICK coordinate \in Coordinates : calculateResult(coordinate)
            BY <2>2 DEF Next
        <3>2. TrimInOrder'
            BY <3>1 DEF calculateResult, setting, trim, TrimInOrder, Kept
        <3>3. Result(oldValue)' = Result(coordinate)
            BY <3>1 DEF calculateResult, setting, trim, Result, calExpontenialValue, Curve,
                        HighScale, LowScale
        <3> QED BY <3>1, <3>2, <3>3, CoordinatesAssumption DEF calculateResult, Kept
    <2> QED BY <2>1, <2>2
<1> QED BY <1>1, <1>2, PTL DEF Spec

\* What the setting page and the callers can give keeps its type, and so does the pulse.
THEOREM TypeCorrect == Spec => []TypeOK
<1>1. Kept => TypeOK
    <2> SUFFICES ASSUME Kept
                 PROVE  TypeOK
        OBVIOUS
    <2>1. minimunValue * RANGE <= ChannelValue /\ minimunValue * RANGE \in Nat
        <3>1. (IF Reverse THEN oldValue ELSE -oldValue) \in -RANGE..RANGE
            BY RangeAssumption DEF Kept
        <3>2. Within(ChannelValue)
            BY <3>1, ResultWithin DEF Kept, Result
        <3> QED BY <3>2, RangeAssumption DEF Within, Kept, TrimInOrder
    <2>2. ChannelValue \in Int
        <3>1. TrimInOrder /\ oldValue \in -RANGE..RANGE /\ -oldValue \in -RANGE..RANGE
            BY RangeAssumption DEF Kept
        <3>2. calExpontenialValue(oldValue) \in Int /\ calExpontenialValue(-oldValue) \in Int
            BY <3>1, PulseIsInt
        <3> QED BY <3>2 DEF Kept, Result
    <2>3. ChannelValue \in Nat
        BY <2>1, <2>2
    <2> QED BY <2>3 DEF Kept, TrimInOrder, TypeOK
<1> QED BY <1>1, KeepsResult, PTL

\* For every servo, range and curve: more steering is never answered with less.
THEOREM PulsesFollow == Spec => []Monotone
<1>1. Kept => Monotone
    <2> SUFFICES ASSUME Kept, NEW c \in Coordinates, c >= oldValue
                 PROVE  IF Reverse THEN Result(c) >= ChannelValue ELSE Result(c) <= ChannelValue
        BY DEF Monotone
    <2>1. /\ c \in -RANGE..RANGE /\ -c \in -RANGE..RANGE
          /\ oldValue \in -RANGE..RANGE /\ -oldValue \in -RANGE..RANGE
          /\ oldValue <= c /\ -c <= -oldValue
        BY RangeAssumption, CoordinatesAssumption DEF Kept
    <2>2. CASE Reverse
        <3>1. calExpontenialValue(oldValue) <= calExpontenialValue(c)
            BY <2>1, ResultGrows DEF Kept
        <3>2. calExpontenialValue(oldValue) \in Int /\ calExpontenialValue(c) \in Int
            BY <2>1, PulseIsInt DEF Kept
        <3> QED BY <2>2, <3>1, <3>2 DEF Result, Kept
    <2>3. CASE ~Reverse
        <3>1. calExpontenialValue(-c) <= calExpontenialValue(-oldValue)
            BY <2>1, ResultGrows DEF Kept
        <3>2. calExpontenialValue(-c) \in Int /\ calExpontenialValue(-oldValue) \in Int
            BY <2>1, PulseIsInt DEF Kept
        <3>3. Result(c) = calExpontenialValue(-c) /\ ChannelValue = calExpontenialValue(-oldValue)
            BY <2>3 DEF Result, Kept
        <3> QED BY <2>3, <3>1, <3>2, <3>3
    <2> QED BY <2>2, <2>3
<1> QED BY <1>1, KeepsResult, PTL

\* A full coordinate is the pulse the user set for that end, on every curve.
THEOREM EndsReached == Spec => []ReachesEnds
<1>1. Kept => ReachesEnds
    <2> SUFFICES ASSUME Kept
                 PROVE  ReachesEnds
        OBVIOUS
    <2>1. /\ calExpontenialValue(RANGE) = maximunValue * RANGE
          /\ calExpontenialValue(-RANGE) = minimunValue * RANGE
        BY ResultEnds DEF Kept
    <2>2. Pulse(maximunValue * RANGE) = maximunValue /\ Pulse(minimunValue * RANGE) = minimunValue
        BY RangeAssumption, QuotientOfProduct DEF Pulse, Kept, TrimInOrder
    <2>3. -(-RANGE) = RANGE
        BY RangeAssumption
    <2>4. CASE oldValue = RANGE /\ oldValue # -RANGE
        BY <2>1, <2>2, <2>4 DEF Result, Kept, ReachesEnds
    <2>5. CASE oldValue = -RANGE /\ oldValue # RANGE
        BY <2>1, <2>2, <2>3, <2>5 DEF Result, Kept, ReachesEnds
    <2>6. RANGE # -RANGE
        BY RangeAssumption
    <2> QED BY <2>4, <2>5, <2>6 DEF ReachesEnds
<1> QED BY <1>1, KeepsResult, PTL

\* The slow curves are nowhere faster than no curve, the fast ones nowhere slower.
THEOREM CurvesAsNamed == Spec => []CurveAsNamed
<1>1. Kept => CurveAsNamed
    <2> SUFFICES ASSUME Kept
                 PROVE  CurveAsNamed
        OBVIOUS
    <2> DEFINE value == IF Reverse THEN oldValue ELSE -oldValue
    <2>1. value \in -RANGE..RANGE /\ ChannelValue = calExpontenialValue(value)
        BY RangeAssumption DEF Kept, Result
    <2>2. /\ HighScale \in Nat /\ LowScale \in Nat /\ middleValue * RANGE \in Nat
          /\ ExpotentailSelect \in Curves
        BY RangeAssumption DEF Kept, TrimInOrder, HighScale, LowScale
    <2>3. Straight = IF value > 0 THEN value * HighScale ELSE -value * LowScale
        BY DEF Straight
    <2> HIDE DEF value
    <2>4. CASE value > 0
        <3>1. value \in 0..RANGE /\ value \in Nat
            BY RangeAssumption, <2>1, <2>4
        <3>2. Curve(value) \in Nat
            BY <2>2, <3>1, CurveInRange
        <3>3. Curve(value) * HighScale \in Nat
            BY <2>2, <3>2
        <3>4. Distance(ChannelValue) = Curve(value) * HighScale
            BY <2>1, <2>2, <2>4, <3>3 DEF Distance, calExpontenialValue
        <3>5. /\ Curve(value) <= value => Curve(value) * HighScale <= value * HighScale
              /\ Curve(value) >= value => Curve(value) * HighScale >= value * HighScale
            BY <2>2, <3>1, <3>2, <3>3, ProductGrows
        <3> QED BY <2>2, <2>3, <2>4, <3>1, <3>4, <3>5, CurveSide DEF CurveAsNamed
    <2>5. CASE value < 0
        <3>1. -value \in 0..RANGE /\ -value \in Nat
            BY RangeAssumption, <2>1, <2>5
        <3>2. Curve(-value) \in Nat
            BY <2>2, <3>1, CurveInRange
        <3>3. Curve(-value) * LowScale \in Nat
            BY <2>2, <3>2
        <3>4. Distance(ChannelValue) = Curve(-value) * LowScale
            BY <2>1, <2>2, <2>5, <3>3 DEF Distance, calExpontenialValue
        <3>5. /\ Curve(-value) <= -value => Curve(-value) * LowScale <= (-value) * LowScale
              /\ Curve(-value) >= -value => Curve(-value) * LowScale >= (-value) * LowScale
            BY <2>2, <3>1, <3>2, <3>3, ProductGrows
        <3>6. Straight = (-value) * LowScale
            BY <2>1, <2>2, <2>3, <2>5
        <3> QED BY <2>2, <3>1, <3>4, <3>5, <3>6, CurveSide DEF CurveAsNamed
    <2>6. CASE value = 0
        <3>1. ChannelValue = middleValue * RANGE
            BY <2>1, <2>6 DEF calExpontenialValue
        <3>2. Distance(ChannelValue) = 0
            BY <2>2, <3>1 DEF Distance
        <3>3. Straight = 0
            BY <2>2, <2>3, <2>6
        <3> QED BY <3>2, <3>3 DEF CurveAsNamed
    <2> QED BY <2>1, <2>4, <2>5, <2>6, RangeAssumption
<1> QED BY <1>1, KeepsResult, PTL
=============================================================================
