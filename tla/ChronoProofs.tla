---------------------------- MODULE ChronoProofs -----------------------------
(* toTimestamp_ts splits every time point exactly: the proof of           *)
(* TimestampExact for any radices and field widths in which each radix    *)
(* fits its field, as those of Timestamp_ts do (1000 < 2^16, 60 < 2^8,    *)
(* 24 < 2^8).                                                              *)
EXTENDS Chrono, TLAPS

USE ChronoAssumption

(* ldiv and div of a non-negative dividend: the quotient is a natural and *)
(* the remainder is the Euclidean one.                                    *)
LEMMA DivStep ==
  ASSUME NEW a \in Nat, NEW b \in Nat \ {0}
  PROVE  /\ CQuot(a, b) \in Nat
         /\ CRem(a, b) \in 0..(b - 1)
         /\ a = CRem(a, b) + b * CQuot(a, b)
<1>1. CQuot(a, b) = a \div b
  BY DEF CQuot
<1>2. a \div b \in Nat /\ a - b * (a \div b) \in 0..(b - 1)
  BY SMT
<1> QED
  BY <1>1, <1>2 DEF CRem

(* A cast to a field wide enough for the value keeps the value.          *)
LEMMA CastSmall ==
  ASSUME NEW x \in Nat, NEW w, 2 ^ w \in Nat \ {0}, x < 2 ^ w
  PROVE  Cast(x, w) = x
<1> DEFINE M == 2 ^ w
<1>1. x % M = x
  BY SMT
<1> QED
  BY <1>1 DEF Cast

(* x % M is r when x is r plus a multiple of M and 0 <= r < M.           *)
LEMMA ModOfSplit ==
  ASSUME NEW x \in Int, NEW M \in Nat \ {0}, NEW r \in 0..(M - 1), NEW k \in Int,
         x = r + M * k
  PROVE  x % M = r
BY SMT

(* A digit below R followed by a number below A is below R * A.           *)
LEMMA DigitBound ==
  ASSUME NEW R \in Nat \ {0}, NEW A \in Nat \ {0}, NEW m \in 0..(R - 1),
         NEW s \in 0..(A - 1)
  PROVE  m + R * s \in 0..(R * A - 1)
BY SMT

(* The place values of the split: the products of the radices below.     *)
LEMMA UnitValues ==
  /\ Unit[1] = 1
  /\ Unit[2] = Radix[1]
  /\ Unit[3] = Radix[1] * Radix[2]
  /\ Unit[4] = Radix[1] * Radix[2] * Radix[3]
  /\ Unit[5] = Radix[1] * Radix[2] * Radix[3] * Radix[4]
  /\ Unit[6] = Radix[1] * Radix[2] * Radix[3] * Radix[4] * Radix[5]
<1> DEFINE U(f) == [i \in 1..6 |-> IF i = 1 THEN 1 ELSE f[i - 1] * Radix[i - 1]]
           g == [i \in 1..6 |->
                   IF i = 1 THEN 1
                   ELSE IF i = 2 THEN Radix[1]
                   ELSE IF i = 3 THEN Radix[1] * Radix[2]
                   ELSE IF i = 4 THEN Radix[1] * Radix[2] * Radix[3]
                   ELSE IF i = 5 THEN Radix[1] * Radix[2] * Radix[3] * Radix[4]
                   ELSE Radix[1] * Radix[2] * Radix[3] * Radix[4] * Radix[5]]
<1>1. g = U(g)
  BY SMT
<1>2. Unit = U(Unit)
  BY <1>1 DEF Unit
<1>3. \A f : f = U(f) => f = g
  <2> SUFFICES ASSUME NEW f, f = U(f) PROVE f = g
    OBVIOUS
  <2>1. f[1] = 1 BY SMT
  <2>2. f[2] = Radix[1] BY <2>1, SMT
  <2>3. f[3] = Radix[1] * Radix[2] BY <2>2, SMT
  <2>4. f[4] = Radix[1] * Radix[2] * Radix[3] BY <2>3, SMT
  <2>5. f[5] = Radix[1] * Radix[2] * Radix[3] * Radix[4] BY <2>4, SMT
  <2>6. f[6] = Radix[1] * Radix[2] * Radix[3] * Radix[4] * Radix[5] BY <2>5, SMT
  <2> QED
    BY <2>1, <2>2, <2>3, <2>4, <2>5, <2>6, SMT
<1> QED
  BY <1>2, <1>3
(* The split of a non-negative time point is exact.                       *)
LEMMA SplitExact ==
  ASSUME FieldsFit, now \in Nat
  PROVE  TimestampExact
<1> DEFINE R1 == Radix[1]  R2 == Radix[2]  R3 == Radix[3]
           R4 == Radix[4]  R5 == Radix[5]  P == 2 ^ Width[6]
           q1 == CQuot(now, R1)  q2 == CQuot(q1, R2)  q3 == CQuot(q2, R3)
           q4 == CQuot(q3, R4)   d == CQuot(q4, R5)
           m1 == CRem(now, R1)  m2 == CRem(q1, R2)  m3 == CRem(q2, R3)
           m4 == CRem(q3, R4)   m5 == CRem(q4, R5)
<1>0. /\ R1 \in Nat \ {0} /\ R2 \in Nat \ {0} /\ R3 \in Nat \ {0}
      /\ R4 \in Nat \ {0} /\ R5 \in Nat \ {0} /\ P \in Nat \ {0}
  BY DEF FieldsFit
<1>1. /\ q1 \in Nat /\ m1 \in 0..(R1 - 1) /\ now = m1 + R1 * q1
      /\ q2 \in Nat /\ m2 \in 0..(R2 - 1) /\ q1 = m2 + R2 * q2
      /\ q3 \in Nat /\ m3 \in 0..(R3 - 1) /\ q2 = m3 + R3 * q3
      /\ q4 \in Nat /\ m4 \in 0..(R4 - 1) /\ q3 = m4 + R4 * q4
      /\ d \in Nat  /\ m5 \in 0..(R5 - 1) /\ q4 = m5 + R5 * d
  BY <1>0, DivStep
<1>2. /\ Cast(m1, Width[1]) = m1 /\ Cast(m2, Width[2]) = m2
      /\ Cast(m3, Width[3]) = m3 /\ Cast(m4, Width[4]) = m4
      /\ Cast(m5, Width[5]) = m5
  <2>1. \A i \in 1..5 : 2 ^ Width[i] \in Nat \ {0} /\ Radix[i] <= 2 ^ Width[i]
    BY DEF FieldsFit
  <2> QED
    BY <1>1, <2>1, CastSmall
<1>3. toTimestamp_ts(now) = [micros |-> m1, millis |-> m2, secs |-> m3,
                             mins |-> m4, hours |-> m5, days |-> Cast(d, Width[6])]
  BY <1>2 DEF toTimestamp_ts
(* From here on the digits and quotients are plain numbers.               *)
<1>4. PICK x1, x2, x3, x4, x5, y1, y2, y3, y4, z :
        x1 = m1 /\ x2 = m2 /\ x3 = m3 /\ x4 = m4 /\ x5 = m5
        /\ y1 = q1 /\ y2 = q2 /\ y3 = q3 /\ y4 = q4 /\ z = d
  OBVIOUS
<1>5. /\ y1 \in Nat /\ x1 \in 0..(R1 - 1) /\ now = x1 + R1 * y1
      /\ y2 \in Nat /\ x2 \in 0..(R2 - 1) /\ y1 = x2 + R2 * y2
      /\ y3 \in Nat /\ x3 \in 0..(R3 - 1) /\ y2 = x3 + R3 * y3
      /\ y4 \in Nat /\ x4 \in 0..(R4 - 1) /\ y3 = x4 + R4 * y4
      /\ z \in Nat  /\ x5 \in 0..(R5 - 1) /\ y4 = x5 + R5 * z
  BY <1>1, <1>4, Zenon
<1>6. PICK p \in Nat \ {0} : p = P
  BY <1>0
<1>7. PICK dm \in 0..(p - 1), dq \in Nat : Cast(z, Width[6]) = dm /\ z = dm + p * dq
  <2>1. /\ z % p \in 0..(p - 1) /\ z \div p \in Nat
        /\ z = (z % p) + p * (z \div p)
    <3>1. z \in Nat /\ p \in Nat \ {0}
      BY <1>5, <1>6
    <3>2. z % p = z - p * (z \div p)
      BY <3>1, SMT
    <3>3. z - p * (z \div p) \in 0..(p - 1) /\ z \div p \in Nat
      BY <3>1, SMT
    <3> QED
      BY <3>1, <3>2, <3>3
  <2>2. Cast(z, Width[6]) = z % p
    BY <1>6 DEF Cast
  <2> QED
    BY <2>1, <2>2, Zenon
<1>8. PICK b5 \in Nat \ {0} : b5 = R1 * R2 * R3 * R4
  BY <1>0
<1>9. PICK u \in Nat \ {0} : u = b5 * R5
  BY <1>0, <1>8
<1>10. /\ Unit[1] = 1 /\ Unit[2] = R1 /\ Unit[3] = R1 * R2
       /\ Unit[4] = R1 * R2 * R3 /\ Unit[5] = b5 /\ Unit[6] = u
  BY <1>8, <1>9, UnitValues
<1> DEFINE S == x1 + x2 * R1 + x3 * (R1 * R2) + x4 * (R1 * R2 * R3) + x5 * b5
           C == S + dm * u
<1>11. S \in 0..(u - 1)
  <2>1. PICK a45 \in Nat \ {0} : a45 = R4 * R5
    BY <1>0
  <2>2. PICK a35 \in Nat \ {0} : a35 = R3 * a45
    BY <1>0, <2>1
  <2>3. PICK a25 \in Nat \ {0} : a25 = R2 * a35
    BY <1>0, <2>2
  <2>4. x4 + R4 * x5 \in 0..(a45 - 1)
    BY <1>0, <1>5, <2>1, DigitBound
  <2>5. x3 + R3 * (x4 + R4 * x5) \in 0..(a35 - 1)
    BY <1>0, <1>5, <2>2, <2>4, DigitBound
  <2>6. x2 + R2 * (x3 + R3 * (x4 + R4 * x5)) \in 0..(a25 - 1)
    BY <1>0, <1>5, <2>3, <2>5, DigitBound
  <2>7. x1 + R1 * (x2 + R2 * (x3 + R3 * (x4 + R4 * x5))) \in 0..(R1 * a25 - 1)
    BY <1>0, <1>5, <2>6, DigitBound
  <2>8. u = R1 * a25
    BY <1>8, <1>9, <2>1, <2>2, <2>3
  <2>9. S = x1 + R1 * (x2 + R2 * (x3 + R3 * (x4 + R4 * x5)))
    BY <1>0, <1>5, <1>8
  <2> QED
    BY <2>7, <2>8, <2>9
<1>12. now = S + u * z
  BY <1>5, <1>8, <1>9
<1>13. PICK up \in Nat \ {0} : up = u * p
  BY <1>6, <1>9
<1>14. C \in 0..(up - 1)
  BY <1>7, <1>11, <1>13, DigitBound
<1>15. now = C + up * dq
  BY <1>0, <1>5, <1>7, <1>8, <1>9, <1>12, <1>13
<1>16. now % up = C
  <2>1. PICK c \in 0..(up - 1) : c = C
    BY <1>14
  <2>2. now = c + up * dq
    BY <1>15, <2>1
  <2>3. now \in Int /\ dq \in Int /\ up \in Nat \ {0} /\ c \in 0..(up - 1)
    BY <1>7, <1>13, <2>1
  <2>4. now % up = c
    BY <2>2, <2>3, ModOfSplit, Zenon
  <2> QED
    BY <2>1, <2>4
<1>17. toTimestamp_ts(now) = [micros |-> x1, millis |-> x2, secs |-> x3,
                              mins |-> x4, hours |-> x5, days |-> dm]
  BY <1>3, <1>4, <1>7
<1>18. Compose(toTimestamp_ts(now)) = C
  <2>1. Compose(toTimestamp_ts(now)) =
          x1 * 1 + x2 * R1 + x3 * (R1 * R2) + x4 * (R1 * R2 * R3) + x5 * b5 + dm * u
    BY <1>10, <1>17 DEF Compose
  <2> QED
    BY <1>0, <1>5, <1>7, <1>8, <1>9, <2>1
<1>19. Unit[6] * 2 ^ Width[6] = up
  BY <1>6, <1>10, <1>13
<1> QED
  BY <1>5, <1>16, <1>17, <1>18, <1>19 DEF TimestampExact
LEMMA TypeOKInductive ==
  ASSUME MinTime = 0
  PROVE  /\ Init => TypeOK
         /\ TypeOK /\ [Next]_vars => TypeOK'
<1>1. Init => TypeOK
  BY DEF Init, TypeOK
<1>2. TypeOK /\ [Next]_vars => TypeOK'
  BY DEF TypeOK, Next, Tick, Reboot, vars
<1> QED
  BY <1>1, <1>2

(* Every log line's timestamp, taken from a steady clock that starts at   *)
(* zero and may be reset by a reboot, is the exact split of the time      *)
(* point: micros, millis, secs, mins and hours are below their radices    *)
(* and all fields add back to the time modulo the span of the days field *)
(* (toTimestamp_ts, the ldiv/div chain and the narrowing casts of its     *)
(* return statement), for any radices whose fields fit them.             *)
THEOREM TimestampsExact ==
  ASSUME MinTime = 0, FieldsFit
  PROVE  Spec => []TimestampExact
<1>1. Init => TypeOK
  BY TypeOKInductive
<1>2. TypeOK /\ [Next]_vars => TypeOK'
  BY TypeOKInductive
<1>3. TypeOK => TimestampExact
  <2> SUFFICES ASSUME TypeOK PROVE TimestampExact
    OBVIOUS
  <2>1. now \in Nat
    BY DEF TypeOK
  <2> QED
    BY <2>1, SplitExact
<1> QED
  BY <1>1, <1>2, <1>3, PTL DEF Spec
=============================================================================
