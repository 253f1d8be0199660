------------------------------- MODULE Chrono --------------------------------
(***************************************************************************)
(* The toTimestamp_ts helper of Chrono.h over a steady clock: the split  *)
(* of a time point into the fields every log line prints.  The clock     *)
(* counts microseconds; the radices of the split and the widths of the   *)
(* Timestamp_ts fields are constants, so that a small instance can reach *)
(* the point where the days field wraps.  The Duration formatters print  *)
(* TimePoint{} + dur through the same helper, so its argument may also   *)
(* be negative (MinTime < 0).                                              *)
(***************************************************************************)
EXTENDS Integers

CONSTANTS
  MinTime,    \* least argument: 0 for time points, < 0 for durations
  MaxTime,    \* bound on the clock
  Radix,      \* <<us per ms, ms per s, s per min, min per h, h per day>>
  Width       \* bits of <<micros, millis, secs, mins, hours, days>>

ASSUME ChronoAssumption ==
  /\ MinTime \in Int /\ MaxTime \in Nat /\ MinTime <= 0
  /\ Radix \in [1..5 -> Nat \ {0}]
  /\ Width \in [1..6 -> Nat]

(* Each radix fits the field that holds its digit, as in Timestamp_ts    *)
(* (1000 < 2^16, 60 < 2^8, 24 < 2^8); the span 2^w of each field is a      *)
(* positive natural (a fact the provers cannot derive for a symbolic w).  *)
FieldsFit ==
  /\ \A i \in 1..6 : 2 ^ Width[i] \in Nat \ {0}
  /\ \A i \in 1..5 : Radix[i] <= 2 ^ Width[i]

(* A C cast to an unsigned integer of w bits.                             *)
Cast(x, w) == x % (2 ^ w)

(* std::ldiv and std::div: the quotient is truncated toward zero and the *)
(* remainder has the sign of the dividend.                                *)
CQuot(a, b) == IF a >= 0 THEN a \div b ELSE -((-a) \div b)
CRem(a, b) == a - b * CQuot(a, b)

(* Mutant: the millis field is taken from the wrong quotient.            *)
toTimestamp_tsMillisSkew(now) ==
  LET q1 == CQuot(now, Radix[1])
      q2 == CQuot(q1, Radix[2])
      q3 == CQuot(q2, Radix[3])
      q4 == CQuot(q3, Radix[4])
  IN  [micros |-> Cast(CRem(now, Radix[1]), Width[1]),
       millis |-> Cast(CRem(q2, Radix[2]), Width[2]),
       secs   |-> Cast(CRem(q2, Radix[3]), Width[3]),
       mins   |-> Cast(CRem(q3, Radix[4]), Width[4]),
       hours  |-> Cast(CRem(q4, Radix[5]), Width[5]),
       days   |-> Cast(CQuot(q4, Radix[5]), Width[6])]

(* toTimestamp_ts: successive ldiv/div by the radices, then each field is *)
(* cast to the width of its Timestamp_ts member.                          *)
toTimestamp_ts(now) ==
  LET q1 == CQuot(now, Radix[1])
      q2 == CQuot(q1, Radix[2])
      q3 == CQuot(q2, Radix[3])
      q4 == CQuot(q3, Radix[4])
  IN  [micros |-> Cast(CRem(now, Radix[1]), Width[1]),
       millis |-> Cast(CRem(q1, Radix[2]), Width[2]),
       secs   |-> Cast(CRem(q2, Radix[3]), Width[3]),
       mins   |-> Cast(CRem(q3, Radix[4]), Width[4]),
       hours  |-> Cast(CRem(q4, Radix[5]), Width[5]),
       days   |-> Cast(CQuot(q4, Radix[5]), Width[6])]

VARIABLE now   \* the time point or duration formatted, in microseconds

vars == <<now>>

TypeOK == now \in MinTime..MaxTime

Init == now = MinTime

(* The steady clock advances.                                            *)
Tick ==
  /\ now < MaxTime
  /\ now' = now + 1

(* The steady clock's epoch is the boot: a restart of the host sets it    *)
(* back.                                                                  *)
Reboot ==
  /\ now > MinTime
  /\ now' = MinTime

Next == Tick \/ Reboot

Spec == Init /\ [][Next]_vars

-----------------------------------------------------------------------------
(* Reference for toTimestamp_ts: the fields are the mixed-radix digits of *)
(* the time point, each within its radix, and they add back up to it      *)
(* modulo the span the days field can count.                             *)
Unit[i \in 1..6] == IF i = 1 THEN 1 ELSE Unit[i - 1] * Radix[i - 1]

Compose(ts) ==
  ts.micros * Unit[1] + ts.millis * Unit[2] + ts.secs * Unit[3]
    + ts.mins * Unit[4] + ts.hours * Unit[5] + ts.days * Unit[6]

(* The log line's timestamp of the current clock value is its exact       *)
(* mixed-radix split: every field is below its radix and the fields add   *)
(* back to the time modulo what the days field can hold (toTimestamp_ts,  *)
(* the narrowing casts of its return statement included).                 *)
TimestampExact ==
  LET ts == toTimestamp_ts(now) IN
  /\ ts.micros < Radix[1] /\ ts.millis < Radix[2] /\ ts.secs < Radix[3]
  /\ ts.mins < Radix[4] /\ ts.hours < Radix[5]
  /\ Compose(ts) = now % (Unit[6] * 2 ^ Width[6])

=============================================================================
