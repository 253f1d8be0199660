----------------------- MODULE ExpressionValueProofs ------------------------
(* get<T>() of Expression.h is sound for every set of types, payloads and *)
(* names: it hands back a value only from a literal of type T, and then   *)
(* the one encoded in it.                                                 *)
EXTENDS ExpressionValue, SequenceTheorems, TLAPS

USE ExpressionAssumption

(* A payload that the reader of type t accepts is the encoding of a value *)
(* of type t.                                                             *)
LEMMA DecodesEnc ==
  ASSUME NEW t \in Types, NEW lit \in Binaries, Decodes(t, lit)
  PROVE  /\ Decoded(lit) \in Payload[t]
         /\ lit = Enc(t, Decoded(lit))
<1>1. PICK u \in Types : \E x \in Payload[u] : lit = Enc(u, x)
  <2>1. lit # <<>> /\ lit # Garbage
    BY DEF Decodes
  <2> QED
    BY <2>1 DEF Binaries
<1>2. PICK x \in Payload[u] : lit = Enc(u, x)
  BY <1>1
<1>3. u = t
  BY <1>2 DEF Decodes, Enc
<1> QED
  BY <1>2, <1>3 DEF Decoded, Enc

(* A thrown exception is never a returned value.                          *)
LEMMA ThrownNotReturned == Thrown \cap Returned = {}
BY DEF Thrown, Throw, Returned

(* What get<T>() produces on a Value of Values.                           *)
LEMMA GetResultType ==
  ASSUME NEW v \in Values, NEW t \in Types
  PROVE  GetResult(v, t) \in Returned \cup Thrown
<1>1. CASE t = v.type /\ ~IsReference(v) /\ Decodes(t, v.literal)
  <2>1. Decoded(v.literal) \in Payload[t]
    BY <1>1, DecodesEnc DEF Values
  <2> QED
    BY <1>1, <2>1 DEF GetResult, Returned
<1>2. CASE ~(t = v.type /\ ~IsReference(v) /\ Decodes(t, v.literal))
  BY <1>2 DEF GetResult, Thrown
<1> QED
  BY <1>1, <1>2

(* The pieces the custom formatter writes.                                *)
LEMMA FormatValueType ==
  ASSUME NEW v \in Values
  PROVE  FormatValue(v) \in
           Seq([obj : UNION {Payload[t] : t \in Types}] \cup
               [fieldName : Names \cup {Empty}, type : {Hex(<<t>>) : t \in Types \cup NullTypes},
                literal : {Hex(s) : s \in {<<>>, <<"REFERENCE">>, <<"!!!EXCEPTION!!!">>}}])
<1> DEFINE Obj == [obj : UNION {Payload[t] : t \in Types}]
           Rec == [fieldName : Names \cup {Empty}, type : {Hex(<<t>>) : t \in Types \cup NullTypes},
                   literal : {Hex(s) : s \in {<<>>, <<"REFERENCE">>, <<"!!!EXCEPTION!!!">>}}]
<1>1. [fieldName |-> v.fieldName, type |-> Hex(<<v.type>>),
       literal |-> Hex(LitText(v))] \in Rec
  BY DEF Values, LitText
<1>2. Printed(v) /\ Decodes(v.type, v.literal) => [obj |-> Decoded(v.literal)] \in Obj
  BY DecodesEnc DEF Printed, Values
<1>3. (IF Printed(v) /\ Decodes(v.type, v.literal)
        THEN <<[obj |-> Decoded(v.literal)]>> ELSE <<>>) \in Seq(Obj \cup Rec)
  <2>1. CASE Printed(v) /\ Decodes(v.type, v.literal)
    <3>1. [obj |-> Decoded(v.literal)] \in Obj \cup Rec
      BY <1>2, <2>1
    <3> QED
      BY <2>1, <3>1
  <2>2. CASE ~(Printed(v) /\ Decodes(v.type, v.literal))
    <3>1. << >> \in Seq(Obj \cup Rec)
      BY EmptySeq
    <3> QED
      BY <2>2, <3>1
  <2> QED
    BY <2>1, <2>2
<1>4. <<[fieldName |-> v.fieldName, type |-> Hex(<<v.type>>),
        literal |-> Hex(LitText(v))]>> \in Seq(Obj \cup Rec)
  BY <1>1
<1> QED
  BY <1>3, <1>4, ConcatProperties DEF FormatValue

LEMMA TypeOKInit == Init => TypeOK
BY DEF Init, TypeOK, Values, Binaries

LEMMA TypeOKNext == TypeOK /\ [Next]_vars => TypeOK'
<1> SUFFICES ASSUME TypeOK, [Next]_vars PROVE TypeOK'
  OBVIOUS
<1>1. ASSUME NEW t \in Types, NEW x \in Payload[t], MakeValueLiteral(t, x)
      PROVE  TypeOK'
  <2>1. CASE x = NaN
    BY <1>1, <2>1 DEF MakeValueLiteral, TypeOK, Thrown
  <2>2. CASE x # NaN
    <3>1. Enc(t, x) \in Binaries
      BY DEF Binaries
    <3> QED
      BY <1>1, <2>2, <3>1 DEF MakeValueLiteral, TypeOK, Values
  <2> QED
    BY <2>1, <2>2
<1>2. ASSUME NEW t \in Types, Get(t) PROVE TypeOK'
  BY <1>2, GetResultType DEF Get, TypeOK
<1>3. ASSUME NEW n \in Names \cup {Empty}, MakeValueReference(n) PROVE TypeOK'
  BY <1>3 DEF MakeValueReference, TypeOK, Values, Binaries
<1>4. ASSUME NEW v \in Values, Receive(v) PROVE TypeOK'
  BY <1>4 DEF Receive, TypeOK
<1>5. CASE Format
  BY <1>5, FormatValueType DEF Format, TypeOK
<1>6. CASE UNCHANGED vars
  BY <1>6 DEF vars, TypeOK
<1> QED
  BY <1>1, <1>2, <1>3, <1>4, <1>5, <1>6 DEF Next

(* Every Value the client holds, built or received, and every result and *)
(* log text, is of the types declared in TypeOK, for any constants.       *)
THEOREM TypeCorrect == Spec => []TypeOK
BY TypeOKInit, TypeOKNext, PTL DEF Spec

(* get<T>() hands back a payload only from a literal of type T, and then  *)
(* exactly the value encoded in it, for any types and payloads: a field   *)
(* reference received with a type and a payload never yields one         *)
(* (Value::get, the order of its three checks).                           *)
THEOREM GetIsSound == Spec => GetSound
<1>1. TypeOK /\ [Next]_vars =>
        [\A t \in Types : Get(t) /\ result' \in Returned =>
           /\ ~IsReference(val)
           /\ val.type = t
           /\ val.literal = Enc(t, result'.ret)]_vars
  <2> SUFFICES ASSUME TypeOK, NEW t \in Types, Get(t), result' \in Returned
               PROVE  /\ ~IsReference(val)
                      /\ val.type = t
                      /\ val.literal = Enc(t, result'.ret)
    OBVIOUS
  <2>1. t = val.type /\ ~IsReference(val) /\ Decodes(t, val.literal)
    <3>1. result' = GetResult(val, t)
      BY DEF Get
    <3>2. ~(t = val.type /\ ~IsReference(val) /\ Decodes(t, val.literal))
            => result' \in Thrown
      BY <3>1 DEF GetResult, Thrown
    <3> QED
      BY <3>2, ThrownNotReturned
  <2>2. result'.ret = Decoded(val.literal)
    BY <2>1 DEF Get, GetResult
  <2> QED
    BY <2>1, <2>2, DecodesEnc DEF TypeOK, Values
<1> QED
  BY <1>1, TypeCorrect, PTL DEF Spec, GetSound
=============================================================================
