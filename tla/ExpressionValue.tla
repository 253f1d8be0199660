--------------------------- MODULE ExpressionValue ----------------------------
(***************************************************************************)
(* The Value of the SKV expression model (Expression.h): a field reference *)
(* or a typed literal whose payload is an MPack-encoded Binary.  A client  *)
(* holds one Value, built by makeValueLiteral or makeValueReference or     *)
(* deserialized from a request (K2_SERIALIZABLE), reads it with get<T>()   *)
(* and formats it for a log line.  FieldTypes.h, MPack and HexCodec are    *)
(* not part of this header: an encoded payload is the pair of its type and *)
(* value, a reader accepts exactly the encodings of its own type, and hex  *)
(* encoding is an injective tag.                                           *)
(***************************************************************************)
EXTENDS Sequences

CONSTANTS
  Names,      \* non-empty field names
  Empty,      \* the empty String
  Types,      \* FieldTypes a C++ type T maps to (TToFieldType<T>)
  NullTypes,  \* NULL_T, NOT_KNOWN and NULL_LAST
  NotKnown,   \* FieldType::NOT_KNOWN, the default of Value::type
  Payload,    \* Payload[t]: the values of type t in the model
  NaN,        \* a floating-point NaN (a member of some Payload[t])
  Garbage,    \* bytes no MPack reader accepts
  None        \* no get<T>() has been called yet

ASSUME ExpressionAssumption ==
  /\ NotKnown \in NullTypes /\ Types \cap NullTypes = {}
  /\ Empty \notin Names
  /\ DOMAIN Payload = Types

VARIABLES
  val,      \* the Value the client holds
  result,   \* what the last get<T>() returned or threw
  out       \* what the last format call wrote to ctx.out()

vars == <<val, result, out>>

-----------------------------------------------------------------------------
(* MPackWriter::write then flush; MPackReader::read.                        *)
Enc(t, x) == <<t, x>>
Binaries == {<<>>, Garbage} \cup UNION {{Enc(t, x) : x \in Payload[t]} : t \in Types}
Decodes(t, lit) == lit # Garbage /\ Len(lit) = 2 /\ lit[1] = t
Decoded(lit) == lit[2]

(* skv::http::HexCodec::encode.                                            *)
Hex(s) == [hex |-> s]

Values == [fieldName : Names \cup {Empty}, type : Types \cup NullTypes,
           literal : Binaries]

(* Value::isReference.                                                      *)
IsReference(v) == v.fieldName # Empty

Returned == [ret : UNION {Payload[t] : t \in Types}]
Throw(e) == [thrown |-> e]
Thrown == {Throw(e) : e \in {"TypeMismatchException", "DeserializationError", "NaNError"}}

(* Mutant: get<T>() does not refuse a field reference.                    *)
GetResultNoRefCheck(v, t) ==
  IF t # v.type THEN Throw("TypeMismatchException")
  ELSE IF Decodes(t, v.literal) THEN [ret |-> Decoded(v.literal)]
  ELSE Throw("DeserializationError")

(* Value::get<T>(): the type is checked first, then that the value is a   *)
(* literal, then that its payload deserializes.                            *)
GetResult(v, t) ==
  IF t # v.type THEN Throw("TypeMismatchException")
  ELSE IF IsReference(v) THEN Throw("DeserializationError")
  ELSE IF Decodes(t, v.literal) THEN [ret |-> Decoded(v.literal)]
  ELSE Throw("DeserializationError")

(* The custom formatter: a literal of a non-null type is read with get<T> *)
(* inside applyTyped, whose lambda formats the object to ctx.out(); a      *)
(* failure is caught and its text goes to lit.  Then the braced record is *)
(* written with the hex of the type's and of lit's text.                  *)
Printed(v) == ~IsReference(v) /\ v.type \notin NullTypes
LitText(v) ==
  IF IsReference(v) THEN <<"REFERENCE">>
  ELSE IF Printed(v) /\ ~Decodes(v.type, v.literal) THEN <<"!!!EXCEPTION!!!">>
  ELSE <<>>

(* Mutant: the type field is written without hex encoding.               *)
FormatValueRawType(v) ==
  (IF Printed(v) /\ Decodes(v.type, v.literal)
     THEN <<[obj |-> Decoded(v.literal)]>> ELSE <<>>)
  \o <<[fieldName |-> v.fieldName, type |-> v.type,
        literal |-> Hex(LitText(v))]>>
FormatValue(v) ==
  (IF Printed(v) /\ Decodes(v.type, v.literal)
     THEN <<[obj |-> Decoded(v.literal)]>> ELSE <<>>)
  \o <<[fieldName |-> v.fieldName, type |-> Hex(<<v.type>>),
        literal |-> Hex(LitText(v))]>>

-----------------------------------------------------------------------------
TypeOK ==
  /\ val \in Values
  /\ result \in Returned \cup Thrown \cup {None}
  /\ out \in Seq([obj : UNION {Payload[t] : t \in Types}] \cup
                 [fieldName : Names \cup {Empty}, type : {Hex(<<t>>) : t \in Types \cup NullTypes},
                  literal : {Hex(s) : s \in {<<>>, <<"REFERENCE">>, <<"!!!EXCEPTION!!!">>}}])

(* Value{}: no name, NOT_KNOWN, an empty payload.                          *)
Init ==
  /\ val = [fieldName |-> Empty, type |-> NotKnown, literal |-> <<>>]
  /\ result = None
  /\ out = <<>>

(* makeValueLiteral<T>(x): NaN is refused, anything else is encoded.       *)
MakeValueLiteral(t, x) ==
  IF x = NaN
    THEN /\ result' = Throw("NaNError")
         /\ UNCHANGED <<val, out>>
    ELSE /\ val' = [fieldName |-> Empty, type |-> t, literal |-> Enc(t, x)]
         /\ UNCHANGED <<result, out>>

(* makeValueReference(fieldName).                                          *)
MakeValueReference(n) ==
  /\ val' = [fieldName |-> n, type |-> NotKnown, literal |-> <<>>]
  /\ UNCHANGED <<result, out>>

(* A Value deserialized from a request: any combination of its fields.    *)
Receive(v) ==
  /\ val' = v
  /\ UNCHANGED <<result, out>>

(* get<T>() for a T of field type t.                                       *)
Get(t) ==
  /\ result' = GetResult(val, t)
  /\ UNCHANGED <<val, out>>

(* fmt::format("{}", value).                                                *)
Format ==
  /\ out' = FormatValue(val)
  /\ UNCHANGED <<val, result>>

Next ==
  \/ \E t \in Types : (\E x \in Payload[t] : MakeValueLiteral(t, x)) \/ Get(t)
  \/ \E n \in Names \cup {Empty} : MakeValueReference(n)
  \/ \E v \in Values : Receive(v)
  \/ Format

Spec == Init /\ [][Next]_vars

-----------------------------------------------------------------------------
(* get<T>() hands back a payload only from a literal of type T, and then  *)
(* exactly the value encoded in it: a field reference, even one that came *)
(* off the wire with a type and a decodable payload, never yields one.    *)
GetSound ==
  [][\A t \in Types : Get(t) /\ result' \in Returned =>
       /\ ~IsReference(val)
       /\ val.type = t
       /\ val.literal = Enc(t, result'.ret)]_vars

(* Formatting a Value writes one braced record, and for a readable        *)
(* literal its literal field carries the value (the custom formatter reads *)
(* the object only for its literal field; only for the null types does it *)
(* rely on the type field alone).                                          *)
FormatShowsLiteral ==
  [][Format =>
       /\ Len(out') = 1
       /\ Printed(val) /\ Decodes(val.type, val.literal) =>
            out'[1].literal = Hex(<<Decoded(val.literal)>>)]_vars
=============================================================================
