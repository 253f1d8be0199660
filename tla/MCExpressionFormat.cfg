\* Is a formatted literal Value one record that carries its value?
CONSTANTS
  f1 = f1
  INT32 = INT32
  FLOAT = FLOAT
  NULL_T = NULL_T
  NOT_KNOWN = NOT_KNOWN
  Names = {f1}
  Empty = Empty
  Types = {INT32, FLOAT}
  NullTypes = {NULL_T, NOT_KNOWN}
  NotKnown = NOT_KNOWN
  Payload <- MCPayload
  NaN = NaN
  Garbage = Garbage
  None = None
SPECIFICATION Spec
PROPERTIES
  FormatShowsLiteral
