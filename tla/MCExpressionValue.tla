-------------------------- MODULE MCExpressionValue ---------------------------
(* Model-checking instance of ExpressionValue: one field name, an integer  *)
(* and a floating-point type (with a NaN), two of the null types.          *)
EXTENDS ExpressionValue, TLC

CONSTANTS f1, INT32, FLOAT, NULL_T, NOT_KNOWN

MCPayload == (INT32 :> {1}) @@ (FLOAT :> {2, NaN})
=============================================================================
