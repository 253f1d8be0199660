CONSTANTS
  Radix <- MCRadix
  Width <- MCWidth
  MaxTime <- MCMaxTime
  MinTime <- MCMinTime
SPECIFICATION Spec
INVARIANTS TimestampExact
