----------------------------- MODULE Formatting ------------------------------
(***************************************************************************)
(* The fmt::formatter specialisations for std::set<bool> and              *)
(* std::unordered_set<bool> of FormattingUtils.h: a loop over the         *)
(* container that writes each element followed by ", " unless it is the   *)
(* last one.  The output is kept as the sequence of pieces written.       *)
(***************************************************************************)
EXTENDS Naturals, Sequences, FiniteSets

Sep == ", "

(* The iteration orders of a container holding the bools s: std::set     *)
(* visits false before true, std::unordered_set in any order.             *)
Orders(kind, s) ==
  { q \in [1..Cardinality(s) -> s] :
      \A i, j \in DOMAIN q : i < j => /\ q[i] # q[j]
                                    /\ (kind = "set" => ~q[i]) }

VARIABLES
  kind,       \* which of the two containers is formatted
  elems,      \* the container's elements in its iteration order
  it,         \* the iterator, as a position in elems
  processed,  \* the loop's counter of elements written
  out,        \* what format_to has written to ctx.out()
  done        \* the formatter returned

vars == <<kind, elems, it, processed, out, done>>

TypeOK ==
  /\ kind \in {"set", "unordered_set"}
  /\ elems \in Seq(BOOLEAN)
  /\ it \in 1..Len(elems) + 1
  /\ processed \in Nat
  /\ out \in Seq(BOOLEAN \cup {"{", "}", Sep})
  /\ done \in BOOLEAN

(* format(): write "{{" (one brace) and start the loop with processed = 0. *)
Init ==
  /\ kind \in {"set", "unordered_set"}
  /\ elems \in UNION {Orders(kind, s) : s \in SUBSET BOOLEAN}
  /\ it = 1
  /\ processed = 0
  /\ out = <<"{">>
  /\ done = FALSE

(* One iteration: the last element (processed == size() - 1) is written  *)
(* alone, any other with ", " after it.  Nothing increments processed.    *)
FormatElement ==
  /\ it <= Len(elems)
  /\ out' = IF processed = Len(elems) - 1 THEN Append(out, elems[it])
                                          ELSE out \o <<elems[it], Sep>>
  /\ it' = it + 1
  /\ UNCHANGED <<kind, elems, processed, done>>

(* Past the end: write the closing brace and return.                      *)
FormatEnd ==
  /\ it = Len(elems) + 1
  /\ ~done
  /\ out' = Append(out, "}")
  /\ done' = TRUE
  /\ UNCHANGED <<kind, elems, it, processed>>

Next == FormatElement \/ FormatEnd

Spec == Init /\ [][Next]_vars

-----------------------------------------------------------------------------
(* fmt::join(range, ", "), as the joinable_range formatter uses it: the   *)
(* elements with ", " between consecutive ones.                           *)
Joined(q) == [i \in 1..(2 * Len(q) - 1) |-> IF i % 2 = 1 THEN q[(i + 1) \div 2] ELSE Sep]

(* A formatted set of bools reads like any other joined range: braces     *)
(* around the elements separated by ", ", with no separator after the     *)
(* last one (the processed == size() - 1 test of the bool-set formatters). *)
FormatMatchesJoin ==
  done => out = <<"{">> \o (IF elems = <<>> THEN <<>> ELSE Joined(elems)) \o <<"}">>

=============================================================================
