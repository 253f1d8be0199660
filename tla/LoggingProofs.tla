----------------------------- MODULE LoggingProofs ----------------------------
(* With asserts enabled, the per-thread logger registry stays exact under *)
(* any interleaving of logger construction, destruction and the logcfg    *)
(* step, for any names and logger objects.                                *)
EXTENDS Logging, WellFoundedInduction, TLAPS

USE LoggingAssumption

(* The part of TypeOK the registry needs; the logcfg step leaves both     *)
(* variables alone, so no fact about the override loop is needed.         *)
RegistryTyped ==
  /\ alive \subseteq Loggers
  /\ moduleLoggers \in [Modules -> Loggers \cup {NoLogger}]

LInv == RegistryTyped /\ RegistryExact

(* Every non-empty set of naturals has a least element: the form of      *)
(* induction used below over the positions of the --log_level vector.     *)
LEMMA LeastNat ==
  ASSUME NEW S \in SUBSET Nat, S # {}
  PROVE  \E m \in S : \A k \in S : m <= k
<1>1. \E m \in S : \A k \in S : ~(<<k, m>> \in OpToRel(<, Nat))
  BY NatLessThanWellFounded, WFMin
<1>2. PICK m \in S : \A k \in S : ~(<<k, m>> \in OpToRel(<, Nat))
  BY <1>1
<1>3. \A k \in S : ~(k < m)
  BY <1>2 DEF OpToRel
<1> QED
  BY <1>3

(* The level the Logger constructor takes from a moduleLevels entry.      *)
Lv(x) == IF x = Unset THEN NotSet ELSE x

(* Every live logger carries the level recorded for its module.          *)
LevelsTrack == \A l \in alive : moduleLevel[l] = Lv(moduleLevels[LoggerName[l]])

(* levels holds, for each module, the level of the last of the entries   *)
(* 2..i of args that names it, and Unset when none does.                 *)
LevelsMatchArgs(args, levels, i) ==
  \A m \in Modules :
    \/ /\ \A k \in 2..i : args[k].module # m
       /\ levels[m] = Unset
    \/ \E j \in 2..i : /\ args[j].module = m
                       /\ \A k \in 2..i : args[k].module = m => k <= j
                       /\ levels[m] = args[j].level

(* The state the override loop starts from.                              *)
FoldStart == [levels |-> moduleLevels, lv |-> moduleLevel, ok |-> TRUE]

(* h is the override loop run over the entries 2..k of args.              *)
FoldEq(args, h, k) ==
  h = [i \in 1..k |-> IF i = 1 THEN FoldStart ELSE OverrideStep(h[i - 1], args[i])]

(* The loop can be run up to every position of the vector.                *)
LEMMA FoldExists ==
  ASSUME NEW args, NEW n \in Nat
  PROVE  \E h : FoldEq(args, h, n)
<1> DEFINE Bad == {k \in 0..n : ~\E h : FoldEq(args, h, k)}
<1> SUFFICES ASSUME Bad # {} PROVE FALSE
  OBVIOUS
<1>0. Bad \in SUBSET Nat
  BY DEF Bad
<1>1. PICK k \in Bad : \A j \in Bad : k <= j
  BY <1>0, LeastNat, Zenon
<1>2. k # 0
  <2>1. FoldEq(args, [i \in 1..0 |-> FoldStart], 0)
    BY DEF FoldEq
  <2> QED
    BY <2>1, <1>1 DEF Bad
<1>5. k \in 1..n /\ k - 1 \in 0..n /\ (k - 1) \notin Bad
  BY <1>1, <1>2 DEF Bad
<1>3. PICK h : FoldEq(args, h, k - 1)
  BY <1>5 DEF Bad
<1> DEFINE h2 == [i \in 1..k |-> IF i = k
                                   THEN IF i = 1 THEN FoldStart ELSE OverrideStep(h[k - 1], args[k])
                                   ELSE h[i]]
<1>4. FoldEq(args, h2, k)
  <2>1. \A i \in 1..(k - 1) : h[i] = IF i = 1 THEN FoldStart ELSE OverrideStep(h[i - 1], args[i])
    BY <1>3 DEF FoldEq
  <2>2. \A i \in 2..k : h2[i - 1] = h[i - 1]
    BY <1>5
  <2>3. \A i \in 1..k : h2[i] = IF i = 1 THEN FoldStart ELSE OverrideStep(h2[i - 1], args[i])
    BY <2>1, <2>2, <1>5
  <2> QED
    BY <2>3 DEF FoldEq
<1> QED
  BY <1>1, <1>4 DEF Bad

(* OverrideFold(args) is the loop run over the whole vector.            *)
LEMMA FoldUnfolds ==
  ASSUME NEW args, Len(args) \in Nat
  PROVE  FoldEq(args, OverrideFold(args), Len(args))
<1>1. \E h : FoldEq(args, h, Len(args))
  BY FoldExists
<1> QED
  BY <1>1, Zenon DEF OverrideFold, FoldEq, FoldStart

(* What each iteration of the override loop keeps: the maps stay typed,   *)
(* each live logger keeps the level of its module once the registry is     *)
(* exact, and, from maps with no override, the entries so far are exactly *)
(* the last override of each module.                                      *)
FoldInv(args, g, i) ==
  /\ g \in [levels : [Modules -> Levels \cup {Unset}], lv : [Loggers -> Levels],
            ok : BOOLEAN]
  /\ RegistryExact /\ LevelsTrack =>
       \A l \in alive : g.lv[l] = Lv(g.levels[LoggerName[l]])
  /\ (\A m \in Modules : moduleLevels[m] = Unset) /\ g.ok =>
       LevelsMatchArgs(args, g.levels, i)

LEMMA FoldInvStart ==
  ASSUME TypeOK, NEW args
  PROVE  FoldInv(args, FoldStart, 1)
BY DEF FoldInv, FoldStart, TypeOK, LevelsTrack, LevelsMatchArgs

LEMMA FoldInvStep ==
  ASSUME TypeOK, NEW args \in LogArgs, NEW i \in 2..Len(args), NEW g,
         FoldInv(args, g, i - 1)
  PROVE  FoldInv(args, OverrideStep(g, args[i]), i)
<1> DEFINE tok == args[i]
           reg == moduleLoggers[tok.module]
           next == OverrideStep(g, tok)
<1>0. /\ tok \in Overrides
      /\ g \in [levels : [Modules -> Levels \cup {Unset}], lv : [Loggers -> Levels],
               ok : BOOLEAN]
  BY DEF FoldInv
<1>1. CASE ~g.ok \/ EntryFails(tok)
  <2>1. next = [g EXCEPT !.ok = FALSE]
    BY <1>1 DEF OverrideStep
  <2>2. /\ next.levels = g.levels /\ next.lv = g.lv /\ next.ok = FALSE
        /\ next \in [levels : [Modules -> Levels \cup {Unset}], lv : [Loggers -> Levels],
                    ok : BOOLEAN]
    BY <2>1, <1>0
  <2> QED
    BY <2>2 DEF FoldInv
<1>2. CASE g.ok /\ ~EntryFails(tok)
  <2>1. /\ tok.module \in Modules
        /\ tok.level \in Levels
    BY <1>0, <1>2 DEF EntryFails, SplitFails, LevelFromStrFails, Overrides, LevelTokens
  <2>2. next = [levels |-> [g.levels EXCEPT ![tok.module] = tok.level],
                lv |-> IF reg = NoLogger THEN g.lv
                       ELSE [g.lv EXCEPT ![reg] = tok.level],
                ok |-> TRUE]
    BY <1>2 DEF OverrideStep
  <2>3. reg \in Loggers \cup {NoLogger}
    BY <2>1 DEF TypeOK
  <2>4. next \in [levels : [Modules -> Levels \cup {Unset}], lv : [Loggers -> Levels],
                 ok : BOOLEAN]
    BY <2>1, <2>2, <2>3, <1>0
  <2>5. ASSUME RegistryExact, LevelsTrack, NEW l \in alive
        PROVE  next.lv[l] = Lv(next.levels[LoggerName[l]])
    <3>1. g.lv[l] = Lv(g.levels[LoggerName[l]])
      BY <2>5 DEF FoldInv
    <3>2. l \in Loggers /\ LoggerName[l] \in Modules
      BY <2>5 DEF TypeOK
    <3>3. CASE LoggerName[l] = tok.module
      <4>1. reg = l
        BY <2>5, <3>3 DEF RegistryExact
      <4>2. next.lv[l] = tok.level /\ next.levels[LoggerName[l]] = tok.level
        BY <4>1, <3>2, <3>3, <2>1, <2>2, <1>0
      <4> QED
        BY <4>2, <2>1 DEF Lv, LevelTokens
    <3>4. CASE LoggerName[l] # tok.module
      <4>1. reg # l
        BY <2>5, <3>4, <3>2, <2>1 DEF RegistryExact
      <4>2. next.lv[l] = g.lv[l] /\ next.levels[LoggerName[l]] = g.levels[LoggerName[l]]
        BY <4>1, <3>2, <3>4, <2>1, <2>2, <2>3, <1>0
      <4> QED
        BY <4>2, <3>1
    <3> QED
      BY <3>3, <3>4
  <2>6. ASSUME \A m \in Modules : moduleLevels[m] = Unset
        PROVE  LevelsMatchArgs(args, next.levels, i)
    <3>1. LevelsMatchArgs(args, g.levels, i - 1)
      BY <2>6, <1>2 DEF FoldInv
    <3>2. SUFFICES ASSUME NEW m \in Modules
                   PROVE  \/ /\ \A k \in 2..i : args[k].module # m
                             /\ next.levels[m] = Unset
                          \/ \E j \in 2..i : /\ args[j].module = m
                                             /\ \A k \in 2..i : args[k].module = m => k <= j
                                             /\ next.levels[m] = args[j].level
      BY DEF LevelsMatchArgs
    <3>3. CASE m = tok.module
      <4>1. next.levels[m] = tok.level
        BY <3>3, <2>1, <2>2, <1>0
      <4> QED
        BY <4>1, <3>3
    <3>4. CASE m # tok.module
      <4>1. next.levels[m] = g.levels[m]
        BY <3>4, <2>1, <2>2, <1>0
      <4>2. \/ /\ \A k \in 2..(i - 1) : args[k].module # m
               /\ g.levels[m] = Unset
            \/ \E j \in 2..(i - 1) : /\ args[j].module = m
                                     /\ \A k \in 2..(i - 1) : args[k].module = m => k <= j
                                     /\ g.levels[m] = args[j].level
        BY <3>1 DEF LevelsMatchArgs
      <4> QED
        BY <4>1, <4>2, <3>4
    <3> QED
      BY <3>3, <3>4
  <2> QED
    BY <2>2, <2>4, <2>5, <2>6 DEF FoldInv
<1> QED
  BY <1>1, <1>2

(* By induction over the positions of the vector (least failing one),     *)
(* the whole override loop keeps FoldInv.                                  *)
LEMMA FoldInvAll ==
  ASSUME TypeOK, NEW args \in LogArgs, Len(args) > 0
  PROVE  FoldInv(args, ApplyOverrides(args), Len(args))
<1> DEFINE n == Len(args)
           F == OverrideFold(args)
           Bad == {i \in 1..n : ~FoldInv(args, F[i], i)}
<1>1. n \in Nat
  OBVIOUS
<1>2. \A i \in 1..n : F[i] = IF i = 1 THEN FoldStart ELSE OverrideStep(F[i - 1], args[i])
  <2>1. FoldEq(args, F, n)
    BY <1>1, FoldUnfolds
  <2> QED
    BY <2>1 DEF FoldEq
<1>3. Bad = {}
  <2> SUFFICES ASSUME Bad # {} PROVE FALSE
    OBVIOUS
  <2>1. Bad \in SUBSET Nat
    BY DEF Bad
  <2>2. PICK i \in Bad : \A j \in Bad : i <= j
    BY <2>1, LeastNat, Zenon
  <2>3. i \in 1..n /\ ~FoldInv(args, F[i], i)
    BY DEF Bad
  <2>4. CASE i = 1
    <3>1. F[i] = FoldStart
      BY <2>3, <2>4, <1>2
    <3> QED
      BY <3>1, <2>3, <2>4, FoldInvStart
  <2>5. CASE i # 1
    <3>1. i \in 2..n /\ i - 1 \in 1..n
      BY <2>3, <2>5
    <3>2. FoldInv(args, F[i - 1], i - 1)
      BY <3>1, <2>2 DEF Bad
    <3>3. F[i] = OverrideStep(F[i - 1], args[i])
      BY <3>1, <1>2
    <3>4. FoldInv(args, OverrideStep(F[i - 1], args[i]), i)
      BY <3>1, <3>2, FoldInvStep
    <3> QED
      BY <3>3, <3>4, <2>3
  <2> QED
    BY <2>4, <2>5
<1> QED
  BY <1>3, <1>1 DEF Bad, ApplyOverrides

(* A non-empty --log_level vector has a first token.                     *)
LEMMA ArgsShape ==
  ASSUME NEW a \in LogArgs, a # <<>>
  PROVE  /\ Len(a) \in Nat \ {0}
         /\ a[1] \in LevelTokens
<1>1. Len(a) \in Nat /\ a = [i \in 1..Len(a) |-> a[i]]
  OBVIOUS
<1>2. Len(a) # 0
  <2> SUFFICES ASSUME Len(a) = 0 PROVE a = <<>>
    OBVIOUS
  <2> QED
    BY <1>1
<1> QED
  BY <1>1, <1>2

LEMMA TypeOKInit == Init => TypeOK
BY DEF Init, TypeOK, Levels, NotSet, Info

LEMMA TypeOKNext == TypeOK /\ [Next]_vars => TypeOK'
<1> SUFFICES ASSUME TypeOK, [Next]_vars PROVE TypeOK'
  OBVIOUS
<1>1. ASSUME NEW l \in Loggers, Logger(l) PROVE TypeOK'
  <2> DEFINE name == LoggerName[l]
  <2>1. name \in Modules
    OBVIOUS
  <2>2. CASE AssertsEnabled /\ moduleLoggers[name] # NoLogger
    BY <1>1, <2>2 DEF Logger, TypeOK
  <2>3. CASE ~(AssertsEnabled /\ moduleLoggers[name] # NoLogger)
    <3>1. /\ alive' = alive \cup {l}
          /\ moduleLoggers' = [moduleLoggers EXCEPT ![name] = l]
          /\ moduleLevel' = [moduleLevel EXCEPT ![l] = IF moduleLevels[name] # Unset
                                                       THEN moduleLevels[name] ELSE NotSet]
          /\ UNCHANGED <<proc, moduleLevels, threadLocalLogLevel, applied>>
      BY <1>1, <2>3 DEF Logger
    <3>2. (IF moduleLevels[name] # Unset THEN moduleLevels[name] ELSE NotSet) \in Levels
      BY <2>1 DEF TypeOK, NotSet, Levels
    <3> QED
      BY <3>1, <3>2, <2>1 DEF TypeOK
  <2> QED
    BY <2>2, <2>3
<1>2. ASSUME NEW l \in Loggers, DestroyLogger(l) PROVE TypeOK'
  BY <1>2 DEF DestroyLogger, TypeOK, Levels, NotSet
<1>3. ASSUME NEW a \in LogArgs, ConfigureLogging(a) PROVE TypeOK'
  <2>1. CASE a = <<>>
    BY <1>3, <2>1 DEF ConfigureLogging, TypeOK, Levels, Info
  <2>2. CASE a # <<>> /\ LevelFromStrFails(a[1])
    BY <1>3, <2>2 DEF ConfigureLogging, TypeOK
  <2>3. CASE a # <<>> /\ ~LevelFromStrFails(a[1])
    <3>1. Len(a) > 0 /\ a[1] \in Levels
      BY <2>3, ArgsShape DEF LevelFromStrFails
    <3>2. FoldInv(a, ApplyOverrides(a), Len(a))
      BY <3>1, FoldInvAll
    <3> DEFINE r == ApplyOverrides(a)
    <3>3. /\ threadLocalLogLevel' = a[1]
          /\ moduleLevels' = r.levels
          /\ moduleLevel' = r.lv
          /\ proc' \in {"running", "aborted"}
          /\ applied' = a
          /\ UNCHANGED <<alive, moduleLoggers>>
      BY <1>3, <2>3 DEF ConfigureLogging
    <3> QED
      BY <3>1, <3>2, <3>3 DEF FoldInv, TypeOK
  <2> QED
    BY <2>1, <2>2, <2>3
<1>4. CASE UNCHANGED vars
  BY <1>4 DEF vars, TypeOK
<1> QED
  BY <1>1, <1>2, <1>3, <1>4 DEF Next

(* Whatever loggers are built and destroyed and whatever --log_level      *)
(* vector the logcfg lambda applies, with or without asserts, the thread- *)
(* local logging state keeps its types: the override loop writes only    *)
(* levels LogLevelFromStr accepted and only to registered loggers         *)
(* (Logger ctor, ~Logger, the override loop of App::start).               *)
THEOREM LoggingTypeCorrect == Spec => []TypeOK
BY TypeOKInit, TypeOKNext, PTL DEF Spec

(* Before the logcfg step no override is recorded; after it, on a shard  *)
(* that still runs, the maps hold what the vector says.                   *)
CfgInv ==
  /\ (proc = "running" /\ applied = <<"none">>) =>
       \A m \in Modules : moduleLevels[m] = Unset
  /\ (proc = "running" /\ applied \notin {<<"none">>, <<>>}) =>
       /\ threadLocalLogLevel = applied[1]
       /\ LevelsMatchArgs(applied, moduleLevels, Len(applied))

IInv == TypeOK /\ RegistryExact /\ LevelsTrack /\ CfgInv

LEMMA LInvInit == Init => LInv
BY DEF Init, LInv, RegistryTyped, RegistryExact

LEMMA LInvNext ==
  ASSUME AssertsEnabled, LInv, [Next]_vars
  PROVE  LInv'
<1> USE DEF LInv, RegistryTyped, RegistryExact
<1>1. ASSUME NEW l \in Loggers, Logger(l) PROVE LInv'
  <2> DEFINE name == LoggerName[l]
  <2>1. CASE moduleLoggers[name] # NoLogger
    BY <1>1, <2>1 DEF Logger
  <2>2. CASE moduleLoggers[name] = NoLogger
    <3>1. /\ alive' = alive \cup {l}
          /\ moduleLoggers' = [moduleLoggers EXCEPT ![name] = l]
      BY <1>1, <2>2 DEF Logger
    <3>2. \A k \in alive : LoggerName[k] # name
      BY <2>2
    <3> QED
      BY <3>1, <3>2
  <2> QED
    BY <2>1, <2>2
<1>2. ASSUME NEW l \in Loggers, DestroyLogger(l) PROVE LInv'
  <2>1. moduleLoggers[LoggerName[l]] = l
    BY <1>2 DEF DestroyLogger
  <2>2. /\ alive' = alive \ {l}
        /\ moduleLoggers' = [moduleLoggers EXCEPT ![LoggerName[l]] = NoLogger]
    BY <1>2 DEF DestroyLogger
  <2> QED
    BY <2>1, <2>2
<1>3. ASSUME NEW a \in LogArgs, ConfigureLogging(a) PROVE LInv'
  BY <1>3 DEF ConfigureLogging
<1>4. CASE UNCHANGED vars
  BY <1>4 DEF vars
<1> QED
  BY <1>1, <1>2, <1>3, <1>4 DEF Next

(* In a build with asserts, every live logger is the one registered under *)
(* its name and every registered logger is alive, so an override applied  *)
(* by the logcfg lambda reaches each live logger of the module and never  *)
(* a destroyed one (Logger ctor with its assert, ~Logger, moduleLoggers). *)
(* An NDEBUG build breaks it: run logging_duplicate_names.                *)
THEOREM RegistryStaysExact ==
  ASSUME AssertsEnabled
  PROVE  Spec => []RegistryExact
<1>1. Init => LInv
  BY LInvInit
<1>2. LInv /\ [Next]_vars => LInv'
  BY LInvNext
<1>3. LInv => RegistryExact
  BY DEF LInv
<1> QED
  BY <1>1, <1>2, <1>3, PTL DEF Spec
-----------------------------------------------------------------------------
(* The levels a live logger enables follow the --log_level vector.        *)

LEMMA IInvInit == Init => IInv
BY TypeOKInit DEF Init, IInv, RegistryExact, LevelsTrack, CfgInv, Lv, NotSet

LEMMA TrackNext ==
  ASSUME IInv, [Next]_vars
  PROVE  LevelsTrack'
<1> USE DEF IInv
<1>1. ASSUME NEW l \in Loggers, Logger(l) PROVE LevelsTrack'
  <2> DEFINE name == LoggerName[l]
  <2>1. CASE AssertsEnabled /\ moduleLoggers[name] # NoLogger
    BY <1>1, <2>1 DEF Logger, LevelsTrack
  <2>2. CASE ~(AssertsEnabled /\ moduleLoggers[name] # NoLogger)
    <3>1. /\ alive' = alive \cup {l}
          /\ moduleLevel' = [moduleLevel EXCEPT ![l] = IF moduleLevels[name] # Unset
                                                       THEN moduleLevels[name] ELSE NotSet]
          /\ UNCHANGED moduleLevels
      BY <1>1, <2>2 DEF Logger
    <3>2. l \notin alive
      BY <1>1 DEF Logger
    <3> QED
      BY <3>1, <3>2 DEF LevelsTrack, Lv, TypeOK
  <2> QED
    BY <2>1, <2>2
<1>2. ASSUME NEW l \in Loggers, DestroyLogger(l) PROVE LevelsTrack'
  BY <1>2 DEF DestroyLogger, LevelsTrack, TypeOK
<1>3. ASSUME NEW a \in LogArgs, ConfigureLogging(a) PROVE LevelsTrack'
  <2>1. CASE a = <<>> \/ LevelFromStrFails(a[1])
    BY <1>3, <2>1 DEF ConfigureLogging, LevelsTrack
  <2>2. CASE a # <<>> /\ ~LevelFromStrFails(a[1])
    <3>1. Len(a) > 0
      BY <2>2, ArgsShape
    <3>2. FoldInv(a, ApplyOverrides(a), Len(a))
      BY <3>1, FoldInvAll
    <3>3. /\ moduleLevels' = ApplyOverrides(a).levels
          /\ moduleLevel' = ApplyOverrides(a).lv
          /\ UNCHANGED alive
      BY <1>3, <2>2 DEF ConfigureLogging
    <3> QED
      BY <3>2, <3>3 DEF FoldInv, LevelsTrack
  <2> QED
    BY <2>1, <2>2
<1>4. CASE UNCHANGED vars
  BY <1>4 DEF vars, LevelsTrack
<1> QED
  BY <1>1, <1>2, <1>3, <1>4 DEF Next

LEMMA CfgNext ==
  ASSUME IInv, [Next]_vars
  PROVE  CfgInv'
<1> USE DEF IInv
<1>1. ASSUME NEW l \in Loggers, Logger(l) PROVE CfgInv'
  <2>1. UNCHANGED <<moduleLevels, threadLocalLogLevel, applied>>
        /\ (proc' = "running" => proc = "running")
    BY <1>1 DEF Logger
  <2> QED
    BY <2>1 DEF CfgInv
<1>2. ASSUME NEW l \in Loggers, DestroyLogger(l) PROVE CfgInv'
  BY <1>2 DEF DestroyLogger, CfgInv
<1>3. ASSUME NEW a \in LogArgs, ConfigureLogging(a) PROVE CfgInv'
  <2>0. /\ applied = <<"none">>
        /\ applied' = a
        /\ \A m \in Modules : moduleLevels[m] = Unset
    BY <1>3 DEF ConfigureLogging, CfgInv
  <2>1. CASE a = <<>>
    BY <1>3, <2>0, <2>1 DEF ConfigureLogging, CfgInv
  <2>2. CASE a # <<>> /\ LevelFromStrFails(a[1])
    BY <1>3, <2>0, <2>2 DEF ConfigureLogging, CfgInv
  <2>3. CASE a # <<>> /\ ~LevelFromStrFails(a[1])
    <3>1. Len(a) > 0 /\ a[1] \in Levels
      BY <2>3, ArgsShape DEF LevelFromStrFails
    <3>2. FoldInv(a, ApplyOverrides(a), Len(a))
      BY <3>1, FoldInvAll
    <3> DEFINE r == ApplyOverrides(a)
    <3>3. /\ threadLocalLogLevel' = a[1]
          /\ moduleLevels' = r.levels
          /\ proc' = IF r.ok THEN "running" ELSE "aborted"
      BY <1>3, <2>3 DEF ConfigureLogging
    <3>5. proc' = "running" => LevelsMatchArgs(a, moduleLevels', Len(a))
      BY <3>2, <3>3, <2>0 DEF FoldInv
    <3>6. ASSUME proc' = "running", a = <<"none">>
          PROVE  \A m \in Modules : moduleLevels'[m] = Unset
      <4>1. Len(a) = 1
        BY <3>6
      <4> QED
        BY <3>5, <3>6, <4>1 DEF LevelsMatchArgs
    <3> QED
      BY <2>0, <3>3, <3>5, <3>6 DEF CfgInv
  <2> QED
    BY <2>1, <2>2, <2>3
<1>4. CASE UNCHANGED vars
  BY <1>4 DEF vars, CfgInv
<1> QED
  BY <1>1, <1>2, <1>3, <1>4 DEF Next

LEMMA IInvNext ==
  ASSUME AssertsEnabled, IInv, [Next]_vars
  PROVE  IInv'
<1>1. TypeOK'
  BY TypeOKNext DEF IInv
<1>2. RegistryExact'
  <2>1. LInv
    BY DEF IInv, LInv, RegistryTyped, TypeOK
  <2> QED
    BY <2>1, LInvNext DEF LInv
<1> QED
  BY <1>1, <1>2, TrackNext, CfgNext DEF IInv

LEMMA IInvLevels == IInv => LevelsFollowConfig
<1> SUFFICES ASSUME IInv, proc = "running", applied # <<"none">>, applied # <<>>,
                    NEW l \in alive, NEW v \in Levels \ {NotSet}
             PROVE  IsEnabledFor(l, v) <=> v >= ExpectedLevel(applied, LoggerName[l])
  BY DEF LevelsFollowConfig
<1> DEFINE args == applied
           m == LoggerName[l]
           n == Len(args)
           ov == {i \in 2..n : args[i].module = m}
<1>1. /\ args \in LogArgs
      /\ m \in Modules
      /\ l \in Loggers
      /\ threadLocalLogLevel = args[1]
      /\ LevelsMatchArgs(args, moduleLevels, n)
      /\ moduleLevel[l] = Lv(moduleLevels[m])
      /\ moduleLevels[m] \in Levels \cup {Unset}
  BY DEF IInv, TypeOK, CfgInv, LevelsTrack
<1>2. n \in Nat
  BY <1>1
<1>3. CASE /\ \A k \in 2..n : args[k].module # m
           /\ moduleLevels[m] = Unset
  <2>1. ExpectedLevel(args, m) = args[1]
    BY <1>3 DEF ExpectedLevel
  <2>2. moduleLevel[l] = NotSet
    BY <1>1, <1>3 DEF Lv
  <2> QED
    BY <1>1, <2>1, <2>2 DEF IsEnabledFor, NotSet
<1>4. CASE \E w \in 2..n : /\ args[w].module = m
                          /\ \A k \in 2..n : args[k].module = m => k <= w
                          /\ moduleLevels[m] = args[w].level
  <2>1. PICK w \in 2..n : /\ args[w].module = m
                          /\ \A k \in 2..n : args[k].module = m => k <= w
                          /\ moduleLevels[m] = args[w].level
    BY <1>4
  <2>2. (CHOOSE i \in ov : \A k \in ov : k <= i) = w
    <3>1. w \in ov /\ \A k \in ov : k <= w
      BY <2>1
    <3>2. \A i \in ov : (\A k \in ov : k <= i) => i = w
      BY <3>1, <1>2
    <3> QED
      BY <3>1, <3>2
  <2>3. ExpectedLevel(args, m) =
          IF args[w].level = NotSet THEN args[1] ELSE args[w].level
    <3>1. ov # {}
      BY <2>1 DEF ov
    <3> DEFINE last == CHOOSE i \in ov : \A k \in ov : k <= i
    <3>2. ExpectedLevel(args, m) =
            IF ov = {} \/ args[last].level = NotSet THEN args[1] ELSE args[last].level
      BY DEF ExpectedLevel, ov, n, last
    <3> QED
      BY <3>1, <3>2, <2>2 DEF last
  <2>4. moduleLevels[m] \in Levels
    <3>1. args[w] \in Overrides
      BY <1>1
    <3>2. args[w].level # Unset
      BY <3>1 DEF Overrides
    <3> QED
      BY <2>1, <3>2, <1>1
  <2>5. moduleLevel[l] = args[w].level
    BY <2>1, <2>4, <1>1 DEF Lv, LevelTokens
  <2> QED
    BY <2>1, <2>3, <2>4, <2>5, <1>1 DEF IsEnabledFor, NotSet, Levels
<1> QED
  BY <1>1, <1>3, <1>4 DEF LevelsMatchArgs

(* In a build with asserts, once the logcfg lambda applied a --log_level   *)
(* vector on a shard that still runs, every live logger, whether built    *)
(* before or after that step and whatever loggers were destroyed between, *)
(* enables exactly the levels the vector sets for its module: the last    *)
(* module=level entry, or the first token when there is none or it says   *)
(* NotSet (Logger ctor, ~Logger, isEnabledFor, the logcfg lambda of       *)
(* App::start).  The inductive invariant IInv adds that each live logger   *)
(* carries the level recorded for its module and that the registry is     *)
(* exact; the override loop is handled by FoldInvAll.                     *)
THEOREM LevelsFollowConfigHolds ==
  ASSUME AssertsEnabled
  PROVE  Spec => []LevelsFollowConfig
<1>1. Init => IInv
  BY IInvInit
<1>2. IInv /\ [Next]_vars => IInv'
  BY IInvNext
<1>3. IInv => LevelsFollowConfig
  BY IInvLevels
<1> QED
  BY <1>1, <1>2, <1>3, PTL DEF Spec

=============================================================================
