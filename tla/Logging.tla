------------------------------ MODULE Logging -------------------------------
(***************************************************************************)
(* The thread-local log-level state of one shard (Log.h) and how the      *)
(* --log_level option is applied to it by the logcfg step of App::start    *)
(* (Appbase.cpp).  Every shard owns a private copy of this state, so one   *)
(* shard is modelled.                                                      *)
(*                                                                         *)
(* Logger objects are constructed lazily (thread_local inline loggers) or  *)
(* as members, and destroyed at scope or thread exit, in any order with    *)
(* respect to the configuration step.                                      *)
(***************************************************************************)
EXTENDS Naturals, Sequences

CONSTANTS
  Modules,          \* logger names that occur
  Loggers,          \* logger objects; LoggerName gives each one its name
  LoggerName,
  AssertsEnabled,   \* TRUE unless the build defines NDEBUG
  LogArgs,          \* the --log_level vectors the user may pass
  BadLevel,         \* a token that names no level
  NoText,           \* an empty module or level part of a token
  NoLogger,         \* no object registered under a name
  Unset             \* no entry in moduleLevels

(* LogLevel is K2_DEF_ENUM(NotSet, Verbose, Debug, Info, Warn, Error,     *)
(* Fatal); its values are compared as the underlying integers.            *)
NotSet == 0
Info == 3
Levels == 0..6

(* What a token may spell, abstracted: a level name, something that is    *)
(* no level name, or nothing.                                             *)
LevelTokens == Levels \cup {BadLevel, NoText}

(* A module override token "module=level" as split() sees it.             *)
Overrides == [hasEq : BOOLEAN, module : Modules \cup {NoText}, level : LevelTokens]

ASSUME LoggingAssumption ==
  /\ LoggerName \in [Loggers -> Modules]
  /\ NoLogger \notin Loggers
  /\ Unset \notin LevelTokens
  /\ AssertsEnabled \in BOOLEAN
  /\ \A a \in LogArgs : /\ Len(a) \in Nat /\ a = [i \in 1..Len(a) |-> a[i]]
                        /\ Len(a) > 0 => a[1] \in LevelTokens
                        /\ \A i \in 2..Len(a) : a[i] \in Overrides

VARIABLES
  alive,                \* the logger objects that exist
  moduleLevel,          \* Logger::moduleLevel of each object
  moduleLoggers,        \* Logger::moduleLoggers: name -> registered object
  moduleLevels,         \* Logger::moduleLevels: name -> override, or Unset
  threadLocalLogLevel,  \* Logger::threadLocalLogLevel
  applied,              \* the --log_level vector applied, or <<"none">>
  proc                  \* "running", or "aborted" by a failed assert/throw

vars == <<alive, moduleLevel, moduleLoggers, moduleLevels, threadLocalLogLevel,
          applied, proc>>

TypeOK ==
  /\ alive \subseteq Loggers
  /\ moduleLevel \in [Loggers -> Levels]
  /\ moduleLoggers \in [Modules -> Loggers \cup {NoLogger}]
  /\ moduleLevels \in [Modules -> Levels \cup {Unset}]
  /\ threadLocalLogLevel \in Levels
  /\ applied \in LogArgs \cup {<<"none">>}
  /\ proc \in {"running", "aborted"}

(* The static thread_local members start empty, the level at Info.       *)
Init ==
  /\ alive = {}
  /\ moduleLevel = [l \in Loggers |-> NotSet]
  /\ moduleLoggers = [m \in Modules |-> NoLogger]
  /\ moduleLevels = [m \in Modules |-> Unset]
  /\ threadLocalLogLevel = Info
  /\ applied = <<"none">>
  /\ proc = "running"

(* Mutant: the constructor reads moduleLevels[name] without checking that *)
(* the name has an entry.                                                  *)
LoggerNoFind(l) ==
  LET name == LoggerName[l] IN
  /\ proc = "running"
  /\ l \notin alive
  /\ IF AssertsEnabled /\ moduleLoggers[name] # NoLogger
       THEN /\ proc' = "aborted"
            /\ UNCHANGED <<alive, moduleLevel, moduleLoggers>>
       ELSE /\ alive' = alive \cup {l}
            /\ moduleLoggers' = [moduleLoggers EXCEPT ![name] = l]
            /\ moduleLevel' = [moduleLevel EXCEPT ![l] = moduleLevels[name]]
            /\ UNCHANGED proc
  /\ UNCHANGED <<moduleLevels, threadLocalLogLevel, applied>>

(* Logger(moduleName): assert the name is free, register the object, and *)
(* take a per-module level set earlier.  With NDEBUG the assert is gone   *)
(* and a second object of the same name replaces the first in the map.    *)
Logger(l) ==
  LET name == LoggerName[l] IN
  /\ proc = "running"
  /\ l \notin alive
  /\ IF AssertsEnabled /\ moduleLoggers[name] # NoLogger
       THEN /\ proc' = "aborted"
            /\ UNCHANGED <<alive, moduleLevel, moduleLoggers>>
       ELSE /\ alive' = alive \cup {l}
            /\ moduleLoggers' = [moduleLoggers EXCEPT ![name] = l]
            /\ moduleLevel' = [moduleLevel EXCEPT ![l] =
                                 IF moduleLevels[name] # Unset
                                   THEN moduleLevels[name] ELSE NotSet]
            /\ UNCHANGED proc
  /\ UNCHANGED <<moduleLevels, threadLocalLogLevel, applied>>

(* Mutant: the destructor leaves the object in moduleLoggers.            *)
DestroyLoggerNoErase(l) ==
  /\ proc = "running"
  /\ l \in alive
  /\ alive' = alive \ {l}
  /\ moduleLevel' = [moduleLevel EXCEPT ![l] = NotSet]
  /\ UNCHANGED <<moduleLoggers, moduleLevels, threadLocalLogLevel, applied, proc>>

(* ~Logger(): erase the entry of the object's name, whichever object it   *)
(* points to.                                                             *)
DestroyLogger(l) ==
  /\ proc = "running"
  /\ l \in alive
  /\ alive' = alive \ {l}
  /\ moduleLoggers' = [moduleLoggers EXCEPT ![LoggerName[l]] = NoLogger]
  /\ moduleLevel' = [moduleLevel EXCEPT ![l] = NotSet]
  /\ UNCHANGED <<moduleLevels, threadLocalLogLevel, applied, proc>>

(* isEnabledFor: a set module level wins over the thread's level.         *)
IsEnabledFor(l, level) ==
  IF moduleLevel[l] > NotSet THEN level >= moduleLevel[l]
                             ELSE level >= threadLocalLogLevel

(* K2LOG_LEVEL_FMT prints through a live logger only when it is enabled.  *)
Emits(l, level) == l \in alive /\ IsEnabledFor(l, level)

(* split() throws on a token without '=', with nothing before it or with  *)
(* nothing after it; LogLevelFromStr throws on a name of no level.        *)
SplitFails(tok) == ~tok.hasEq \/ tok.module = NoText \/ tok.level = NoText
LevelFromStrFails(str) == str \notin Levels
EntryFails(tok) == SplitFails(tok) \/ LevelFromStrFails(tok.level)

(* Mutant: the override loop records the level in moduleLevels but does  *)
(* not update the logger already registered under the name.             *)
ApplyOverridesMapOnly(args) ==
  LET f[i \in 1..Len(args)] ==
        IF i = 1 THEN [levels |-> moduleLevels, lv |-> moduleLevel, ok |-> TRUE]
        ELSE LET prev == f[i - 1]
                 tok == args[i]
             IN  IF ~prev.ok \/ EntryFails(tok) THEN [prev EXCEPT !.ok = FALSE]
                 ELSE [prev EXCEPT !.levels = [prev.levels EXCEPT ![tok.module] = tok.level]]
  IN f[Len(args)]

(* One iteration of the override loop: split the token, read its level,  *)
(* record it in moduleLevels and set it on the logger registered under   *)
(* the module, if any.  Once an entry has thrown, no later one runs.     *)
OverrideStep(prev, tok) ==
  LET reg == moduleLoggers[tok.module] IN
  IF ~prev.ok \/ EntryFails(tok) THEN [prev EXCEPT !.ok = FALSE]
  ELSE [levels |-> [prev.levels EXCEPT ![tok.module] = tok.level],
        lv |-> IF reg = NoLogger THEN prev.lv
               ELSE [prev.lv EXCEPT ![reg] = tok.level],
        ok |-> TRUE]

(* The override loop of the logcfg lambda over entries 2..i of args,      *)
(* starting from the current maps.                                        *)
OverrideFold(args) ==
  LET f[i \in 1..Len(args)] ==
        IF i = 1 THEN [levels |-> moduleLevels, lv |-> moduleLevel, ok |-> TRUE]
        ELSE OverrideStep(f[i - 1], args[i])
  IN f

ApplyOverrides(args) == OverrideFold(args)[Len(args)]

(* The logcfg lambda of App::start on this shard.  An empty vector (and   *)
(* an absent option) sets Info; otherwise the first token sets the thread *)
(* level and the others override modules.  A throw fails the startup,     *)
(* which ends the process, after the entries before it took effect.       *)
ConfigureLogging(args) ==
  /\ proc = "running"
  /\ applied = <<"none">>
  /\ applied' = args
  /\ IF args = <<>>
       THEN /\ threadLocalLogLevel' = Info
            /\ UNCHANGED <<moduleLevels, moduleLevel, proc>>
       ELSE IF LevelFromStrFails(args[1])
       THEN /\ proc' = "aborted"
            /\ UNCHANGED <<moduleLevels, moduleLevel, threadLocalLogLevel>>
       ELSE LET r == ApplyOverrides(args) IN
            /\ threadLocalLogLevel' = args[1]
            /\ moduleLevels' = r.levels
            /\ moduleLevel' = r.lv
            /\ proc' = IF r.ok THEN "running" ELSE "aborted"
  /\ UNCHANGED <<alive, moduleLoggers>>

Next ==
  \/ \E l \in Loggers : Logger(l) \/ DestroyLogger(l)
  \/ \E a \in LogArgs : ConfigureLogging(a)

Spec == Init /\ [][Next]_vars

-----------------------------------------------------------------------------
(* The registry the override loop walks is exact: every live logger is   *)
(* the object registered under its own name, and every registered object *)
(* is alive and carries that name.  The assert of the Logger constructor *)
(* keeps a second object of a name out, and ~Logger erases the entry of  *)
(* its name (Logger ctor and dtor, moduleLoggers).                        *)
RegistryExact ==
  /\ \A l \in alive : moduleLoggers[LoggerName[l]] = l
  /\ \A m \in Modules : moduleLoggers[m] # NoLogger =>
                         /\ moduleLoggers[m] \in alive
                         /\ LoggerName[moduleLoggers[m]] = m

(* Reference meaning of a well-formed --log_level vector (spec: the first *)
(* token sets the global level, later module=level tokens override per    *)
(* module).  The last override of a module wins; NotSet means "use the    *)
(* global level".                                                          *)
ExpectedLevel(args, m) ==
  LET ov == {i \in 2..Len(args) : args[i].module = m}
      last == CHOOSE i \in ov : \A j \in ov : j <= i
  IN  IF ov = {} \/ args[last].level = NotSet THEN args[1] ELSE args[last].level

(* Once a --log_level vector was applied and the shard still runs, every  *)
(* live logger, whether it was created before or after the configuration  *)
(* step and whatever objects were destroyed between, enables exactly the *)
(* levels the vector asks for its module (Logger ctor, ~Logger and the    *)
(* override loop of the logcfg lambda).                                   *)
LevelsFollowConfig ==
  (proc = "running" /\ applied # <<"none">> /\ applied # <<>>) =>
    \A l \in alive : \A v \in Levels \ {NotSet} :
      IsEnabledFor(l, v) <=> v >= ExpectedLevel(applied, LoggerName[l])

=============================================================================
