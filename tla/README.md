# TLA+ models of the k2 application base

This directory holds TLA+ models of the application runtime under
`src/src`. For each model it also holds the TLC configurations that check it
and the TLAPS proofs about it. Every module is translated from the C++ source.
`PROJECT.json` maps each definition to the source lines it models, and it lists
the runs, the mutants, the findings, the hazards and the theorems.

## The system

| Part | Source | State it keeps | Operations |
|---|---|---|---|
| Lifecycle orchestrator `k2::App` | `k2/appbase/Appbase.cpp` | the options, the services on each shard, the dispatcher registrations, the at_exit list, the user stopper lists | `start` (a chain of futures on shard 0), `stop` |
| Services started by `App` | (code not in this repository) | constructed / started / stopped on each shard | ctor, `start`, `registerProtocol`, `stop`, driven by `App::start` |
| VirtualNetworkStack | `k2/transport/VirtualNetworkStack.cpp` | two low-memory observer slots | ctor, dtor, `registerLow{TCP,RRDMA}MemoryObserver`, `start`/`stop` (these only log); not modelled, see below |
| Logging | `logging/.../Log.h`, and the logcfg step of `App::start` | thread-local `threadLocalLogLevel`, `moduleLevels`, `moduleLoggers`, each logger's `moduleLevel` | `Logger` ctor and dtor, `isEnabledFor`, applying `--log_level` |
| Chrono | `logging/.../Chrono.h` | none (pure) | `toTimestamp_ts`, `Deadline` |
| Formatting | `logging/.../FormattingUtils.h` | none (pure) | the `std::set<bool>` and `std::unordered_set<bool>` formatters, `K2_DEF_ENUM` `FromStr`, `hash_combine` |
| Expression DTO | `skvhttpclient/.../Expression.h` | one `Value`: field name, type, MPack payload | `makeValueLiteral`, `makeValueReference`, deserialization, `get<T>()`, the custom formatter |

How the parts interact:

- `App::start` runs on shard 0. It is a chain of links, and each link fans a
  task out to every shard (`invoke_on_all`) or to every user applet
  (`when_all_succeed`). The link joins when all of its tasks have finished,
  and it fails when one of them fails.
- The links run in this order:
  1. log configuration on every shard;
  2. the option check, followed by the registration of nine at_exit functions;
  3. construction of config, Prometheus, the VirtualNetworkStack, the TCP, RDMA and auto-RDMA factories, the dispatcher, and then the user applets;
  4. the start phase, in which a protocol is registered with every shard's dispatcher after it has started.
- `App::stop` asks shard 0 to `engine().exit`. Seastar then runs the at_exit
  functions in the reverse order of their registration.
- Two of the at_exit functions run the user "hard" and "graceful" stopper
  lists. Each list runs last-registered-first through `do_for_each`, and
  `handle_exception` only logs a failure.

## Modules

| Module | Models | Main correspondence |
|---|---|---|
| `Appbase` | `App::start` / `App::stop` (Appbase.cpp 37-287) | `Steps` is the sequence of links. `pending` holds the link's unfinished tasks, and `stepFailed` records that a task failed. There is one action per kind of task (`LogConfigure`, `ShardedCreate`, `ShardedStart`, `RegisterProtocol`, `CreateUserApplet`, …). `NextPhase` models a join, and `StartupFailed` models `handle_exception` followed by `or_terminate`, whose `engine().exit(1)` starts the same reverse walk over the at_exit functions registered so far that App::stop starts (`lifecycle` becomes "failed", and "terminated" once the walk ends). `RegisterExitHooks` models the at_exit registration. `Stop` models `App::stop`. `BeginExit` … `FinishExit` model the at_exit functions run in reverse order, and `BeginStopperList` / `RunStopper` / `StopperFails` / `EndStopperList` model the `do_for_each` over a stopper list. |
| `AppLifecycle` | what `App` promises, from spec sections 3 and 4.1 | The abstract phases configuring → constructing → starting → running, plus `failed` (which sets `stopping`: the exit runs), `terminated` (the end after a failure) and `stopped`. The actions are `Advance`, `Fail`, `RequestStop` and `Finish`; `ASafety` is the initial condition and the next-state relation. |
| `MCAppbase` | the TLC instance of `Appbase` | 2 shards {0,1}, 2 applets as model values, symmetry over the applets |
| `AppbaseProofs`, `AppbaseRefinement`, `AppbaseOptionsProofs`, `AppbaseTeardownProofs` | the TLAPS proofs about `Appbase` | see below |
| `Logging`, `MCLogging`, `LoggingProofs` | Log.h 58-61 and 117-171; Appbase.cpp 58-97 | `Logger(l)` is the constructor. With asserts enabled a duplicate name aborts the process; without them the second logger replaces the first in `moduleLoggers`. `DestroyLogger` models the destructor. `IsEnabledFor` models `isEnabledFor`. `ConfigureLogging(args)` is the logcfg lambda: an empty vector sets Info, a bad first token throws, and `ApplyOverrides` is the override loop, which stops at the first failing `split` or `LogLevelFromStr`. |
| `Chrono`, `MCChrono`, `ChronoProofs` | Chrono.h 94-102 and the formatters at 119-158 | `toTimestamp_ts` uses C's truncating `ldiv`/`div` (`CQuot`, `CRem`) and the unsigned narrowing casts (`Cast`). The radices and the widths are constants. |
| `Formatting` | FormattingUtils.h 288-332 | `FormatElement` is one iteration of the loop, and `FormatEnd` writes the closing brace. `Orders` gives the iteration orders of the two containers. |
| `ExpressionValue`, `MCExpressionValue`, `ExpressionValueProofs` | Expression.h 73-128 and 171-191 | `val` is the client's `Value`. `MakeValueLiteral` refuses NaN and otherwise encodes. `MakeValueReference` sets the name. `Receive(v)` models a Value deserialized from a request with any combination of fields. `Get(t)` is `get<T>()`, and `GetResult` keeps the order of its three checks: type, then reference, then payload. `Format` writes what the custom formatter writes (`FormatValue`). |

What is abstracted:

- Data is reduced to the values the properties can tell apart. Log level
  names are integers 0..6. A malformed token is one of the model values
  `BadLevel` or `NoText`. A logger is a model value, and `LoggerName` gives
  its name.
- In `Appbase`, every task that calls code outside this repository may fail.
  These are the service constructors and `start()`, the user constructors and
  starters, and the stoppers.
- In `ExpressionValue`, an MPack encoding is the pair of its type and value. A reader accepts exactly the encodings of its own type, and `Garbage` stands for bytes no reader accepts. The hex encoding is an injective tag, and a log text is a sequence of pieces.
- Output formatting is kept only where a property is about it. The bool-set
  formatter writes a sequence of pieces ("{", an element, ", ", "}").

## Runs

| Run | Config | Expect | What it shows |
|---|---|---|---|
| `appbase_lifecycle` | `MCAppbase.cfg` | pass | All option combinations and task failures on 2 shards × 2 applets, with two hard stoppers and one graceful stopper, and with App::stop arriving at any point of startup and a duplicate during the exit. Checks `TypeOK` and `RegisteredOnlyStarted` (a protocol is registered only after its `start()` has joined on every shard). Checks `ConflictAbortsBeforeConstruction` (`--tcp_port` together with `--tcp_endpoints` aborts startup before anything is constructed). Checks `ExitCompletes` (a stop leads to the end of the process). Checks `StoppersReverse` (a stopper runs only after every stopper registered after it in its list). Checks `LifecycleSafety`: under the refinement mapping (see "What is proved"), every step of App is a step of `AppLifecycle` or a stutter; a failed startup runs the exit before it ends. |
| `appbase_stopper_failure` | `MCAppbaseStoppers.cfg` | violation | `AllStoppersRun`: one failing stopper skips the stoppers registered before it. |
| `appbase_dispatcher_order` | `MCAppbaseDispatcher.cfg` | violation | `DispatcherStoppedBeforeProtocols`: the auto-RDMA factory is stopped before the dispatcher. |
| `appbase_restart_after_stop` | `MCAppbaseRestart.cfg` | violation | `NoRestartAfterStop`: a stop that races startup lets a start link restart a service that was already stopped. |
| `appbase_failed_startup` | `MCAppbaseFailed.cfg` | pass | Checks `ExitStopsServices`: with App::stop only after startup, once App has ended, after a failed link as after a stop, every service constructed and the Prometheus exporter are stopped on every shard. `or_terminate` calls `engine().exit(1)`, which runs the at_exit functions registered so far, and those were registered before anything was constructed. |
| `logging_levels` | `MCLogging.cfg` | pass | Checks `LevelsFollowConfig`. Loggers are created and destroyed before and after every kind of `--log_level` vector: empty, a bad first token, the last override winning, an override to NotSet, and malformed entries. Afterwards every live logger enables exactly the levels the vector asks for. It also checks `RegistryExact`: `moduleLoggers` maps each live logger's name to that logger and to nothing dead. |
| `logging_duplicate_names` | `MCLoggingNDEBUG.cfg` | violation | In an NDEBUG build, two loggers with the same name leave one of them out of `moduleLoggers`, so a later override misses it. |
| `chrono_timestamp` | `MCChrono.cfg` | pass | Checks `TimestampExact`. Every time point from 0 to 1300 ticks, which is past the wrap of the days field, splits into in-range fields. Those fields add back to the time point modulo the span of the days field. |
| `expression_get` | `MCExpressionValue.cfg` | pass | Checks `TypeOK` and `GetSound`. Values come from both builders (NaN included) and from requests (references with a type and a payload, and garbage payloads). `get<T>()` returns a value only for a literal of type T, and then it returns exactly the encoded value. |
| `expression_format` | `MCExpressionFormat.cfg` | violation | `FormatShowsLiteral`: formatting a literal writes its value ahead of the braced record and leaves the record's `literal` field empty. |
| `bool_set_format` | `MCFormatting.cfg` | violation | Checks `FormatMatchesJoin`. `{false, true}` is printed as `{false, true, }`. |

### Bounds and why they are enough

- **Appbase:**
  - Two shards make every fan-out join non-trivial: one shard can be ahead of the other.
  - Two applets give a user-applet fan-out with one applet ahead of the other.
  - `appbase_stopper_failure` uses two stoppers per list, which makes "the stoppers before a failing one" non-empty. The pass run uses two hard stoppers and one graceful stopper. So `StoppersReverse` sees a list with a stopper before another, and a failing last stopper that skips the first. It also fires `RunStopper`, `StopperFails` and `EndStopperList` on both lists.
  - `MaxStops = 2` lets a duplicate App::stop arrive during the exit.
  - `StopAnyTime` lets a stop arrive between any two links. That is how the restart race is found.
  - `appbase_failed_startup` uses two stoppers per list and no stop during startup, so every link can fail after a different set of services was constructed or started.
  - `TeardownOrder` is not in a pass run, because the restart race breaks it when a stop may come at any time. It is proved, for every bound, for the case where App::stop comes once startup has completed.
- **Logging:** two names with two loggers each give a logger that is created before configuration, one created after it, and two that share a name.
- **Chrono:** the radices are scaled to (4, 4, 3, 3, 2), and the days field is 2 bits wide. With these values the days field wraps at 1152 ticks, inside the run. The algorithm does not depend on the particular radices.
- **Formatting:** every subset of {false, true} in every iteration order.
- **Expression:** one field name, two value types (one of whose payloads includes NaN), and two null types. Every `Value` of these is receivable, which covers each branch of `get` and of the formatter.

Runs that check liveness do not use symmetry.

### Fairness

The model assumes `WF_vars(Startup) /\ WF_vars(ExitSteps) /\ WF_vars(ExitAgain)`.

- Each of these is a class of continuations on shard 0's reactor. A seastar reactor runs every ready continuation eventually, so each class may be assumed to make progress.
- The three classes are kept separate. With a single weak fairness over all of them, a run could cycle between a repeated stop request and its no-op, and never finish the exit. The reactor's FIFO task queue rules that run out.
- The model assumes no fairness on `Stop` itself. A stop is an external request, and it may never come.

Logging, Chrono and Formatting have safety properties only.

`CHECK_DEADLOCK FALSE` is used in these runs, because the process really does stop in each case:

- **Logging:** after an aborting assert or a throw, the process ends.
- **Formatting:** the formatter returns.

## What is proved (TLAPS)

The proofs hold for every set of shards containing 0 and every set of applets,
for any stopper counts and any `MaxStops ≥ 1`. They rely on the ASSUMEs of
`Appbase`.

- **`TypeCorrect`: `Spec => []TypeOK`.**
  - `TypeOK` alone is not inductive. The proof uses `TInv == TypeOK /\ InnerBound`.
  - `InnerBound` says that while a stopper list runs, the process is exiting, the current exit function is that list's function, and the list's position is within the list.
  - Without it, `EndStopperList` and `StopperFails` could not be shown to keep `exitPos` and `innerPos` in range.
  - The proof has `TInvInit`, and `TInvNext` with one case per action. The theorem follows by PTL.
- **`RegistrationAfterStart`: `Spec => []RegisteredOnlyStarted`.**
  - The strengthening relates the link counter `step` to the state of the services. `StartedPast` says that once `step` is past a protocol's start link, the protocol has started on every shard.
  - `StartedSoFar` says that within that link, the shards that have finished have started it.
  - `RegisteredLate` says that registrations exist only past the start link.
  - `RInv` adds these three to `TInv`. `RInvNext` uses lemmas about the concrete positions of the links (`LinkFacts`, `SIdxFacts`).

- **`ConflictAborts` (`AppbaseOptionsProofs`): `Spec => []ConflictAbortsBeforeConstruction`.**
  - The strengthening `StuckAtOpts` says what holds under the conflict:
    - the chain is at link 1 or 2;
    - "opts" can join only as failed, because its only task is `CheckTcpOptions`, which fails;
    - nothing has been constructed.
  - `CInv == TInv /\ StuckAtOpts` is inductive. `NextPhase` cannot leave "opts" unless the link failed, and `StartupFailed` ends startup.
- **`Teardown` (`AppbaseTeardownProofs`): `~StopAnyTime => (Spec => TeardownOrder)`.**
  - This is the action property, proved under the assumption that App::stop comes only once startup has completed. With `StopAnyTime` it is false: the run `appbase_restart_after_stop` shows a start link restarting a stopped service.
  - The proof uses `DInv`, which adds three conjuncts to `TInv`:
    - `NoStartupWhileStopping`: no link runs once a stop is pending;
    - `StoppedBehind`: every service whose exit function already ran is stopped on every shard;
    - `HooksBeforeExit`: exit functions run only after they were registered.
  - `HIdxFacts` relates the hook order to the `DependsOn` relation. `TeardownStep` shows that every step satisfies the step formula.
- **`StoppersRunInReverse` (`AppbaseTeardownProofs`): `Spec => []StoppersReverse`.**
  - It holds whether or not App::stop may race startup, and whether or not a stopper fails.
  - `StoppersReverse` is not inductive: it says nothing about the list position. The proof uses `SInv`, which adds four conjuncts to `TInv`:
    - `NoStopperBeforeExit`: no stopper has run before the exit began;
    - `ListReached`: a list's stoppers have run only if the exit position is below that list's exit function (`LPos`), or is at it while the list is iterated;
    - `ActiveSuffix`: while `do_for_each` is inside a list with a positive position, exactly the stoppers above the position have run;
    - `StoppersReverse` itself.
  - `ListReached` is what makes `BeginStopperList` safe: when a list starts, none of its stoppers has run yet. `ActiveSuffix` gives `RunStopper` and `StopperFails` the stoppers after the one they run. `InnerBound` together with `LPosFacts` ties the iterated list to the exit position.
  - TLC checked `SInv` on the `appbase_lifecycle` instance before the proof was written.
- **`Refinement` (`AppbaseRefinement`): `Spec => LifecycleSafety`, which is the safety part of `AppLifecycle`.**
  - The refinement mapping is defined in `Appbase`:
    - `LinkPhase` sends the configure links ("logcfg", "opts") to configuring, the construct links to constructing, and the start links to starting;
    - `AbsPhase` is `LinkPhase(Cur)` while startup runs, and otherwise the outcome of `lifecycle`;
    - `AbsStopping` is `stopReqs > 0 \/ exiting`.
  - `RefInit` shows the initial state maps to `AInit`. `RefNext` shows, from `TInv`, that every step is `Advance`, `Fail`, `RequestStop` or `Finish`, or a stutter of the abstract state.
  - `LinkPhaseSteps` states that consecutive links are in the same phase or in consecutive phases.
  - A failed link maps to `Fail`, which sets `stopping`: `StartupFailed` starts the exit walk. `FinishExit` maps to `Finish`, which ends a failed App as terminated and any other as stopped.
- **`ExitStopsAll` (`AppbaseTeardownProofs`): `~StopAnyTime => (Spec => []ExitStopsServices)`.**
  - `ExitStopsServices` is not inductive: it says nothing of a walk under way. The proof uses `EInv`, which adds three conjuncts to `DInv` (above):
    - `HooksFirst`: once any service is constructed, the exit functions are registered, since they are registered in the "opts" link before the first constructor;
    - `PromBehind`: once the walk is below the Prometheus exit function, the exporter is stopped;
    - `EndedExited`: App ends only with the walk at position 0.
  - With `StoppedBehind` of `DInv`, the walk at 0 means every exit function ran, so every constructed service is stopped. Without `~StopAnyTime` a start link may restart a stopped service (`appbase_restart_after_stop`), so the theorem needs the same hypothesis as `Teardown`.

The Appbase proofs hold for every set of shards containing 0 and every set of
applets, for any stopper counts and any `MaxStops ≥ 1`. The other components
have their own proof modules:

- **`TypeCorrect` and `GetIsSound` (`ExpressionValueProofs`).**
  - `TypeCorrect` is `Spec => []TypeOK`. `GetIsSound` is `Spec => GetSound`, an action property proved from `TypeOK`.
  - Lemmas:
    - `DecodesEnc`: a payload that the reader of type t accepts is `Enc(t, x)` for some value x of type t;
    - `ThrownNotReturned`: an exception record is never a returned one;
    - `GetResultType` and `FormatValueType`: what `get<T>()` and the formatter produce.
  - `FormatValueType` uses `ConcatProperties` from SequenceTheorems.
  - `TypeOK` is inductive as it stands.
- **`TimestampsExact` (`ChronoProofs`): `ASSUME MinTime = 0, FieldsFit PROVE Spec => []TimestampExact`.**
  - `FieldsFit` says each radix fits the field that holds its digit, as `Timestamp_ts` has them (1000 < 2^16, 60 < 2^8, 24 < 2^8). It also says each field's span `2^w` is a positive natural. That is true in arithmetic, but the provers cannot derive it for a symbolic exponent.
  - `MCChrono` states `InstanceFits`, so TLC confirms the model-checked instance meets these hypotheses.
  - The proof:
    - `UnitValues` gives the closed form of the place values. It shows that a witness satisfies the recursive function's equation, and that any solution equals the witness.
    - `DivStep` is the Euclidean division for a non-negative dividend.
    - `CastSmall` shows that a narrowing cast keeps a digit below its field's span.
    - `DigitBound` is applied four times to bound the mixed-radix number below the days field.
    - `ModOfSplit` takes the remainder modulo the span of the days field.
  - `SplitExact` proves the split for one time point. It names the digits and quotients as fresh constants, so that each step is linear or a ring identity over plain variables.
  - `TypeOK` is inductive once `MinTime = 0`.
  - A negative argument is not covered: the Duration formatters pass durations through the same helper, and a negative remainder cast to an unsigned field is not below its radix.
- **`RegistryStaysExact` (`LoggingProofs`): `ASSUME AssertsEnabled PROVE Spec => []RegistryExact`.**
  - `RegistryExact` says every live logger is the object registered under its own name, and every registered object is alive.
  - `LInv` adds only `RegistryTyped`, the types of `alive` and `moduleLoggers`. The logcfg step leaves both unchanged, so the proof needs no fact about the override loop.
  - The constructor's assert is the hypothesis. `logging_duplicate_names` shows that NDEBUG builds break this registry.
- **`LoggingTypeCorrect` and `LevelsFollowConfigHolds` (`LoggingProofs`).**
  - `LoggingTypeCorrect` is `Spec => []TypeOK`. `LevelsFollowConfigHolds` is `ASSUME AssertsEnabled PROVE Spec => []LevelsFollowConfig`.
  - Both need to know what the override loop returns for a vector of any length, so they need induction over positions. The library's induction rules take an operator parameter, and the provers cannot instantiate it. The proofs therefore argue by least counterexample instead:
    - `LeastNat` gives every non-empty set of naturals a least element. It follows from `WFMin` and `NatLessThanWellFounded` of WellFoundedInduction, which take no operator parameter.
    - `FoldExists` shows that a function satisfying the fold's recursive equation exists for every length. If it did not, the least length without one could be extended from the one below.
    - `FoldUnfolds` shows that the CHOOSE in `OverrideFold` therefore satisfies that equation.
    - `FoldInvAll` shows that every prefix of the fold satisfies `FoldInv`, using `FoldInvStart`, `FoldInvStep` and a least failing position. `FoldInv` says three things of the result: it is well typed; it keeps every live logger at its module's level; and, starting from no overrides, `levels` holds the last override of each module (`LevelsMatchArgs`).
  - `LevelsFollowConfig` is not inductive: it speaks only of live loggers and of the applied vector. The proof uses `IInv == TypeOK /\ RegistryExact /\ LevelsTrack /\ CfgInv`:
    - `LevelsTrack`: every live logger's level is its module's recorded level. This is what makes a logger built after configuration correct.
    - `CfgInv`: on a shard that still runs, the recorded levels match the applied vector. With `<<"none">>` applied, every module is unset.
    - `RegistryExact`: the override loop reaches every live logger through `moduleLoggers`.
  - TLC checked `IInv` on the `logging_levels` instance before the proof was written.
  - The proof rests on the `Logging` assumption that each argument vector is a sequence of a level token followed by overrides, and that the `Unset` marker is not a level token. Both hold of the vectors the logcfg lambda receives.

Only TLC checks the following:

- The liveness property `ExitCompletes`, because TLAPS here does not reason
  about fairness or ENABLED.
- That `TeardownOrder` fails when a stop may race startup. This is checked as `NoRestartAfterStop` in `appbase_restart_after_stop`.
- The violated properties, where TLC gives the counterexample: `FormatMatchesJoin`,
  `FormatShowsLiteral`, and the Appbase and Logging violation runs.

These modules use no RECURSIVE operators. Their recursive definitions are
recursive functions (`Unit`, and the fold inside `ApplyOverrides`). `Unit`
has a fixed domain of six places, so its closed form is proved directly. The
fold ranges over vectors of any length. Its equation and invariant are proved
by least counterexample, as described above.

## Findings

- Appbase.cpp:155: a failing user stopper skips every stopper registered before it.
- Appbase.cpp:145: the registration order stops auto-RDMA before the dispatcher.
- Appbase.cpp:281: a stop during startup lets a start link restart a service that was already stopped.
- Log.h:153: in NDEBUG builds, a duplicate logger name loses level overrides.
- FormattingUtils.h:299: the bool-set formatters never advance `processed`.
- Expression.h:114: the Value formatter writes the literal to `ctx.out()` instead of into `lit`. The value therefore appears before the record, and the record's literal field is empty.

## Not modelled

- `VirtualNetworkStack`: its two register functions set an observer slot, or
  the default for `nullptr`, one call after another on one shard; `start` and
  `stop` only log. No interleaving, ordering or failure path is there for a
  model checker to explore beyond what the `nullptr` check says.
- `listenTCP`/`connectTCP`/`listenRRDMA`/`connectRRDMA` and the allocators pass
  straight through to Seastar.
- The factories and the dispatcher are not in this repository. Only their
  lifecycle, as `App` drives it, is modelled.
- `Deadline` has no state beyond a time point.
- `hash_combine` is a stateless hash.
- In Expression.h:
  - `Expression::evaluate` and the request handlers are declared here but implemented outside this repository.
  - `makeExpression` only moves its arguments into the struct.
  - MPack, `FieldTypes.h` and `HexCodec` are not in this header.
- The `K2_DEF_ENUM` name lookup (FormattingUtils.h:220) indexes `Names` with the enum's integer. Whether MPack accepts an out-of-range integer from the wire cannot be told from this repository, so this is listed as a hazard without a property.
- `Log.h` macros (`K2LOG_*`, `K2ASSERT`) only format and write a line or abort. Only their `isEnabledFor` guard is modelled.

## Plan

- Model the interaction of `Logging` with the logcfg tasks of several shards inside `Appbase`.
- Prove more action properties of `Appbase`. The project already has eight proof modules, so these proofs go into the existing ones.
