------------------------------- MODULE Appbase -------------------------------
(***************************************************************************)
(* The startup and shutdown orchestration of k2::App (Appbase.cpp).        *)
(*                                                                         *)
(* App::start runs one future chain on shard 0.  Each link of the chain is *)
(* a "step": either a fan-out (invoke_on_all / sharded<T>::start) whose    *)
(* per-shard invocations complete in any order, a set of user applet       *)
(* futures joined by when_all_succeed, or a local continuation on shard 0. *)
(* The next link runs only when every task of the current one completed;  *)
(* a failed task makes the chain fail once all its siblings completed, and *)
(* .or_terminate() then ends the process.                                  *)
(*                                                                         *)
(* App::stop submits engine().exit() to shard 0, which runs the at_exit    *)
(* functions registered in the "opts" step last-registered-first.  The    *)
(* exit functions and the startup chain are continuations of the same     *)
(* cooperative reactor, so they interleave step by step.                   *)
(***************************************************************************)
EXTENDS Naturals, Sequences, FiniteSets

CONSTANTS
  Shards,       \* the reactor shards; shard 0 runs the chain and the exit
  Applets,      \* user applets: one constructor and one starter each
  NHard,        \* number of user hard stoppers (_stoppers)
  NGraceful,    \* number of user graceful stoppers (_gracefulStoppers)
  MaxStops,     \* bound on the App::stop calls in flight
  StopAnyTime   \* TRUE: App::stop may be called during startup too

ASSUME ShardsAssumption == 0 \in Shards /\ Shards \subseteq Nat
ASSUME StopperAssumption == NHard \in Nat /\ NGraceful \in Nat
ASSUME StopsAssumption == MaxStops \in Nat \ {0}
ASSUME StopAnyTimeAssumption == StopAnyTime \in BOOLEAN
ASSUME AppletsAssumption == Applets \cap Nat = {}

VARIABLES
  options,        \* the parsed command line: which options were given
  lifecycle,      \* "starting", "running", "failed" (startup failed, the
                  \* exit runs), "terminated" (ended after a failure) or
                  \* "stopped"
  step,           \* index in Steps of the running link of the chain
  pending,        \* tasks of the running link that have not completed
  stepFailed,     \* some task of the running link failed
  logCfg,         \* per shard: the log level was set from the options
  comp,           \* per sharded service and shard: its instance's state
  prom,           \* state of the (unsharded) Prometheus exporter
  registered,     \* per shard: protocols registered with the dispatcher
  ctorsDone,      \* applets whose constructor future resolved
  startersDone,   \* applets whose starter future resolved
  hooksRegistered,\* the at_exit functions have been registered
  stopReqs,       \* App::stop submissions not yet run on shard 0
  exiting,        \* engine().exit() has begun the exit functions
  exitPos,        \* exit functions HookOrder[1..exitPos] are still to run
  agg,            \* "idle", "hard" or "graceful": stopper list being run
  innerPos,       \* stoppers 1..innerPos of that list are still to run
  stoppersRun     \* <<list, index>> of every user stopper that was called

vars == <<options, lifecycle, step, pending, stepFailed, logCfg, comp, prom,
          registered, ctorsDone, startersDone, hooksRegistered, stopReqs,
          exiting, exitPos, agg, innerPos, stoppersRun>>

-----------------------------------------------------------------------------
(* The services that are sharded<> objects, and the protocol factories.   *)
Comps == {"config", "vnet", "tcp", "rdma", "auto", "rpc"}
Protos == {"tcp", "rdma", "auto"}
CompStates == {"none", "constructed", "started", "stopped"}

(* The links of the startup chain, in the order of App::start.            *)
Steps == <<"logcfg", "opts",
           "cfgC", "promC", "vnetC", "tcpC", "rdmaC", "autoC", "rpcC", "userC",
           "vnetS", "tcpS", "tcpR", "rdmaS", "rdmaR", "autoS", "autoR",
           "rpcS", "userS">>
NSteps == Len(Steps)

(* Which service each construct, start and register link acts on.         *)
CreateOf == [cfgC |-> "config", vnetC |-> "vnet", tcpC |-> "tcp",
             rdmaC |-> "rdma", autoC |-> "auto", rpcC |-> "rpc"]
StartOf == [vnetS |-> "vnet", tcpS |-> "tcp", rdmaS |-> "rdma",
            autoS |-> "auto", rpcS |-> "rpc"]
RegisterOf == [tcpR |-> "tcp", rdmaR |-> "rdma", autoR |-> "auto"]

(* The tasks a link waits for: one per shard for a fan-out, one per       *)
(* applet for the when_all_succeed links, shard 0 for a local link.       *)
Tasks(n) ==
  IF n \in {"opts", "promC"} THEN {0}
  ELSE IF n \in {"userC", "userS"} THEN Applets
  ELSE Shards

(* Links whose tasks call code outside this repository, which may throw   *)
(* (bind failures, missing RDMA hardware, user code).  The VirtualNetwork-*)
(* Stack constructor and start() cannot fail; "logcfg" and "opts" fail    *)
(* only as their own code decides.                                         *)
Fallible == {"cfgC", "promC", "tcpC", "rdmaC", "autoC", "rpcC", "userC",
             "tcpS", "tcpR", "rdmaS", "rdmaR", "autoS", "autoR", "rpcS",
             "userS"}

(* The at_exit functions in registration order (Appbase.cpp 125-173).      *)
HookOrder == <<"config", "prom", "vnet", "tcp", "rdma", "rpc", "auto",
               "hard", "graceful">>
NHooks == Len(HookOrder)
StopperCount == [hard |-> NHard, graceful |-> NGraceful]
AllStoppers == ({"hard"} \X (1..NHard)) \cup ({"graceful"} \X (1..NGraceful))

Live == lifecycle \in {"starting", "running", "failed"}
Cur == Steps[step]

(* The exit starts at the last exit function registered, if any was.     *)
ExitStart == IF hooksRegistered THEN NHooks ELSE 0

-----------------------------------------------------------------------------
Init ==
  /\ options \in [tcpPort : BOOLEAN, tcpEndpoints : BOOLEAN,
                  logLevelsValid : BOOLEAN]
  /\ lifecycle = "starting"
  /\ step = 1
  /\ pending = Tasks(Steps[1])
  /\ stepFailed = FALSE
  /\ logCfg = [s \in Shards |-> FALSE]
  /\ comp = [c \in Comps |-> [s \in Shards |-> "none"]]
  /\ prom = "none"
  /\ registered = [s \in Shards |-> {}]
  /\ ctorsDone = {}
  /\ startersDone = {}
  /\ hooksRegistered = FALSE
  /\ stopReqs = 0
  /\ exiting = FALSE
  /\ exitPos = 0
  /\ agg = "idle"
  /\ innerPos = 0
  /\ stoppersRun = {}

(* A task t of the running link completes.                                 *)
Complete(t) ==
  /\ lifecycle = "starting"
  /\ t \in pending
  /\ pending' = pending \ {t}

StartupVars == <<logCfg, comp, prom, registered, ctorsDone, startersDone,
                 hooksRegistered>>
ExitVars == <<stopReqs, exiting, exitPos, agg, innerPos, stoppersRun>>

-----------------------------------------------------------------------------
(* Startup.  Shard s sets its log levels from --log_level; a malformed    *)
(* entry makes split() or LogLevelFromStr throw on that shard.             *)
LogConfigure(s) ==
  /\ Cur = "logcfg"
  /\ Complete(s)
  /\ IF options.logLevelsValid
       THEN /\ logCfg' = [logCfg EXCEPT ![s] = TRUE]
            /\ UNCHANGED stepFailed
       ELSE /\ stepFailed' = TRUE
            /\ UNCHANGED logCfg
  /\ UNCHANGED <<options, lifecycle, step, comp, prom, registered, ctorsDone,
                 startersDone, hooksRegistered, ExitVars>>

(* Both --tcp_port and --tcp_endpoints: the link returns an exceptional   *)
(* future before any at_exit function is registered.                      *)
CheckTcpOptions ==
  /\ Cur = "opts"
  /\ options.tcpPort /\ options.tcpEndpoints
  /\ Complete(0)
  /\ stepFailed' = TRUE
  /\ UNCHANGED <<options, lifecycle, step, StartupVars, ExitVars>>

(* Otherwise the TCP builder is chosen and the nine at_exit functions are *)
(* registered.                                                             *)
(* Mutant: the tcp_port/tcp_endpoints conflict check is missing.        *)
RegisterExitHooksNoCheck ==
  /\ Cur = "opts"
  /\ Complete(0)
  /\ hooksRegistered' = TRUE
  /\ UNCHANGED <<options, lifecycle, step, stepFailed, logCfg, comp, prom,
                 registered, ctorsDone, startersDone, ExitVars>>

RegisterExitHooks ==
  /\ Cur = "opts"
  /\ ~(options.tcpPort /\ options.tcpEndpoints)
  /\ Complete(0)
  /\ hooksRegistered' = TRUE
  /\ UNCHANGED <<options, lifecycle, step, stepFailed, logCfg, comp, prom,
                 registered, ctorsDone, startersDone, ExitVars>>

(* sharded<T>::start: shard s constructs its instance.                     *)
ShardedCreate(s) ==
  /\ Cur \in DOMAIN CreateOf
  /\ Complete(s)
  /\ comp' = [comp EXCEPT ![CreateOf[Cur]][s] = "constructed"]
  /\ UNCHANGED <<options, lifecycle, step, stepFailed, logCfg, prom,
                 registered, ctorsDone, startersDone, hooksRegistered,
                 ExitVars>>

(* prometheus.start(pconf) on shard 0.                                     *)
CreatePrometheus ==
  /\ Cur = "promC"
  /\ Complete(0)
  /\ prom' = "started"
  /\ UNCHANGED <<options, lifecycle, step, stepFailed, logCfg, comp,
                 registered, ctorsDone, startersDone, hooksRegistered,
                 ExitVars>>

(* The constructor future of applet u resolves.                            *)
CreateUserApplet(u) ==
  /\ Cur = "userC"
  /\ Complete(u)
  /\ ctorsDone' = ctorsDone \cup {u}
  /\ UNCHANGED <<options, lifecycle, step, stepFailed, logCfg, comp, prom,
                 registered, startersDone, hooksRegistered, ExitVars>>

(* invoke_on_all(&T::start): shard s starts its instance.                  *)
ShardedStart(s) ==
  /\ Cur \in DOMAIN StartOf
  /\ Complete(s)
  /\ comp' = [comp EXCEPT ![StartOf[Cur]][s] = "started"]
  /\ UNCHANGED <<options, lifecycle, step, stepFailed, logCfg, prom,
                 registered, ctorsDone, startersDone, hooksRegistered,
                 ExitVars>>

(* invoke_on_all(&RPCDispatcher::registerProtocol, ref(proto)) on shard s. *)
RegisterProtocol(s) ==
  /\ Cur \in DOMAIN RegisterOf
  /\ Complete(s)
  /\ registered' = [registered EXCEPT ![s] = @ \cup {RegisterOf[Cur]}]
  /\ UNCHANGED <<options, lifecycle, step, stepFailed, logCfg, comp, prom,
                 ctorsDone, startersDone, hooksRegistered, ExitVars>>

(* The starter future of applet u resolves.                                *)
StartUserApplet(u) ==
  /\ Cur = "userS"
  /\ Complete(u)
  /\ startersDone' = startersDone \cup {u}
  /\ UNCHANGED <<options, lifecycle, step, stepFailed, logCfg, comp, prom,
                 registered, ctorsDone, hooksRegistered, ExitVars>>

(* A task of a link that calls external code throws instead.               *)
TaskFails(t) ==
  /\ Cur \in Fallible
  /\ Complete(t)
  /\ stepFailed' = TRUE
  /\ UNCHANGED <<options, lifecycle, step, StartupVars, ExitVars>>

(* Mutant: or_terminate() ends the process at once, no at_exit function  *)
(* running.                                                                 *)
StartupFailedNoExit ==
  /\ lifecycle = "starting"
  /\ pending = {}
  /\ stepFailed
  /\ lifecycle' = "terminated"
  /\ UNCHANGED <<options, step, pending, stepFailed, StartupVars, ExitVars>>

(* All tasks completed and one failed: handle_exception rethrows and      *)
(* or_terminate() calls engine().exit(1), which runs the exit functions    *)
(* registered so far from the last one back to the first.  The rest of     *)
(* the chain never runs.  An exit already under way (App::stop came        *)
(* first) goes on where it is.                                              *)
StartupFailed ==
  /\ lifecycle = "starting"
  /\ pending = {}
  /\ stepFailed
  /\ lifecycle' = "failed"
  /\ exiting' = TRUE
  /\ exitPos' = IF exiting THEN exitPos ELSE ExitStart
  /\ UNCHANGED <<options, step, pending, stepFailed, StartupVars,
                 stopReqs, agg, innerPos, stoppersRun>>

(* Mutant: the link joins on the first completed task (when_any).       *)
NextPhaseAnyTask ==
  /\ lifecycle = "starting"
  /\ \E t \in Tasks(Cur) : t \notin pending
  /\ ~stepFailed
  /\ step < NSteps
  /\ step' = step + 1
  /\ pending' = Tasks(Steps[step + 1])
  /\ UNCHANGED <<options, lifecycle, stepFailed, StartupVars, ExitVars>>

(* All tasks succeeded: the .then of the next link runs.                   *)
NextPhase ==
  /\ lifecycle = "starting"
  /\ pending = {}
  /\ ~stepFailed
  /\ step < NSteps
  /\ step' = step + 1
  /\ pending' = Tasks(Steps[step + 1])
  /\ UNCHANGED <<options, lifecycle, stepFailed, StartupVars, ExitVars>>

(* The last link succeeded: "Startup sequence completed successfully".    *)
StartupCompleted ==
  /\ lifecycle = "starting"
  /\ pending = {}
  /\ ~stepFailed
  /\ step = NSteps
  /\ lifecycle' = "running"
  /\ UNCHANGED <<options, step, pending, stepFailed, StartupVars, ExitVars>>

-----------------------------------------------------------------------------
(* Shutdown.  App::stop, from any shard, submits the exit to shard 0.     *)
Stop ==
  /\ Live
  /\ StopAnyTime \/ lifecycle = "running"
  /\ stopReqs < MaxStops
  /\ stopReqs' = stopReqs + 1
  /\ UNCHANGED <<options, lifecycle, step, pending, stepFailed, StartupVars,
                 exiting, exitPos, agg, innerPos, stoppersRun>>

(* Mutant: the exit starts one past the last registered function.       *)
BeginExitPastEnd ==
  /\ Live
  /\ stopReqs > 0
  /\ ~exiting
  /\ stopReqs' = stopReqs - 1
  /\ exiting' = TRUE
  /\ exitPos' = IF hooksRegistered THEN NHooks + 1 ELSE 0
  /\ UNCHANGED <<options, lifecycle, step, pending, stepFailed, StartupVars,
                 agg, innerPos, stoppersRun>>

(* Shard 0 runs engine().exit(retcode): the exit functions registered so  *)
(* far are run from the last one back to the first.                        *)
BeginExit ==
  /\ Live
  /\ stopReqs > 0
  /\ ~exiting
  /\ stopReqs' = stopReqs - 1
  /\ exiting' = TRUE
  /\ exitPos' = ExitStart
  /\ UNCHANGED <<options, lifecycle, step, pending, stepFailed, StartupVars,
                 agg, innerPos, stoppersRun>>

(* A further exit request while the exit functions run changes nothing.   *)
ExitAgain ==
  /\ Live
  /\ stopReqs > 0
  /\ exiting
  /\ stopReqs' = stopReqs - 1
  /\ UNCHANGED <<options, lifecycle, step, pending, stepFailed, StartupVars,
                 exiting, exitPos, agg, innerPos, stoppersRun>>

Hook == HookOrder[exitPos]

(* An exit function calls sharded<T>::stop(): every shard's instance is   *)
(* stopped and destroyed; a service never started is left alone.           *)
StopSharded ==
  /\ Live
  /\ exiting
  /\ exitPos > 0
  /\ Hook \in Comps
  /\ comp' = [comp EXCEPT ![Hook] =
                [s \in Shards |-> IF @[s] = "none" THEN "none" ELSE "stopped"]]
  /\ exitPos' = exitPos - 1
  /\ UNCHANGED <<options, lifecycle, step, pending, stepFailed, logCfg, prom,
                 registered, ctorsDone, startersDone, hooksRegistered,
                 stopReqs, exiting, agg, innerPos, stoppersRun>>

(* The exit function "stop prometheus".                                    *)
StopPrometheus ==
  /\ Live
  /\ exiting
  /\ exitPos > 0
  /\ Hook = "prom"
  /\ prom' = IF prom = "none" THEN "none" ELSE "stopped"
  /\ exitPos' = exitPos - 1
  /\ UNCHANGED <<options, lifecycle, step, pending, stepFailed, logCfg, comp,
                 registered, ctorsDone, startersDone, hooksRegistered,
                 stopReqs, exiting, agg, innerPos, stoppersRun>>

(* Mutant: do_for_each starts one before rbegin(), skipping the stopper  *)
(* registered last.                                                          *)
BeginStopperListSkipLast ==
  /\ Live
  /\ exiting
  /\ exitPos > 0
  /\ Hook \in {"hard", "graceful"}
  /\ agg = "idle"
  /\ agg' = Hook
  /\ innerPos' = StopperCount[Hook] - 1
  /\ UNCHANGED <<options, lifecycle, step, pending, stepFailed, StartupVars,
                 stopReqs, exiting, exitPos, stoppersRun>>

(* "hard stop user applets" / "graceful stop user applets": do_for_each   *)
(* over the stopper list from rbegin() to rend().                           *)
BeginStopperList ==
  /\ Live
  /\ exiting
  /\ exitPos > 0
  /\ Hook \in {"hard", "graceful"}
  /\ agg = "idle"
  /\ agg' = Hook
  /\ innerPos' = StopperCount[Hook]
  /\ UNCHANGED <<options, lifecycle, step, pending, stepFailed, StartupVars,
                 stopReqs, exiting, exitPos, stoppersRun>>

(* The stopper at innerPos resolves and do_for_each goes on to the one    *)
(* registered before it.                                                    *)
RunStopper ==
  /\ Live
  /\ agg # "idle"
  /\ innerPos > 0
  /\ stoppersRun' = stoppersRun \cup {<<agg, innerPos>>}
  /\ innerPos' = innerPos - 1
  /\ UNCHANGED <<options, lifecycle, step, pending, stepFailed, StartupVars,
                 stopReqs, exiting, exitPos, agg>>

(* The stopper at innerPos fails: do_for_each returns the exceptional      *)
(* future at once and handle_exception logs it; the stoppers registered    *)
(* before it are not called.                                                *)
StopperFails ==
  /\ Live
  /\ agg # "idle"
  /\ innerPos > 0
  /\ stoppersRun' = stoppersRun \cup {<<agg, innerPos>>}
  /\ innerPos' = 0
  /\ UNCHANGED <<options, lifecycle, step, pending, stepFailed, StartupVars,
                 stopReqs, exiting, exitPos, agg>>

(* Mutant: the exit function's future never resolves to do_for_each.     *)
EndStopperListNoPop ==
  /\ Live
  /\ agg # "idle"
  /\ innerPos = 0
  /\ agg' = "idle"
  /\ UNCHANGED <<options, lifecycle, step, pending, stepFailed, StartupVars,
                 stopReqs, exiting, exitPos, innerPos, stoppersRun>>

(* The list is done ("hard stopped" / "graceful stopped" or the caught    *)
(* exception): the exit function's future resolves.                        *)
EndStopperList ==
  /\ Live
  /\ agg # "idle"
  /\ innerPos = 0
  /\ agg' = "idle"
  /\ exitPos' = exitPos - 1
  /\ UNCHANGED <<options, lifecycle, step, pending, stepFailed, StartupVars,
                 stopReqs, exiting, innerPos, stoppersRun>>

(* Every exit function ran: the reactor stops and run_deprecated returns; *)
(* whatever is left of the startup chain never runs.  The process ends     *)
(* "terminated" when it was the failed startup that asked for the exit.    *)
FinishExit ==
  /\ Live
  /\ exiting
  /\ exitPos = 0
  /\ agg = "idle"
  /\ lifecycle' = IF lifecycle = "failed" THEN "terminated" ELSE "stopped"
  /\ UNCHANGED <<options, step, pending, stepFailed, StartupVars, ExitVars>>

(* The process has ended.                                                   *)
Ended ==
  /\ ~Live
  /\ UNCHANGED vars

-----------------------------------------------------------------------------
Startup ==
  \/ \E s \in Shards : LogConfigure(s) \/ ShardedCreate(s) \/ ShardedStart(s)
                       \/ RegisterProtocol(s)
  \/ CheckTcpOptions \/ RegisterExitHooks \/ CreatePrometheus
  \/ \E u \in Applets : CreateUserApplet(u) \/ StartUserApplet(u)
  \/ \E t \in pending : TaskFails(t)
  \/ StartupFailed \/ NextPhase \/ StartupCompleted

(* The exit functions proper; ExitAgain only consumes a further request. *)
ExitSteps ==
  \/ BeginExit \/ StopSharded \/ StopPrometheus
  \/ BeginStopperList \/ RunStopper \/ StopperFails \/ EndStopperList
  \/ FinishExit

Next == Startup \/ ExitSteps \/ ExitAgain \/ Stop \/ Ended

(* Seastar's reactor runs every ready continuation eventually: the        *)
(* startup chain, the exit functions and the handling of each submitted   *)
(* request are each weakly fair.  App::stop is the environment's choice   *)
(* and has no fairness.                                                     *)
Spec == Init /\ [][Next]_vars
          /\ WF_vars(Startup) /\ WF_vars(ExitSteps) /\ WF_vars(ExitAgain)

-----------------------------------------------------------------------------
(* Properties.                                                              *)

(* Every variable holds a value of its kind.                               *)
TypeOK ==
  /\ options \in [tcpPort : BOOLEAN, tcpEndpoints : BOOLEAN,
                  logLevelsValid : BOOLEAN]
  /\ lifecycle \in {"starting", "running", "failed", "terminated", "stopped"}
  /\ step \in 1..NSteps
  /\ pending \subseteq Shards \cup Applets
  /\ stepFailed \in BOOLEAN
  /\ logCfg \in [Shards -> BOOLEAN]
  /\ comp \in [Comps -> [Shards -> CompStates]]
  /\ prom \in {"none", "started", "stopped"}
  /\ registered \in [Shards -> SUBSET Protos]
  /\ ctorsDone \subseteq Applets
  /\ startersDone \subseteq Applets
  /\ hooksRegistered \in BOOLEAN
  /\ stopReqs \in 0..MaxStops
  /\ exiting \in BOOLEAN
  /\ exitPos \in 0..NHooks
  /\ agg \in {"idle", "hard", "graceful"}
  /\ innerPos \in Nat
  /\ stoppersRun \subseteq AllStoppers

(* A protocol factory is registered with a shard's dispatcher only once   *)
(* its start() has completed on every shard: the invoke_on_all of start   *)
(* must join all shards before registerProtocol is fanned out, because    *)
(* registration may deliver connections to any shard's factory at once.   *)
RegisteredOnlyStarted ==
  \A s \in Shards : \A p \in registered[s] :
    \A t \in Shards : comp[p][t] \in {"started", "stopped"}

(* Given both --tcp_port and --tcp_endpoints, startup is abandoned before *)
(* any service (sharded or Prometheus) is constructed.                     *)
ConflictAbortsBeforeConstruction ==
  options.tcpPort /\ options.tcpEndpoints =>
    /\ \A c \in Comps : \A s \in Shards : comp[c][s] = "none"
    /\ prom = "none"

(* The services each service holds a reference to: every service reads    *)
(* the global config; the factories hold the VirtualNetworkStack and the  *)
(* auto-RDMA factory also the RDMA factory (the builders in App::start).   *)
DependsOn == [config |-> {}, vnet |-> {"config"}, rpc |-> {"config"},
              tcp |-> {"config", "vnet"}, rdma |-> {"config", "vnet"},
              auto |-> {"config", "vnet", "rdma"}]

StopsNow(c) == \E s \in Shards : comp[c][s] # "stopped" /\ comp'[c][s] = "stopped"

(* When an exit function stops a service, the user stopper lists have     *)
(* already run and every service that references it is already stopped:   *)
(* the at_exit registration order, run last-first, is a valid teardown.   *)
TeardownOrder ==
  [][\A c \in Comps : StopsNow(c) =>
       /\ agg = "idle"
       /\ \A i \in 1..exitPos : HookOrder[i] \notin {"hard", "graceful"}
       /\ \A d \in Comps : c \in DependsOn[d] =>
            \A s \in Shards : comp[d][s] \in {"none", "stopped"}]_vars

(* Once App::stop has reached shard 0, the process ends: every exit       *)
(* function (and every stopper it iterates) finishes.                      *)
ExitCompletes == exiting ~> ~Live

(* Spec section 8: a failing user stopper does not keep the other         *)
(* stoppers from running; after shutdown every registered stopper ran.    *)
AllStoppersRun == lifecycle = "stopped" => stoppersRun = AllStoppers

(* Spec sections 4.1 and 8: the stoppers of one list run from the last   *)
(* registered back to the first (do_for_each from rbegin() to rend() in   *)
(* the "hard/graceful stop user applets" exit functions): a stopper has   *)
(* run only once every stopper registered after it in its list has run.   *)
StoppersReverse ==
  \A r \in stoppersRun : \A j \in (r[2] + 1)..StopperCount[r[1]] :
    <<r[1], j>> \in stoppersRun

(* Spec section 4.1: subsystems are stopped in the reverse of their       *)
(* construction order, so the dispatcher, constructed last, is stopped    *)
(* before any protocol factory it routes messages over.                    *)
DispatcherStoppedBeforeProtocols ==
  [][\A p \in Protos : StopsNow(p) =>
       \A s \in Shards : comp["rpc"][s] \in {"none", "stopped"}]_vars

(* Spec section 3: lifecycle transitions are linear and never revisited:  *)
(* a service instance that was stopped is never started again.             *)
NoRestartAfterStop ==
  [][\A c \in Comps : \A s \in Shards :
       comp[c][s] = "stopped" => comp'[c][s] = "stopped"]_vars

(* Spec section 4.1 step 6 and the comment at the at_exit registrations: *)
(* when the process has ended, after App::stop or after a failed startup   *)
(* (or_terminate's engine().exit(1)), every service that was constructed   *)
(* on some shard, and the Prometheus exporter, has been stopped by the     *)
(* exit functions registered before any construction.                     *)
ExitStopsServices ==
  ~Live =>
    /\ \A c \in Comps : \A s \in Shards : comp[c][s] \in {"none", "stopped"}
    /\ prom \in {"none", "stopped"}
-----------------------------------------------------------------------------
(* Refinement.  The abstract phase is read off the chain: the links up to *)
(* "opts" configure, those up to "userC" construct, the rest start.  A    *)
(* stop counts as requested from its submission on (App::stop) and stays  *)
(* requested while the exit functions run.                                 *)
ConfigureLinks == {"logcfg", "opts"}
ConstructLinks == {"cfgC", "promC", "vnetC", "tcpC", "rdmaC", "autoC",
                   "rpcC", "userC"}

LinkPhase(n) ==
  IF n \in ConfigureLinks THEN "configuring"
  ELSE IF n \in ConstructLinks THEN "constructing"
  ELSE "starting"

Outcome == [running |-> "running", failed |-> "failed",
            terminated |-> "terminated", stopped |-> "stopped"]

AbsPhase ==
  IF lifecycle \in DOMAIN Outcome THEN Outcome[lifecycle] ELSE LinkPhase(Cur)

AbsStopping == stopReqs > 0 \/ exiting

Lifecycle == INSTANCE AppLifecycle WITH phase <- AbsPhase, stopping <- AbsStopping

(* App implements the lifecycle of spec section 3: the startup phases     *)
(* complete in order; a failed phase ends startup and starts the exit      *)
(* (or_terminate); the process ends only once an exit was requested, by    *)
(* App::stop or by that failure, and ends "terminated" exactly when the    *)
(* startup failed.  Every step of App's chain, of App::stop and of the     *)
(* exit functions is a step of the abstract lifecycle or leaves its phase  *)
(* and stop request unchanged.                                             *)
LifecycleSafety == Lifecycle!ASafety
=============================================================================
