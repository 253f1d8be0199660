------------------------ MODULE AppbaseOptionsProofs -------------------------
(* --tcp_port together with --tcp_endpoints stops startup at the "opts"   *)
(* link, before any service is constructed.                               *)
EXTENDS AppbaseProofs

USE ShardsAssumption, StopperAssumption, StopsAssumption,
    StopAnyTimeAssumption, AppletsAssumption

Conflict == options.tcpPort /\ options.tcpEndpoints

(* Nothing has been constructed (the conclusion of the property).         *)
NoneBuilt ==
  /\ \A c \in Comps : \A s \in Shards : comp[c][s] = "none"
  /\ prom = "none"

(* Under the conflict the chain is at "logcfg" or "opts", and "opts" can  *)
(* only join failed: its one task is CheckTcpOptions.                     *)
StuckAtOpts ==
  Conflict =>
    /\ step \in 1..2
    /\ step = 2 /\ pending = {} => stepFailed
    /\ NoneBuilt

CInv == TInv /\ StuckAtOpts

LEMMA OptsFacts ==
  /\ Steps[1] = "logcfg" /\ Steps[2] = "opts"
  /\ Tasks("opts") = {0}
  /\ "logcfg" \notin DOMAIN CreateOf \cup DOMAIN StartOf \cup {"promC"}
  /\ "opts" \notin DOMAIN CreateOf \cup DOMAIN StartOf \cup {"promC"}
  /\ "opts" \notin Fallible
BY DEF Steps, Tasks, CreateOf, StartOf, Fallible

LEMMA CInvInit == Init => CInv
BY TInvInit DEF Init, CInv, StuckAtOpts, NoneBuilt, Conflict

LEMMA CInvNext == CInv /\ [Next]_vars => CInv'
<1> SUFFICES ASSUME CInv, [Next]_vars, Conflict' PROVE StuckAtOpts'
  BY TInvNext DEF CInv, StuckAtOpts
<1>0. Conflict /\ step \in 1..2 /\ (step = 2 /\ pending = {} => stepFailed)
      /\ NoneBuilt /\ TInv
  <2>1. UNCHANGED options
    BY DEF Next, Startup, ExitSteps, vars, LogConfigure, CheckTcpOptions,
           RegisterExitHooks, ShardedCreate, CreatePrometheus, CreateUserApplet,
           ShardedStart, RegisterProtocol, StartUserApplet, TaskFails,
           StartupFailed, NextPhase, StartupCompleted, Stop, BeginExit,
           ExitAgain, StopSharded, StopPrometheus, BeginStopperList,
           RunStopper, StopperFails, EndStopperList, FinishExit, Ended
  <2> QED
    BY <2>1 DEF CInv, StuckAtOpts, Conflict
<1> USE OptsFacts, StepsLen
<1>1. CASE UNCHANGED <<step, pending, stepFailed, comp, prom>>
  BY <1>0, <1>1 DEF StuckAtOpts, NoneBuilt, Conflict
<1>2. CASE \E s \in Shards : ShardedCreate(s) \/ ShardedStart(s)
  BY <1>0, <1>2 DEF ShardedCreate, ShardedStart, Cur
<1>3. CASE CreatePrometheus
  BY <1>0, <1>3 DEF CreatePrometheus, Cur
<1>4. CASE RegisterExitHooks
  BY <1>0, <1>4 DEF RegisterExitHooks, Conflict
<1>5. CASE \/ \E s \in Shards : LogConfigure(s)
           \/ CheckTcpOptions
           \/ \E t \in pending : TaskFails(t)
           \/ \E s \in Shards : RegisterProtocol(s)
           \/ \E u \in Applets : CreateUserApplet(u) \/ StartUserApplet(u)
  <2>1. UNCHANGED <<step, comp, prom>> /\ pending' \subseteq pending
    BY <1>5 DEF LogConfigure, CheckTcpOptions, TaskFails, RegisterProtocol,
                CreateUserApplet, StartUserApplet, Complete, StartupVars
  <2>2. step = 2 /\ pending' = {} => stepFailed'
    <3>1. CASE \E s \in Shards : LogConfigure(s)
      BY <3>1 DEF LogConfigure, Cur
    <3>2. CASE CheckTcpOptions
      BY <3>2, Zenon DEF CheckTcpOptions
    <3>3. CASE \E t \in pending : TaskFails(t)
      BY <3>3, <1>0 DEF TaskFails, Cur
    <3>4. CASE \/ \E s \in Shards : RegisterProtocol(s)
               \/ \E u \in Applets : CreateUserApplet(u) \/ StartUserApplet(u)
      BY <3>4, <1>0 DEF RegisterProtocol, CreateUserApplet, StartUserApplet,
                        Cur, RegisterOf
    <3> QED
      BY <1>5, <3>1, <3>2, <3>3, <3>4
  <2> QED
    BY <1>0, <2>1, <2>2 DEF StuckAtOpts, NoneBuilt, Conflict
<1>6. CASE NextPhase
  <2>1. step = 1 /\ step' = 2 /\ pending' = {0}
    BY <1>0, <1>6 DEF NextPhase
  <2> QED
    BY <1>0, <1>6, <2>1 DEF NextPhase, StuckAtOpts, NoneBuilt, Conflict,
                           StartupVars
<1>7. CASE StartupCompleted
  BY <1>0, <1>7 DEF StartupCompleted
<1>8. CASE StopSharded
  <2>1. UNCHANGED <<step, pending, stepFailed, prom>>
    BY <1>8 DEF StopSharded
  <2>2. \A c \in Comps : \A s \in Shards : comp'[c][s] = "none"
    BY <1>0, <1>8 DEF StopSharded, NoneBuilt, TInv, TypeOK
  <2> QED
    BY <1>0, <2>1, <2>2 DEF StuckAtOpts, NoneBuilt, Conflict
<1>9. CASE StopPrometheus
  BY <1>0, <1>9 DEF StopPrometheus, StuckAtOpts, NoneBuilt, Conflict
<1>10. CASE \/ StartupFailed \/ Stop \/ BeginExit \/ ExitAgain \/ BeginStopperList
            \/ RunStopper \/ StopperFails \/ EndStopperList \/ FinishExit \/ Ended
  BY <1>10, <1>1
     DEF StartupFailed, Stop, BeginExit, ExitAgain, BeginStopperList,
         RunStopper, StopperFails, EndStopperList, FinishExit, Ended, vars,
         StartupVars, ExitVars
<1> QED
  BY <1>1, <1>2, <1>3, <1>4, <1>5, <1>6, <1>7, <1>8, <1>9, <1>10
     DEF Next, Startup, ExitSteps, vars

(* Given both --tcp_port and --tcp_endpoints, no reachable state has a    *)
(* service constructed (the check in the "opts" link of App::start comes  *)
(* before every construct link), for any shards and applets.              *)
THEOREM ConflictAborts == Spec => []ConflictAbortsBeforeConstruction
<1>1. Init => CInv
  BY CInvInit
<1>2. CInv /\ [Next]_vars => CInv'
  BY CInvNext
<1>3. CInv => ConflictAbortsBeforeConstruction
  BY DEF CInv, StuckAtOpts, NoneBuilt, Conflict, ConflictAbortsBeforeConstruction
<1> QED
  BY <1>1, <1>2, <1>3, PTL DEF Spec
=============================================================================
