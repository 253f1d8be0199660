------------------------ MODULE AppbaseTeardownProofs ------------------------
(* The exit functions tear the services down in a valid order when       *)
(* App::stop is called only once startup completed.                       *)
EXTENDS AppbaseProofs

USE ShardsAssumption, StopperAssumption, StopsAssumption,
    StopAnyTimeAssumption, AppletsAssumption

(* The position in HookOrder of each service's exit function.             *)
HIdx == [config |-> 1, vnet |-> 3, tcp |-> 4, rdma |-> 5, rpc |-> 6, auto |-> 7]
Gone == {"none", "stopped"}

LEMMA HIdxFacts ==
  /\ \A c \in Comps : HIdx[c] \in 1..7 /\ HookOrder[HIdx[c]] = c
  /\ \A i \in 1..NHooks : HookOrder[i] \in Comps => i = HIdx[HookOrder[i]]
  /\ \A i \in 1..7 : HookOrder[i] \notin {"hard", "graceful"}
  /\ \A i \in 8..NHooks : HookOrder[i] \notin Comps
  /\ \A c, d \in Comps : c \in DependsOn[d] => HIdx[c] < HIdx[d]
BY DEF HIdx, HookOrder, NHooks, Comps, DependsOn

(* No startup link runs once a stop is pending: App::stop came after      *)
(* "Startup sequence completed successfully".                             *)
NoStartupWhileStopping ==
  stopReqs > 0 \/ exiting => lifecycle # "starting"

(* Every service whose exit function already ran is stopped (or was never *)
(* constructed on that shard).                                             *)
StoppedBehind ==
  exiting /\ hooksRegistered =>
    \A c \in Comps : HIdx[c] > exitPos => \A s \in Shards : comp[c][s] \in Gone

(* The exit runs functions only if they were registered.                 *)
HooksBeforeExit == exitPos > 0 => hooksRegistered

DInv == TInv /\ NoStartupWhileStopping /\ StoppedBehind /\ HooksBeforeExit

LEMMA DInvInit == Init => DInv
BY TInvInit DEF Init, DInv, NoStartupWhileStopping, StoppedBehind, HooksBeforeExit

LEMMA DInvNext ==
  ASSUME ~StopAnyTime, DInv, [Next]_vars
  PROVE  DInv'
<1> USE HIdxFacts, HooksFacts
<1>0. TInv'
  BY TInvNext DEF DInv
<1>1. CASE UNCHANGED <<lifecycle, comp, hooksRegistered, stopReqs, exiting, exitPos>>
  BY <1>0, <1>1 DEF DInv, NoStartupWhileStopping, StoppedBehind, HooksBeforeExit
<1>2. CASE \E s \in Shards : ShardedCreate(s) \/ ShardedStart(s)
  <2>1. ~exiting /\ stopReqs = 0
    BY <1>2 DEF ShardedCreate, ShardedStart, Complete, DInv,
                NoStartupWhileStopping, TInv, TypeOK
  <2> QED
    BY <1>0, <1>2, <2>1 DEF ShardedCreate, ShardedStart, Complete, ExitVars,
                           DInv, NoStartupWhileStopping, StoppedBehind, HooksBeforeExit
<1>3. CASE RegisterExitHooks
  <2>1. ~exiting /\ stopReqs = 0
    BY <1>3 DEF RegisterExitHooks, Complete, DInv, NoStartupWhileStopping,
                TInv, TypeOK
  <2> QED
    BY <1>0, <1>3, <2>1 DEF RegisterExitHooks, Complete, ExitVars, DInv,
                           NoStartupWhileStopping, StoppedBehind, HooksBeforeExit
<1>4. CASE StartupCompleted \/ FinishExit
  BY <1>0, <1>4 DEF StartupCompleted, FinishExit, StartupVars,
                    ExitVars, DInv, NoStartupWhileStopping, StoppedBehind, HooksBeforeExit
<1>5. CASE Stop
  BY <1>0, <1>5 DEF Stop, StartupVars, DInv, NoStartupWhileStopping,
                    StoppedBehind, HooksBeforeExit
<1>6. CASE BeginExit
  <2>1. exitPos' = IF hooksRegistered THEN NHooks ELSE 0
    BY <1>6 DEF BeginExit, ExitStart
  <2>2. /\ lifecycle # "starting" /\ exiting'
        /\ UNCHANGED <<lifecycle, comp, hooksRegistered>>
    BY <1>6 DEF BeginExit, StartupVars, DInv, NoStartupWhileStopping
  <2> QED
    BY <1>0, <2>1, <2>2 DEF DInv, NoStartupWhileStopping, StoppedBehind,
                           HooksBeforeExit, TInv, TypeOK
<1>11. CASE StartupFailed
  <2>1. /\ lifecycle' = "failed" /\ exiting'
        /\ UNCHANGED <<comp, hooksRegistered, stopReqs>>
    BY <1>11 DEF StartupFailed, StartupVars
  <2>2. CASE exiting
    BY <1>0, <1>11, <2>1, <2>2 DEF StartupFailed, DInv, NoStartupWhileStopping,
                                  StoppedBehind, HooksBeforeExit
  <2>3. CASE ~exiting
    <3>1. exitPos' = IF hooksRegistered THEN NHooks ELSE 0
      BY <1>11, <2>3 DEF StartupFailed, ExitStart
    <3>2. \A c \in Comps : HIdx[c] <= exitPos' \/ ~hooksRegistered
      BY <3>1
    <3> QED
      BY <1>0, <2>1, <3>1, <3>2 DEF DInv, NoStartupWhileStopping, StoppedBehind,
                                   HooksBeforeExit
  <2> QED
    BY <2>2, <2>3
<1>7. CASE StopSharded
  <2>1. Hook \in Comps /\ exitPos \in 1..NHooks /\ HIdx[Hook] = exitPos
    BY <1>7 DEF StopSharded, Hook, DInv, TInv, TypeOK
  <2>2. \A s \in Shards : comp'[Hook][s] \in Gone
    BY <1>7, <2>1 DEF StopSharded, DInv, TInv, TypeOK, Gone
  <2>3. \A c \in Comps \ {Hook} : comp'[c] = comp[c]
    BY <1>7, <2>1 DEF StopSharded, DInv, TInv, TypeOK
  <2> QED
    BY <1>0, <1>7, <2>1, <2>2, <2>3
       DEF StopSharded, DInv, NoStartupWhileStopping, StoppedBehind, HooksBeforeExit
<1>8. CASE StopPrometheus \/ EndStopperList
  <2>1. exitPos \in 1..NHooks /\ Hook \notin Comps /\ exitPos' = exitPos - 1
    <3>1. CASE StopPrometheus
      BY <3>1 DEF StopPrometheus, Hook, Comps, DInv, TInv, TypeOK
    <3>2. CASE EndStopperList
      BY <3>2 DEF EndStopperList, Hook, Comps, DInv, TInv, TypeOK, InnerBound
    <3> QED
      BY <1>8, <3>1, <3>2
  <2>2. \A c \in Comps : HIdx[c] # exitPos
    BY <2>1 DEF Hook
  <2>3. UNCHANGED <<lifecycle, comp, hooksRegistered, stopReqs, exiting>>
    BY <1>8 DEF StopPrometheus, EndStopperList, StartupVars
  <2> QED
    BY <1>0, <2>1, <2>2, <2>3
       DEF DInv, NoStartupWhileStopping, StoppedBehind, HooksBeforeExit
<1>9. CASE \/ \E s \in Shards : LogConfigure(s) \/ RegisterProtocol(s)
           \/ CheckTcpOptions \/ CreatePrometheus
           \/ \E u \in Applets : CreateUserApplet(u) \/ StartUserApplet(u)
           \/ \E t \in pending : TaskFails(t)
           \/ NextPhase
           \/ BeginStopperList \/ RunStopper \/ StopperFails \/ Ended
  <2>1. UNCHANGED <<lifecycle, comp, hooksRegistered, stopReqs, exiting, exitPos>>
    BY <1>9 DEF LogConfigure, RegisterProtocol, CheckTcpOptions,
                CreatePrometheus, CreateUserApplet, StartUserApplet, TaskFails,
                NextPhase, BeginStopperList, RunStopper,
                StopperFails, Ended, vars, StartupVars, ExitVars
  <2> QED
    BY <1>0, <2>1 DEF DInv, NoStartupWhileStopping, StoppedBehind, HooksBeforeExit
<1>10. CASE ExitAgain
  BY <1>0, <1>10 DEF ExitAgain, StartupVars, DInv, NoStartupWhileStopping,
                     StoppedBehind, HooksBeforeExit
<1> QED
  BY <1>1, <1>2, <1>3, <1>4, <1>5, <1>6, <1>7, <1>8, <1>9, <1>10, <1>11
     DEF Next, Startup, ExitSteps, vars

(* The step condition of TeardownOrder holds in every step from DInv.     *)
LEMMA TeardownStep ==
  ASSUME DInv, [Next]_vars
  PROVE  [\A c \in Comps : StopsNow(c) =>
            /\ agg = "idle"
            /\ \A i \in 1..exitPos : HookOrder[i] \notin {"hard", "graceful"}
            /\ \A d \in Comps : c \in DependsOn[d] =>
                 \A s \in Shards : comp[d][s] \in {"none", "stopped"}]_vars
<1> USE HIdxFacts, HooksFacts
<1>1. CASE StopSharded
  <2> SUFFICES ASSUME NEW c \in Comps, StopsNow(c)
               PROVE  /\ agg = "idle"
                      /\ \A i \in 1..exitPos : HookOrder[i] \notin {"hard", "graceful"}
                      /\ \A d \in Comps : c \in DependsOn[d] =>
                           \A s \in Shards : comp[d][s] \in {"none", "stopped"}
    OBVIOUS
  <2>1. Hook \in Comps /\ exitPos \in 1..NHooks /\ HIdx[Hook] = exitPos
    BY <1>1 DEF StopSharded, Hook, DInv, TInv, TypeOK
  <2>2. c = Hook
    BY <1>1, <2>1 DEF StopSharded, StopsNow, DInv, TInv, TypeOK
  <2>3. agg = "idle"
    BY <1>1, <2>1 DEF DInv, TInv, TypeOK, InnerBound, Hook, Comps
  <2>4. exitPos \in 1..7
    BY <2>1
  <2>5. exiting /\ hooksRegistered
    <3>1. exiting
      BY <1>1 DEF StopSharded
    <3>2. hooksRegistered
      BY <2>1 DEF DInv, HooksBeforeExit
    <3> QED
      BY <3>1, <3>2
  <2>6. \A i \in 1..exitPos : HookOrder[i] \notin {"hard", "graceful"}
    BY <2>4
  <2>7. \A d \in Comps : c \in DependsOn[d] =>
          \A s \in Shards : comp[d][s] \in {"none", "stopped"}
    <3> SUFFICES ASSUME NEW d \in Comps, c \in DependsOn[d]
                 PROVE  \A s \in Shards : comp[d][s] \in {"none", "stopped"}
      OBVIOUS
    <3>1. HIdx[d] > exitPos
      BY <2>1, <2>2
    <3> QED
      BY <3>1, <2>5 DEF DInv, StoppedBehind, Gone
  <2> QED
    BY <2>3, <2>6, <2>7
<1>2. CASE ~StopSharded
  <2>1. UNCHANGED comp \/ \E s \in Shards : ShardedCreate(s) \/ ShardedStart(s)
    BY <1>2 DEF Next, Startup, ExitSteps, vars, LogConfigure,
           CheckTcpOptions, RegisterExitHooks, CreatePrometheus,
           CreateUserApplet, RegisterProtocol, StartUserApplet,
           TaskFails, StartupFailed, NextPhase, StartupCompleted, Stop,
           BeginExit, ExitAgain, StopPrometheus, BeginStopperList, RunStopper,
           StopperFails, EndStopperList, FinishExit, Ended, StartupVars
  <2>2. CASE UNCHANGED comp
    BY <2>2 DEF StopsNow
  <2>3. CASE \E s \in Shards : ShardedCreate(s) \/ ShardedStart(s)
    <3>1. \A c \in Comps, s \in Shards : comp'[c][s] \in {comp[c][s], "constructed", "started"}
      BY <2>3 DEF ShardedCreate, ShardedStart, DInv, TInv, TypeOK
    <3> QED
      BY <3>1 DEF StopsNow
  <2> QED
    BY <2>1, <2>2, <2>3
<1> QED
  BY <1>1, <1>2

(* When App::stop is only called once startup has completed, an exit      *)
(* function stops a service only after the user stopper lists ran and    *)
(* after every service referencing it was stopped, for any shards,       *)
(* applets and stoppers (the at_exit registrations of App::start run     *)
(* last-first by engine().exit()).                                        *)
THEOREM Teardown == ~StopAnyTime => (Spec => TeardownOrder)
<1> SUFFICES ASSUME ~StopAnyTime PROVE Spec => TeardownOrder
  OBVIOUS
<1>1. Init => DInv
  BY DInvInit
<1>2. DInv /\ [Next]_vars => DInv'
  BY DInvNext
<1>3. DInv /\ [Next]_vars =>
        [\A c \in Comps : StopsNow(c) =>
            /\ agg = "idle"
            /\ \A i \in 1..exitPos : HookOrder[i] \notin {"hard", "graceful"}
            /\ \A d \in Comps : c \in DependsOn[d] =>
                 \A s \in Shards : comp[d][s] \in {"none", "stopped"}]_vars
  BY TeardownStep
<1> QED
  BY <1>1, <1>2, <1>3, PTL DEF Spec, TeardownOrder
-----------------------------------------------------------------------------
(* The stopper lists run last-registered first.                           *)

(* The position in HookOrder of the exit function iterating each list.    *)
LPos == [hard |-> 8, graceful |-> 9]

(* Nothing runs a stopper before App::stop reached shard 0.               *)
NoStopperBeforeExit == ~exiting => stoppersRun = {}

(* A list's stoppers have run only once the exit reached its exit         *)
(* function: it is below the exit position, or being iterated.            *)
ListReached ==
  \A r \in stoppersRun :
    \/ LPos[r[1]] > exitPos
    \/ LPos[r[1]] = exitPos /\ agg = r[1]

(* While do_for_each is still walking a list, exactly the stoppers past   *)
(* its position have run.                                                  *)
ActiveSuffix ==
  agg # "idle" /\ innerPos > 0 =>
    \A i \in 1..StopperCount[agg] : <<agg, i>> \in stoppersRun <=> i > innerPos

SInv == TInv /\ NoStopperBeforeExit /\ ListReached /\ ActiveSuffix /\ StoppersReverse


(* Each list is iterated by exactly one exit function, the one at LPos.   *)
LEMMA LPosFacts ==
  /\ \A i \in 1..NHooks : HookOrder[i] \in {"hard", "graceful"} =>
                            i = LPos[HookOrder[i]]
  /\ \A k \in {"hard", "graceful"} : LPos[k] \in Nat
BY DEF LPos, HookOrder, NHooks

LEMMA SInvInit == Init => SInv
BY TInvInit DEF Init, SInv, NoStopperBeforeExit, ListReached, ActiveSuffix,
                StoppersReverse

(* The conjuncts of SInv read only the exit state.                       *)
LEMMA SInvUnchanged ==
  ASSUME SInv, TInv', UNCHANGED <<exiting, exitPos, agg, innerPos, stoppersRun>>
  PROVE  SInv'
BY DEF SInv, NoStopperBeforeExit, ListReached, ActiveSuffix, StoppersReverse

LEMMA SInvNext ==
  ASSUME SInv, [Next]_vars
  PROVE  SInv'
<1> USE DEF SInv
<1>0. TInv'
  BY TInvNext
<1>1. CASE UNCHANGED <<exiting, exitPos, agg, innerPos, stoppersRun>>
  BY <1>0, <1>1, SInvUnchanged
<1>2. CASE BeginExit
  <2>1. stoppersRun = {} /\ agg = "idle"
    BY <1>2 DEF BeginExit, NoStopperBeforeExit, TInv, InnerBound
  <2> QED
    BY <1>0, <1>2, <2>1 DEF BeginExit, NoStopperBeforeExit, ListReached,
                           ActiveSuffix, StoppersReverse
<1>7. CASE StartupFailed
  <2>1. exiting' /\ UNCHANGED <<agg, innerPos, stoppersRun>>
    BY <1>7 DEF StartupFailed
  <2>2. CASE exiting
    BY <1>0, <1>7, <2>1, <2>2, SInvUnchanged DEF StartupFailed
  <2>3. CASE ~exiting
    <3>1. stoppersRun = {} /\ agg = "idle"
      BY <2>3 DEF NoStopperBeforeExit, TInv, InnerBound
    <3> QED
      BY <1>0, <2>1, <3>1 DEF NoStopperBeforeExit, ListReached, ActiveSuffix,
                             StoppersReverse
  <2> QED
    BY <2>2, <2>3
<1>3. CASE StopSharded \/ StopPrometheus
  <2>1. agg = "idle" /\ exitPos' = exitPos - 1
        /\ UNCHANGED <<exiting, agg, innerPos, stoppersRun>>
    <3>1. Hook \notin {"hard", "graceful"}
      BY <1>3 DEF StopSharded, StopPrometheus, Comps
    <3>2. agg = "idle"
      BY <3>1 DEF Hook, TInv, TypeOK, InnerBound
    <3>3. CASE StopSharded
      BY <3>2, <3>3 DEF StopSharded
    <3>4. CASE StopPrometheus
      BY <3>2, <3>4 DEF StopPrometheus
    <3> QED
      BY <1>3, <3>3, <3>4
  <2>2. \A r \in stoppersRun : LPos[r[1]] > exitPos
    BY <2>1 DEF ListReached, TInv, TypeOK, AllStoppers
  <2> QED
    BY <1>0, <2>1, <2>2, LPosFacts DEF NoStopperBeforeExit, ListReached,
                                       ActiveSuffix, StoppersReverse, TInv, TypeOK,
                                       AllStoppers
<1>4. CASE BeginStopperList
  <2>1. /\ exitPos \in 1..NHooks /\ Hook \in {"hard", "graceful"} /\ agg = "idle"
        /\ agg' = Hook /\ innerPos' = StopperCount[Hook]
        /\ UNCHANGED <<exiting, exitPos, stoppersRun>>
    BY <1>4 DEF BeginStopperList, TInv, TypeOK
  <2>2. LPos[Hook] = exitPos
    BY <2>1, LPosFacts DEF Hook
  <2>3. \A r \in stoppersRun : LPos[r[1]] > exitPos
    BY <2>1 DEF ListReached, TInv, TypeOK, AllStoppers
  <2>4. \A i \in Nat : <<Hook, i>> \notin stoppersRun
    BY <2>1, <2>2, <2>3, HooksFacts
  <2>5. ActiveSuffix'
    <3>1. StopperCount[Hook] \in Nat
      BY <2>1 DEF StopperCount
    <3> QED
      BY <2>1, <2>4, <3>1 DEF ActiveSuffix
  <2> QED
    BY <1>0, <2>1, <2>3, <2>5 DEF NoStopperBeforeExit, ListReached,
                                 StoppersReverse
<1>5. CASE RunStopper \/ StopperFails
  <2> DEFINE p == innerPos
  <2>1. /\ agg \in {"hard", "graceful"} /\ p \in 1..StopperCount[agg]
        /\ exiting /\ LPos[agg] = exitPos
        /\ stoppersRun' = stoppersRun \cup {<<agg, p>>}
        /\ UNCHANGED <<exiting, exitPos, agg>>
        /\ innerPos' \in {0, p - 1}
    <3>1. /\ agg \in {"hard", "graceful"} /\ p \in 1..StopperCount[agg]
          /\ exiting /\ exitPos \in 1..NHooks /\ HookOrder[exitPos] = agg
          /\ stoppersRun' = stoppersRun \cup {<<agg, p>>}
          /\ UNCHANGED <<exiting, exitPos, agg>>
          /\ innerPos' \in {0, p - 1}
      BY <1>5 DEF RunStopper, StopperFails, TInv, TypeOK, InnerBound
    <3> QED
      BY <3>1, LPosFacts
  <2>2. \A i \in (p + 1)..StopperCount[agg] : <<agg, i>> \in stoppersRun
    BY <2>1 DEF ActiveSuffix
  <2>3. StoppersReverse'
    <3> SUFFICES ASSUME NEW r \in stoppersRun',
                        NEW j \in (r[2] + 1)..StopperCount[r[1]]
                 PROVE  <<r[1], j>> \in stoppersRun'
      BY DEF StoppersReverse
    <3>1. CASE r \in stoppersRun
      BY <2>1, <3>1 DEF StoppersReverse
    <3>2. CASE r = <<agg, p>>
      BY <2>1, <2>2, <3>2
    <3> QED
      BY <2>1, <3>1, <3>2
  <2>4. ListReached'
    BY <2>1 DEF ListReached
  <2>5. ActiveSuffix'
    <3>1. CASE innerPos' = 0
      BY <3>1 DEF ActiveSuffix
    <3>2. CASE innerPos' = p - 1
      <4>1. StopperCount[agg] \in Nat
        BY <2>1 DEF StopperCount
      <4> QED
        BY <2>1, <3>2, <4>1 DEF ActiveSuffix
    <3> QED
      BY <2>1, <3>1, <3>2
  <2> QED
    BY <1>0, <2>1, <2>3, <2>4, <2>5 DEF NoStopperBeforeExit
<1>6. CASE EndStopperList
  <2>1. /\ agg' = "idle" /\ exitPos' = exitPos - 1 /\ exitPos \in Nat
        /\ UNCHANGED <<exiting, stoppersRun>>
    BY <1>6 DEF EndStopperList, TInv, TypeOK
  <2>2. ListReached'
    BY <2>1, LPosFacts DEF ListReached, TInv, TypeOK, AllStoppers
  <2> QED
    BY <1>0, <2>1, <2>2 DEF NoStopperBeforeExit, ActiveSuffix, StoppersReverse
<1> QED
  BY <1>1, <1>2, <1>3, <1>4, <1>5, <1>6, <1>7
     DEF Next, Startup, ExitSteps, vars, Stop, ExitAgain, FinishExit, Ended,
         LogConfigure, ShardedCreate, ShardedStart, RegisterProtocol,
         CheckTcpOptions, RegisterExitHooks, CreatePrometheus, CreateUserApplet,
         StartUserApplet, TaskFails, StartupFailed, NextPhase, StartupCompleted,
         ExitVars

(* Spec sections 4.1 and 8: in every behaviour, whether App::stop comes   *)
(* during startup or after it and whether a stopper fails, a stopper of   *)
(* the hard or graceful list has run only after every stopper registered *)
(* after it in that list ran (do_for_each from rbegin() to rend() in the  *)
(* "hard/graceful stop user applets" exit functions).                      *)
THEOREM StoppersRunInReverse == Spec => []StoppersReverse
<1>1. Init => SInv
  BY SInvInit
<1>2. SInv /\ [Next]_vars => SInv'
  BY SInvNext
<1>3. SInv => StoppersReverse
  BY DEF SInv
<1> QED
  BY <1>1, <1>2, <1>3, PTL DEF Spec

-----------------------------------------------------------------------------
(* Every service is stopped when the process ends.                        *)

(* The exit functions are registered by the "opts" link, before any      *)
(* construct link: until then nothing is constructed, and "opts" can only *)
(* join as failed without them.                                            *)
HooksFirst ==
  ~hooksRegistered =>
    /\ step \in 1..2
    /\ step = 2 /\ pending = {} => stepFailed
    /\ \A c \in Comps : \A s \in Shards : comp[c][s] = "none"
    /\ prom = "none"

(* The exporter is stopped once its exit function ran.                    *)
PromBehind ==
  exiting /\ hooksRegistered /\ exitPos < 2 => prom \in {"none", "stopped"}

(* The process ends only through FinishExit, at the bottom of the exit    *)
(* stack.                                                                  *)
EndedExited == ~Live => exiting /\ exitPos = 0

EInv == DInv /\ HooksFirst /\ PromBehind /\ EndedExited

(* The first two links, and the one task of "opts".                       *)
LEMMA OptsFacts ==
  /\ Steps[1] = "logcfg" /\ Steps[2] = "opts" /\ Tasks("opts") = {0}
  /\ \A k \in 1..2 : Steps[k] \notin DOMAIN CreateOf \cup DOMAIN StartOf
                                     \cup DOMAIN RegisterOf \cup Fallible
                                     \cup {"promC", "userC", "userS"}
BY DEF Steps, Tasks, CreateOf, StartOf, RegisterOf, Fallible

(* Once registered, the exit functions stay registered.                   *)
LEMMA HooksStay ==
  ASSUME [Next]_vars, hooksRegistered
  PROVE  hooksRegistered'
BY DEF Next, Startup, ExitSteps, vars, LogConfigure, ShardedCreate,
       ShardedStart, RegisterProtocol, CheckTcpOptions, RegisterExitHooks,
       CreatePrometheus, CreateUserApplet, StartUserApplet, TaskFails,
       StartupFailed, NextPhase, StartupCompleted, BeginExit, StopSharded,
       StopPrometheus, BeginStopperList, RunStopper, StopperFails,
       EndStopperList, FinishExit, ExitAgain, Stop, Ended, StartupVars

LEMMA HooksFirstNext ==
  ASSUME EInv, [Next]_vars
  PROVE  HooksFirst'
<1> USE OptsFacts, StepsLen
<1>1. CASE hooksRegistered'
  BY <1>1 DEF HooksFirst
<1>2. CASE ~hooksRegistered'
  <2>0. ~hooksRegistered
    BY <1>2, HooksStay
  <2>1. /\ step \in 1..2
        /\ step = 2 /\ pending = {} => stepFailed
        /\ \A c \in Comps : \A s \in Shards : comp[c][s] = "none"
        /\ prom = "none"
        /\ exitPos = 0
    BY <2>0 DEF EInv, HooksFirst, DInv, HooksBeforeExit, TInv, TypeOK
  <2>2. /\ Cur \in {"logcfg", "opts"}
        /\ Cur \notin DOMAIN CreateOf \cup DOMAIN StartOf \cup DOMAIN RegisterOf
                      \cup Fallible \cup {"promC", "userC", "userS"}
        /\ Cur = "logcfg" => step = 1
    BY <2>1 DEF Cur
  <2>3. CASE UNCHANGED <<step, pending, stepFailed, comp, prom>>
    BY <1>2, <2>1, <2>3 DEF HooksFirst
  <2>4. CASE \E s \in Shards : LogConfigure(s)
    BY <1>2, <2>1, <2>2, <2>4 DEF LogConfigure, HooksFirst
  <2>5. CASE CheckTcpOptions
    BY <1>2, <2>1, <2>5 DEF CheckTcpOptions, HooksFirst, StartupVars
  <2>6. CASE NextPhase
    <3>1. step = 1 /\ step' = 2 /\ pending' = {0}
      BY <2>1, <2>6 DEF NextPhase
    <3>2. UNCHANGED <<comp, prom>>
      BY <2>6 DEF NextPhase, StartupVars
    <3> QED
      BY <1>2, <2>1, <3>1, <3>2 DEF HooksFirst
  <2>7. CASE \/ \E s \in Shards : ShardedCreate(s) \/ ShardedStart(s)
                                  \/ RegisterProtocol(s)
             \/ CreatePrometheus \/ StartupCompleted
             \/ \E u \in Applets : CreateUserApplet(u) \/ StartUserApplet(u)
             \/ \E t \in pending : TaskFails(t)
             \/ StopSharded \/ StopPrometheus
    <3>1. CASE \E s \in Shards : ShardedCreate(s) \/ ShardedStart(s)
                                 \/ RegisterProtocol(s)
      BY <2>2, <3>1 DEF ShardedCreate, ShardedStart, RegisterProtocol
    <3>2. CASE \/ CreatePrometheus
               \/ \E u \in Applets : CreateUserApplet(u) \/ StartUserApplet(u)
               \/ \E t \in pending : TaskFails(t)
      BY <2>2, <3>2 DEF CreatePrometheus, CreateUserApplet, StartUserApplet,
                        TaskFails
    <3>3. CASE StartupCompleted
      BY <2>1, <3>3 DEF StartupCompleted
    <3>4. CASE StopSharded \/ StopPrometheus
      BY <2>1, <3>4 DEF StopSharded, StopPrometheus
    <3> QED
      BY <2>7, <3>1, <3>2, <3>3, <3>4
  <2>8. CASE RegisterExitHooks
    BY <1>2, <2>8 DEF RegisterExitHooks
  <2>9. CASE \/ StartupFailed \/ BeginExit \/ BeginStopperList \/ RunStopper
             \/ StopperFails \/ EndStopperList \/ FinishExit \/ ExitAgain
             \/ Stop \/ Ended
    <3>1. UNCHANGED <<step, pending, stepFailed, comp, prom>>
      BY <2>9 DEF StartupFailed, BeginExit, BeginStopperList, RunStopper,
                  StopperFails, EndStopperList, FinishExit, ExitAgain, Stop,
                  Ended, vars, StartupVars
    <3> QED
      BY <2>3, <3>1
  <2> QED
    BY <2>3, <2>4, <2>5, <2>6, <2>7, <2>8, <2>9 DEF Next, Startup, ExitSteps, vars
<1> QED
  BY <1>1, <1>2

LEMMA PromBehindNext ==
  ASSUME ~StopAnyTime, EInv, [Next]_vars
  PROVE  PromBehind'
<1> USE HooksFacts
<1>0. /\ stopReqs > 0 \/ exiting => lifecycle # "starting"
      /\ PromBehind
      /\ exitPos \in 0..NHooks
      /\ agg # "idle" => HookOrder[exitPos] = agg /\ exitPos > 0
      /\ agg \in {"idle", "hard", "graceful"}
  BY DEF EInv, DInv, NoStartupWhileStopping, TInv, TypeOK, InnerBound
<1>1. CASE UNCHANGED <<exiting, hooksRegistered, exitPos, prom>>
  BY <1>0, <1>1 DEF PromBehind
<1>2. CASE CreatePrometheus \/ RegisterExitHooks
  <2>1. ~exiting /\ ~exiting'
    BY <1>0, <1>2 DEF CreatePrometheus, RegisterExitHooks, Complete, ExitVars
  <2> QED
    BY <2>1 DEF PromBehind
<1>3. CASE BeginExit \/ StartupFailed
  <2>1. UNCHANGED <<prom, hooksRegistered>>
    BY <1>3 DEF BeginExit, StartupFailed, StartupVars
  <2>2. CASE exiting
    <3>1. UNCHANGED exitPos /\ exiting'
      BY <1>3, <2>2 DEF BeginExit, StartupFailed
    <3> QED
      BY <1>0, <2>1, <2>2, <3>1 DEF PromBehind
  <2>3. CASE ~exiting
    <3>1. exitPos' = IF hooksRegistered THEN NHooks ELSE 0
      BY <1>3, <2>3 DEF BeginExit, StartupFailed, ExitStart
    <3> QED
      BY <2>1, <3>1 DEF PromBehind
  <2> QED
    BY <2>2, <2>3
<1>4. CASE StopPrometheus
  BY <1>4 DEF StopPrometheus, PromBehind, StartupVars
<1>5. CASE StopSharded \/ EndStopperList
  <2>1. /\ exitPos \in 1..NHooks /\ exitPos # 2 /\ exitPos' = exitPos - 1
        /\ UNCHANGED <<exiting, hooksRegistered, prom>>
    <3>1. CASE StopSharded
      BY <1>0, <3>1 DEF StopSharded, Hook, HookOrder, Comps, StartupVars
    <3>2. CASE EndStopperList
      BY <1>0, <3>2 DEF EndStopperList, HookOrder, StartupVars, ExitVars
    <3> QED
      BY <1>5, <3>1, <3>2
  <2> QED
    BY <1>0, <2>1 DEF PromBehind
<1>6. CASE \/ \E s \in Shards : LogConfigure(s) \/ ShardedCreate(s)
                               \/ ShardedStart(s) \/ RegisterProtocol(s)
           \/ CheckTcpOptions \/ NextPhase \/ StartupCompleted
           \/ \E u \in Applets : CreateUserApplet(u) \/ StartUserApplet(u)
           \/ \E t \in pending : TaskFails(t)
           \/ BeginStopperList \/ RunStopper \/ StopperFails \/ FinishExit
           \/ ExitAgain \/ Stop \/ Ended
  <2>1. UNCHANGED <<exiting, hooksRegistered, exitPos, prom>>
    BY <1>6 DEF LogConfigure, ShardedCreate, ShardedStart, RegisterProtocol,
                CheckTcpOptions, NextPhase, StartupCompleted, CreateUserApplet,
                StartUserApplet, TaskFails, BeginStopperList, RunStopper,
                StopperFails, FinishExit, ExitAgain, Stop, Ended, vars,
                StartupVars, ExitVars
  <2> QED
    BY <1>1, <2>1
<1> QED
  BY <1>1, <1>2, <1>3, <1>4, <1>5, <1>6 DEF Next, Startup, ExitSteps, vars

LEMMA EndedExitedNext ==
  ASSUME EInv, [Next]_vars
  PROVE  EndedExited'
<1>1. CASE UNCHANGED vars
  BY <1>1 DEF EInv, EndedExited, vars, Live
<1>2. CASE FinishExit
  BY <1>2 DEF FinishExit, EndedExited, ExitVars
<1>3. CASE \/ \E s \in Shards : LogConfigure(s) \/ ShardedCreate(s)
                               \/ ShardedStart(s) \/ RegisterProtocol(s)
           \/ CheckTcpOptions \/ RegisterExitHooks \/ CreatePrometheus
           \/ \E u \in Applets : CreateUserApplet(u) \/ StartUserApplet(u)
           \/ \E t \in pending : TaskFails(t)
           \/ StartupFailed \/ NextPhase \/ StartupCompleted
  <2>1. lifecycle' \in {"starting", "running", "failed"}
    BY <1>3 DEF LogConfigure, ShardedCreate, ShardedStart, RegisterProtocol,
                CheckTcpOptions, RegisterExitHooks, CreatePrometheus,
                CreateUserApplet, StartUserApplet, TaskFails, StartupFailed,
                NextPhase, StartupCompleted, Complete
  <2> QED
    BY <2>1 DEF EndedExited, Live
<1>4. CASE \/ BeginExit \/ StopSharded \/ StopPrometheus \/ BeginStopperList
           \/ RunStopper \/ StopperFails \/ EndStopperList \/ ExitAgain \/ Stop
  <2>1. Live /\ UNCHANGED lifecycle
    BY <1>4 DEF BeginExit, StopSharded, StopPrometheus, BeginStopperList,
                RunStopper, StopperFails, EndStopperList, ExitAgain, Stop
  <2> QED
    BY <2>1 DEF EndedExited, Live
<1> QED
  BY <1>1, <1>2, <1>3, <1>4 DEF Next, Startup, ExitSteps, Ended

LEMMA EInvInit == Init => EInv
<1> SUFFICES ASSUME Init PROVE EInv
  OBVIOUS
<1>1. DInv
  BY DInvInit
<1>2. HooksFirst
  BY DEF Init, HooksFirst, Steps, Tasks
<1> QED
  BY <1>1, <1>2 DEF Init, EInv, PromBehind, EndedExited, Live

LEMMA EInvNext ==
  ASSUME ~StopAnyTime, EInv, [Next]_vars
  PROVE  EInv'
<1>1. DInv'
  BY DInvNext DEF EInv
<1> QED
  BY <1>1, HooksFirstNext, PromBehindNext, EndedExitedNext DEF EInv

(* Spec section 4.1 step 6 and the at_exit comment of App::start: when    *)
(* App::stop is only called once startup has completed, whenever the      *)
(* process has ended, whether after App::stop or after a failed startup   *)
(* (or_terminate's engine().exit(1)), every service constructed on some   *)
(* shard and the Prometheus exporter have been stopped, for any shards,   *)
(* applets, stoppers and stopper failures.                                 *)
THEOREM ExitStopsAll == ~StopAnyTime => (Spec => []ExitStopsServices)
<1> SUFFICES ASSUME ~StopAnyTime PROVE Spec => []ExitStopsServices
  OBVIOUS
<1>1. Init => EInv
  BY EInvInit
<1>2. EInv /\ [Next]_vars => EInv'
  BY EInvNext
<1>3. EInv => ExitStopsServices
  <2> SUFFICES ASSUME EInv, ~Live PROVE ExitStopsServices
    BY DEF ExitStopsServices
  <2>1. exiting /\ exitPos = 0
    BY DEF EInv, EndedExited
  <2>2. CASE hooksRegistered
    <3>1. \A c \in Comps : \A s \in Shards : comp[c][s] \in Gone
      <4>1. \A c \in Comps : HIdx[c] > exitPos
        BY <2>1, HIdxFacts
      <4> QED
        BY <4>1, <2>1, <2>2 DEF EInv, DInv, StoppedBehind
    <3>2. prom \in {"none", "stopped"}
      BY <2>1, <2>2 DEF EInv, PromBehind
    <3> QED
      BY <3>1, <3>2 DEF ExitStopsServices, Gone
  <2>3. CASE ~hooksRegistered
    BY <2>3 DEF EInv, HooksFirst, ExitStopsServices
  <2> QED
    BY <2>2, <2>3
<1> QED
  BY <1>1, <1>2, <1>3, PTL DEF Spec

=============================================================================
