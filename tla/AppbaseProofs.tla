--------------------------- MODULE AppbaseProofs ----------------------------
(* Theorems about the startup and shutdown orchestration of App.          *)
EXTENDS Appbase, TLAPS

USE ShardsAssumption, StopperAssumption, StopsAssumption,
    StopAnyTimeAssumption, AppletsAssumption

(* A stopper list runs only inside the exit function that iterates it,   *)
(* which is still on the exit stack, and its position is within the list. *)
InnerBound ==
  agg # "idle" =>
    /\ exiting
    /\ exitPos > 0
    /\ HookOrder[exitPos] = agg
    /\ innerPos <= StopperCount[agg]

TInv == TypeOK /\ InnerBound

LEMMA StepsLen == NSteps = 19
BY DEF NSteps, Steps

LEMMA HooksFacts ==
  /\ NHooks = 9
  /\ \A i \in 1..NHooks : HookOrder[i] \in Comps \cup {"prom", "hard", "graceful"}
BY DEF NHooks, HookOrder, Comps

LEMMA CreateFacts == \A n \in DOMAIN CreateOf : CreateOf[n] \in Comps
BY DEF CreateOf, Comps

LEMMA StartFacts == \A n \in DOMAIN StartOf : StartOf[n] \in Comps
BY DEF StartOf, Comps

LEMMA RegisterFacts == \A n \in DOMAIN RegisterOf : RegisterOf[n] \in Protos
BY DEF RegisterOf, Protos

LEMMA TasksType == \A n : Tasks(n) \subseteq Shards \cup Applets
BY DEF Tasks

LEMMA TInvInit == Init => TInv
<1> SUFFICES ASSUME Init PROVE TInv
  OBVIOUS
<1>1. options \in [tcpPort : BOOLEAN, tcpEndpoints : BOOLEAN,
                   logLevelsValid : BOOLEAN]
  BY DEF Init
<1>2. step \in 1..NSteps /\ pending \subseteq Shards \cup Applets
  BY StepsLen, TasksType DEF Init
<1>3. /\ logCfg \in [Shards -> BOOLEAN]
      /\ comp \in [Comps -> [Shards -> CompStates]]
      /\ registered \in [Shards -> SUBSET Protos]
  BY DEF Init, CompStates
<1>4. exitPos \in 0..NHooks /\ stoppersRun \subseteq AllStoppers
  BY HooksFacts DEF Init
<1>5. InnerBound
  BY DEF Init, InnerBound
<1>6. /\ stepFailed \in BOOLEAN
      /\ hooksRegistered \in BOOLEAN
      /\ exiting \in BOOLEAN
  BY Zenon DEF Init
<1>7. /\ lifecycle = "starting"
      /\ prom \in {"none", "started", "stopped"}
      /\ ctorsDone \subseteq Applets
      /\ startersDone \subseteq Applets
      /\ stopReqs \in 0..MaxStops
      /\ agg \in {"idle", "hard", "graceful"}
      /\ innerPos \in Nat
  BY DEF Init
<1> QED
  BY <1>1, <1>2, <1>3, <1>4, <1>5, <1>6, <1>7 DEF TInv, TypeOK

(* Every step of the specification keeps TInv.                           *)
LEMMA TInvNext == TInv /\ [Next]_vars => TInv'
<1> SUFFICES ASSUME TInv, [Next]_vars PROVE TInv'
  OBVIOUS
<1> USE StepsLen, HooksFacts, CreateFacts, StartFacts, RegisterFacts, TasksType

<1>1. CASE \E s \in Shards : LogConfigure(s)
  <2>1. PICK s \in Shards : LogConfigure(s)
    BY <1>1
  <2>2. CASE options.logLevelsValid
    BY <2>1, <2>2 DEF LogConfigure, TInv, TypeOK, InnerBound, Complete,
                      ExitVars
  <2>3. CASE ~options.logLevelsValid
    <3>1. stepFailed' \in BOOLEAN
      BY <2>1, <2>3, Zenon DEF LogConfigure
    <3> QED
      BY <2>1, <2>3, <3>1 DEF LogConfigure, TInv, TypeOK, InnerBound,
                               Complete, ExitVars
  <2> QED
    BY <2>2, <2>3

<1>2. CASE CheckTcpOptions
  BY <1>2 DEF CheckTcpOptions, TInv, TypeOK, InnerBound, Complete, StartupVars, ExitVars,
     Cur, Hook, StopperCount, AllStoppers, CompStates

<1>3. CASE RegisterExitHooks
  BY <1>3 DEF RegisterExitHooks, TInv, TypeOK, InnerBound, Complete, StartupVars, ExitVars,
     Cur, Hook, StopperCount, AllStoppers, CompStates

<1>4. CASE \E s \in Shards : ShardedCreate(s)
  BY <1>4 DEF ShardedCreate, TInv, TypeOK, InnerBound, Complete, StartupVars, ExitVars,
     Cur, Hook, StopperCount, AllStoppers, CompStates

<1>5. CASE CreatePrometheus
  BY <1>5 DEF CreatePrometheus, TInv, TypeOK, InnerBound, Complete, StartupVars, ExitVars,
     Cur, Hook, StopperCount, AllStoppers, CompStates

<1>6. CASE \E u \in Applets : CreateUserApplet(u)
  BY <1>6 DEF CreateUserApplet, TInv, TypeOK, InnerBound, Complete, StartupVars, ExitVars,
     Cur, Hook, StopperCount, AllStoppers, CompStates

<1>7. CASE \E s \in Shards : ShardedStart(s)
  BY <1>7 DEF ShardedStart, TInv, TypeOK, InnerBound, Complete, StartupVars, ExitVars,
     Cur, Hook, StopperCount, AllStoppers, CompStates

<1>8. CASE \E s \in Shards : RegisterProtocol(s)
  BY <1>8 DEF RegisterProtocol, TInv, TypeOK, InnerBound, Complete, StartupVars, ExitVars,
     Cur, Hook, StopperCount, AllStoppers, CompStates

<1>9. CASE \E u \in Applets : StartUserApplet(u)
  BY <1>9 DEF StartUserApplet, TInv, TypeOK, InnerBound, Complete, StartupVars, ExitVars,
     Cur, Hook, StopperCount, AllStoppers, CompStates

<1>10. CASE \E t \in pending : TaskFails(t)
  BY <1>10 DEF TaskFails, TInv, TypeOK, InnerBound, Complete, StartupVars, ExitVars,
     Cur, Hook, StopperCount, AllStoppers, CompStates

<1>11. CASE StartupFailed
  BY <1>11 DEF StartupFailed, ExitStart, TInv, TypeOK, InnerBound, Complete, StartupVars, ExitVars,
     Cur, Hook, StopperCount, AllStoppers, CompStates

<1>12. CASE NextPhase
  BY <1>12 DEF NextPhase, TInv, TypeOK, InnerBound, Complete, StartupVars, ExitVars,
     Cur, Hook, StopperCount, AllStoppers, CompStates

<1>13. CASE StartupCompleted
  BY <1>13 DEF StartupCompleted, TInv, TypeOK, InnerBound, Complete, StartupVars, ExitVars,
     Cur, Hook, StopperCount, AllStoppers, CompStates

<1>14. CASE BeginExit
  BY <1>14 DEF BeginExit, ExitStart, TInv, TypeOK, InnerBound, Complete, StartupVars, ExitVars,
     Cur, Hook, StopperCount, AllStoppers, CompStates

<1>15. CASE ExitAgain
  BY <1>15 DEF ExitAgain, TInv, TypeOK, InnerBound, Complete, StartupVars, ExitVars,
     Cur, Hook, StopperCount, AllStoppers, CompStates

<1>16. CASE StopSharded
  <2>1. agg = "idle"
    BY <1>16 DEF StopSharded, TInv, TypeOK, InnerBound, Hook, Comps
  <2>2. comp' \in [Comps -> [Shards -> CompStates]]
    BY <1>16 DEF StopSharded, TInv, TypeOK, Hook, CompStates
  <2> QED
    BY <1>16, <2>1, <2>2 DEF StopSharded, TInv, TypeOK, InnerBound, StartupVars,
                             ExitVars

<1>17. CASE StopPrometheus
  BY <1>17 DEF StopPrometheus, TInv, TypeOK, InnerBound, Complete, StartupVars, ExitVars,
     Cur, Hook, StopperCount, AllStoppers, CompStates

<1>18. CASE BeginStopperList
  BY <1>18 DEF BeginStopperList, TInv, TypeOK, InnerBound, Complete, StartupVars, ExitVars,
     Cur, Hook, StopperCount, AllStoppers, CompStates

<1>19. CASE RunStopper
  BY <1>19 DEF RunStopper, TInv, TypeOK, InnerBound, Complete, StartupVars, ExitVars,
     Cur, Hook, StopperCount, AllStoppers, CompStates

<1>20. CASE StopperFails
  BY <1>20 DEF StopperFails, TInv, TypeOK, InnerBound, Complete, StartupVars, ExitVars,
     Cur, Hook, StopperCount, AllStoppers, CompStates

<1>21. CASE EndStopperList
  BY <1>21 DEF EndStopperList, TInv, TypeOK, InnerBound, Complete, StartupVars, ExitVars,
     Cur, Hook, StopperCount, AllStoppers, CompStates

<1>22. CASE FinishExit
  BY <1>22 DEF FinishExit, TInv, TypeOK, InnerBound, Complete, StartupVars, ExitVars,
     Cur, Hook, StopperCount, AllStoppers, CompStates

<1>23. CASE Stop
  BY <1>23 DEF Stop, TInv, TypeOK, InnerBound, Complete, StartupVars, ExitVars,
     Cur, Hook, StopperCount, AllStoppers, CompStates

<1>24. CASE Ended \/ UNCHANGED vars
  BY <1>24 DEF Ended, vars, TInv, TypeOK, InnerBound, Complete, StartupVars, ExitVars,
     Cur, Hook, StopperCount, AllStoppers, CompStates
<1> QED
  BY <1>1, <1>2, <1>3, <1>4, <1>5, <1>6, <1>7, <1>8, <1>9, <1>10, <1>11, <1>12, <1>13, <1>14, <1>15, <1>16, <1>17, <1>18, <1>19, <1>20, <1>21, <1>22, <1>23, <1>24
     DEF Next, Startup, ExitSteps

(* The type invariant holds in every reachable state.                    *)
THEOREM TypeCorrect == Spec => []TypeOK
<1>1. Init => TInv
  BY TInvInit
<1>2. TInv /\ [Next]_vars => TInv'
  BY TInvNext
<1>3. TInv => TypeOK
  BY DEF TInv
<1> QED
  BY <1>1, <1>2, <1>3, PTL DEF Spec

-----------------------------------------------------------------------------
(* Registration follows a start completed on every shard.                  *)

(* The index in Steps of each protocol factory's start link.              *)
SIdx == [tcp |-> 12, rdma |-> 14, auto |-> 16]
Done == {"started", "stopped"}

LEMMA LinkFacts ==
  \A k \in 1..NSteps : \A p \in Protos :
     /\ Steps[k] \in DOMAIN StartOf /\ StartOf[Steps[k]] = p => k = SIdx[p]
     /\ Steps[k] \in DOMAIN RegisterOf /\ RegisterOf[Steps[k]] = p => k = SIdx[p] + 1
     /\ Steps[k] \in DOMAIN CreateOf => k < SIdx[p]
     /\ k = SIdx[p] => Steps[k] \in Fallible \ ({"userC", "userS", "logcfg", "opts", "promC"}
                                                \cup DOMAIN RegisterOf)
BY StepsLen DEF Steps, StartOf, RegisterOf, CreateOf, SIdx, Protos, Fallible

LEMMA SIdxFacts ==
  \A p \in Protos :
     /\ SIdx[p] \in 1..NSteps
     /\ Steps[SIdx[p]] \in DOMAIN StartOf
     /\ StartOf[Steps[SIdx[p]]] = p
     /\ Tasks(Steps[SIdx[p]]) = Shards
BY StepsLen DEF Steps, StartOf, SIdx, Protos, Tasks

(* Past a factory's start link, it has started (or since been stopped) on *)
(* every shard; during that link, on every shard whose task completed     *)
(* without failure; and it is registered only after its start link.       *)
StartedPast == \A p \in Protos :
  step > SIdx[p] => \A t \in Shards : comp[p][t] \in Done
StartedSoFar == \A p \in Protos :
  step = SIdx[p] /\ ~stepFailed => \A t \in Shards \ pending : comp[p][t] \in Done
RegisteredLate == \A s \in Shards : \A p \in registered[s] : step > SIdx[p]

RInv == TInv /\ StartedPast /\ StartedSoFar /\ RegisteredLate

LEMMA RInvInit == Init => RInv
BY TInvInit, StepsLen DEF Init, RInv, StartedPast, StartedSoFar, RegisteredLate,
                          SIdx, Protos

LEMMA RInvNext == RInv /\ [Next]_vars => RInv'
<1> SUFFICES ASSUME RInv, [Next]_vars PROVE RInv'
  OBVIOUS
<1>0. TInv'
  BY TInvNext DEF RInv
<1> USE StepsLen, LinkFacts, TasksType, <1>0

<1>1. CASE \E s \in Shards : LogConfigure(s)
  <2>1. PICK s \in Shards : LogConfigure(s)
    BY <1>1
  <2>2. UNCHANGED <<step, comp, registered>>
    BY <2>1 DEF LogConfigure
  <2>3. \A p \in Protos : step # SIdx[p]
    BY <2>1 DEF LogConfigure, Cur, RInv, TInv, TypeOK
  <2> QED
    BY <2>2, <2>3 DEF RInv, StartedPast, StartedSoFar, RegisteredLate

<1>2. CASE CheckTcpOptions
  BY <1>2 DEF CheckTcpOptions, RInv, TInv, TypeOK, StartedPast, StartedSoFar, RegisteredLate,
     Complete, StartupVars, ExitVars, Cur, Hook, Done

<1>3. CASE RegisterExitHooks
  BY <1>3 DEF RegisterExitHooks, RInv, TInv, TypeOK, StartedPast, StartedSoFar, RegisteredLate,
     Complete, StartupVars, ExitVars, Cur, Hook, Done

<1>4. CASE \E s \in Shards : ShardedCreate(s)
  <2>1. PICK s \in Shards : ShardedCreate(s)
    BY <1>4
  <2>2. UNCHANGED <<step, registered>>
    BY <2>1 DEF ShardedCreate
  <2>3. \A p \in Protos : step < SIdx[p]
    BY <2>1 DEF ShardedCreate, Cur, RInv, TInv, TypeOK
  <2> QED
    BY <2>2, <2>3 DEF RInv, TInv, TypeOK, StartedPast, StartedSoFar, RegisteredLate, SIdx, Protos

<1>5. CASE CreatePrometheus
  BY <1>5 DEF CreatePrometheus, RInv, TInv, TypeOK, StartedPast, StartedSoFar, RegisteredLate,
     Complete, StartupVars, ExitVars, Cur, Hook, Done

<1>6. CASE \E u \in Applets : CreateUserApplet(u)
  <2>1. UNCHANGED <<step, registered, comp, stepFailed>> /\ Cur = "userC"
    BY <1>6 DEF CreateUserApplet
  <2>2. \A p \in Protos : step # SIdx[p]
    BY <2>1, LinkFacts DEF Cur, RInv, TInv, TypeOK
  <2> QED
    BY <1>0, <2>1, <2>2 DEF RInv, StartedPast, StartedSoFar, RegisteredLate

<1>7. CASE \E s \in Shards : ShardedStart(s)
  <2>1. PICK s \in Shards : ShardedStart(s)
    BY <1>7
  <2> DEFINE c == StartOf[Cur]
  <2>2. /\ UNCHANGED <<step, registered, stepFailed>>
        /\ s \in pending /\ pending' = pending \ {s}
        /\ Cur \in DOMAIN StartOf
        /\ comp' = [comp EXCEPT ![c][s] = "started"]
    BY <2>1 DEF ShardedStart, Complete
  <2>3. \A p \in Protos : step = SIdx[p] <=> p = c
    BY <2>2, SIdxFacts DEF Cur, RInv, TInv, TypeOK, Protos
  <2>4. \A p \in Protos : \A t \in Shards :
          comp'[p][t] = IF p = c /\ t = s THEN "started" ELSE comp[p][t]
    BY <2>2 DEF RInv, TInv, TypeOK, Protos, Comps
  <2>5. StartedPast'
    BY <2>2, <2>3, <2>4 DEF RInv, TInv, TypeOK, StartedPast, SIdx, Protos
  <2>6. StartedSoFar'
    BY <2>2, <2>3, <2>4 DEF RInv, StartedSoFar, Done
  <2>7. RegisteredLate'
    BY <2>2 DEF RInv, RegisteredLate
  <2> QED
    BY <2>5, <2>6, <2>7 DEF RInv

<1>8. CASE \E s \in Shards : RegisterProtocol(s)
  <2>1. PICK s \in Shards : RegisterProtocol(s)
    BY <1>8
  <2> DEFINE q == RegisterOf[Cur]
  <2>2. /\ UNCHANGED <<step, comp, stepFailed>>
        /\ Cur \in DOMAIN RegisterOf
        /\ registered' = [registered EXCEPT ![s] = @ \cup {q}]
        /\ \A p \in Protos : step # SIdx[p]
    BY <2>1 DEF RegisterProtocol, Complete, Cur, RInv, TInv, TypeOK
  <2>3. q \in Protos /\ step = SIdx[q] + 1
    BY <2>2 DEF Cur, RInv, TInv, TypeOK
  <2>4. RegisteredLate'
    <3> SUFFICES ASSUME NEW r \in Shards, NEW p \in registered'[r]
                 PROVE  step' > SIdx[p]
      BY DEF RegisteredLate
    <3>1. CASE p = q
      BY <2>2, <2>3, <3>1 DEF RInv, TInv, TypeOK, SIdx, Protos
    <3>2. CASE p # q
      <4>1. p \in registered[r]
        BY <2>2, <3>2 DEF RInv, TInv, TypeOK
      <4> QED
        BY <2>2, <4>1 DEF RInv, RegisteredLate
    <3> QED
      BY <3>1, <3>2
  <2> QED
    BY <2>2, <2>4 DEF RInv, StartedPast, StartedSoFar

<1>9. CASE \E u \in Applets : StartUserApplet(u)
  BY <1>9 DEF StartUserApplet, RInv, TInv, TypeOK, StartedPast, StartedSoFar, RegisteredLate,
     Complete, StartupVars, ExitVars, Cur, Hook, Done

<1>10. CASE \E t \in pending : TaskFails(t)
  BY <1>10 DEF TaskFails, RInv, TInv, TypeOK, StartedPast, StartedSoFar, RegisteredLate,
     Complete, StartupVars, ExitVars, Cur, Hook, Done

<1>11. CASE StartupFailed
  BY <1>11 DEF StartupFailed, ExitStart, RInv, TInv, TypeOK, StartedPast, StartedSoFar, RegisteredLate,
     Complete, StartupVars, ExitVars, Cur, Hook, Done

<1>12. CASE NextPhase
  <2>1. /\ comp' = comp /\ registered' = registered /\ stepFailed' = stepFailed
        /\ pending = {} /\ ~stepFailed
        /\ step' = step + 1
        /\ pending' = Tasks(Steps[step + 1])
    BY <1>12, Zenon DEF NextPhase, StartupVars
  <2>2. step \in 1..NSteps /\ StartedPast /\ StartedSoFar /\ RegisteredLate
    BY DEF RInv, TInv, TypeOK
  <2>3. StartedPast'
    <3>a. SUFFICES ASSUME NEW p \in Protos, step + 1 > SIdx[p], NEW t \in Shards
                   PROVE  comp[p][t] \in Done
      BY <2>1 DEF StartedPast
    <3>b. CASE step > SIdx[p]
      BY <2>2, <3>b DEF StartedPast
    <3>c. CASE step = SIdx[p]
      BY <2>1, <2>2, <3>c DEF StartedSoFar
    <3> QED
      BY <2>2, <3>a, <3>b, <3>c, SIdxFacts DEF SIdx, Protos
  <2>4. StartedSoFar'
    <3>a. SUFFICES ASSUME NEW p \in Protos, step + 1 = SIdx[p], NEW t \in Shards \ pending'
                   PROVE  FALSE
      BY <2>1 DEF StartedSoFar
    <3>b. pending' = Shards
      BY <2>1, <3>a, SIdxFacts
    <3> QED
      BY <3>a, <3>b
  <2>5. RegisteredLate'
    <3>a. SUFFICES ASSUME NEW s \in Shards, NEW p \in registered[s]
                   PROVE  step + 1 > SIdx[p]
      BY <2>1 DEF RegisteredLate
    <3>b. p \in Protos /\ step > SIdx[p]
      BY <2>2, <3>a DEF RegisteredLate, RInv, TInv, TypeOK
    <3> QED
      BY <2>2, <3>b DEF SIdx, Protos
  <2> QED
    BY <2>3, <2>4, <2>5 DEF RInv

<1>13. CASE StartupCompleted
  BY <1>13 DEF StartupCompleted, RInv, TInv, TypeOK, StartedPast, StartedSoFar, RegisteredLate,
     Complete, StartupVars, ExitVars, Cur, Hook, Done

<1>14. CASE BeginExit
  BY <1>14 DEF BeginExit, ExitStart, RInv, TInv, TypeOK, StartedPast, StartedSoFar, RegisteredLate,
     Complete, StartupVars, ExitVars, Cur, Hook, Done

<1>15. CASE ExitAgain
  BY <1>15 DEF ExitAgain, RInv, TInv, TypeOK, StartedPast, StartedSoFar, RegisteredLate,
     Complete, StartupVars, ExitVars, Cur, Hook, Done

<1>16. CASE StopSharded
  BY <1>16 DEF StopSharded, RInv, TInv, TypeOK, StartedPast, StartedSoFar, RegisteredLate,
     Complete, StartupVars, ExitVars, Cur, Hook, Done

<1>17. CASE StopPrometheus
  BY <1>17 DEF StopPrometheus, RInv, TInv, TypeOK, StartedPast, StartedSoFar, RegisteredLate,
     Complete, StartupVars, ExitVars, Cur, Hook, Done

<1>18. CASE BeginStopperList
  BY <1>18 DEF BeginStopperList, RInv, TInv, TypeOK, StartedPast, StartedSoFar, RegisteredLate,
     Complete, StartupVars, ExitVars, Cur, Hook, Done

<1>19. CASE RunStopper
  BY <1>19 DEF RunStopper, RInv, TInv, TypeOK, StartedPast, StartedSoFar, RegisteredLate,
     Complete, StartupVars, ExitVars, Cur, Hook, Done

<1>20. CASE StopperFails
  BY <1>20 DEF StopperFails, RInv, TInv, TypeOK, StartedPast, StartedSoFar, RegisteredLate,
     Complete, StartupVars, ExitVars, Cur, Hook, Done

<1>21. CASE EndStopperList
  BY <1>21 DEF EndStopperList, RInv, TInv, TypeOK, StartedPast, StartedSoFar, RegisteredLate,
     Complete, StartupVars, ExitVars, Cur, Hook, Done

<1>22. CASE FinishExit
  BY <1>22 DEF FinishExit, RInv, TInv, TypeOK, StartedPast, StartedSoFar, RegisteredLate,
     Complete, StartupVars, ExitVars, Cur, Hook, Done

<1>23. CASE Stop
  BY <1>23 DEF Stop, RInv, TInv, TypeOK, StartedPast, StartedSoFar, RegisteredLate,
     Complete, StartupVars, ExitVars, Cur, Hook, Done

<1>24. CASE Ended \/ UNCHANGED vars
  BY <1>24 DEF Ended, vars, RInv, TInv, TypeOK, StartedPast, StartedSoFar, RegisteredLate,
     Complete, StartupVars, ExitVars, Cur, Hook, Done
<1> QED
  BY <1>1, <1>2, <1>3, <1>4, <1>5, <1>6, <1>7, <1>8, <1>9, <1>10, <1>11, <1>12, <1>13, <1>14, <1>15, <1>16, <1>17, <1>18, <1>19, <1>20, <1>21, <1>22, <1>23, <1>24
     DEF Next, Startup, ExitSteps

(* A protocol factory is registered with a dispatcher only after its     *)
(* start() completed on every shard, in every reachable state.             *)
THEOREM RegistrationAfterStart == Spec => []RegisteredOnlyStarted
<1>1. Init => RInv
  BY RInvInit
<1>2. RInv /\ [Next]_vars => RInv'
  BY RInvNext
<1>3. RInv => RegisteredOnlyStarted
  BY DEF RInv, TInv, TypeOK, StartedPast, RegisteredLate, RegisteredOnlyStarted, Done
<1> QED
  BY <1>1, <1>2, <1>3, PTL DEF Spec

=============================================================================
