------------------------- MODULE AppbaseRefinement --------------------------
(* App implements the abstract lifecycle of AppLifecycle: the initial     *)
(* state maps to the abstract one, and every step of Next maps to an      *)
(* abstract step or leaves the abstract phase and stop request alone.     *)
EXTENDS AppbaseProofs

USE ShardsAssumption, StopperAssumption, StopsAssumption,
    StopAnyTimeAssumption, AppletsAssumption

absvars == <<AbsPhase, AbsStopping>>

(* Consecutive links are in the same phase or in consecutive phases, and  *)
(* the last link is in the last startup phase.                            *)
LEMMA LinkPhaseSteps ==
  /\ \A k \in 1..(NSteps - 1) :
        \/ LinkPhase(Steps[k + 1]) = LinkPhase(Steps[k])
        \/ /\ LinkPhase(Steps[k]) \in DOMAIN Lifecycle!Following
           /\ LinkPhase(Steps[k + 1]) = Lifecycle!Following[LinkPhase(Steps[k])]
  /\ LinkPhase(Steps[NSteps]) = "starting"
BY StepsLen DEF Steps, LinkPhase, ConfigureLinks, ConstructLinks,
               Lifecycle!Following

(* While startup runs, the abstract phase is a startup phase.             *)
LEMMA StartingPhase ==
  lifecycle = "starting" =>
    /\ AbsPhase = LinkPhase(Cur)
    /\ AbsPhase \in DOMAIN Lifecycle!Following
BY DEF AbsPhase, Outcome, LinkPhase, Lifecycle!Following

(* The abstract state is a function of lifecycle, step, stopReqs and      *)
(* exiting.                                                                *)
LEMMA AbsUnchanged ==
  UNCHANGED <<lifecycle, step, stopReqs, exiting>> => UNCHANGED absvars
BY DEF absvars, AbsPhase, AbsStopping, Cur

LEMMA RefInit == Init => Lifecycle!AInit
<1> SUFFICES ASSUME Init PROVE Lifecycle!AInit
  OBVIOUS
<1>1. lifecycle = "starting" /\ Cur = "logcfg" /\ ~AbsStopping
  BY DEF Init, Cur, Steps, AbsStopping
<1>2. AbsPhase = "configuring"
  BY <1>1 DEF AbsPhase, Outcome, LinkPhase, ConfigureLinks
<1> QED
  BY <1>1, <1>2 DEF Lifecycle!AInit

LEMMA RefNext == TInv /\ [Next]_vars => [Lifecycle!ANext]_absvars
<1> SUFFICES ASSUME TInv, [Next]_vars PROVE [Lifecycle!ANext]_absvars
  OBVIOUS
<1>1. CASE UNCHANGED <<lifecycle, step, stopReqs, exiting>>
  BY <1>1, AbsUnchanged
<1>2. CASE StartupFailed
  <2>1. AbsPhase \in DOMAIN Lifecycle!Following /\ AbsPhase' = "failed"
    BY <1>2, StartingPhase DEF StartupFailed, AbsPhase, Outcome
  <2>2. AbsStopping'
    BY <1>2 DEF StartupFailed, AbsStopping
  <2> QED
    BY <2>1, <2>2 DEF Lifecycle!ANext, Lifecycle!Fail, absvars
<1>3. CASE NextPhase
  <2>1. /\ step \in 1..(NSteps - 1) /\ step' = step + 1
        /\ lifecycle = "starting" /\ lifecycle' = "starting"
    BY <1>3, StepsLen DEF NextPhase, TInv, TypeOK
  <2>2. AbsPhase = LinkPhase(Steps[step]) /\ AbsPhase' = LinkPhase(Steps[step + 1])
    BY <2>1 DEF AbsPhase, Outcome, Cur
  <2>3. UNCHANGED AbsStopping
    BY <1>3 DEF NextPhase, ExitVars, AbsStopping
  <2> QED
    BY <2>1, <2>2, <2>3, LinkPhaseSteps
       DEF Lifecycle!ANext, Lifecycle!Advance, absvars
<1>4. CASE StartupCompleted
  <2>1. AbsPhase = "starting"
    BY <1>4, LinkPhaseSteps, StartingPhase DEF StartupCompleted, Cur
  <2>2. AbsPhase' = "running"
    <3>1. lifecycle' = "running"
      BY <1>4 DEF StartupCompleted
    <3> QED
      BY <3>1 DEF AbsPhase, Outcome
  <2>3. UNCHANGED AbsStopping
    BY <1>4 DEF StartupCompleted, ExitVars, AbsStopping
  <2> QED
    BY <2>1, <2>2, <2>3 DEF Lifecycle!ANext, Lifecycle!Advance, Lifecycle!Following,
                      absvars
<1>5. CASE Stop
  <2>1. AbsStopping' /\ UNCHANGED AbsPhase
    BY <1>5 DEF Stop, AbsStopping, AbsPhase, Cur, TInv, TypeOK
  <2>2. Lifecycle!Live
    BY <1>5 DEF Stop, Live, AbsPhase, Outcome, LinkPhase, Lifecycle!Live
  <2> QED
    BY <2>1, <2>2 DEF Lifecycle!ANext, Lifecycle!RequestStop, absvars
<1>6. CASE BeginExit \/ ExitAgain
  <2>1. AbsStopping /\ AbsStopping'
    BY <1>6 DEF BeginExit, ExitAgain, AbsStopping
  <2>2. UNCHANGED AbsPhase
    BY <1>6 DEF BeginExit, ExitAgain, AbsPhase, Cur
  <2> QED
    BY <2>1, <2>2 DEF absvars
<1>7. CASE FinishExit
  <2>1. Lifecycle!Live /\ AbsStopping
    BY <1>7 DEF FinishExit, Live, AbsPhase, Outcome, AbsStopping, LinkPhase,
                Lifecycle!Live
  <2>3. AbsPhase' = Lifecycle!Ending[AbsPhase]
    <3>1. AbsPhase \in Lifecycle!Phases
      BY <1>7 DEF FinishExit, Live, AbsPhase, Outcome, LinkPhase, Lifecycle!Phases
    <3>2. CASE lifecycle = "failed"
      BY <1>7, <3>1, <3>2 DEF FinishExit, AbsPhase, Outcome, Lifecycle!Ending
    <3>3. CASE lifecycle # "failed"
      BY <1>7, <3>1, <3>3 DEF FinishExit, Live, AbsPhase, Outcome, LinkPhase,
                              Lifecycle!Ending
    <3> QED
      BY <3>2, <3>3
  <2>2. UNCHANGED AbsStopping
    BY <1>7 DEF FinishExit, ExitVars, AbsStopping
  <2> QED
    BY <2>1, <2>2, <2>3 DEF Lifecycle!ANext, Lifecycle!Finish, absvars
<1>8. CASE \/ \E s \in Shards : LogConfigure(s) \/ ShardedCreate(s)
                               \/ ShardedStart(s) \/ RegisterProtocol(s)
           \/ CheckTcpOptions \/ RegisterExitHooks \/ CreatePrometheus
           \/ \E u \in Applets : CreateUserApplet(u) \/ StartUserApplet(u)
           \/ \E t \in pending : TaskFails(t)
  BY <1>8, AbsUnchanged
     DEF LogConfigure, ShardedCreate, ShardedStart, RegisterProtocol,
         CheckTcpOptions, RegisterExitHooks, CreatePrometheus,
         CreateUserApplet, StartUserApplet, TaskFails, ExitVars
<1>9. CASE \/ StopSharded \/ StopPrometheus \/ BeginStopperList
           \/ RunStopper \/ StopperFails \/ EndStopperList \/ Ended
  BY <1>9, AbsUnchanged
     DEF StopSharded, StopPrometheus, BeginStopperList, RunStopper,
         StopperFails, EndStopperList, Ended, vars, ExitVars
<1> QED
  BY <1>1, <1>2, <1>3, <1>4, <1>5, <1>6, <1>7, <1>8, <1>9
     DEF Next, Startup, ExitSteps, vars

(* Every behaviour of App (App::start's chain, App::stop and the exit     *)
(* functions run by engine().exit()) is a behaviour of the abstract       *)
(* lifecycle, for any number of shards, applets and stoppers: in          *)
(* particular a failed startup ends the process only through the exit     *)
(* functions, and ends it "terminated".                                    *)
THEOREM Refinement == Spec => LifecycleSafety
<1>1. Init => TInv /\ Lifecycle!AInit
  BY TInvInit, RefInit
<1>2. TInv /\ [Next]_vars => TInv' /\ [Lifecycle!ANext]_absvars
  BY TInvNext, RefNext
<1> QED
  BY <1>1, <1>2, PTL DEF Spec, LifecycleSafety, Lifecycle!ASafety, Lifecycle!avars, absvars
=============================================================================
