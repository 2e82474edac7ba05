--------------------------- MODULE StopperProofs ---------------------------
(***************************************************************************)
(* Proofs about Stopper for any set of goroutines: no interleaving closes  *)
(* stopTrigger or stoppingChan twice, a panic needs two started stop       *)
(* functions, and every step is a step of Lifecycle.                       *)
(***************************************************************************)
EXTENDS Stopper, TLAPS

\* Where a goroutine is when it holds a mutex, and when it is inside DoStop
\* past the lock-free check.
HoldsStopping == {"stop.recheck", "stop.close", "stop.store", "stop.unlock"}
HoldsTrigger == {"trigger.recheck", "trigger.close", "trigger.store",
                 "trigger.unlock"}
AfterStopping == {"stop.spawn", "stop.select", "stop.finish"}
InDoStop == {"stop.lock"} \cup HoldsStopping \cup AfterStopping

\* The mutexes are held exactly by the goroutines inside their sections.
LockInv ==
  \A p \in Procs :
    /\ (pc[p] \in HoldsStopping) <=> (stoppingLock = p)
    /\ (pc[p] \in HoldsTrigger) <=> (triggerLock = p)

\* Channel and flag differ only while the holder is between close and store.
StoppingInv ==
  /\ isStopping => stoppingChan
  /\ stoppingChan /\ ~isStopping => \E p \in Procs : pc[p] = "stop.store"
  /\ \A p \in Procs :
       /\ pc[p] = "stop.close" => ~stoppingChan
       /\ pc[p] = "stop.store" => stoppingChan
       /\ pc[p] \in {"stop.unlock"} \cup AfterStopping => isStopping

TriggerInv ==
  /\ stopTriggered => stopTrigger
  /\ stopTrigger /\ ~stopTriggered => \E p \in Procs : pc[p] = "trigger.store"
  /\ \A p \in Procs :
       /\ pc[p] = "trigger.close" => ~stopTrigger
       /\ pc[p] = "trigger.store" => stopTrigger
       /\ pc[p] = "trigger.unlock" => stopTriggered

\* A goroutine that closed stoppedChan has left DoStop for good.
StoppedInv ==
  /\ \A p \in Procs :
       /\ pc[p] \in InDoStop => p \in Stoppers
       /\ pc[p] \in {"stop.select", "stop.finish"} => stopFunc[p] # "none"
       /\ stopFunc[p] # "none" => isStopping /\ p \in Stoppers
  /\ stoppedChan =>
       \E p \in Stoppers : stopFunc[p] # "none" /\ pc[p] \notin InDoStop

IInv ==
  /\ TypeOK
  /\ LockInv
  /\ StoppingInv
  /\ TriggerInv
  /\ StoppedInv
  /\ ClosedOnce
  /\ CrashNeedsTwoStops
-----------------------------------------------------------------------------
\* The invariant holds in the state NewStopper returns.
LEMMA InitIInv == Init => IInv
BY ProcsAssumption
   DEF Init, IInv, TypeOK, LockInv, StoppingInv, TriggerInv, StoppedInv,
       ClosedOnce, CrashNeedsTwoStops, PCs, HoldsStopping, HoldsTrigger,
       AfterStopping, InDoStop

\* Every step keeps the invariant.
LEMMA NextIInv == IInv /\ [Next]_vars => IInv'
<1> SUFFICES ASSUME IInv, [Next]_vars PROVE IInv'
  OBVIOUS
<1> USE ProcsAssumption
    DEF IInv, TypeOK, LockInv, StoppingInv, TriggerInv, StoppedInv,
        ClosedOnce, CrashNeedsTwoStops, PCs, HoldsStopping, HoldsTrigger,
        AfterStopping, InDoStop, Goto, triggerVars, stoppingVars, stoppedVars
<1>1. ASSUME NEW p \in Stoppers, DoStop(p) PROVE IInv'
  BY <1>1 DEF DoStop
<1>2. ASSUME NEW p \in Procs, StoppingLock(p) PROVE IInv'
  BY <1>2 DEF StoppingLock
<1>3. ASSUME NEW p \in Procs, StoppingRecheck(p) PROVE IInv'
  BY <1>3 DEF StoppingRecheck
<1>4. ASSUME NEW p \in Procs, CloseStoppingChan(p) PROVE IInv'
  BY <1>4 DEF CloseStoppingChan
<1>5. ASSUME NEW p \in Procs, StoreIsStopping(p) PROVE IInv'
  BY <1>5 DEF StoreIsStopping
<1>6. ASSUME NEW p \in Procs, StoppingUnlock(p) PROVE IInv'
  BY <1>6 DEF StoppingUnlock
<1>7. ASSUME NEW p \in Procs, SpawnStopFunc(p) PROVE IInv'
  BY <1>7 DEF SpawnStopFunc
<1>8. ASSUME NEW p \in Procs, SelectDone(p) PROVE IInv'
  BY <1>8 DEF SelectDone
<1>9. ASSUME NEW p \in Procs, SelectTimeout(p) PROVE IInv'
  BY <1>9 DEF SelectTimeout
<1>10. ASSUME NEW p \in Procs, CloseStoppedChan(p) PROVE IInv'
  BY <1>10 DEF CloseStoppedChan
<1>11. ASSUME NEW p \in Procs, TriggerLock(p) PROVE IInv'
  BY <1>11 DEF TriggerLock
<1>12. ASSUME NEW p \in Procs, TriggerRecheck(p) PROVE IInv'
  BY <1>12 DEF TriggerRecheck
<1>13. ASSUME NEW p \in Procs, CloseStopTrigger(p) PROVE IInv'
  BY <1>13 DEF CloseStopTrigger
<1>14. ASSUME NEW p \in Procs, StoreStopTriggered(p) PROVE IInv'
  BY <1>14 DEF StoreStopTriggered
<1>15. ASSUME NEW p \in Procs, TriggerUnlock(p) PROVE IInv'
  BY <1>15 DEF TriggerUnlock
<1>16. ASSUME NEW p \in Procs, SeeTriggered(p) PROVE IInv'
  BY <1>16 DEF SeeTriggered
<1>17. ASSUME NEW p \in Procs, SeeStopping(p) PROVE IInv'
  BY <1>17 DEF SeeStopping
<1>18. ASSUME NEW p \in Procs, WaitStopped(p) PROVE IInv'
  BY <1>18 DEF WaitStopped
<1>19. ASSUME NEW p \in Procs, StopFuncReturns(p) PROVE IInv'
  BY <1>19 DEF StopFuncReturns
<1>20. ASSUME NEW p \in Procs, TriggerStop(p) PROVE IInv'
  BY <1>20 DEF TriggerStop
<1>21. ASSUME NEW p \in Procs,
             NEW ch \in {"await.triggered", "await.stopping", "await.stopped"},
             Listen(p, ch)
      PROVE IInv'
  BY <1>21 DEF Listen
<1>22. CASE UNCHANGED vars
  BY <1>22 DEF vars
<1>23. QED
  BY <1>1, <1>2, <1>3, <1>4, <1>5, <1>6, <1>7, <1>8, <1>9, <1>10, <1>11, <1>12, <1>13, <1>14, <1>15, <1>16, <1>17, <1>18, <1>19, <1>20, <1>21, <1>22
     DEF Next, DoStopStep, TriggerStep, ListenStep

\* IInv is an invariant of the Stopper.
LEMMA IInvHolds == SafeSpec => []IInv
BY InitIInv, NextIInv, PTL DEF SafeSpec

-----------------------------------------------------------------------------
\* The state NewStopper returns keeps its shape under every method.
THEOREM TypeCorrect == SafeSpec => []TypeOK
<1>1. IInv => TypeOK
  BY DEF IInv
<1>2. QED
  BY <1>1, IInvHolds, PTL

\* TriggerStop closes stopTrigger, and DoStop closes stoppingChan, at most
\* once, for any number of concurrent callers.
THEOREM DoubleCheckWorks == SafeSpec => []ClosedOnce
<1>1. IInv => ClosedOnce
  BY DEF IInv
<1>2. QED
  BY <1>1, IInvHolds, PTL

\* DoStop's second close of stoppedChan needs two goroutines in DoStop.
THEOREM PanicNeedsOverlap == SafeSpec => []CrashNeedsTwoStops
<1>1. IInv => CrashNeedsTwoStops
  BY DEF IInv
<1>2. QED
  BY <1>1, IInvHolds, PTL

\* The flags are stored after their channels are closed.
THEOREM FlagsAreSafeToRead == SafeSpec => []FlagAfterChannel
<1>1. IInv => FlagAfterChannel
  BY DEF IInv, StoppingInv, TriggerInv, FlagAfterChannel
<1>2. QED
  BY <1>1, IInvHolds, PTL

\* Every behaviour of the Stopper is one of the life cycle, overlapping calls
\* of DoStop included: a panic leaves the channels as they are.
THEOREM ImplementsLifecycle == SafeSpec => LC!SafeSpec
<1>1. Init => LC!Init
  BY DEF Init, LC!Init, phase
<1>2. IInv /\ [Next]_vars => [LC!Next]_(LC!vars)
  <2> SUFFICES ASSUME IInv, [Next]_vars PROVE [LC!Next]_(LC!vars)
    OBVIOUS
  <2> USE DEF LC!vars, phase, Goto, triggerVars, stoppingVars, stoppedVars
  <2>1. ASSUME NEW p \in Procs, CloseStopTrigger(p) PROVE [LC!Next]_(LC!vars)
    BY <2>1 DEF CloseStopTrigger, LC!Next, LC!Trigger, IInv, TypeOK
  <2>2. ASSUME NEW p \in Procs, CloseStoppingChan(p) PROVE [LC!Next]_(LC!vars)
    BY <2>2 DEF CloseStoppingChan, LC!Next, LC!BeginStop, IInv, TypeOK,
                StoppingInv, StoppedInv
  <2>3. ASSUME NEW p \in Procs, CloseStoppedChan(p) PROVE [LC!Next]_(LC!vars)
    BY <2>3 DEF CloseStoppedChan, LC!Next, LC!CompleteStop, IInv, TypeOK,
                StoppingInv, AfterStopping
  <2>4. CASE UNCHANGED <<stopTrigger, stoppingChan, stoppedChan>>
    BY <2>4
  <2>5. QED
    BY <2>1, <2>2, <2>3, <2>4
       DEF Next, vars, DoStopStep, TriggerStep, ListenStep, DoStop,
           StoppingLock, StoppingRecheck, StoreIsStopping, StoppingUnlock,
           SpawnStopFunc, StopFuncReturns, SelectDone, SelectTimeout,
           TriggerStop, TriggerLock, TriggerRecheck, StoreStopTriggered,
           TriggerUnlock, Listen, SeeTriggered, SeeStopping, WaitStopped
<1>3. QED
  BY <1>1, <1>2, IInvHolds, PTL DEF SafeSpec, LC!SafeSpec
=============================================================================
