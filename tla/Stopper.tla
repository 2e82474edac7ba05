------------------------------ MODULE Stopper ------------------------------
(***************************************************************************)
(* sync.Stopper (src/sync/stopper.go): the goroutines in Procs call        *)
(* DoStop, TriggerStop and WaitStopped, and listen on the channels of      *)
(* StopTriggered and Stopping.  One action is one atomic step of the code: *)
(* an atomic load or store, a lock or unlock, a channel close, a select.   *)
(*                                                                         *)
(* A channel of the Stopper carries no value, it is only ever closed, so   *)
(* it is a Boolean: TRUE once closed.  Closing a closed channel panics,    *)
(* nothing recovers it, and the whole program ends: "crash" then names the *)
(* channel and no further step is taken.                                   *)
(***************************************************************************)
EXTENDS Naturals, FiniteSets

CONSTANTS
  Procs,     \* the goroutines that use the Stopper
  Stoppers,  \* those of them that may call DoStop
  NoProc     \* the holder of a free mutex

ASSUME ProcsAssumption ==
  /\ Stoppers \subseteq Procs
  /\ NoProc \notin Procs

VARIABLES
  pc,             \* where each goroutine is in the method it calls
  stopTrigger,    \* chan: stop is triggered
  stopTriggered,  \* atomic.Bool
  triggerLock,    \* holder of _triggerLock
  stoppingChan,   \* chan: stop is started
  isStopping,     \* atomic.Bool
  stoppingLock,   \* holder of _stoppingLock
  stoppedChan,    \* chan: stop is completed
  stopFunc,       \* the goroutine DoStop starts for f, per caller
  crash           \* the channel whose second close ended the program

vars == <<pc, stopTrigger, stopTriggered, triggerLock, stoppingChan,
          isStopping, stoppingLock, stoppedChan, stopFunc, crash>>

triggerVars == <<stopTrigger, stopTriggered, triggerLock>>
stoppingVars == <<stoppingChan, isStopping, stoppingLock>>
stoppedVars == <<stoppedChan, stopFunc>>

PCs == {"idle", "stop.lock", "stop.recheck", "stop.close", "stop.store",
        "stop.unlock", "stop.spawn", "stop.select", "stop.finish",
        "trigger.lock", "trigger.recheck", "trigger.close",
        "trigger.store", "trigger.unlock",
        "await.triggered", "await.stopping", "await.stopped"}

TypeOK ==
  /\ pc \in [Procs -> PCs]
  /\ stopTrigger \in BOOLEAN
  /\ stopTriggered \in BOOLEAN
  /\ triggerLock \in Procs \cup {NoProc}
  /\ stoppingChan \in BOOLEAN
  /\ isStopping \in BOOLEAN
  /\ stoppingLock \in Procs \cup {NoProc}
  /\ stoppedChan \in BOOLEAN
  /\ stopFunc \in [Procs -> {"none", "running", "returned"}]
  /\ crash \in {"none", "stopTrigger", "stoppingChan", "stoppedChan"}

\* NewStopper
Init ==
  /\ pc = [p \in Procs |-> "idle"]
  /\ stopTrigger = FALSE
  /\ stopTriggered = FALSE
  /\ triggerLock = NoProc
  /\ stoppingChan = FALSE
  /\ isStopping = FALSE
  /\ stoppingLock = NoProc
  /\ stoppedChan = FALSE
  /\ stopFunc = [p \in Procs |-> "none"]
  /\ crash = "none"

\* Goroutine p, in a program that is still alive, moves on.
Goto(p, from, to) ==
  /\ crash = "none"
  /\ pc[p] = from
  /\ pc' = [pc EXCEPT ![p] = to]

-----------------------------------------------------------------------------
(* DoStop                                                                  *)

\* A bug: the lock-free check is dropped as redundant.
DoStopUnchecked(p) ==
  /\ Goto(p, "idle", "stop.lock")
  /\ UNCHANGED <<triggerVars, stoppingVars, stoppedVars, crash>>

\* The check without the lock: a stop that has begun is left alone.
DoStop(p) ==
  /\ Goto(p, "idle", IF isStopping THEN "idle" ELSE "stop.lock")
  /\ UNCHANGED <<triggerVars, stoppingVars, stoppedVars, crash>>

StoppingLock(p) ==
  /\ Goto(p, "stop.lock", "stop.recheck")
  /\ stoppingLock = NoProc
  /\ stoppingLock' = p
  /\ UNCHANGED <<triggerVars, stoppingChan, isStopping, stoppedVars, crash>>

\* A bug: the flag is not read again once the lock is held.
StoppingRecheckBlind(p) ==
  /\ Goto(p, "stop.recheck", "stop.close")
  /\ UNCHANGED <<triggerVars, stoppingVars, stoppedVars, crash>>

\* The check under the lock.  Its return leaves the function literal only:
\* both outcomes go on to the stop function, after the unlock.
StoppingRecheck(p) ==
  /\ Goto(p, "stop.recheck", IF isStopping THEN "stop.unlock" ELSE "stop.close")
  /\ UNCHANGED <<triggerVars, stoppingVars, stoppedVars, crash>>

\* A bug: the flag is set where the channel should be closed.
CloseStoppingChanLate(p) ==
  /\ Goto(p, "stop.close", "stop.store")
  /\ isStopping' = TRUE
  /\ UNCHANGED <<triggerVars, stoppingChan, stoppingLock, stoppedVars, crash>>

CloseStoppingChan(p) ==
  /\ Goto(p, "stop.close", "stop.store")
  /\ stoppingChan' = TRUE
  /\ crash' = IF stoppingChan THEN "stoppingChan" ELSE crash
  /\ UNCHANGED <<triggerVars, isStopping, stoppingLock, stoppedVars>>

StoreIsStopping(p) ==
  /\ Goto(p, "stop.store", "stop.unlock")
  /\ isStopping' = TRUE
  /\ UNCHANGED <<triggerVars, stoppingChan, stoppingLock, stoppedVars, crash>>

StoppingUnlock(p) ==
  /\ Goto(p, "stop.unlock", "stop.spawn")
  /\ stoppingLock' = NoProc
  /\ UNCHANGED <<triggerVars, stoppingChan, isStopping, stoppedVars, crash>>

\* The deadline context and the goroutine that runs f and closes "done".
SpawnStopFunc(p) ==
  /\ Goto(p, "stop.spawn", "stop.select")
  /\ stopFunc' = [stopFunc EXCEPT ![p] = "running"]
  /\ UNCHANGED <<triggerVars, stoppingVars, stoppedChan, crash>>

\* A bug: a panic of f is recovered, and "done" stays open.
StopFuncPanics(p) ==
  /\ crash = "none"
  /\ stopFunc[p] = "running"
  /\ stopFunc' = [stopFunc EXCEPT ![p] = "panicked"]
  /\ UNCHANGED <<pc, triggerVars, stoppingVars, stoppedChan, crash>>

\* f returns and "done" is closed, perhaps after DoStop has given up.
StopFuncReturns(p) ==
  /\ crash = "none"
  /\ stopFunc[p] = "running"
  /\ stopFunc' = [stopFunc EXCEPT ![p] = "returned"]
  /\ UNCHANGED <<pc, triggerVars, stoppingVars, stoppedChan, crash>>

SelectDone(p) ==
  /\ Goto(p, "stop.select", "stop.finish")
  /\ stopFunc[p] = "returned"
  /\ UNCHANGED <<triggerVars, stoppingVars, stoppedVars, crash>>

\* A bug: the deadline is not among the cases of the select.
SelectTimeoutNever(p) ==
  /\ FALSE
  /\ SelectDone(p)

\* A bug: a stop that times out returns without closing stoppedChan.
SelectTimeoutReturns(p) ==
  /\ Goto(p, "stop.select", "idle")
  /\ UNCHANGED <<triggerVars, stoppingVars, stoppedVars, crash>>

\* The deadline may pass at any time, before or after f returns.
SelectTimeout(p) ==
  /\ Goto(p, "stop.select", "stop.finish")
  /\ UNCHANGED <<triggerVars, stoppingVars, stoppedVars, crash>>

\* The deferred calls: cancel, then close(stoppedChan).
CloseStoppedChan(p) ==
  /\ Goto(p, "stop.finish", "idle")
  /\ stoppedChan' = TRUE
  /\ crash' = IF stoppedChan THEN "stoppedChan" ELSE crash
  /\ UNCHANGED <<triggerVars, stoppingVars, stopFunc>>

-----------------------------------------------------------------------------
(* TriggerStop                                                             *)

TriggerStop(p) ==
  /\ Goto(p, "idle", IF stopTriggered THEN "idle" ELSE "trigger.lock")
  /\ UNCHANGED <<triggerVars, stoppingVars, stoppedVars, crash>>

TriggerLock(p) ==
  /\ Goto(p, "trigger.lock", "trigger.recheck")
  /\ triggerLock = NoProc
  /\ triggerLock' = p
  /\ UNCHANGED <<stopTrigger, stopTriggered, stoppingVars, stoppedVars, crash>>

TriggerRecheck(p) ==
  /\ Goto(p, "trigger.recheck",
          IF stopTriggered THEN "trigger.unlock" ELSE "trigger.close")
  /\ UNCHANGED <<triggerVars, stoppingVars, stoppedVars, crash>>

CloseStopTrigger(p) ==
  /\ Goto(p, "trigger.close", "trigger.store")
  /\ stopTrigger' = TRUE
  /\ crash' = IF stopTrigger THEN "stopTrigger" ELSE crash
  /\ UNCHANGED <<stopTriggered, triggerLock, stoppingVars, stoppedVars>>

StoreStopTriggered(p) ==
  /\ Goto(p, "trigger.store", "trigger.unlock")
  /\ stopTriggered' = TRUE
  /\ UNCHANGED <<stopTrigger, triggerLock, stoppingVars, stoppedVars, crash>>

TriggerUnlock(p) ==
  /\ Goto(p, "trigger.unlock", "idle")
  /\ triggerLock' = NoProc
  /\ UNCHANGED <<stopTrigger, stopTriggered, stoppingVars, stoppedVars, crash>>

-----------------------------------------------------------------------------
(* Listening: a receive from a channel returns once it is closed.          *)

Listen(p, ch) ==
  /\ Goto(p, "idle", ch)
  /\ UNCHANGED <<triggerVars, stoppingVars, stoppedVars, crash>>

\* <-StopTriggered()
SeeTriggered(p) ==
  /\ Goto(p, "await.triggered", "idle")
  /\ stopTrigger
  /\ UNCHANGED <<triggerVars, stoppingVars, stoppedVars, crash>>

\* <-Stopping()
SeeStopping(p) ==
  /\ Goto(p, "await.stopping", "idle")
  /\ stoppingChan
  /\ UNCHANGED <<triggerVars, stoppingVars, stoppedVars, crash>>

WaitStopped(p) ==
  /\ Goto(p, "await.stopped", "idle")
  /\ stoppedChan
  /\ UNCHANGED <<triggerVars, stoppingVars, stoppedVars, crash>>

-----------------------------------------------------------------------------
\* What a goroutine does by itself once it is inside a method.
DoStopStep(p) ==
  \/ StoppingLock(p) \/ StoppingRecheck(p) \/ CloseStoppingChan(p)
  \/ StoreIsStopping(p) \/ StoppingUnlock(p) \/ SpawnStopFunc(p)
  \/ SelectDone(p) \/ SelectTimeout(p) \/ CloseStoppedChan(p)

TriggerStep(p) ==
  \/ TriggerLock(p) \/ TriggerRecheck(p) \/ CloseStopTrigger(p)
  \/ StoreStopTriggered(p) \/ TriggerUnlock(p)

ListenStep(p) == SeeTriggered(p) \/ SeeStopping(p) \/ WaitStopped(p)

Next ==
  \/ \E p \in Stoppers : DoStop(p)
  \/ \E p \in Procs :
       \/ TriggerStop(p)
       \/ \E ch \in {"await.triggered", "await.stopping", "await.stopped"} :
            Listen(p, ch)
       \/ DoStopStep(p) \/ TriggerStep(p) \/ ListenStep(p)
       \/ StopFuncReturns(p)

(***************************************************************************)
(* A runnable goroutine is scheduled, and a deadline passes.  Nothing      *)
(* obliges a client to call, or f to return.                               *)
(***************************************************************************)
Fairness ==
  \A p \in Procs :
    /\ WF_vars(DoStopStep(p))
    /\ WF_vars(TriggerStep(p))
    /\ WF_vars(ListenStep(p))

SafeSpec == Init /\ [][Next]_vars

Spec == SafeSpec /\ Fairness

-----------------------------------------------------------------------------
(* Properties                                                              *)

\* The double check of TriggerStop and of DoStop works: whatever the
\* interleaving, stopTrigger and stoppingChan are closed at most once.
ClosedOnce == crash \notin {"stopTrigger", "stoppingChan"}

\* The one channel that can be closed twice is stoppedChan, and only when two
\* goroutines have each started a stop function, both having passed DoStop's
\* lock-free check before either of them set the flag.  A program with one
\* goroutine that stops, however often it calls DoStop, never panics.
CrashNeedsTwoStops ==
  crash # "none" =>
    \E p, q \in Stoppers :
      p # q /\ stopFunc[p] # "none" /\ stopFunc[q] # "none"

\* A goroutine that reads TRUE from IsStopping (or from the flag TriggerStop
\* reads) can rely on the channel: it is closed already.
FlagAfterChannel ==
  /\ isStopping => stoppingChan
  /\ stopTriggered => stopTrigger

\* No goroutine is left in WaitStopped after a stop has begun, even if f
\* never returns: the deadline of DoStop bounds the wait.
WaitersReleased ==
  \A p \in Procs :
    (pc[p] = "await.stopped" /\ isStopping)
      ~> (pc[p] # "await.stopped" \/ crash # "none")

\* The phase a client of the Stoppable interface can tell from its channels.
phase ==
  IF stoppedChan THEN "stopped"
  ELSE IF stoppingChan THEN "stopping" ELSE "running"

LC == INSTANCE Lifecycle WITH triggered <- stopTrigger

\* The Stopper implements the life cycle its interface promises: triggered
\* once, begun once, never undone, and completed once begun.
LifecycleSpec == LC!Spec
=============================================================================
