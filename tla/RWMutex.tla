------------------------------ MODULE RWMutex ------------------------------
(***************************************************************************)
(* Go's sync.RWMutex, as the maps under src/concurrentmap use it: a record *)
(* of the writer that has called Lock, the readers inside and the readers  *)
(* that RLock keeps waiting.  A writer that has called Lock waits for the  *)
(* readers inside and keeps new ones out; its Unlock lets those in before  *)
(* the next writer.                                                        *)
(***************************************************************************)
CONSTANT NoProc  \* the writer of a mutex no one has called Lock on

RWMutexType(P) ==
  [writer : P \cup {NoProc}, readers : SUBSET P, waiting : SUBSET P]

Unlocked == [writer |-> NoProc, readers |-> {}, waiting |-> {}]

\* The reader a goes in, or waits for the writer.
RLocked(l, a) ==
  IF l.writer = NoProc
    THEN [l EXCEPT !.readers = @ \cup {a}]
    ELSE [l EXCEPT !.waiting = @ \cup {a}]

RUnlocked(l, a) == [l EXCEPT !.readers = @ \ {a}]

\* The mutex after a's call of Lock, which needs l.writer = NoProc.
Locked(l, a) == [l EXCEPT !.writer = a]

WriteUnlocked(l) ==
  [writer |-> NoProc, readers |-> l.waiting, waiting |-> {}]

\* a's RLock, respectively a's Lock, has returned.
HoldsRead(l, a) == a \in l.readers
HoldsWrite(l, a) == l.writer = a /\ l.readers = {}
=============================================================================
