------------------------------ MODULE Compress ------------------------------
(***************************************************************************)
(* Package compress (src/compress/compress.go) and the goroutines in Procs *)
(* that call it.  zlibCompress and zlibDecompress take a bytes.Buffer from *)
(* a sync.Pool, fill it and return buffer.Bytes(), while a deferred        *)
(* function resets the buffer and puts it back: the caller's slice and the *)
(* next call's buffer then share one array.                                *)
(*                                                                         *)
(* A buffer is known here by its array, which Reset keeps.  A write goes   *)
(* to that array, or to a new one when the buffer has to grow; the old one *)
(* stays with whoever has a slice of it.                                   *)
(***************************************************************************)
EXTENDS Integers, FiniteSets

CONSTANTS
  Arrays,      \* the arrays that buffers can have
  Inputs,      \* the data given to Compress
  len,         \* the length of each: [Inputs -> Nat]
  defaults,    \* the thresholds at the start, weak and strong
  Settings,    \* the arguments of Init
  Procs,
  MaxResults,  \* bound on the slices the callers keep
  None

\* What an array holds: an input compressed at a level, an input, which has the
\* level "none", or bytes that are neither.
Zipped == [input : Inputs, level : {"weak", "strong"}]
Garbage == [input |-> None, level |-> "none"]

ASSUME CompressAssumption ==
  /\ len \in [Inputs -> Nat]
  /\ defaults \in [weak : Nat \ {0}, strong : Nat \ {0}]
  /\ Settings \subseteq [weak : Int, strong : Int]
  /\ MaxResults \in Nat
  /\ None \notin Inputs \cup Arrays

VARIABLES
  memory,     \* what each array holds
  pool,       \* compressBufferPool and decompressBufferPool
  threshold,  \* defaultWeakCompress and defaultStrongCompress
  op,         \* the call of each goroutine, and so its pool
  pc,         \* how far it is
  local,      \* the thresholds Compress has read
  arg,        \* its data: a plain input, or a result to decompress
  source,     \* what Decompress found in its data when it began to read
  buffer,     \* the buffer it has
  results,    \* the slices the callers keep: an array and what the call put there
  inForce,    \* history: the pairs of thresholds there have been
  atRisk      \* history: results whose array was handed out again

vars == <<memory, pool, threshold, op, pc, local, arg, source, buffer, results,
          inForce, atRisk>>

Init ==
  /\ memory = [a \in Arrays |-> Garbage]
  /\ pool = [o \in {"compress", "decompress"} |-> {}]
  /\ threshold = defaults
  /\ op = [p \in Procs |-> "compress"]
  /\ pc = [p \in Procs |-> "idle"]
  /\ local = [p \in Procs |-> defaults]
  /\ arg = [p \in Procs |-> None]
  /\ source = [p \in Procs |-> Garbage]
  /\ buffer = [p \in Procs |-> None]
  /\ results = {}
  /\ inForce = {defaults} /\ atRisk = {}

Goto(p, from, to) == pc[p] = from /\ pc' = [pc EXCEPT ![p] = to]

\* The arrays that no one refers to: the runtime may allocate them.
Free ==
  Arrays \ ((UNION {pool[o] : o \in DOMAIN pool}) \cup {buffer[p] : p \in Procs}
            \cup {r.array : r \in results})

\* What is in an array once no one refers to it is of no interest.
Swept(m) == [a \in Arrays |-> IF a \in Free' THEN Garbage ELSE m[a]]

\* The call is over.
Forgets(p) ==
  /\ local' = [local EXCEPT ![p] = defaults]
  /\ arg' = [arg EXCEPT ![p] = None]
  /\ source' = [source EXCEPT ![p] = Garbage]

-----------------------------------------------------------------------------
Setting(new, old) == IF new > 0 THEN new ELSE old

\* A bug: Compress reads the thresholds without the lock.
ReadingUnlocked == {}

\* The goroutines between RLock and RUnlock of compressMutex.
Reading == {p \in Procs : pc[p] = "strong"}

\* compress.Init, behind compressMutex.
SetThresholds(s) ==
  /\ Reading = {}
  /\ threshold' = [weak |-> Setting(s.weak, threshold.weak),
                   strong |-> Setting(s.strong, threshold.strong)]
  /\ inForce' = inForce \cup {threshold'}
  /\ UNCHANGED <<memory, pool, op, pc, local, arg, source, buffer, results, atRisk>>

\* Compress with data, and its two reads of a threshold; empty data returns at
\* once, and data shorter than the weak threshold is returned as it is.
Compress(p, x) ==
  /\ len[x] > 0
  /\ Goto(p, "idle", "weak")
  /\ op' = [op EXCEPT ![p] = "compress"]
  /\ arg' = [arg EXCEPT ![p] = x]
  /\ UNCHANGED <<memory, pool, threshold, local, source, buffer, results, inForce, atRisk>>

ReadWeak(p) ==
  /\ Goto(p, "weak", "strong")
  /\ local' = [local EXCEPT ![p].weak = threshold.weak]
  /\ UNCHANGED <<memory, pool, threshold, op, arg, source, buffer, results, inForce, atRisk>>

ReadStrong(p) ==
  /\ pc[p] = "strong"
  /\ IF len[arg[p]] < local[p].weak
       THEN Goto(p, "strong", "idle") /\ Forgets(p)
       ELSE /\ Goto(p, "strong", "get")
            /\ local' = [local EXCEPT ![p].strong = threshold.strong]
            /\ UNCHANGED <<arg, source>>
  /\ UNCHANGED <<memory, pool, threshold, op, buffer, results, inForce, atRisk>>

\* Decompress of a slice that Compress has returned.  Empty data returns at once,
\* and so does an error when NewReader finds no header: bytes that are changing
\* may have one.
Decompress(p, r) ==
  /\ r \in results /\ r.content \in Zipped
  /\ Goto(p, "idle", "get")
  /\ op' = [op EXCEPT ![p] = "decompress"]
  /\ arg' = [arg EXCEPT ![p] = r]
  /\ UNCHANGED <<memory, pool, threshold, local, source, buffer, results, inForce, atRisk>>

\* A bug: Put is called there and then instead of deferred.
TakenBack(P, a) == P \cup {a}

Taken(P, a) == P \ {a}

\* Get: a buffer of the pool, or New.
Get(p) ==
  /\ Goto(p, "get", "write")
  /\ \E a \in pool[op[p]] \cup Free :
       /\ buffer' = [buffer EXCEPT ![p] = a]
       /\ pool' = [pool EXCEPT ![op[p]] = Taken(@, a)]
       /\ atRisk' = atRisk \cup {r \in results : r.array = a}
  /\ UNCHANGED <<memory, threshold, op, local, arg, source, results, inForce>>

\* A bug: the buffer is not reset, and a write appends to what it holds.
WrittenAfter(old, new) == IF old = Garbage THEN new ELSE old

Written(old, new) == new

\* p writes c to its buffer, which grows when it must.
WriteTo(p, c) ==
  \E a \in {buffer[p]} \cup Free :
    /\ buffer' = [buffer EXCEPT ![p] = a]
    /\ memory' = Swept([memory EXCEPT ![a] = Written(memory[buffer[p]], c)])

\* The first bytes of the output.
Write(p) ==
  /\ Goto(p, "write", "close")
  /\ UNCHANGED <<pool, threshold, op, local, arg, results, inForce, atRisk>>
  /\ WriteTo(p, Garbage)
  /\ source' = [source EXCEPT ![p] =
                  IF op[p] = "decompress" THEN memory[arg[p].array] ELSE @]

Level(p) == IF len[arg[p]] >= local[p].strong THEN "strong" ELSE "weak"

\* The output of p's call.
Output(p) ==
  IF op[p] = "compress" THEN [input |-> arg[p], level |-> Level(p)]
  ELSE [input |-> source[p].input, level |-> "none"]

\* The rest of it.  ReadFrom finds a checksum error when the bytes it reads have
\* changed under it; writing to the compressor never fails.
Close(p) ==
  LET whole == op[p] = "compress" \/
                 (source[p] \in Zipped /\ memory[arg[p].array] = source[p])
  IN  /\ Goto(p, "close", IF whole THEN "return" ELSE "error")
      /\ UNCHANGED <<pool, threshold, op, local, arg, source, results, inForce, atRisk>>
      /\ WriteTo(p, IF whole THEN Output(p) ELSE Garbage)

\* A bug: the bytes are cleared before the buffer goes back.
ResetClears(c) == Garbage

\* buffer.Reset() empties the buffer and leaves the bytes where they are.
Reset(c) == c

\* Bytes is evaluated, the deferred function resets the buffer and puts it back,
\* and the call returns the slice, or the error.
Return(p) ==
  LET a == buffer[p]
      r == [array |-> a, content |-> Output(p)]
      kept == pc[p] = "return" /\ Cardinality(results) < MaxResults
  IN  /\ pc[p] \in {"return", "error"} /\ Goto(p, pc[p], "idle")
      /\ memory' = [memory EXCEPT ![a] = Reset(@)]
      /\ pool' = [pool EXCEPT ![op[p]] = @ \cup {a}]
      /\ results' = IF kept THEN results \cup {r} ELSE results
      /\ buffer' = [buffer EXCEPT ![p] = None]
      /\ Forgets(p)
      /\ UNCHANGED <<threshold, op, inForce, atRisk>>

\* A caller drops a slice that no call is reading; the runtime empties a pool.
Forget(r) ==
  /\ \A p \in Procs : arg[p] # r
  /\ results' = results \ {r} /\ atRisk' = atRisk \ {r}
  /\ UNCHANGED <<pool, threshold, op, pc, local, arg, source, buffer, inForce>>
  /\ memory' = Swept(memory)

DropFromPool(o) ==
  /\ pool[o] # {}
  /\ pool' = [pool EXCEPT ![o] = {}]
  /\ UNCHANGED <<threshold, op, pc, local, arg, source, buffer, results, inForce, atRisk>>
  /\ memory' = Swept(memory)

Next ==
  \/ \E p \in Procs :
       \/ \E x \in Inputs : Compress(p, x)
       \/ \E r \in results : Decompress(p, r)
       \/ ReadWeak(p) \/ ReadStrong(p)
       \/ Get(p) \/ Write(p) \/ Close(p) \/ Return(p)
  \/ \E s \in Settings : SetThresholds(s)
  \/ \E r \in results : Forget(r)
  \/ \E o \in DOMAIN pool : DropFromPool(o)

Spec == Init /\ [][Next]_vars

-----------------------------------------------------------------------------
(* Properties                                                              *)

Holding == {p \in Procs : buffer[p] # None}

\* A buffer belongs to one call, or to one pool: no two calls fill the same
\* array at a time.
Exclusive ==
  /\ pool["compress"] \cap pool["decompress"] = {}
  /\ \A p \in Holding :
       /\ \A q \in Holding \ {p} : buffer[q] # buffer[p]
       /\ \A o \in DOMAIN pool : buffer[p] \notin pool[o]

\* The bytes a caller has got are the ones the call computed, until the pool
\* hands their buffer to another call; from then on they may change at any
\* time, although the caller has done nothing wrong.
DamagedByReuse ==
  \A r \in results : memory[r.array] # r.content => r \in atRisk

\* Decompress gives back what was compressed, and no error, unless the
\* compressed bytes were handed to another call in the meantime.
RoundTrip ==
  \A p \in Procs :
    op[p] = "decompress" /\ pc[p] \in {"return", "error"} /\ arg[p] \notin atRisk =>
    /\ pc[p] # "error"
    /\ pc[p] = "return" => memory[buffer[p]] = [arg[p].content EXCEPT !.level = "none"]

\* Compress decides by a pair of thresholds that were in force together, never
\* by one of before and one of after a call of Init.
ThresholdsPaired ==
  \A p \in Procs : op[p] = "compress" /\ pc[p] \in {"get", "write", "close", "return"} =>
    local[p] \in inForce
=============================================================================
