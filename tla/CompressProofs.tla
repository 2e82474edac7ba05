--------------------------- MODULE CompressProofs ---------------------------
(***************************************************************************)
(* Package compress, for any number of goroutines, arrays and inputs, any  *)
(* thresholds, and as many slices kept as the callers like: a buffer       *)
(* belongs to one call at a time, and what a call has returned is sound    *)
(* until the pool hands its buffer out again.                              *)
(***************************************************************************)
EXTENDS Compress, TLAPS

Contents == [input : Inputs \cup {None}, level : {"none", "weak", "strong"}]

TypeInv ==
  /\ memory \in [Arrays -> Contents]
  /\ pool \in [{"compress", "decompress"} -> SUBSET Arrays]
  /\ threshold \in [weak : Int, strong : Int]
  /\ op \in [Procs -> {"compress", "decompress"}]
  /\ pc \in [Procs -> {"idle", "weak", "strong", "get", "write", "close", "return", "error"}]
  /\ local \in [Procs -> [weak : Int, strong : Int]]
  /\ arg \in [Procs -> Inputs \cup {None} \cup [array : Arrays, content : Contents]]
  /\ source \in [Procs -> Contents]
  /\ buffer \in [Procs -> Arrays \cup {None}]
  /\ results \subseteq [array : Arrays, content : Contents]

\* What a goroutine has at each point of its call.  The data of Decompress is a
\* slice its caller keeps as long as the call reads it.
CallInv ==
  \A p \in Procs :
    /\ buffer[p] # None <=> pc[p] \in {"write", "close", "return", "error"}
    /\ pc[p] \in {"weak", "strong"} => op[p] = "compress"
    /\ pc[p] # "idle" /\ op[p] = "compress" => arg[p] \in Inputs /\ pc[p] # "error"
    /\ pc[p] # "idle" /\ op[p] = "decompress" =>
         arg[p] \in results /\ arg[p].content \in Zipped

\* The slices that share their array with a buffer in use are at risk.
RiskInv == \A p \in Holding, r \in results : r.array = buffer[p] => r \in atRisk

\* A call that is about to return has its whole output in its buffer.
OutputInv == \A p \in Procs : pc[p] = "return" => memory[buffer[p]] = Output(p)

\* What Decompress has found in its data, as long as they are not at risk.
SourceInv ==
  \A p \in Procs : op[p] = "decompress" =>
    /\ pc[p] \in {"close", "return"} /\ arg[p] \notin atRisk => source[p] = arg[p].content
    /\ pc[p] = "error" => arg[p] \in atRisk

\* No Init comes between the two reads of Compress.
ThresholdInv ==
  /\ threshold \in inForce
  /\ \A p \in Procs : pc[p] = "strong" => local[p].weak = threshold.weak

IInv ==
  /\ TypeInv /\ CallInv /\ Exclusive /\ RiskInv /\ OutputInv
  /\ DamagedByReuse /\ SourceInv /\ ThresholdInv /\ ThresholdsPaired

-----------------------------------------------------------------------------
LEMMA InitIInv == Init => IInv
BY CompressAssumption
   DEF Init, IInv, TypeInv, CallInv, Exclusive, RiskInv, OutputInv, DamagedByReuse,
       SourceInv, ThresholdInv, ThresholdsPaired, Holding, Contents, Garbage

\* No one has an array: no pool, no call and no caller.
Unused(a) ==
  /\ \A o \in DOMAIN pool : a \notin pool[o]
  /\ \A p \in Procs : a # buffer[p]
  /\ \A r \in results : a # r.array

LEMMA FreeUnused ==
  /\ \A a : a \in Free <=> a \in Arrays /\ Unused(a)
  /\ \A a : a \in Free' <=> a \in Arrays /\ Unused(a)'
<1>1. \A a : a \in Free <=> a \in Arrays /\ Unused(a)
  BY Zenon DEF Free, Unused
<1>2. \A a : a \in Free' <=> a \in Arrays /\ Unused(a)'
  BY Zenon DEF Free, Unused
<1> QED
  BY <1>1, <1>2

\* Sweeping memory changes no array that someone has.
LEMMA SweptFacts ==
  ASSUME NEW m \in [Arrays -> Contents]
  PROVE  /\ Swept(m) \in [Arrays -> Contents]
         /\ \A a \in Arrays : ~Unused(a)' => Swept(m)[a] = m[a]
BY FreeUnused DEF Swept, Contents, Garbage

-----------------------------------------------------------------------------
(* The actions that leave memory and the buffers alone                     *)

LEMMA SetThresholdsIInv ==
  ASSUME IInv, NEW s \in Settings, SetThresholds(s)
  PROVE  IInv'
<1> USE DEF IInv
<1>1. TypeInv'
  BY CompressAssumption DEF SetThresholds, Setting, TypeInv
<1>2. CallInv' /\ Exclusive' /\ RiskInv' /\ DamagedByReuse' /\ SourceInv'
  BY DEF SetThresholds, CallInv, Exclusive, RiskInv, DamagedByReuse, SourceInv, Holding
<1>3. OutputInv'
  BY DEF SetThresholds, OutputInv, Output, Level
<1>4. ThresholdInv' /\ ThresholdsPaired'
  BY DEF SetThresholds, ThresholdInv, ThresholdsPaired, Reading
<1> QED
  BY <1>1, <1>2, <1>3, <1>4

LEMMA CompressIInv ==
  ASSUME IInv, NEW p \in Procs, NEW x \in Inputs, Compress(p, x)
  PROVE  IInv'
<1> USE DEF IInv, Compress, Goto
<1>1. TypeInv' /\ CallInv' /\ Exclusive' /\ RiskInv' /\ DamagedByReuse' /\ SourceInv'
  BY DEF TypeInv, CallInv, Exclusive, RiskInv, DamagedByReuse, SourceInv, Holding
<1>2. OutputInv'
  BY DEF TypeInv, OutputInv, Output, Level
<1>3. ThresholdInv' /\ ThresholdsPaired'
  BY DEF TypeInv, ThresholdInv, ThresholdsPaired
<1> QED
  BY <1>1, <1>2, <1>3

LEMMA ReadWeakIInv ==
  ASSUME IInv, NEW p \in Procs, ReadWeak(p)
  PROVE  IInv'
<1> USE DEF IInv, ReadWeak, Goto
<1>1. TypeInv' /\ CallInv' /\ Exclusive' /\ RiskInv' /\ DamagedByReuse' /\ SourceInv'
  BY DEF TypeInv, CallInv, Exclusive, RiskInv, DamagedByReuse, SourceInv, Holding
<1>2. OutputInv'
  BY DEF TypeInv, OutputInv, Output, Level
<1>3. ThresholdInv' /\ ThresholdsPaired'
  BY DEF TypeInv, ThresholdInv, ThresholdsPaired
<1> QED
  BY <1>1, <1>2, <1>3

LEMMA ReadStrongIInv ==
  ASSUME IInv, NEW p \in Procs, ReadStrong(p)
  PROVE  IInv'
<1> USE DEF IInv, ReadStrong, Goto
<1>1. TypeInv'
  <2>1. defaults \in [weak : Int, strong : Int] /\ Garbage \in Contents
    BY CompressAssumption DEF Contents, Garbage
  <2>2. CASE len[arg[p]] < local[p].weak
    <3>1. /\ pc' = [pc EXCEPT ![p] = "idle"]
          /\ local' = [local EXCEPT ![p] = defaults]
          /\ arg' = [arg EXCEPT ![p] = None]
          /\ source' = [source EXCEPT ![p] = Garbage]
          /\ UNCHANGED <<memory, pool, threshold, op, buffer, results>>
      BY <2>2 DEF Forgets
    <3> HIDE DEF ReadStrong
    <3> QED
      BY <2>1, <3>1 DEF TypeInv
  <2>3. CASE ~(len[arg[p]] < local[p].weak)
    BY <2>3 DEF TypeInv
  <2> QED
    BY <2>2, <2>3
<1>2. CallInv' /\ Exclusive' /\ RiskInv' /\ DamagedByReuse' /\ SourceInv'
  BY DEF TypeInv, CallInv, Exclusive, RiskInv, DamagedByReuse, SourceInv, Holding, Forgets
<1>3. OutputInv'
  BY DEF TypeInv, OutputInv, Output, Level, Forgets
<1>4. ThresholdInv'
  BY DEF TypeInv, ThresholdInv, Forgets
<1>5. ThresholdsPaired'
  <2>1. pc'[p] = "get" => local'[p] = threshold
    <3> SUFFICES ASSUME pc'[p] = "get" PROVE local'[p] = threshold
      OBVIOUS
    <3>1. local'[p].weak = local[p].weak /\ local'[p].strong = threshold.strong
      BY DEF TypeInv
    <3>2. local[p].weak = threshold.weak
      BY DEF ThresholdInv
    <3>3. local'[p] \in [weak : Int, strong : Int] /\ threshold \in [weak : Int, strong : Int]
      BY <1>1 DEF TypeInv
    <3> HIDE DEF IInv, ReadStrong, Goto
    <3> QED
      BY <3>1, <3>2, <3>3
  <2> QED
    BY <2>1 DEF TypeInv, ThresholdInv, ThresholdsPaired, Forgets
<1> QED
  BY <1>1, <1>2, <1>3, <1>4, <1>5

LEMMA DecompressIInv ==
  ASSUME IInv, NEW p \in Procs, NEW r \in results, Decompress(p, r)
  PROVE  IInv'
<1> USE DEF IInv, Decompress, Goto
<1>1. TypeInv' /\ CallInv' /\ Exclusive' /\ RiskInv' /\ DamagedByReuse' /\ SourceInv'
  BY DEF TypeInv, CallInv, Exclusive, RiskInv, DamagedByReuse, SourceInv, Holding
<1>2. OutputInv'
  BY DEF TypeInv, OutputInv, Output, Level
<1>3. ThresholdInv' /\ ThresholdsPaired'
  BY DEF TypeInv, ThresholdInv, ThresholdsPaired
<1> QED
  BY <1>1, <1>2, <1>3

-----------------------------------------------------------------------------
(* The actions on memory and on the buffers                                *)

LEMMA GetIInv ==
  ASSUME IInv, NEW p \in Procs, Get(p)
  PROVE  IInv'
<1> USE DEF IInv, Goto
<1>1. PICK a \in pool[op[p]] \cup Free :
        /\ buffer' = [buffer EXCEPT ![p] = a]
        /\ pool' = [pool EXCEPT ![op[p]] = @ \ {a}]
        /\ atRisk' = atRisk \cup {r \in results : r.array = a}
  BY DEF Get, Taken
<1>2. /\ pc[p] = "get" /\ pc' = [pc EXCEPT ![p] = "write"]
      /\ UNCHANGED <<memory, threshold, op, local, arg, source, results, inForce>>
  BY DEF Get
<1>3. a \in Arrays /\ a # None
  BY FreeUnused, CompressAssumption DEF TypeInv
<1>4. TypeInv'
  BY <1>1, <1>2, <1>3 DEF TypeInv
<1>5. CallInv'
  BY <1>1, <1>2, <1>3 DEF TypeInv, CallInv
<1>6. Exclusive'
  <2>1. \A q \in Procs : buffer[q] # a
    BY <1>1, <1>3, FreeUnused DEF Exclusive, Holding, TypeInv, Unused
  <2>2. a \notin pool'["compress"] /\ a \notin pool'["decompress"]
    BY <1>1, FreeUnused DEF Exclusive, TypeInv, Unused
  <2> QED
    BY <1>1, <2>1, <2>2 DEF Exclusive, Holding, TypeInv
<1>7. RiskInv' /\ DamagedByReuse'
  BY <1>1, <1>2 DEF RiskInv, DamagedByReuse, Holding, TypeInv
<1>8. OutputInv'
  BY <1>1, <1>2 DEF OutputInv, Output, Level, TypeInv
<1>9. SourceInv' /\ ThresholdInv' /\ ThresholdsPaired'
  BY <1>1, <1>2 DEF SourceInv, ThresholdInv, ThresholdsPaired, TypeInv
<1> QED
  BY <1>4, <1>5, <1>6, <1>7, <1>8, <1>9

\* A write to a buffer changes the array that the buffer has then, and no other
\* that someone has.
LEMMA WriteToFacts ==
  ASSUME IInv, NEW p \in Procs, NEW c \in Contents, buffer[p] # None,
         WriteTo(p, c), UNCHANGED <<pool, results>>
  PROVE  \E a \in Arrays :
           /\ a = buffer[p] \/ Unused(a)
           /\ buffer' = [buffer EXCEPT ![p] = a]
           /\ memory' \in [Arrays -> Contents]
           /\ memory'[a] = c
           /\ \A b \in Arrays \ {a} : ~Unused(b)' => memory'[b] = memory[b]
<1>1. PICK a \in {buffer[p]} \cup Free :
        /\ buffer' = [buffer EXCEPT ![p] = a]
        /\ memory' = Swept([memory EXCEPT ![a] = c])
  BY DEF WriteTo, Written
<1>2. a \in Arrays /\ (a = buffer[p] \/ Unused(a))
  BY FreeUnused DEF IInv, TypeInv
<1>3. [memory EXCEPT ![a] = c] \in [Arrays -> Contents]
  BY DEF IInv, TypeInv
<1>4. ~Unused(a)'
  BY <1>1 DEF Unused, IInv, TypeInv
<1>5. memory'[a] = c /\ \A b \in Arrays \ {a} : ~Unused(b)' => memory'[b] = memory[b]
  BY <1>1, <1>2, <1>3, <1>4, SweptFacts DEF IInv, TypeInv
<1> QED
  BY <1>1, <1>2, <1>3, <1>5, SweptFacts

\* A write keeps apart what calls and callers have.
LEMMA WriteToIInv ==
  ASSUME IInv, NEW p \in Procs, NEW c \in Contents, pc[p] \in {"write", "close"},
         WriteTo(p, c), UNCHANGED <<pool, op, arg, local, results, atRisk>>,
         NEW t, t # "idle", pc' = [pc EXCEPT ![p] = t],
         \A q \in Procs \ {p} : source'[q] = source[q]
  PROVE  /\ Exclusive' /\ RiskInv' /\ DamagedByReuse'
         /\ memory'[buffer'[p]] = c
         /\ memory' \in [Arrays -> Contents] /\ buffer' \in [Procs -> Arrays \cup {None}]
         /\ buffer'[p] # None
         /\ \A q \in Procs \ {p} : buffer'[q] = buffer[q]
         /\ \A q \in Procs \ {p} : pc[q] = "return" => memory'[buffer'[q]] = Output(q)'
<1> USE DEF IInv
<1>0. buffer[p] # None /\ buffer[p] \in Arrays
  BY DEF CallInv, TypeInv
<1>1. PICK a \in Arrays :
           /\ a = buffer[p] \/ Unused(a)
           /\ buffer' = [buffer EXCEPT ![p] = a]
           /\ memory' \in [Arrays -> Contents]
           /\ memory'[a] = c
           /\ \A b \in Arrays \ {a} : ~Unused(b)' => memory'[b] = memory[b]
  BY <1>0, WriteToFacts
<1>2. a # None /\ buffer'[p] = a /\ \A q \in Procs \ {p} : buffer'[q] = buffer[q]
  BY <1>1, CompressAssumption DEF TypeInv
<1>3. buffer' \in [Procs -> Arrays \cup {None}]
  BY <1>1 DEF TypeInv
<1>4. \A q \in Procs \ {p} : buffer[q] # a
  BY <1>0, <1>1 DEF Exclusive, Holding, Unused
<1>5. \A o \in DOMAIN pool : a \notin pool[o]
  BY <1>0, <1>1 DEF Exclusive, Holding, Unused
<1>6. Exclusive'
  BY <1>2, <1>4, <1>5 DEF Exclusive, Holding
<1>7. \A r \in results : r.array = a => r \in atRisk
  BY <1>0, <1>1 DEF RiskInv, Holding, Unused
<1>8. RiskInv'
  BY <1>2, <1>7 DEF RiskInv, Holding
<1>9. DamagedByReuse'
  <2> SUFFICES ASSUME NEW r \in results, r \notin atRisk
               PROVE  memory'[r.array] = r.content
    BY DEF DamagedByReuse
  <2>1. r.array # a /\ r.array \in Arrays /\ memory[r.array] = r.content
    BY <1>7 DEF DamagedByReuse, TypeInv
  <2>2. ~Unused(r.array)'
    BY DEF Unused
  <2> QED
    BY <1>1, <2>1, <2>2
<1>10. ASSUME NEW q \in Procs \ {p}, pc[q] = "return"
       PROVE  memory'[buffer'[q]] = Output(q)'
  <2>1. buffer[q] \in Arrays /\ buffer[q] # a /\ memory[buffer[q]] = Output(q)
    BY <1>4, <1>10 DEF CallInv, TypeInv, OutputInv
  <2>2. ~Unused(buffer[q])'
    BY <1>2 DEF Unused
  <2>3. Output(q)' = Output(q)
    BY DEF Output, Level
  <2> QED
    BY <1>1, <1>2, <2>1, <2>2, <2>3
<1> QED
  BY <1>1, <1>2, <1>3, <1>6, <1>8, <1>9, <1>10

LEMMA OutputType ==
  ASSUME IInv, NEW p \in Procs, pc[p] # "idle"
  PROVE  Output(p) \in Contents
BY DEF Output, Level, Contents, IInv, CallInv, TypeInv

LEMMA WriteIInv ==
  ASSUME IInv, NEW p \in Procs, Write(p)
  PROVE  IInv'
<1> USE DEF IInv
<1>1. /\ pc[p] = "write" /\ pc' = [pc EXCEPT ![p] = "close"]
      /\ WriteTo(p, Garbage)
      /\ UNCHANGED <<pool, threshold, op, local, arg, results, inForce, atRisk>>
      /\ source' = [source EXCEPT ![p] =
                      IF op[p] = "decompress" THEN memory[arg[p].array] ELSE @]
  BY DEF Write, Goto
<1>2. Garbage \in Contents
  BY DEF Garbage, Contents
<1>3. /\ Exclusive' /\ RiskInv' /\ DamagedByReuse'
      /\ memory' \in [Arrays -> Contents] /\ buffer' \in [Procs -> Arrays \cup {None}]
      /\ buffer'[p] # None
      /\ \A q \in Procs \ {p} : buffer'[q] = buffer[q]
      /\ \A q \in Procs \ {p} : pc[q] = "return" => memory'[buffer'[q]] = Output(q)'
  <2>1. \A q \in Procs \ {p} : source'[q] = source[q]
    BY <1>1 DEF TypeInv
  <2> QED
    BY <1>1, <1>2, <2>1, WriteToIInv
<1>4. op[p] = "decompress" => arg[p] \in results /\ arg[p].array \in Arrays
  BY <1>1 DEF CallInv, TypeInv
<1>5. TypeInv'
  BY <1>1, <1>3, <1>4 DEF TypeInv
<1>6. CallInv'
  BY <1>1, <1>3 DEF CallInv, TypeInv
<1>7. OutputInv'
  BY <1>1, <1>3 DEF OutputInv, TypeInv
<1>8. SourceInv'
  <2>1. op[p] = "decompress" /\ arg[p] \notin atRisk => source'[p] = arg[p].content
    BY <1>1, <1>4 DEF DamagedByReuse, TypeInv
  <2> QED
    BY <1>1, <2>1 DEF SourceInv, TypeInv
<1>9. ThresholdInv' /\ ThresholdsPaired'
  BY <1>1 DEF ThresholdInv, ThresholdsPaired, TypeInv
<1> QED
  BY <1>3, <1>5, <1>6, <1>7, <1>8, <1>9

LEMMA CloseIInv ==
  ASSUME IInv, NEW p \in Procs, Close(p)
  PROVE  IInv'
<1> USE DEF IInv
<1> DEFINE whole == op[p] = "compress" \/
                      (source[p] \in Zipped /\ memory[arg[p].array] = source[p])
           t == IF whole THEN "return" ELSE "error"
           c == IF whole THEN Output(p) ELSE Garbage
<1>1. /\ pc[p] = "close" /\ pc' = [pc EXCEPT ![p] = t]
      /\ WriteTo(p, c)
      /\ UNCHANGED <<pool, threshold, op, local, arg, source, results, inForce, atRisk>>
  BY DEF Close, Goto
<1>2. c \in Contents
  BY <1>1, OutputType DEF Garbage, Contents
<1>3. t \in {"return", "error"} /\ (t = "return" => c = Output(p))
  OBVIOUS
<1>4. t = "error" => op[p] = "decompress" /\ arg[p] \in atRisk
  <2> SUFFICES ASSUME ~whole PROVE op[p] = "decompress" /\ arg[p] \in atRisk
    OBVIOUS
  <2>1. op[p] = "decompress" /\ arg[p] \in results /\ arg[p].content \in Zipped
    BY <1>1 DEF CallInv, TypeInv
  <2>2. arg[p] \notin atRisk =>
          source[p] = arg[p].content /\ memory[arg[p].array] = arg[p].content
    BY <1>1, <2>1 DEF SourceInv, DamagedByReuse
  <2> QED
    BY <2>1, <2>2
<1> HIDE DEF whole, t, c
<1>5. /\ Exclusive' /\ RiskInv' /\ DamagedByReuse'
      /\ memory'[buffer'[p]] = c
      /\ memory' \in [Arrays -> Contents] /\ buffer' \in [Procs -> Arrays \cup {None}]
      /\ buffer'[p] # None
      /\ \A q \in Procs \ {p} : buffer'[q] = buffer[q]
      /\ \A q \in Procs \ {p} : pc[q] = "return" => memory'[buffer'[q]] = Output(q)'
  BY <1>1, <1>2, <1>3, WriteToIInv
<1>6. TypeInv'
  BY <1>1, <1>3, <1>5 DEF TypeInv
<1>7. CallInv'
  BY <1>1, <1>3, <1>4, <1>5 DEF CallInv, TypeInv
<1>8. OutputInv'
  <2>1. Output(p)' = Output(p)
    BY <1>1 DEF Output, Level
  <2> QED
    BY <1>1, <1>3, <1>5, <2>1 DEF OutputInv, TypeInv
<1>9. SourceInv'
  BY <1>1, <1>3, <1>4 DEF SourceInv, TypeInv
<1>10. ThresholdInv' /\ ThresholdsPaired'
  BY <1>1, <1>3 DEF ThresholdInv, ThresholdsPaired, TypeInv
<1> QED
  BY <1>5, <1>6, <1>7, <1>8, <1>9, <1>10

LEMMA ReturnIInv ==
  ASSUME IInv, NEW p \in Procs, Return(p)
  PROVE  IInv'
<1> USE DEF IInv
<1> DEFINE a == buffer[p]
           r == [array |-> a, content |-> Output(p)]
<1>1. /\ pc[p] \in {"return", "error"} /\ pc' = [pc EXCEPT ![p] = "idle"]
      /\ memory' = memory
      /\ pool' = [pool EXCEPT ![op[p]] = @ \cup {a}]
      /\ results' = results \/ (pc[p] = "return" /\ results' = results \cup {r})
      /\ buffer' = [buffer EXCEPT ![p] = None]
      /\ local' = [local EXCEPT ![p] = defaults]
      /\ arg' = [arg EXCEPT ![p] = None]
      /\ source' = [source EXCEPT ![p] = Garbage]
      /\ UNCHANGED <<threshold, op, inForce, atRisk>>
  BY DEF Return, Goto, Forgets, Reset, TypeInv
<1>2. a \in Arrays /\ a # None
  BY <1>1 DEF CallInv, TypeInv
<1>3. r \in [array : Arrays, content : Contents] /\ r.array = a /\ r.content = Output(p)
  BY <1>1, <1>2, OutputType
<1>4. pc[p] = "return" => memory[a] = r.content
  BY <1>3 DEF OutputInv
<1>5. \A q \in Procs \ {p} : buffer[q] # a
  BY <1>2 DEF Exclusive, Holding
<1> HIDE DEF a, r
<1>6. TypeInv'
  <2>1. defaults \in [weak : Int, strong : Int] /\ Garbage \in Contents
    BY CompressAssumption DEF Contents, Garbage
  <2> QED
    BY <1>1, <1>2, <1>3, <2>1 DEF TypeInv
<1>7. CallInv'
  BY <1>1 DEF CallInv, TypeInv
<1>8. Exclusive'
  <2>1. \A q \in Procs \ {p} : buffer'[q] = buffer[q]
    BY <1>1 DEF TypeInv
  <2>2. buffer'[p] = None
    BY <1>1 DEF TypeInv
  <2>3. \A o \in DOMAIN pool : a \notin pool[o]
    BY <1>2 DEF Exclusive, Holding, a
  <2> QED
    BY <1>1, <1>5, <2>1, <2>2, <2>3 DEF Exclusive, Holding, TypeInv
<1>9. RiskInv' /\ DamagedByReuse'
  BY <1>1, <1>3, <1>4, <1>5 DEF RiskInv, DamagedByReuse, Holding, TypeInv
<1>10. OutputInv'
  BY <1>1 DEF OutputInv, Output, Level, TypeInv
<1>11. SourceInv' /\ ThresholdInv' /\ ThresholdsPaired'
  BY <1>1 DEF SourceInv, ThresholdInv, ThresholdsPaired, TypeInv
<1> QED
  BY <1>6, <1>7, <1>8, <1>9, <1>10, <1>11

\* The caller forgets a slice, and the runtime a pool: what they had may be
\* swept, what the others have is left alone.
LEMMA ForgetIInv ==
  ASSUME IInv, NEW r \in results, Forget(r)
  PROVE  IInv'
<1> USE DEF IInv
<1>1. /\ \A p \in Procs : arg[p] # r
      /\ results' = results \ {r} /\ atRisk' = atRisk \ {r}
      /\ UNCHANGED <<pool, threshold, op, pc, local, arg, source, buffer, inForce>>
      /\ memory' = Swept(memory)
  BY DEF Forget
<1>2. /\ memory' \in [Arrays -> Contents]
      /\ \A a \in Arrays : ~Unused(a)' => memory'[a] = memory[a]
  BY <1>1, SweptFacts DEF TypeInv
<1>3. TypeInv' /\ CallInv' /\ Exclusive' /\ RiskInv'
  BY <1>1, <1>2 DEF TypeInv, CallInv, Exclusive, RiskInv, Holding
<1>4. DamagedByReuse'
  BY <1>1, <1>2 DEF DamagedByReuse, Unused, TypeInv
<1>5. OutputInv'
  BY <1>1, <1>2 DEF OutputInv, Output, Level, Unused, CallInv, TypeInv
<1>6. SourceInv' /\ ThresholdInv' /\ ThresholdsPaired'
  BY <1>1 DEF SourceInv, ThresholdInv, ThresholdsPaired
<1> QED
  BY <1>3, <1>4, <1>5, <1>6

LEMMA DropFromPoolIInv ==
  ASSUME IInv, NEW o \in DOMAIN pool, DropFromPool(o)
  PROVE  IInv'
<1> USE DEF IInv
<1>1. /\ pool' = [pool EXCEPT ![o] = {}]
      /\ UNCHANGED <<threshold, op, pc, local, arg, source, buffer, results, inForce, atRisk>>
      /\ memory' = Swept(memory)
  BY DEF DropFromPool
<1>2. /\ memory' \in [Arrays -> Contents]
      /\ \A a \in Arrays : ~Unused(a)' => memory'[a] = memory[a]
  BY <1>1, SweptFacts DEF TypeInv
<1>3. TypeInv' /\ CallInv' /\ Exclusive' /\ RiskInv'
  BY <1>1, <1>2 DEF TypeInv, CallInv, Exclusive, RiskInv, Holding
<1>4. DamagedByReuse'
  BY <1>1, <1>2 DEF DamagedByReuse, Unused, TypeInv
<1>5. OutputInv'
  BY <1>1, <1>2 DEF OutputInv, Output, Level, Unused, CallInv, TypeInv
<1>6. SourceInv' /\ ThresholdInv' /\ ThresholdsPaired'
  BY <1>1 DEF SourceInv, ThresholdInv, ThresholdsPaired
<1> QED
  BY <1>3, <1>4, <1>5, <1>6

-----------------------------------------------------------------------------
LEMMA NextIInv == IInv /\ [Next]_vars => IInv'
<1> SUFFICES ASSUME IInv, [Next]_vars PROVE IInv'
  OBVIOUS
<1>1. CASE UNCHANGED vars
  BY <1>1 DEF vars, IInv, TypeInv, CallInv, Exclusive, RiskInv, OutputInv, Output, Level,
       DamagedByReuse, SourceInv, ThresholdInv, ThresholdsPaired, Holding
<1>2. CASE \E p \in Procs :
             \/ \E x \in Inputs : Compress(p, x)
             \/ \E r \in results : Decompress(p, r)
  BY <1>2, CompressIInv, DecompressIInv
<1>3. CASE \E p \in Procs : ReadWeak(p) \/ ReadStrong(p)
  BY <1>3, ReadWeakIInv, ReadStrongIInv
<1>4. CASE \E p \in Procs : Get(p) \/ Write(p) \/ Close(p) \/ Return(p)
  BY <1>4, GetIInv, WriteIInv, CloseIInv, ReturnIInv
<1>5. CASE \E s \in Settings : SetThresholds(s)
  BY <1>5, SetThresholdsIInv
<1>6. CASE \/ \E r \in results : Forget(r)
           \/ \E o \in DOMAIN pool : DropFromPool(o)
  BY <1>6, ForgetIInv, DropFromPoolIInv
<1> QED
  BY <1>1, <1>2, <1>3, <1>4, <1>5, <1>6 DEF Next

LEMMA IInvHolds == Spec => []IInv
<1>1. Spec => Init /\ [][Next]_vars
  BY DEF Spec
<1> QED
  BY <1>1, InitIInv, NextIInv, PTL

\* No two calls of Compress or Decompress ever fill the same buffer, and none
\* fills one that is in a pool.
THEOREM BuffersExclusive == Spec => []Exclusive
  BY IInvHolds, PTL DEF IInv

\* The bytes that Compress or Decompress has returned are as they were computed
\* until the pool hands their buffer to another call.
THEOREM SoundUntilReuse == Spec => []DamagedByReuse
  BY IInvHolds, PTL DEF IInv

\* Decompress of what Compress has returned gives the input back, without an
\* error, unless the compressed bytes were handed to another call.
THEOREM RoundTripHolds == Spec => []RoundTrip
<1>1. IInv => RoundTrip
  <2> SUFFICES ASSUME IInv, NEW p \in Procs, op[p] = "decompress",
                      pc[p] \in {"return", "error"}, arg[p] \notin atRisk
               PROVE  /\ pc[p] # "error"
                      /\ memory[buffer[p]] = [arg[p].content EXCEPT !.level = "none"]
    BY DEF RoundTrip
  <2>1. pc[p] = "return" /\ source[p] = arg[p].content
    BY DEF IInv, SourceInv
  <2>2. memory[buffer[p]] = [input |-> arg[p].content.input, level |-> "none"]
    BY <2>1 DEF IInv, OutputInv, Output
  <2>3. arg[p].content \in Zipped
    BY DEF IInv, CallInv
  <2>4. [arg[p].content EXCEPT !.level = "none"]
          = [input |-> arg[p].content.input, level |-> "none"]
    BY <2>3 DEF Zipped
  <2> QED
    BY <2>1, <2>2, <2>4
<1> QED
  BY <1>1, IInvHolds, PTL

\* Compress decides by two thresholds that were in force at the same time,
\* whatever calls of Init come in between.
THEOREM PairedThresholds == Spec => []ThresholdsPaired
  BY IInvHolds, PTL DEF IInv
=============================================================================
