-------------------------- MODULE TimedQueueProofs --------------------------
(* The queue in real time: what was proved of the queue without clocks is  *)
(* true of it, and no task is overlooked.                                  *)
EXTENDS TimedQueue, LedgerProofs

USE DEF deadList

-----------------------------------------------------------------------------
(* A step of the queue in real time is one of the queue, or none.          *)
LEMMA TimedStepIsQueueStep ==
  ASSUME TimedNext
  PROVE  QueueNext \/ UNCHANGED queueVars
<1>1. ASSUME NEW w \in Workers, TakesTask(w) \/ EndsRequest(w) \/ AddsRetry(w) \/ Dies(w)
      PROVE  QueueNext
  BY <1>1 DEF TakesTask, EndsRequest, AddsRetry, Dies, QueueNext, WorkerStep
<1>2. ASSUME NEW due \in Stale, NEW batch \in Batches(due), RequeueStale(due, batch)
      PROVE  QueueNext
  BY <1>2 DEF Stale, Between, QueueNext, Recovery
<1>3. ASSUME NEW due \in Ready, NEW batch \in Batches(due), RequeueRetries(due, batch)
      PROVE  QueueNext
  BY <1>3 DEF Ready, Between, QueueNext, Recovery
<1>4. ASSUME Elsewhere
      PROVE  QueueNext
  BY <1>4 DEF Elsewhere, QueueNext
<1> QED
  BY <1>1, <1>2, <1>3, <1>4 DEF TimedNext, GetsSlot, ScanStale, ScanRetries, Tick

(* So real time is one way for the queue to behave, and the theorems about *)
(* QueueSpec are theorems about the queue with its clocks (queue.go).      *)
THEOREM TimedQueueIsQueue == TimedSpec => QueueSpec
<1>1. TimedInit => QueueInit
  BY DEF TimedInit
<1>2. [TimedNext]_timedVars => [QueueNext]_queueVars
  BY TimedStepIsQueueStep DEF timedVars
<1> QED
  BY <1>1, <1>2, PTL DEF TimedSpec, QueueSpec

(* In particular the queue in real time implements the ledger.             *)
THEOREM TimedQueueKeepsItsPromise == TimedSpec => KeepsItsPromise
BY TimedQueueIsQueue, QueueKeepsItsPromise, PTL

-----------------------------------------------------------------------------
(* Since the last scan an entry has aged no more than the recovery loop,   *)
(* and the scan left none that was past its timeout.                       *)
AgeInv ==
  /\ since \in 0..Period /\ scan \in {"stale", "retries"}
  /\ DOMAIN age = processing
  /\ \A t \in processing :
       /\ age[t] \in Nat
       /\ age[t] <= Timeout + Skew + (IF scan = "stale" THEN since ELSE 0)

(* Entries that only leave processing keep the bound.                      *)
LEMMA KeptAges ==
  ASSUME AgeInv, processing' \subseteq processing, age' = Restrict(age, processing')
  PROVE  DOMAIN age' = processing' /\ \A t \in processing' : age'[t] = age[t]
BY DEF Restrict

LEMMA AgeInvInit == TimedInit => AgeInv
BY TimedAssumption DEF TimedInit, QueueInit, InitStore, AgeInv

LEMMA AgeInvStep ==
  ASSUME AgeInv, TimedNext
  PROVE  AgeInv'
<1> USE TimedAssumption
<1>1. ASSUME NEW w \in Workers, TakesTask(w)
      PROVE  AgeInv'
  <2>1. /\ processing' = processing \union {Head(pending)}
        /\ age' = [t \in processing' |-> IF t = Head(pending) THEN 0 ELSE age[t]]
        /\ UNCHANGED <<since, scan>>
    BY <1>1 DEF TakesTask, Dequeue, MoveToProcessing, scanTimes
  <2> QED
    BY <2>1 DEF AgeInv
<1>2. ASSUME NEW w \in Workers, EndsRequest(w)
      PROVE  AgeInv'
  <2>1. /\ processing' \subseteq processing /\ age' = Restrict(age, processing')
        /\ UNCHANGED <<since, scan>>
    BY <1>2 DEF EndsRequest, Store, Ack, RetryRemove, Kept, store, scanTimes
  <2> QED
    BY <2>1, KeptAges DEF AgeInv
<1>3. ASSUME NEW w \in Workers, AddsRetry(w) \/ Dies(w)
      PROVE  AgeInv'
  BY <1>3 DEF AddsRetry, Dies, RetryAdd, SendOn, Crash, store, entryTimes, scanTimes, AgeInv
<1>4. ASSUME GetsSlot
      PROVE  AgeInv'
  BY <1>4 DEF GetsSlot, queueVars, store, entryTimes, scanTimes, AgeInv
<1>5. ASSUME ScanStale
      PROVE  AgeInv'
  <2>1. PICK due \in Stale :
          IF due = {} THEN UNCHANGED queueVars ELSE \E batch \in Batches(due) : RequeueStale(due, batch)
    BY <1>5 DEF ScanStale
  <2>2. processing' = processing \ due
    BY <2>1 DEF RequeueStale, queueVars, store
  <2>3. \A t \in processing' : ~(age[t] >= Timeout + Skew)
    BY <2>1, <2>2 DEF Stale, Between
  <2>4. /\ age' = Restrict(age, processing')
        /\ scan' = "retries" /\ since' = since
    BY <1>5 DEF ScanStale, Kept
  <2>5. DOMAIN age' = processing' /\ \A t \in processing' : age'[t] = age[t]
    BY <2>2, <2>4, KeptAges
  <2> QED
    BY <2>2, <2>3, <2>4, <2>5 DEF AgeInv
<1>6. ASSUME ScanRetries
      PROVE  AgeInv'
  <2>1. processing' = processing
    BY <1>6 DEF ScanRetries, RequeueRetries, queueVars, store
  <2>2. /\ age' = Restrict(age, processing')
        /\ scan = "retries" /\ scan' = "stale" /\ since' = 0
    BY <1>6 DEF ScanRetries, Kept
  <2> QED
    BY <2>1, <2>2, KeptAges DEF AgeInv
<1>7. ASSUME Elsewhere
      PROVE  AgeInv'
  <2>1. /\ processing' \subseteq processing /\ age' = Restrict(age, processing')
        /\ UNCHANGED <<since, scan>>
    BY <1>7 DEF Elsewhere, Enqueue, DeleteQueue, Kept, scanTimes
  <2> QED
    BY <2>1, KeptAges DEF AgeInv
<1>8. ASSUME Tick
      PROVE  AgeInv'
  <2>1. /\ processing' = processing
        /\ age' = [t \in processing |-> age[t] + 1]
        /\ since < Period /\ since' = since + 1
        /\ scan = "stale" /\ scan' = scan
    BY <1>8 DEF Tick, queueVars, store
  <2> QED
    BY <2>1 DEF AgeInv
<1> QED
  BY <1>1, <1>2, <1>3, <1>4, <1>5, <1>6, <1>7, <1>8 DEF TimedNext

LEMMA AgeInvStutter ==
  ASSUME AgeInv, UNCHANGED timedVars
  PROVE  AgeInv'
BY DEF AgeInv, timedVars, queueVars, store, entryTimes, scanTimes

(* However many workers die, and however the timeout, the period and the   *)
(* clocks relate: no task stays in processing for longer than the timeout, *)
(* the skew and one period of the recovery loop (queue.go:230-258,         *)
(* pool.go:285-320).                                                       *)
THEOREM AbandonedTasksAreFound == TimedSpec => []AbandonedFound
<1>1. TimedInit => AgeInv
  BY AgeInvInit
<1>2. AgeInv /\ [TimedNext]_timedVars => AgeInv'
  BY AgeInvStep, AgeInvStutter
<1>3. AgeInv => AbandonedFound
  BY TimedAssumption DEF AgeInv, AbandonedFound
<1> QED
  BY <1>1, <1>2, <1>3, PTL DEF TimedSpec

-----------------------------------------------------------------------------
(* The line for a slot: goroutines that have just taken a task, each once, *)
(* and only one that has its slot has spent time.                          *)
LineOK ==
  /\ line \in Seq(Workers) /\ IsInjective(line)
  /\ \A w \in Range(line) : phase[w] = "taken"
  /\ spent \in [Workers -> 0..RequestTime]
  /\ \A w \in Workers : phase[w] = "free" \/ Waits(w) => spent[w] = 0

(* Those that came no later than the one at place i.                       *)
Ahead(i) == {line[k] : k \in 1..i}

LEMMA WaitsIsPlace ==
  ASSUME LineOK
  PROVE  \A w \in Workers : Waits(w) <=> \E i \in 1..Len(line) : line[i] = w
<1>1. Range(line) = {line[i] : i \in 1..Len(line)}
  BY RangeEquality DEF LineOK
<1> QED
  BY <1>1 DEF Waits

(* A goroutine that leaves the line lets the later ones move up.           *)
LEMMA LineMovesUp ==
  ASSUME LineOK, NEW w \in Workers, Waits(w), Leaves(w)
  PROVE  /\ line' \in Seq(Workers) /\ IsInjective(line')
         /\ Range(line') = Range(line) \ {w}
         /\ \A i \in 1..Len(line') : \E j \in 1..Len(line) :
              line'[i] = line[j] /\ Ahead(i)' \subseteq Ahead(j)
<1> DEFINE n == Len(line)
           p == CHOOSE i \in DOMAIN line : line[i] = w
<1>1. /\ line \in Seq(Workers) /\ n \in Nat /\ DOMAIN line = 1..n
      /\ \A i, j \in 1..n : line[i] = line[j] => i = j
      /\ \A i \in 1..n : line[i] \in Workers
  BY DEF LineOK, IsInjective
<1>2. p \in 1..n /\ line[p] = w
  BY <1>1, WaitsIsPlace
<1>3. line' = [i \in 1..(n - 1) |-> IF i < p THEN line[i] ELSE line[i + 1]]
  BY DEF Leaves
<1> HIDE DEF n, p
<1>4. n - 1 \in Nat
  BY <1>1, <1>2
<1>5. \A i \in 1..(n - 1) : i \in 1..n /\ i + 1 \in 1..n
  BY <1>1
<1>6. line' \in [1..(n - 1) -> Workers]
  BY <1>1, <1>3, <1>5
<1>7. line' \in Seq(Workers) /\ Len(line') = n - 1 /\ DOMAIN line' = 1..(n - 1)
  BY <1>4, <1>6
<1> DEFINE from(i) == IF i < p THEN i ELSE i + 1
<1>8. \A i \in 1..(n - 1) : from(i) \in 1..n /\ from(i) # p /\ line'[i] = line[from(i)]
  BY <1>1, <1>2, <1>3, <1>5
<1>9. \A i, j \in 1..(n - 1) : from(i) = from(j) => i = j
  BY <1>1, <1>2
<1>10. \A i, j \in 1..(n - 1) : j <= i => from(j) <= from(i)
  BY <1>1, <1>2
<1>11. \A k \in 1..n : k # p => \E i \in 1..(n - 1) : from(i) = k
  <2> SUFFICES ASSUME NEW k \in 1..n, k # p
               PROVE  \E i \in 1..(n - 1) : from(i) = k
    OBVIOUS
  <2>1. CASE k < p
    BY <2>1, <1>1, <1>2
  <2>2. CASE k > p
    <3>1. k - 1 \in 1..(n - 1) /\ ~(k - 1 < p) /\ (k - 1) + 1 = k
      BY <2>2, <1>1, <1>2
    <3> QED
      BY <3>1
  <2> QED
    BY <2>1, <2>2, <1>1, <1>2
<1> HIDE DEF from
<1>12. IsInjective(line')
  BY <1>1, <1>7, <1>8, <1>9 DEF IsInjective
<1>13. Range(line') = {line'[i] : i \in 1..(n - 1)} /\ Range(line) = {line[i] : i \in 1..n}
  BY <1>1, <1>7, RangeEquality DEF n
<1>14. Range(line') = Range(line) \ {w}
  <2>1. Range(line') \subseteq Range(line) \ {w}
    BY <1>1, <1>2, <1>8, <1>13
  <2>2. Range(line) \ {w} \subseteq Range(line')
    BY <1>1, <1>2, <1>8, <1>11, <1>13
  <2> QED
    BY <2>1, <2>2
<1>15. ASSUME NEW i \in 1..(n - 1)
       PROVE  Ahead(i)' \subseteq Ahead(from(i))
  <2> SUFFICES ASSUME NEW k \in 1..i
               PROVE  line'[k] \in Ahead(from(i))
    BY DEF Ahead
  <2>1. k \in 1..(n - 1) /\ k <= i
    BY <1>1
  <2>2. from(k) \in 1..from(i) /\ line'[k] = line[from(k)]
    BY <2>1, <1>1, <1>8, <1>10
  <2> QED
    BY <2>2 DEF Ahead
<1> QED
  BY <1>7, <1>8, <1>12, <1>14, <1>15 DEF n

(* One that is not in the line leaves it as it is.                         *)
LEMMA LineStands ==
  ASSUME NEW w, ~Waits(w), Leaves(w)
  PROVE  line' = line
BY DEF Leaves

LEMMA LineInit == TimedInit => LineOK
<1>1. IsInjective(<<>>) /\ Range(<<>>) = {}
  BY EmptySeq DEF IsInjective, Range
<1> QED
  BY <1>1, TimedAssumption, EmptySeq DEF TimedInit, QueueInit, LineOK, Waits

(* What an action of worker w that ends with Leaves does to the others.    *)
LEMMA LeaverOnly ==
  ASSUME QueueTypeOK, LineOK, NEW w \in Workers, NEW ph \in Phases,
         phase' = [phase EXCEPT ![w] = ph], Leaves(w), Waits(w) => ph = "free"
  PROVE  /\ LineOK'
         /\ phase'[w] = ph
         /\ \A v \in Workers : v # w =>
              phase'[v] = phase[v] /\ spent'[v] = spent[v] /\ (Waits(v)' <=> Waits(v))
         /\ ~Waits(w)'
         /\ \A i \in 1..Len(line') : \E j \in 1..Len(line) :
              line'[i] = line[j] /\ Ahead(i)' \subseteq Ahead(j)
<1>1. /\ phase'[w] = ph /\ phase' \in [Workers -> Phases]
      /\ \A v \in Workers : v # w => phase'[v] = phase[v]
  BY DEF QueueTypeOK
<1>2. /\ spent' \in [Workers -> 0..RequestTime]
      /\ spent'[w] = (IF ph = "free" THEN 0 ELSE spent[w])
      /\ \A v \in Workers : v # w => spent'[v] = spent[v]
  BY <1>1, TimedAssumption DEF Leaves, LineOK
<1>3. /\ line' \in Seq(Workers) /\ IsInjective(line')
      /\ Range(line') = Range(line) \ {w}
      /\ \A i \in 1..Len(line') : \E j \in 1..Len(line) :
           line'[i] = line[j] /\ Ahead(i)' \subseteq Ahead(j)
  <2>1. CASE Waits(w)
    BY <2>1, LineMovesUp
  <2>2. CASE ~Waits(w)
    <3>1. line' = line
      BY <2>2, LineStands
    <3>2. w \notin Range(line)
      BY <2>2 DEF Waits
    <3> QED
      BY <3>1, <3>2 DEF LineOK, Ahead
  <2> QED
    BY <2>1, <2>2
<1>4. /\ ~Waits(w)'
      /\ \A v \in Workers : v # w => (Waits(v)' <=> Waits(v))
  BY <1>3 DEF Waits
<1>5. \A v \in Range(line') : v \in Workers /\ v # w /\ phase'[v] = "taken"
  <2>1. Range(line) \subseteq Workers
    BY RangeOfSeq DEF LineOK
  <2> QED
    BY <1>1, <1>3, <2>1 DEF LineOK
<1>6. ASSUME NEW v \in Workers, phase'[v] = "free" \/ Waits(v)'
      PROVE  spent'[v] = 0
  <2>1. CASE v = w
    <3>1. ph = "free"
      BY <2>1, <1>1, <1>4, <1>6
    <3> QED
      BY <3>1, <2>1, <1>2
  <2>2. CASE v # w
    BY <2>2, <1>1, <1>2, <1>4, <1>6 DEF LineOK
  <2> QED
    BY <2>1, <2>2
<1> QED
  BY <1>1, <1>2, <1>3, <1>4, <1>5, <1>6 DEF LineOK

(* The phase with which each of these actions leaves its worker.           *)
LEMMA EndsPhase ==
  ASSUME QueueTypeOK, LineOK, NEW w \in Workers, EndsRequest(w) \/ AddsRetry(w) \/ Dies(w)
  PROVE  \E ph \in Phases :
           /\ phase' = [phase EXCEPT ![w] = ph] /\ Leaves(w) /\ (Waits(w) => ph = "free")
           /\ ph = "taken" => FALSE
<1>1. CASE EndsRequest(w)
  BY <1>1 DEF EndsRequest, Store, Ack, RetryRemove, Release, Hold, Phases
<1>2. CASE AddsRetry(w)
  BY <1>2 DEF AddsRetry, RetryAdd, Release, Hold, Phases
<1>3. CASE Dies(w)
  BY <1>3 DEF Dies, Crash, Release, Hold, Phases
<1> QED
  BY <1>1, <1>2, <1>3

LEMMA LineTakes ==
  ASSUME QueueTypeOK, LineOK, NEW w \in Workers, TakesTask(w)
  PROVE  /\ LineOK'
         /\ line' = Append(line, w) /\ spent' = spent
         /\ ~Waits(w) /\ phase[w] = "free" /\ Waits(w)' /\ phase'[w] = "taken"
         /\ \A v \in Workers : v # w => phase'[v] = phase[v] /\ (Waits(v)' <=> Waits(v))
<1>1. /\ phase[w] = "free" /\ phase' = [phase EXCEPT ![w] = "taken"]
      /\ line' = Append(line, w) /\ spent' = spent
  BY DEF TakesTask, Dequeue, Hold
<1>2. w \notin Range(line)
  BY <1>1 DEF LineOK
<1>3. line' \in Seq(Workers) /\ Range(line') = Range(line) \union {w} /\ IsInjective(line')
  BY <1>1, <1>2, RangeAppend, InjectiveAppend DEF LineOK
<1>4. /\ phase'[w] = "taken"
      /\ \A v \in Workers : v # w => phase'[v] = phase[v]
  BY <1>1 DEF QueueTypeOK
<1>5. Range(line) \subseteq Workers
  BY RangeOfSeq DEF LineOK
<1> QED
  BY <1>1, <1>2, <1>3, <1>4, <1>5 DEF LineOK, Waits

LEMMA LineGetsSlot ==
  ASSUME LineOK, GetsSlot
  PROVE  /\ LineOK'
         /\ line # <<>> /\ line' = Tail(line) /\ Head(line) \in Workers
         /\ UNCHANGED <<spent, phase, task, age, processing>>
         /\ Waits(Head(line)) /\ Head(line) \notin Range(line') /\ spent[Head(line)] = 0
         /\ \A v \in Workers : v # Head(line) => (Waits(v)' <=> Waits(v))
<1>1. /\ line # <<>> /\ line' = Tail(line)
      /\ UNCHANGED <<spent, phase, task, age, processing>>
  BY DEF GetsSlot, queueVars, hold, store, entryTimes
<1>2. /\ Head(line) \in Workers /\ line' \in Seq(Workers)
      /\ Range(line) = {Head(line)} \union Range(line')
  BY <1>1, RangeHeadTail DEF LineOK
<1>3. IsInjective(line') /\ Head(line) \notin Range(line')
  BY <1>1, InjectiveTail DEF LineOK
<1>4. LineOK'
  <2>1. \A w \in Range(line') : phase'[w] = "taken"
    BY <1>1, <1>2 DEF LineOK
  <2>2. \A w \in Workers : phase'[w] = "free" \/ Waits(w)' => spent'[w] = 0
    BY <1>1, <1>2 DEF LineOK, Waits
  <2> QED
    BY <1>1, <1>2, <1>3, <2>1, <2>2 DEF LineOK
<1>5. Waits(Head(line)) /\ spent[Head(line)] = 0
  BY <1>2 DEF LineOK, Waits
<1>6. \A v \in Workers : v # Head(line) => (Waits(v)' <=> Waits(v))
  BY <1>2 DEF Waits
<1> QED
  BY <1>1, <1>2, <1>3, <1>4, <1>5, <1>6

LEMMA LineTick ==
  ASSUME LineOK, Tick
  PROVE  /\ LineOK'
         /\ UNCHANGED <<line, phase, task, processing>>
         /\ \A w \in Workers : Busy(w) => spent'[w] = spent[w] + 1 /\ spent[w] < RequestTime
         /\ \A w \in Workers : ~Busy(w) => spent'[w] = spent[w]
         /\ line = <<>> \/ ~FreeSlot
         /\ age' = [t \in processing |-> age[t] + 1]
<1>1. /\ UNCHANGED <<line, phase, task, processing>>
      /\ \A w \in Workers : Busy(w) => spent[w] < RequestTime
      /\ spent' = [w \in Workers |-> IF Busy(w) THEN spent[w] + 1 ELSE spent[w]]
      /\ line = <<>> \/ ~FreeSlot
      /\ age' = [t \in processing |-> age[t] + 1]
  BY DEF Tick, queueVars, hold, store
<1>2. spent' \in [Workers -> 0..RequestTime]
  BY <1>1, TimedAssumption DEF LineOK
<1> QED
  BY <1>1, <1>2 DEF LineOK, Waits, Busy

(* Scans, pushes and stops are nothing to the goroutines and their line.   *)
LEMMA ElsewhereHolds ==
  ASSUME ScanStale \/ ScanRetries \/ Elsewhere
  PROVE  /\ UNCHANGED <<line, spent, task, phase>>
         /\ processing' \subseteq processing
         /\ age' = Restrict(age, processing')
<1>1. CASE ScanStale
  BY <1>1 DEF ScanStale, RequeueStale, queueVars, store, hold, workerTimes, Kept
<1>2. CASE ScanRetries
  BY <1>2 DEF ScanRetries, RequeueRetries, queueVars, store, hold, workerTimes, Kept
<1>3. CASE Elsewhere
  BY <1>3 DEF Elsewhere, Enqueue, DeleteQueue, hold, workerTimes, Kept
<1> QED
  BY <1>1, <1>2, <1>3

LEMMA LineStutter ==
  ASSUME LineOK, UNCHANGED <<line, spent, phase>>
  PROVE  LineOK'
BY DEF LineOK, Waits

LEMMA LineStep ==
  ASSUME QueueTypeOK, LineOK, TimedNext
  PROVE  LineOK'
<1>1. ASSUME NEW w \in Workers, EndsRequest(w) \/ AddsRetry(w) \/ Dies(w)
      PROVE  LineOK'
  BY <1>1, EndsPhase, LeaverOnly
<1>2. ASSUME ScanStale \/ ScanRetries \/ Elsewhere
      PROVE  LineOK'
  BY <1>2, ElsewhereHolds, LineStutter
<1> QED
  BY <1>1, <1>2, LineTakes, LineGetsSlot, LineTick DEF TimedNext

-----------------------------------------------------------------------------
(* Why a goroutine does not wait for ever: while it waits every slot is    *)
(* taken, by one that came earlier, and nobody comes before it again.      *)
(* Served(i): the ticks of requests that may have gone by since the one at *)
(* place i came.                                                           *)
Served(i) ==
  {p \in Workers \X (1..RequestTime) :
     p[1] \notin Ahead(i) /\ (Requests(p[1]) => p[2] <= spent[p[1]])}

Turns == RequestTime * (Cardinality(Workers) - 1)

LinePaced ==
  \A i \in 1..Len(line) :
    task[line[i]] \in processing => Slots * age[task[line[i]]] <= Cardinality(Served(i))

(* Then it has its slot, and lasts a request.                              *)
HoldersPaced ==
  \A w \in Workers :
    phase[w] \in {"taken", "stored", "unsaved"} /\ ~Waits(w) /\ task[w] \in processing =>
      Slots * (age[task[w]] - spent[w]) <= Turns

LEMMA TicksFinite == IsFiniteSet(Workers \X (1..RequestTime))
<1>1. 1 \in Int /\ RequestTime \in Int /\ IsFiniteSet(Workers)
  BY TimedAssumption
<1> QED
  BY <1>1, FS_Product, FS_Interval

(* There are no more such ticks than the other goroutines can take.        *)
LEMMA ServedIsBounded ==
  ASSUME LineOK, NEW i \in 1..Len(line)
  PROVE  /\ IsFiniteSet(Served(i)) /\ Cardinality(Served(i)) \in Nat
         /\ Cardinality(Served(i)) <= Turns
<1> DEFINE Others == Workers \ {line[i]}
           All == Others \X (1..RequestTime)
<1>1. line[i] \in Workers /\ line[i] \in Ahead(i)
  BY DEF LineOK, Ahead
<1>2. IsFiniteSet(Others) /\ Cardinality(Others) = Cardinality(Workers) - 1
  BY <1>1, FS_RemoveElement, TimedAssumption
<1>3. IsFiniteSet(1..RequestTime) /\ Cardinality(1..RequestTime) = RequestTime
  <2>1. 1 \in Int /\ RequestTime \in Int /\ ~(1 > RequestTime) /\ RequestTime - 1 + 1 = RequestTime
    BY TimedAssumption
  <2> QED
    BY <2>1, FS_Interval
<1>4. IsFiniteSet(All) /\ Cardinality(All) = Cardinality(Others) * Cardinality(1..RequestTime)
  BY <1>2, <1>3, FS_Product
<1>5. Cardinality(Workers) \in Nat /\ RequestTime \in Nat
  BY FS_CardinalityType, TimedAssumption
<1>6. Cardinality(All) = Turns
  BY <1>2, <1>3, <1>4, <1>5 DEF Turns
<1>7. Served(i) \in SUBSET All
  BY <1>1 DEF Served
<1> QED
  BY <1>4, <1>6, <1>7, FS_Subset, FS_CardinalityType

(* A tick of a full limiter serves as many more as there are slots.        *)
LEMMA ServedByTick ==
  ASSUME QueueTypeOK, LineOK, Tick, NEW i \in 1..Len(line)
  PROVE  Cardinality(Served(i)) + Slots <= Cardinality(Served(i)')
<1> DEFINE Req == {w \in Workers : Requests(w)}
           New == {<<w, spent[w] + 1>> : w \in Req}
           Sum == Served(i) \union New
<1>1. /\ UNCHANGED <<line, phase, task, processing>> /\ LineOK'
      /\ \A w \in Workers : Busy(w) => spent'[w] = spent[w] + 1 /\ spent[w] < RequestTime
      /\ \A w \in Workers : ~Busy(w) => spent'[w] = spent[w]
      /\ line = <<>> \/ ~FreeSlot
  BY LineTick
<1>2. line # <<>>
  BY EmptySeq DEF LineOK
<1>3. IsFiniteSet(Req) /\ Cardinality(Req) >= Slots /\ Cardinality(Req) \in Nat
  <2>1. IsFiniteSet(Req) /\ Cardinality(Req) \in Nat
    BY FS_Subset, FS_CardinalityType, TimedAssumption
  <2> QED
    BY <1>1, <1>2, <2>1, TimedAssumption DEF FreeSlot
<1>4. IsFiniteSet(New) /\ Cardinality(New) = Cardinality(Req)
  <2> DEFINE f == [w \in Req |-> <<w, spent[w] + 1>>]
  <2>1. f \in Bijection(Req, New)
    <3>1. f \in [Req -> New]
      OBVIOUS
    <3>2. \A a, b \in Req : f[a] = f[b] => a = b
      OBVIOUS
    <3>3. \A y \in New : \E x \in Req : f[x] = y
      OBVIOUS
    <3> HIDE DEF f, Req, New
    <3> QED
      BY <3>1, <3>2, <3>3, Zenon DEF Bijection, Injection, Surjection, IsInjective
  <2>2. ExistsBijection(Req, New)
    BY <2>1 DEF ExistsBijection
  <2> QED
    BY <1>3, <2>2, FS_Bijection
<1>5. \A w \in Req : w \in Workers /\ phase[w] = "taken" /\ w \notin Range(line) /\ Busy(w)
  BY DEF Requests, Busy, Waits
<1>6. Served(i) \intersect New = {}
  BY <1>5, TimedAssumption DEF Served, LineOK
<1>7. \A w \in Ahead(i) : w \in Range(line)
  BY WaitsIsPlace, RangeEquality DEF Ahead, LineOK
<1>8. Sum \subseteq Served(i)'
  <2>1. Ahead(i)' = Ahead(i) /\ \A w \in Workers : Requests(w)' <=> Requests(w)
    BY <1>1 DEF Ahead, Requests, Waits
  <2>2. Served(i) \subseteq Served(i)'
    <3> SUFFICES ASSUME NEW p \in Served(i)
                 PROVE  p \in Served(i)'
      OBVIOUS
    <3>1. /\ p \in Workers \X (1..RequestTime) /\ p[1] \in Workers /\ p[2] \in Nat
          /\ p[1] \notin Ahead(i) /\ (Requests(p[1]) => p[2] <= spent[p[1]])
      BY TimedAssumption DEF Served
    <3>2. Requests(p[1]) => p[2] <= spent'[p[1]]
      BY <1>1, <1>5, <3>1 DEF LineOK
    <3> QED
      BY <2>1, <3>1, <3>2 DEF Served
  <2>3. New \subseteq Served(i)'
    <3> SUFFICES ASSUME NEW w \in Req
                 PROVE  <<w, spent[w] + 1>> \in Served(i)'
      OBVIOUS
    <3>1. w \in Workers /\ w \notin Ahead(i) /\ Busy(w)
      BY <1>5, <1>7
    <3>2. spent[w] + 1 \in 1..RequestTime /\ spent'[w] = spent[w] + 1
      BY <1>1, <3>1, TimedAssumption DEF LineOK
    <3> QED
      BY <2>1, <3>1, <3>2 DEF Served
  <2> QED
    BY <2>2, <2>3
<1>9. /\ IsFiniteSet(Served(i)) /\ Cardinality(Served(i)) \in Nat
      /\ IsFiniteSet(Served(i)') /\ Cardinality(Served(i)') \in Nat
  <2>1. IsFiniteSet(Served(i)) /\ Cardinality(Served(i)) \in Nat
    BY ServedIsBounded
  <2>2. IsFiniteSet(Served(i)')
    <3> QED
      BY TicksFinite, FS_Subset DEF Served
  <2> QED
    BY <2>1, <2>2, FS_CardinalityType
<1> HIDE DEF New, Req
<1>10. IsFiniteSet(Sum) /\ Cardinality(Sum) = Cardinality(Served(i)) + Cardinality(New)
  <2>1. Cardinality(Served(i) \intersect New) = 0
    BY <1>6, FS_EmptySet
  <2> QED
    BY <1>3, <1>4, <1>9, <2>1, FS_Union
<1>11. Cardinality(Sum) <= Cardinality(Served(i)')
  BY <1>8, <1>9, FS_Subset
<1> QED
  BY <1>3, <1>4, <1>9, <1>10, <1>11, TimedAssumption

(* What a step that only lets others go, or move up, must do.              *)
LEMMA LinePacedStays ==
  ASSUME LineOK, AgeInv, LinePaced, LineOK', AgeInv',
         \A i \in 1..Len(line') :
           \/ age'[task'[line'[i]]] = 0
           \/ \E j \in 1..Len(line) :
                /\ line'[i] = line[j] /\ Served(j) \subseteq Served(i)'
                /\ task'[line[j]] = task[line[j]],
         \A t \in processing' : (t \in processing /\ age'[t] = age[t]) \/ age'[t] = 0
  PROVE  LinePaced'
<1> SUFFICES ASSUME NEW i \in 1..Len(line'), task'[line'[i]] \in processing'
             PROVE  Slots * age'[task'[line'[i]]] <= Cardinality(Served(i)')
  BY DEF LinePaced
<1> DEFINE t == task'[line'[i]]
<1>1. IsFiniteSet(Served(i)') /\ Cardinality(Served(i)') \in Nat
  <2>1. IsFiniteSet(Served(i)')
    BY TicksFinite, FS_Subset DEF Served
  <2> QED
    BY <2>1, FS_CardinalityType
<1>2. CASE age'[t] = 0
  <2>1. Slots * age'[t] = 0
    BY <1>2, TimedAssumption
  <2> QED
    BY <1>1, <2>1
<1>3. ASSUME NEW j \in 1..Len(line), line'[i] = line[j], Served(j) \subseteq Served(i)',
             task'[line[j]] = task[line[j]], t \in processing, age'[t] = age[t]
      PROVE  Slots * age'[t] <= Cardinality(Served(i)')
  <2>1. Cardinality(Served(j)) <= Cardinality(Served(i)') /\ Cardinality(Served(j)) \in Nat
    BY <1>1, <1>3, FS_Subset, ServedIsBounded
  <2>2. t = task[line[j]]
    BY <1>3
  <2>3. Slots * age[t] <= Cardinality(Served(j))
    BY <1>3, <2>2 DEF LinePaced
  <2>4. age[t] \in Nat /\ Slots \in Nat
    BY <1>3, TimedAssumption DEF AgeInv
  <2> HIDE DEF t
  <2>5. PICK n \in Nat : n = Slots * age[t]
    BY <2>4
  <2>6. Slots * age'[t] = n
    BY <1>3, <2>5
  <2> QED
    BY <1>1, <2>1, <2>3, <2>5, <2>6 DEF t
<1> QED
  BY <1>2, <1>3

(* A holder keeps its pace while it keeps its slot and its task.           *)
LEMMA HoldersPacedStays ==
  ASSUME LineOK, AgeInv, HoldersPaced, LineOK', AgeInv',
         \A w \in Workers :
           phase'[w] \in {"taken", "stored", "unsaved"} /\ ~Waits(w)' =>
             /\ phase[w] \in {"taken", "stored", "unsaved"} /\ ~Waits(w)
             /\ task'[w] = task[w] /\ spent'[w] = spent[w],
         \A t \in processing' : (t \in processing /\ age'[t] = age[t]) \/ age'[t] = 0
  PROVE  HoldersPaced'
<1> SUFFICES ASSUME NEW w \in Workers, phase'[w] \in {"taken", "stored", "unsaved"},
                    ~Waits(w)', task'[w] \in processing'
             PROVE  Slots * (age'[task'[w]] - spent'[w]) <= Turns
  BY DEF HoldersPaced
<1>1. /\ phase[w] \in {"taken", "stored", "unsaved"} /\ ~Waits(w)
      /\ task'[w] = task[w] /\ spent'[w] = spent[w]
  OBVIOUS
<1>2. CASE task[w] \in processing /\ age'[task[w]] = age[task[w]]
  BY <1>1, <1>2 DEF HoldersPaced
<1>3. CASE age'[task[w]] = 0
  <2>1. spent[w] \in Nat /\ Slots \in Nat
    BY TimedAssumption DEF LineOK
  <2>2. Slots * (0 - spent[w]) <= 0
    BY <2>1
  <2>3. Turns \in Nat
    <3>1. Cardinality(Workers) \in Nat /\ Cardinality(Workers) # 0
      BY FS_CardinalityType, FS_EmptySet, TimedAssumption
    <3> QED
      BY <3>1, TimedAssumption DEF Turns
  <2>4. Slots * (0 - spent[w]) \in Int
    BY <2>1
  <2> QED
    BY <1>1, <1>3, <2>2, <2>3, <2>4
<1> QED
  BY <1>1, <1>2, <1>3

Paced == LinePaced /\ HoldersPaced

LEMMA PacedInit == TimedInit => Paced
BY EmptySeq DEF TimedInit, QueueInit, InitStore, Paced, LinePaced, HoldersPaced

(* A goroutine that has just taken its task comes last.                    *)
LEMMA PacedTakes ==
  ASSUME CleanUrls, QueueTypeOK, AgeInv, LineOK, Paced, AgeInv', LineOK',
         NEW w \in Workers, TakesTask(w)
  PROVE  Paced'
<1>1. /\ line' = Append(line, w) /\ spent' = spent
      /\ ~Waits(w) /\ phase[w] = "free" /\ Waits(w)' /\ phase'[w] = "taken"
      /\ \A v \in Workers : v # w => phase'[v] = phase[v] /\ (Waits(v)' <=> Waits(v))
  BY LineTakes
<1>2. Head(pending) \in Live
  BY RangeHeadTail DEF QueueTypeOK, TakesTask, Dequeue, MoveToProcessing
<1>3. /\ task'[w] = Head(pending)
      /\ \A v \in Workers : v # w => task'[v] = task[v]
      /\ processing' = processing \union {Head(pending)}
      /\ age' = [t \in processing' |-> IF t = Head(pending) THEN 0 ELSE age[t]]
  BY <1>2, CleanUnmarshal DEF QueueTypeOK, TakesTask, Dequeue, MoveToProcessing, Hold
<1>4. \A t \in processing' : (t \in processing /\ age'[t] = age[t]) \/ age'[t] = 0
  BY <1>3
<1>5. /\ line \in Seq(Workers) /\ Len(line) \in Nat /\ Len(line') = Len(line) + 1
      /\ \A i \in 1..Len(line) : line'[i] = line[i] /\ line[i] \in Workers /\ line[i] # w
      /\ line'[Len(line) + 1] = w
  BY <1>1, WaitsIsPlace, AppendProperties DEF LineOK
<1>6. ASSUME NEW i \in 1..Len(line)
      PROVE  Served(i) \subseteq Served(i)'
  <2>1. Ahead(i)' = Ahead(i)
    BY <1>5 DEF Ahead
  <2>2. \A v \in Workers : Requests(v)' => Requests(v)
    BY <1>1 DEF Requests
  <2> QED
    BY <1>1, <2>1, <2>2 DEF Served
<1>7. ASSUME NEW i \in 1..Len(line')
      PROVE  \/ age'[task'[line'[i]]] = 0
             \/ \E j \in 1..Len(line) :
                  /\ line'[i] = line[j] /\ Served(j) \subseteq Served(i)'
                  /\ task'[line[j]] = task[line[j]]
  <2>1. CASE i = Len(line) + 1
    BY <2>1, <1>3, <1>5
  <2>2. CASE i \in 1..Len(line)
    BY <2>2, <1>3, <1>5, <1>6
  <2> QED
    BY <1>5, <2>1, <2>2
<1>8. LinePaced'
  BY <1>4, <1>7, LinePacedStays DEF Paced
<1>9. \A v \in Workers :
        phase'[v] \in {"taken", "stored", "unsaved"} /\ ~Waits(v)' =>
          /\ phase[v] \in {"taken", "stored", "unsaved"} /\ ~Waits(v)
          /\ task'[v] = task[v] /\ spent'[v] = spent[v]
  BY <1>1, <1>3
<1> QED
  BY <1>4, <1>8, <1>9, HoldersPacedStays DEF Paced

(* The first of the line gets its slot before anybody that came later.     *)
LEMMA PacedGetsSlot ==
  ASSUME AgeInv, LineOK, Paced, AgeInv', LineOK', GetsSlot
  PROVE  Paced'
<1> DEFINE h == Head(line)
<1>1. /\ line # <<>> /\ line' = Tail(line) /\ h \in Workers
      /\ UNCHANGED <<spent, phase, task, age, processing>>
      /\ Waits(h) /\ spent[h] = 0
      /\ \A v \in Workers : v # h => (Waits(v)' <=> Waits(v))
  BY LineGetsSlot
<1>2. /\ line \in Seq(Workers) /\ Len(line) \in Nat \ {0} /\ Len(line') = Len(line) - 1
      /\ \A i \in 1..Len(line') : line'[i] = line[i + 1]
      /\ h = line[1]
  BY <1>1, HeadTailProperties, EmptySeq DEF LineOK
<1> HIDE DEF h
<1>3. \A t \in processing' : (t \in processing /\ age'[t] = age[t]) \/ age'[t] = 0
  BY <1>1
<1>4. ASSUME NEW i \in 1..Len(line')
      PROVE  \E j \in 1..Len(line) :
               /\ line'[i] = line[j] /\ Served(j) \subseteq Served(i)'
               /\ task'[line[j]] = task[line[j]]
  <2>1. i + 1 \in 1..Len(line) /\ line'[i] = line[i + 1]
    BY <1>2
  <2>2. Ahead(i)' \subseteq Ahead(i + 1)
    <3> SUFFICES ASSUME NEW k \in 1..i
                 PROVE  line'[k] \in Ahead(i + 1)
      BY DEF Ahead
    <3>1. k + 1 \in 1..(i + 1) /\ line'[k] = line[k + 1]
      BY <1>2
    <3> QED
      BY <3>1 DEF Ahead
  <2>3. h \in Ahead(i + 1)
    <3>1. 1 \in 1..(i + 1)
      BY <1>2
    <3> QED
      BY <1>2, <3>1 DEF Ahead
  <2>4. \A v \in Workers : v # h => (Requests(v)' <=> Requests(v))
    BY <1>1 DEF Requests
  <2>5. Served(i + 1) \subseteq Served(i)'
    BY <1>1, <2>2, <2>3, <2>4 DEF Served
  <2> QED
    BY <1>1, <2>1, <2>5
<1>5. LinePaced'
  BY <1>3, <1>4, LinePacedStays DEF Paced
<1>6. ASSUME NEW w \in Workers, phase'[w] \in {"taken", "stored", "unsaved"},
             ~Waits(w)', task'[w] \in processing'
      PROVE  Slots * (age'[task'[w]] - spent'[w]) <= Turns
  <2>1. task[w] \in processing /\ phase[w] \in {"taken", "stored", "unsaved"}
    BY <1>1, <1>6
  <2>2. CASE w # h
    BY <1>1, <1>6, <2>1, <2>2 DEF Paced, HoldersPaced
  <2>3. CASE w = h
    <3>1. 1 \in 1..Len(line) /\ task[line[1]] \in processing
      BY <1>2, <2>1, <2>3
    <3>2. Slots * age[task[w]] <= Cardinality(Served(1))
      BY <1>2, <2>3, <3>1 DEF Paced, LinePaced
    <3>3. Cardinality(Served(1)) \in Nat /\ Cardinality(Served(1)) <= Turns
      BY <3>1, ServedIsBounded
    <3>4. age[task[w]] \in Nat /\ Slots * age[task[w]] \in Nat
      BY <2>1, TimedAssumption DEF AgeInv
    <3>5. age[task[w]] - spent[w] = age[task[w]]
      BY <1>1, <2>3, <3>4
    <3>6. Turns \in Int
      BY FS_CardinalityType, TimedAssumption DEF Turns
    <3>7. Slots * age[task[w]] <= Turns
      BY <3>2, <3>3, <3>4, <3>6
    <3> QED
      BY <1>1, <3>5, <3>7
  <2> QED
    BY <2>2, <2>3
<1> QED
  BY <1>5, <1>6 DEF Paced, HoldersPaced

(* One that ends its request, or its life, leaves its turn to the others.  *)
LEMMA PacedLeaver ==
  ASSUME QueueTypeOK, AgeInv, LineOK, Paced, AgeInv', LineOK',
         NEW w \in Workers, EndsRequest(w) \/ AddsRetry(w) \/ Dies(w)
  PROVE  Paced'
<1>1. PICK ph \in Phases :
        /\ phase' = [phase EXCEPT ![w] = ph] /\ Leaves(w) /\ (Waits(w) => ph = "free")
        /\ ph = "taken" => FALSE
  BY EndsPhase
<1>2. /\ phase'[w] = ph
      /\ \A v \in Workers : v # w =>
           phase'[v] = phase[v] /\ spent'[v] = spent[v] /\ (Waits(v)' <=> Waits(v))
      /\ ~Waits(w)'
      /\ \A i \in 1..Len(line') : \E j \in 1..Len(line) :
           line'[i] = line[j] /\ Ahead(i)' \subseteq Ahead(j)
  BY <1>1, LeaverOnly
<1>3. \A v \in Workers : v # w => task'[v] = task[v]
  BY DEF EndsRequest, AddsRetry, Dies, Store, Ack, RetryRemove, RetryAdd, Crash, Release,
         Hold, QueueTypeOK
<1>4. /\ processing' \subseteq processing
      /\ \A t \in processing' : age'[t] = age[t]
  <2>1. CASE EndsRequest(w)
    <3>1. processing' \subseteq processing /\ age' = Restrict(age, processing')
      BY <2>1 DEF EndsRequest, Store, Ack, RetryRemove, Kept, store
    <3> QED
      BY <3>1, KeptAges
  <2>2. CASE AddsRetry(w) \/ Dies(w)
    BY <2>2 DEF AddsRetry, Dies, RetryAdd, SendOn, Crash, store, entryTimes
  <2> QED
    BY <2>1, <2>2
<1>5. ASSUME NEW i \in 1..Len(line')
      PROVE  \E j \in 1..Len(line) :
               /\ line'[i] = line[j] /\ Served(j) \subseteq Served(i)'
               /\ task'[line[j]] = task[line[j]]
  <2>1. PICK j \in 1..Len(line) : line'[i] = line[j] /\ Ahead(i)' \subseteq Ahead(j)
    BY <1>2
  <2>2. line[j] \in Workers /\ line'[i] \in Range(line')
    BY RangeEquality DEF LineOK
  <2>3. line[j] # w
    BY <1>2, <2>1, <2>2 DEF Waits
  <2>4. \A v \in Workers : Requests(v)' => v # w /\ Requests(v)
    BY <1>1, <1>2 DEF Requests
  <2>5. Served(j) \subseteq Served(i)'
    BY <1>2, <2>1, <2>4 DEF Served
  <2> QED
    BY <1>3, <2>1, <2>2, <2>3, <2>5
<1>6. LinePaced'
  BY <1>4, <1>5, LinePacedStays DEF Paced
<1>7. phase'[w] \in {"taken", "stored", "unsaved"} =>
        phase[w] = "taken" /\ ~Waits(w) /\ task'[w] = task[w] /\ spent'[w] = spent[w]
  <2>1. CASE EndsRequest(w) /\ Store(w)
    BY <2>1, <1>1, <1>2 DEF EndsRequest, Store, Leaves, LineOK, QueueTypeOK
  <2>2. CASE EndsRequest(w) /\ (Ack(w) \/ RetryRemove(w))
    BY <2>2 DEF Ack, RetryRemove, Release, Hold, QueueTypeOK
  <2>3. CASE AddsRetry(w) \/ Dies(w)
    BY <2>3 DEF AddsRetry, Dies, RetryAdd, SendOn, Crash, Release, Hold, QueueTypeOK
  <2> QED
    BY <2>1, <2>2, <2>3 DEF EndsRequest
<1>8. \A v \in Workers :
        phase'[v] \in {"taken", "stored", "unsaved"} /\ ~Waits(v)' =>
          /\ phase[v] \in {"taken", "stored", "unsaved"} /\ ~Waits(v)
          /\ task'[v] = task[v] /\ spent'[v] = spent[v]
  BY <1>2, <1>3, <1>7
<1> QED
  BY <1>4, <1>6, <1>8, HoldersPacedStays DEF Paced

LEMMA PacedElsewhere ==
  ASSUME AgeInv, LineOK, Paced, AgeInv', LineOK', ScanStale \/ ScanRetries \/ Elsewhere
  PROVE  Paced'
<1>1. /\ UNCHANGED <<line, spent, task, phase>>
      /\ processing' \subseteq processing
      /\ age' = Restrict(age, processing')
  BY ElsewhereHolds
<1>2. \A t \in processing' : t \in processing /\ age'[t] = age[t]
  BY <1>1, KeptAges
<1>3. \A i \in 1..Len(line) : Served(i)' = Served(i)
  BY <1>1 DEF Served, Ahead, Requests, Waits
<1>4. LinePaced'
  BY <1>1, <1>2, <1>3, LinePacedStays DEF Paced
<1>5. HoldersPaced'
  BY <1>1, <1>2, HoldersPacedStays DEF Paced, Waits
<1> QED
  BY <1>4, <1>5 DEF Paced

(* A tick ages the entries, and the requests no less.                      *)
LEMMA PacedTick ==
  ASSUME QueueTypeOK, AgeInv, LineOK, Paced, Tick
  PROVE  Paced'
<1>1. /\ UNCHANGED <<line, phase, task, processing>>
      /\ \A w \in Workers : Busy(w) => spent'[w] = spent[w] + 1 /\ spent[w] < RequestTime
      /\ age' = [t \in processing |-> age[t] + 1]
  BY LineTick
<1>2. ASSUME NEW i \in 1..Len(line'), task'[line'[i]] \in processing'
      PROVE  Slots * age'[task'[line'[i]]] <= Cardinality(Served(i)')
  <2> DEFINE t == task[line[i]]
  <2>1. i \in 1..Len(line) /\ t \in processing /\ age'[task'[line'[i]]] = age[t] + 1
    BY <1>1, <1>2
  <2>2. Slots * age[t] <= Cardinality(Served(i))
    BY <2>1 DEF Paced, LinePaced
  <2>3. Cardinality(Served(i)) + Slots <= Cardinality(Served(i)')
    BY <2>1, ServedByTick
  <2> HIDE DEF t
  <2>4. age[t] \in Nat /\ Slots \in Nat /\ Slots * age[t] \in Nat
    BY <2>1, TimedAssumption DEF AgeInv
  <2>5. Slots * (age[t] + 1) = Slots * age[t] + Slots
    BY <2>4
  <2>6. Cardinality(Served(i)) \in Nat /\ Cardinality(Served(i)') \in Nat
    <3>1. IsFiniteSet(Served(i)')
      BY TicksFinite, FS_Subset DEF Served
    <3> QED
      BY <2>1, <3>1, FS_CardinalityType, ServedIsBounded
  <2> QED
    BY <2>1, <2>2, <2>3, <2>4, <2>5, <2>6
<1>3. ASSUME NEW w \in Workers, phase'[w] \in {"taken", "stored", "unsaved"},
             ~Waits(w)', task'[w] \in processing'
      PROVE  Slots * (age'[task'[w]] - spent'[w]) <= Turns
  <2>1. /\ phase[w] \in {"taken", "stored", "unsaved"} /\ ~Waits(w)
        /\ task[w] \in processing /\ Busy(w)
    BY <1>1, <1>3 DEF Waits, Busy
  <2>2. age'[task'[w]] = age[task[w]] + 1 /\ spent'[w] = spent[w] + 1
    BY <1>1, <2>1
  <2>3. age[task[w]] \in Nat /\ spent[w] \in Nat
    BY <2>1, TimedAssumption DEF AgeInv, LineOK
  <2>4. (age[task[w]] + 1) - (spent[w] + 1) = age[task[w]] - spent[w]
    BY <2>3
  <2> QED
    BY <2>1, <2>2, <2>4 DEF Paced, HoldersPaced
<1> QED
  BY <1>2, <1>3 DEF Paced, LinePaced, HoldersPaced

LEMMA PacedStep ==
  ASSUME CleanUrls, QueueTypeOK, AgeInv, LineOK, Paced, TimedNext
  PROVE  Paced'
<1>1. AgeInv' /\ LineOK'
  BY AgeInvStep, LineStep
<1> QED
  BY <1>1, PacedTakes, PacedGetsSlot, PacedLeaver, PacedElsewhere, PacedTick DEF TimedNext

LEMMA PacedStutter ==
  ASSUME Paced, UNCHANGED timedVars
  PROVE  Paced'
BY DEF Paced, LinePaced, HoldersPaced, Served, Ahead, Requests, Waits, timedVars, queueVars,
       store, hold, entryTimes, workerTimes

-----------------------------------------------------------------------------
(* processingTimeout is longer than the worst wait for a slot, the request *)
(* and the difference of two clocks: all other goroutines' requests, Slots *)
(* at a time, and one's own.  With the defaults of 10 slots, 30 seconds    *)
(* and 5 minutes that is so for up to 90 goroutines on one domain.         *)
Patient == Slots * (Timeout - Skew - RequestTime) > Turns

LEMMA SlotsMonotone ==
  ASSUME NEW x \in Int, NEW y \in Int, x <= y
  PROVE  Slots * x <= Slots * y
<1>1. Slots \in Nat /\ y - x \in Nat
  BY TimedAssumption
<1>2. Slots * (y - x) >= 0
  BY <1>1
<1>3. Slots * (y - x) = Slots * y - Slots * x
  BY <1>1
<1> QED
  BY <1>1, <1>2, <1>3

(* Then no scan finds a task stale while a worker handles it.              *)
LEMMA PatientScans ==
  ASSUME CleanUrls, Patient, QueueTypeOK, AgeInv, LineOK, Paced,
         NEW due \in Stale, NEW t \in due
  PROVE  ~Held(t)
<1>1. t \in processing /\ age[t] >= Timeout - Skew /\ age[t] \in Nat
  BY TimedAssumption DEF Stale, Between, AgeInv
<1>2. SUFFICES ASSUME NEW w \in Workers, phase[w] \in {"taken", "stored", "unsaved"}, task[w] = t
               PROVE  FALSE
  BY <1>1, CleanUnmarshal DEF Held, QueueTypeOK
<1>3. Turns \in Int /\ {Timeout, RequestTime, Slots, Skew} \subseteq Nat
  BY FS_CardinalityType, TimedAssumption DEF Turns
<1>4. spent[w] \in Nat /\ spent[w] <= RequestTime
  BY <1>3 DEF LineOK
<1>5. Slots * (age[t] - spent[w]) <= Turns
  <2>1. CASE Waits(w)
    <3>1. PICK i \in 1..Len(line) : line[i] = w
      BY <2>1, WaitsIsPlace
    <3>2. Slots * age[t] <= Cardinality(Served(i))
      BY <1>1, <1>2, <3>1 DEF Paced, LinePaced
    <3>3. Cardinality(Served(i)) \in Nat /\ Cardinality(Served(i)) <= Turns
      BY ServedIsBounded
    <3>4. age[t] - spent[w] = age[t]
      BY <1>1, <2>1 DEF LineOK
    <3>5. Slots * age[t] \in Nat
      BY <1>1, <1>3
    <3> QED
      BY <1>3, <3>2, <3>3, <3>4, <3>5
  <2>2. CASE ~Waits(w)
    BY <1>1, <1>2, <2>2 DEF Paced, HoldersPaced
  <2> QED
    BY <2>1, <2>2
<1>6. Timeout - Skew - RequestTime <= age[t] - spent[w]
  BY <1>1, <1>3, <1>4
<1>7. Slots * (Timeout - Skew - RequestTime) <= Slots * (age[t] - spent[w])
  BY <1>1, <1>3, <1>4, <1>6, SlotsMonotone
<1>8. Slots * (age[t] - spent[w]) \in Int /\ Slots * (Timeout - Skew - RequestTime) \in Int
  BY <1>1, <1>3, <1>4
<1> QED
  BY <1>3, <1>5, <1>7, <1>8 DEF Patient

LEMMA TimedStepIsRunningStep ==
  ASSUME TimedNext
  PROVE  RunningNext \/ UNCHANGED queueVars
<1>1. ASSUME NEW w \in Workers, TakesTask(w) \/ EndsRequest(w) \/ AddsRetry(w) \/ Dies(w)
      PROVE  RunningNext
  BY <1>1 DEF TakesTask, EndsRequest, AddsRetry, Dies, RunningNext, SafeNext, SafeWorkerStep
<1>2. ASSUME NEW due \in Stale, NEW batch \in Batches(due), RequeueStale(due, batch)
      PROVE  RunningNext
  <2>1. due \in SUBSET processing
    BY DEF Stale, Between
  <2>2. CASE \E member \in due : Held(member)
    BY <1>2, <2>1, <2>2 DEF RunningNext
  <2>3. CASE ~\E member \in due : Held(member)
    BY <1>2, <2>1, <2>3 DEF RunningNext, SafeNext
  <2> QED
    BY <2>2, <2>3
<1>3. ASSUME NEW due \in Ready, NEW batch \in Batches(due), RequeueRetries(due, batch)
      PROVE  RunningNext
  BY <1>3 DEF Ready, Between, RunningNext, SafeNext
<1>4. ASSUME Elsewhere
      PROVE  RunningNext
  BY <1>4 DEF Elsewhere, RunningNext, SafeNext
<1> QED
  BY <1>1, <1>2, <1>3, <1>4 DEF TimedNext, GetsSlot, ScanStale, ScanRetries, Tick

LEMMA PatientStepIsSafe ==
  ASSUME CleanUrls, Patient, QueueTypeOK, AgeInv, LineOK, Paced, TimedNext
  PROVE  SafeNext \/ UNCHANGED queueVars
<1>1. ASSUME NEW w \in Workers, TakesTask(w) \/ EndsRequest(w) \/ AddsRetry(w) \/ Dies(w)
      PROVE  SafeNext
  BY <1>1 DEF TakesTask, EndsRequest, AddsRetry, Dies, SafeNext, SafeWorkerStep
<1>2. ASSUME NEW due \in Stale, NEW batch \in Batches(due), RequeueStale(due, batch)
      PROVE  SafeNext
  <2>1. due \in SUBSET {t \in processing : ~Held(t)}
    BY PatientScans DEF Stale, Between
  <2> QED
    BY <1>2, <2>1 DEF SafeNext
<1>3. ASSUME NEW due \in Ready, NEW batch \in Batches(due), RequeueRetries(due, batch)
      PROVE  SafeNext
  BY <1>3 DEF Ready, Between, SafeNext
<1>4. ASSUME Elsewhere
      PROVE  SafeNext
  BY <1>4 DEF Elsewhere, SafeNext
<1> QED
  BY <1>1, <1>2, <1>3, <1>4 DEF TimedNext, GetsSlot, ScanStale, ScanRetries, Tick

LEMMA TimedQueueTypeStep ==
  ASSUME QueueTypeOK, [TimedNext]_timedVars
  PROVE  QueueTypeOK'
BY TimedStepIsQueueStep, QueueTypeStep, QueueTypeStutter DEF timedVars

(* The line for a slot keeps its pace: an entry in processing ages no more *)
(* while its worker waits than all slots serve the goroutines before it    *)
(* (fetcher.go:143-190).                                                   *)
THEOREM TimedInvariant ==
  ASSUME CleanUrls
  PROVE  TimedSpec => [](QueueTypeOK /\ AgeInv /\ LineOK /\ Paced)
<1>1. TimedInit => QueueTypeOK /\ AgeInv /\ LineOK /\ Paced
  BY QueueTypeInit, AgeInvInit, LineInit, PacedInit DEF TimedInit
<1>2. QueueTypeOK /\ AgeInv /\ LineOK /\ Paced /\ [TimedNext]_timedVars
        => (QueueTypeOK /\ AgeInv /\ LineOK /\ Paced)'
  <2> SUFFICES ASSUME QueueTypeOK, AgeInv, LineOK, Paced, [TimedNext]_timedVars
               PROVE  (QueueTypeOK /\ AgeInv /\ LineOK /\ Paced)'
    OBVIOUS
  <2>1. CASE TimedNext
    BY <2>1, TimedQueueTypeStep, AgeInvStep, LineStep, PacedStep
  <2>2. CASE UNCHANGED timedVars
    <3>1. UNCHANGED <<line, spent, phase>>
      BY <2>2 DEF timedVars, workerTimes, queueVars, hold
    <3> QED
      BY <2>2, <3>1, TimedQueueTypeStep, AgeInvStutter, LineStutter, PacedStutter
  <2> QED
    BY <2>1, <2>2
<1> QED
  BY <1>1, <1>2, PTL DEF TimedSpec

(* If processingTimeout is longer than the worst wait for a slot and the   *)
(* request, then however often processes die, fetches fail and scans come, *)
(* on clocks that differ, no two workers handle one URL and no task has    *)
(* two copies (ARCHITECTURE.md "no double-processing"; queue.go:86-258).   *)
THEOREM PatientQueueNeverDoubles ==
  ASSUME CleanUrls, Patient
  PROVE  TimedSpec => [](NoDoubleProcessing /\ SingleCopy)
<1> DEFINE Inv == QueueTypeOK /\ AgeInv /\ LineOK /\ Paced
<1>1. TimedInit => Once
  BY OnceInit DEF TimedInit
<1>2. Inv /\ Once /\ [TimedNext]_timedVars => Once'
  <2> SUFFICES ASSUME Inv, Once, [TimedNext]_timedVars
               PROVE  Once'
    OBVIOUS
  <2>1. SafeNext \/ UNCHANGED queueVars
    BY PatientStepIsSafe DEF timedVars
  <2> QED
    BY <2>1, OnceStep, OnceUnchanged DEF queueVars, ghosts
<1>3. Inv /\ Once => NoDoubleProcessing /\ SingleCopy
  BY OnceIsExclusive, OnceIsSingle
<1> QED
  BY <1>1, <1>2, <1>3, TimedInvariant, PTL DEF TimedSpec

(* Until a process dies, or a scan finds a task stale that a worker        *)
(* handles, every URL comes to at most one result, and one with a result   *)
(* is not pending, not in the backoff and not dead (queue.go, pool.go).    *)
THEOREM TimedQueueHasOneOutcome ==
  ASSUME CleanUrls
  PROVE  TimedSpec => []OneOutcome
<1>1. TimedInit => QueueTypeOK /\ Calm
  BY QueueTypeInit, CalmInit DEF TimedInit
<1>2. QueueTypeOK /\ Calm /\ [TimedNext]_timedVars => (QueueTypeOK /\ Calm)'
  <2> SUFFICES ASSUME QueueTypeOK, Calm, [TimedNext]_timedVars
               PROVE  (QueueTypeOK /\ Calm)'
    OBVIOUS
  <2>1. RunningNext \/ UNCHANGED queueVars
    BY TimedStepIsRunningStep DEF timedVars
  <2> QED
    BY <2>1, TimedQueueTypeStep, CalmStep, CalmStutter
<1>3. QueueTypeOK /\ Calm => OneOutcome
  BY CalmIsOneOutcome
<1> QED
  BY <1>1, <1>2, <1>3, PTL DEF TimedSpec

-----------------------------------------------------------------------------
(* No backoff of a permitted retry is more nanoseconds than a              *)
(* time.Duration holds (with 64 bits: MaxRetries is 33 at most).           *)
NoOverflow == \A r \in 1..MaxRetries : Signed(2^r * Second) = 2^r * Second

LEMMA DelayIsDocumented ==
  ASSUME NoOverflow, NEW r \in 1..MaxRetries
  PROVE  Delay(r) \in Int /\ Delay(r) >= DocumentedDelay(r)
<1>1. r \in Nat /\ 2^r \in Int /\ Second \in Nat \ {0} /\ Cap \in Nat
  BY QueueAssumption, TimedAssumption
<1>2. Signed(2^r * Second) = 2^r * Second
  BY DEF NoOverflow
<1>3. PICK x \in Int : x = 2^r
  BY <1>1
<1>4. (x * Second) \div Second = x
  BY <1>1
<1>5. Delay(r) = IF x * Second > Cap * Second THEN Cap ELSE x
  BY <1>2, <1>3, <1>4 DEF Delay
<1>6. DocumentedDelay(r) = IF x > Cap THEN Cap ELSE x
  BY <1>3 DEF DocumentedDelay
<1> QED
  BY <1>1, <1>5, <1>6

(* A backoff is counted for exactly the members of retry.                  *)
WaitOK == DOMAIN wait = retry /\ \A t \in retry : wait[t] \in Int

LEMMA WaitInit == TimedInit => WaitOK
BY DEF TimedInit, QueueInit, InitStore, WaitOK

LEMMA WaitStep ==
  ASSUME NoOverflow, QueueTypeOK, WaitOK, TimedNext
  PROVE  WaitOK'
<1>1. ASSUME retry' \subseteq retry, wait' = Restrict(wait, retry')
      PROVE  WaitOK'
  BY <1>1 DEF WaitOK, Restrict
<1>2. ASSUME UNCHANGED <<retry, wait>>
      PROVE  WaitOK'
  BY <1>2 DEF WaitOK
<1>3. ASSUME NEW w \in Workers, TakesTask(w) \/ Dies(w)
      PROVE  WaitOK'
  BY <1>2, <1>3 DEF TakesTask, Dies, Dequeue, MoveToProcessing, Crash, store, entryTimes
<1>4. ASSUME NEW w \in Workers, EndsRequest(w)
      PROVE  WaitOK'
  BY <1>1, <1>4 DEF EndsRequest, Store, Ack, RetryRemove, Kept, store
<1>5. ASSUME NEW w \in Workers, AddsRetry(w)
      PROVE  WaitOK'
  <2>1. /\ retry' \subseteq retry \union {task[w]}
        /\ wait' = [t \in retry' |-> IF t = task[w] THEN Delay(t.retries) ELSE wait[t]]
    BY <1>5 DEF AddsRetry, RetryAdd, SendOn, Marshal
  <2>2. \A t \in retry' : t.retries \in 1..MaxRetries
    <3>1. QueueTypeOK'
      BY <1>5, TimedQueueTypeStep DEF TimedNext
    <3> QED
      BY <3>1, QueueAssumption DEF QueueTypeOK, Live
  <2> QED
    BY <2>1, <2>2, DelayIsDocumented DEF WaitOK
<1>6. ASSUME ScanStale
      PROVE  WaitOK'
  BY <1>1, <1>6 DEF ScanStale, RequeueStale, Kept, queueVars, store
<1>7. ASSUME ScanRetries
      PROVE  WaitOK'
  BY <1>1, <1>7 DEF ScanRetries, RequeueRetries, Kept, queueVars, store
<1>8. ASSUME Elsewhere
      PROVE  WaitOK'
  BY <1>1, <1>8 DEF Elsewhere, Enqueue, DeleteQueue, Kept
<1>9. ASSUME Tick
      PROVE  WaitOK'
  <2>1. /\ retry' = retry
        /\ wait' = [t \in retry |-> IF wait[t] > -Skew THEN wait[t] - 1 ELSE wait[t]]
    BY <1>9 DEF Tick, queueVars, store
  <2> QED
    BY <2>1, TimedAssumption DEF WaitOK
<1>10. ASSUME GetsSlot
       PROVE  WaitOK'
  BY <1>2, <1>10 DEF GetsSlot, queueVars, store, entryTimes
<1> QED
  BY <1>3, <1>4, <1>5, <1>6, <1>7, <1>8, <1>9, <1>10 DEF TimedNext

LEMMA WaitStutter ==
  ASSUME WaitOK, UNCHANGED timedVars
  PROVE  WaitOK'
BY DEF WaitOK, timedVars, queueVars, store, entryTimes

(* What all the entries and goroutines are in real time.                   *)
THEOREM TimedTypes ==
  ASSUME NoOverflow
  PROVE  TimedSpec => [](QueueTypeOK /\ AgeInv /\ LineOK /\ WaitOK)
<1> DEFINE Inv == QueueTypeOK /\ AgeInv /\ LineOK /\ WaitOK
<1>1. TimedInit => Inv
  BY QueueTypeInit, AgeInvInit, LineInit, WaitInit DEF TimedInit
<1>2. Inv /\ [TimedNext]_timedVars => Inv'
  <2> SUFFICES ASSUME QueueTypeOK, AgeInv, LineOK, WaitOK, [TimedNext]_timedVars
               PROVE  Inv'
    OBVIOUS
  <2>1. CASE TimedNext
    BY <2>1, TimedQueueTypeStep, AgeInvStep, LineStep, WaitStep
  <2>2. CASE UNCHANGED timedVars
    <3>1. UNCHANGED <<line, spent, phase>>
      BY <2>2 DEF timedVars, workerTimes, queueVars, hold
    <3> QED
      BY <2>2, <3>1, TimedQueueTypeStep, AgeInvStutter, LineStutter, WaitStutter
  <2> QED
    BY <2>1, <2>2
<1> QED
  BY <1>1, <1>2, PTL DEF TimedSpec

(* Every entry of processing and retry has its score and no other has one, *)
(* the line for a slot holds each goroutine once, and no request outlasts  *)
(* its timeout (queue.go:86-258, fetcher.go:143-190).                      *)
THEOREM TimedTypeCorrect ==
  ASSUME NoOverflow
  PROVE  TimedSpec => []TimedTypeOK
<1>1. AgeInv /\ LineOK /\ WaitOK => TimedTypeOK
  BY DEF AgeInv, LineOK, WaitOK, TimedTypeOK
<1> QED
  BY <1>1, TimedTypes, PTL

(* A failed task is not back in pending before its backoff is over,        *)
(* however its retries meet with scans, crashes and clocks (queue.go:171   *)
(* "2^retries seconds, max 300s").                                         *)
THEOREM RetriesWaitTheirBackoff ==
  ASSUME NoOverflow
  PROVE  TimedSpec => BackoffRespected
<1>1. QueueTypeOK /\ WaitOK /\ [TimedNext]_timedVars
        => [~DeleteQueue => \A t \in retry \ retry' :
              Delay(t.retries) - wait[t] >= DocumentedDelay(t.retries) - Skew]_timedVars
  <2> SUFFICES ASSUME QueueTypeOK, WaitOK, TimedNext, ~DeleteQueue, NEW t \in retry \ retry'
               PROVE  Delay(t.retries) - wait[t] >= DocumentedDelay(t.retries) - Skew
    OBVIOUS
  <2>1. t.retries \in 1..MaxRetries
    BY QueueAssumption DEF QueueTypeOK, Live
  <2>2. ScanRetries
    <3>1. ASSUME NEW w \in Workers, TakesTask(w) \/ EndsRequest(w) \/ AddsRetry(w) \/ Dies(w)
          PROVE  FALSE
      BY <3>1
         DEF TakesTask, EndsRequest, AddsRetry, Dies, Dequeue, MoveToProcessing, Store, Ack,
             RetryRemove, RetryAdd, SendOn, Crash, store
    <3>2. ASSUME GetsSlot \/ ScanStale \/ Elsewhere \/ Tick
          PROVE  FALSE
      BY <3>2 DEF GetsSlot, ScanStale, RequeueStale, Elsewhere, Enqueue, Tick, queueVars, store
    <3> QED
      BY <3>1, <3>2 DEF TimedNext
  <2>3. wait[t] <= Skew
    <3>1. PICK due \in Ready :
            IF due = {} THEN UNCHANGED queueVars ELSE \E batch \in Batches(due) : RequeueRetries(due, batch)
      BY <2>2 DEF ScanRetries
    <3>2. t \in due
      BY <3>1 DEF RequeueRetries, queueVars, store
    <3> QED
      BY <3>2, TimedAssumption DEF Ready, Between, WaitOK
  <2>4. DocumentedDelay(t.retries) \in Int
    <3>1. t.retries \in Nat /\ 2^(t.retries) \in Int /\ Cap \in Int
      BY <2>1, QueueAssumption, TimedAssumption
    <3> QED
      BY <3>1 DEF DocumentedDelay
  <2> QED
    BY <2>1, <2>3, <2>4, DelayIsDocumented, TimedAssumption DEF WaitOK
<1> QED
  BY <1>1, TimedTypes, PTL DEF TimedSpec, BackoffRespected
=============================================================================
