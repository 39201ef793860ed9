---------------------------- MODULE LedgerProofs ----------------------------
(* The queue implements module Ledger, for every value of its constants.   *)
EXTENDS CrawlQueueProofs, FiniteSetTheorems

USE DEF deadList

(* What holds besides QueueTypeOK and HeldOK: only URLs that were handed   *)
(* over are remembered or have results, a result is missing only after a   *)
(* failure, and the two sets of Redis are finite.                          *)
LedgerInv ==
  /\ Remembered \subseteq KeysOf(accepted)
  /\ \A u \in Urls : results[u] > 0 => u \in KeysOf(accepted)
  /\ \A w \in Workers : phase[w] = "unsaved" => disturbed > 0
  /\ IsFiniteSet(processing) /\ IsFiniteSet(retry)

(* The reasons the ledger accepts for a loss.                              *)
Excused == disturbed' > 0 \/ Owed' = {} \/ QueueLength > BatchLimit

(* A step makes up no URL and, unless excused, forgets none without        *)
(* answering it.                                                           *)
Faithful ==
  /\ Remembered' \subseteq Remembered
  /\ Excused \/ \A k \in Remembered : k \in Remembered' \/ results'[k] > 0

-----------------------------------------------------------------------------
(* The entries, and the tasks in memory, are what is remembered.           *)
LEMMA RememberedMeans ==
  /\ \A k : k \in Remembered <=>
       \/ \E t \in Entries : Clean[t.url] = k
       \/ \E w \in Workers : phase[w] # "free" /\ Clean[task[w].url] = k
  /\ \A k : k \in Remembered' <=>
       \/ \E t \in Entries' : Clean[t.url] = k
       \/ \E w \in Workers : phase'[w] # "free" /\ Clean[task'[w].url] = k
BY DEF Remembered, Working

(* What releasing worker w leaves in memory is what the others held.       *)
LEMMA ReleaseMemory ==
  ASSUME QueueTypeOK, NEW w \in Workers, Release(w)
  PROVE  /\ phase'[w] = "free"
         /\ \A v \in Workers \ {w} : phase'[v] = phase[v] /\ task'[v] = task[v]
BY DEF QueueTypeOK, Release, Hold

(* A step that keeps the entries and the memory is faithful.               *)
LEMMA SameIsFaithful ==
  ASSUME Entries' = Entries, UNCHANGED hold
  PROVE  Faithful
BY RememberedMeans DEF Faithful, hold

(* So is one that releases a worker whose task is an entry afterwards.     *)
LEMMA ReleaseIsFaithful ==
  ASSUME QueueTypeOK, NEW w \in Workers, Release(w), phase[w] # "free",
         Entries' = Entries \union {task[w]}
  PROVE  Faithful
<1>1. Remembered' \subseteq Remembered
  BY ReleaseMemory, RememberedMeans
<1>2. Remembered \subseteq Remembered'
  <2> SUFFICES ASSUME NEW k \in Remembered
               PROVE  k \in Remembered'
    OBVIOUS
  <2>1. CASE \E t \in Entries : Clean[t.url] = k
    BY <2>1, RememberedMeans
  <2>2. ASSUME NEW v \in Workers, phase[v] # "free", Clean[task[v].url] = k
        PROVE  k \in Remembered'
    <3>1. CASE v = w
      BY <2>2, <3>1, RememberedMeans
    <3>2. CASE v # w
      BY <2>2, <3>2, ReleaseMemory, RememberedMeans
    <3> QED
      BY <3>1, <3>2
  <2> QED
    BY <2>1, <2>2, RememberedMeans
<1> QED
  BY <1>1, <1>2 DEF Faithful

(* A step that only forgets is faithful if it is excused.                  *)
LEMMA ExcusedIsFaithful ==
  ASSUME Entries' \subseteq Entries, Excused,
         \A v \in Workers : phase'[v] # "free" => phase[v] # "free" /\ task'[v] = task[v]
  PROVE  Faithful
BY RememberedMeans DEF Faithful
-----------------------------------------------------------------------------
(* A task taken out of pending goes into processing, and may be decoded    *)
(* into the memory of a worker, where it stands for the same URL.          *)
LEMMA MoveKeepsEntries ==
  ASSUME QueueTypeOK, MoveToProcessing
  PROVE  Entries' = Entries /\ Head(pending) \in Entries /\ Head(pending) \in Live
BY RangeHeadTail DEF QueueTypeOK, MoveToProcessing, Entries

LEMMA DequeueIsFaithful ==
  ASSUME QueueTypeOK, NEW w \in Workers, Dequeue(w)
  PROVE  Faithful
<1>1. Entries' = Entries /\ Head(pending) \in Entries /\ Head(pending) \in Live
  BY MoveKeepsEntries DEF Dequeue
<1>2. Clean[Unmarshal(Head(pending)).url] = Clean[Head(pending).url]
  BY <1>1, UnmarshalProperties
<1>3. /\ phase[w] = "free"
      /\ phase'[w] = "taken" /\ task'[w] = Unmarshal(Head(pending))
      /\ \A v \in Workers \ {w} : phase'[v] = phase[v] /\ task'[v] = task[v]
  BY DEF QueueTypeOK, Dequeue, Hold
<1>4. Remembered \subseteq Remembered'
  BY <1>1, <1>3, RememberedMeans
<1>5. Remembered' \subseteq Remembered
  BY <1>1, <1>2, <1>3, RememberedMeans
<1> QED
  BY <1>4, <1>5 DEF Faithful

(* What Ack removes has its result, or the insert has failed.              *)
LEMMA AckIsFaithful ==
  ASSUME QueueTypeOK, HeldOK, LedgerInv, NEW w \in Workers, Ack(w)
  PROVE  Faithful
<1>1. /\ Entries' \subseteq Entries
      /\ Entries \subseteq Entries' \union {task[w]}
      /\ results' = results /\ disturbed' = disturbed
      /\ phase[w] \in {"stored", "unsaved"}
  BY DEF Ack, Marshal, Entries
<1>2. /\ phase'[w] = "free"
      /\ \A v \in Workers \ {w} : phase'[v] = phase[v] /\ task'[v] = task[v]
  BY ReleaseMemory DEF Ack
<1>3. CASE phase[w] = "unsaved"
  BY <1>1, <1>2, <1>3, ExcusedIsFaithful DEF LedgerInv, Excused
<1>4. CASE phase[w] = "stored"
  <2>1. results'[Clean[task[w].url]] > 0
    BY <1>1, <1>4 DEF HeldOK
  <2>2. Remembered' \subseteq Remembered
    BY <1>1, <1>2, RememberedMeans
  <2>3. \A k \in Remembered : k \in Remembered' \/ k = Clean[task[w].url]
    BY <1>1, <1>2, RememberedMeans
  <2> QED
    BY <2>1, <2>2, <2>3 DEF Faithful
<1> QED
  BY <1>1, <1>3, <1>4

(* Retry's ZREM leaves the task in memory ...                              *)
LEMMA RetryRemoveIsFaithful ==
  ASSUME QueueTypeOK, NEW w \in Workers, RetryRemove(w) \/ RetryRemoveFails(w)
  PROVE  Faithful
<1>1. /\ Entries' \subseteq Entries
      /\ Entries \subseteq Entries' \union {task[w]}
      /\ phase[w] = "taken"
      /\ Hold(w, [task[w] EXCEPT !.retries = @ + 1], "removed")
  BY DEF RetryRemove, RetryRemoveFails, store, Marshal, Entries
<1>2. /\ phase'[w] = "removed" /\ task'[w].url = task[w].url
      /\ \A v \in Workers \ {w} : phase'[v] = phase[v] /\ task'[v] = task[v]
  BY <1>1, AttemptProperties DEF QueueTypeOK, Hold
<1>3. Remembered' \subseteq Remembered
  BY <1>1, <1>2, RememberedMeans
<1>4. Remembered \subseteq Remembered'
  BY <1>1, <1>2, RememberedMeans
<1> QED
  BY <1>3, <1>4 DEF Faithful

(* A recovery script moves entries, and those it drops are those beyond    *)
(* BatchLimit.                                                             *)
LEMMA OverflowMeans ==
  ASSUME NEW S, IsFiniteSet(S), NEW due \in SUBSET S, NEW batch \in Batches(due),
         Range(batch) # due
  PROVE  Cardinality(S) > BatchLimit
<1>1. PICK n \in 0..BatchLimit : batch \in Injection(1..n, due)
  BY DEF Batches
<1>2. IsFiniteSet(due) /\ Cardinality(due) <= Cardinality(S) /\ Cardinality(due) \in Nat /\ Cardinality(S) \in Nat
  BY FS_Subset, FS_CardinalityType
<1>3. n \in Nat /\ BatchLimit \in Nat
  BY QueueAssumption
<1>4. Cardinality(1..n) = n
  BY <1>3, FS_Interval
<1>5. Len(batch) = n
  BY <1>1, <1>3 DEF Injection
<1>6. n = BatchLimit
  BY <1>5 DEF Batches
<1>7. n <= Cardinality(due) /\ (n = Cardinality(due) => batch \in Surjection(1..n, due))
  BY <1>1, <1>2, <1>4, FS_Injection
<1>8. batch \notin Surjection(1..n, due)
  BY <1>1 DEF Surjection, Injection, Range
<1> QED
  BY <1>2, <1>3, <1>6, <1>7, <1>8

(* The length of the queue is at least that of either set.                 *)
LEMMA QueueLengthBounds ==
  ASSUME QueueTypeOK, LedgerInv
  PROVE  /\ QueueLength \in Nat
         /\ Cardinality(retry) <= QueueLength
         /\ Cardinality(processing) <= QueueLength
<1>1. Len(pending) \in Nat
  BY DEF QueueTypeOK
<1>2. Cardinality(retry) \in Nat /\ Cardinality(processing) \in Nat
  BY FS_CardinalityType DEF LedgerInv
<1> QED
  BY <1>1, <1>2 DEF QueueLength

(* Moving a batch of due entries to pending is faithful: it drops none, or *)
(* there are more than BatchLimit.                                         *)
LEMMA MoveIsFaithful ==
  ASSUME QueueTypeOK, LedgerInv, UNCHANGED hold,
         NEW S \in {retry, processing}, NEW due \in SUBSET S, NEW batch \in Batches(due),
         pending' = pending \o batch,
         Range(pending') \subseteq Entries',
         Entries' \subseteq Entries \union Range(pending'),
         Entries \subseteq Entries' \union due
  PROVE  Faithful
<1>1. S \subseteq Live /\ S \subseteq Entries /\ pending \in Seq(Live)
  BY DEF QueueTypeOK, Entries
<1>2. batch \in Seq(Live) /\ Range(batch) \subseteq due
  BY <1>1, BatchProperties, SeqMonotonic
<1>3. Range(pending') = Range(pending) \union Range(batch)
  BY <1>1, <1>2, RangeConcatenation
<1>4. Entries' \subseteq Entries
  BY <1>1, <1>2, <1>3 DEF Entries
<1>5. CASE Range(batch) = due
  <2>1. Entries' = Entries
    BY <1>3, <1>4, <1>5
  <2> QED
    BY <2>1, SameIsFaithful
<1>6. CASE Range(batch) # due
  <2>1. Cardinality(S) > BatchLimit
    BY <1>6, OverflowMeans DEF LedgerInv
  <2>2. Cardinality(S) \in Nat /\ BatchLimit \in Nat
    BY FS_CardinalityType, QueueAssumption DEF LedgerInv
  <2>3. Excused
    BY <2>1, <2>2, QueueLengthBounds DEF Excused
  <2> QED
    BY <1>4, <2>3, ExcusedIsFaithful DEF hold
<1> QED
  BY <1>5, <1>6

(* The empty list has no entries.                                          *)
LEMMA EmptyRange == Range(<<>>) = {}
<1>1. Range(<<>>) = {<<>>[i] : i \in 1..Len(<<>>)}
  BY RangeEquality, EmptySeq
<1>2. 1..Len(<<>>) = {}
  BY EmptySeq
<1> QED
  BY <1>1, <1>2

(* The steps other than a hand-over and a stored result.                   *)
OtherStep ==
  \/ \E w \in Workers :
       \/ Dequeue(w) \/ DequeueReplyLost(w) \/ Requeue(w) \/ RequeueReplyLost(w)
       \/ StoreFails(w) \/ Ack(w) \/ RetryRemove(w) \/ RetryRemoveFails(w)
       \/ RetryAdd(w) \/ RetryAddReplyLost(w) \/ LastCallFails(w) \/ Crash(w)
  \/ Recovery
  \/ \E kind \in {"error", "ingestion"} : Fails(kind)
  \/ DeleteQueue

(* All of them are faithful.                                               *)
LEMMA OtherStepsFaithful ==
  ASSUME QueueTypeOK, HeldOK, LedgerInv, OtherStep
  PROVE  Faithful
<1>0. disturbed \in Nat
  BY QueueAssumption DEF QueueTypeOK
<1>1. ASSUME NEW kind, Disturb(kind)
      PROVE  Excused
  BY <1>0, <1>1 DEF Disturb, Excused
<1>11. ASSUME NEW due \in SUBSET Live, NEW batch \in Batches(due)
       PROVE  Range(pending) \subseteq Range(pending \o batch)
  <2>1. batch \in Seq(Live) /\ pending \in Seq(Live)
    BY BatchProperties, SeqMonotonic DEF QueueTypeOK
  <2> QED
    BY <2>1, RangeConcatenation
<1>2. ASSUME NEW w \in Workers, DequeueReplyLost(w)
      PROVE  Faithful
  BY <1>2, MoveKeepsEntries, SameIsFaithful DEF DequeueReplyLost
<1>12. ASSUME NEW w \in Workers, PushBack(w)
       PROVE  Entries' = Entries \union {task[w]} /\ phase[w] # "free"
  <2>1. Range(pending') = Range(pending) \union {task[w]}
    BY <1>12, RangeAppend DEF QueueTypeOK, PushBack, Marshal
  <2> QED
    BY <1>12, <2>1 DEF PushBack, Entries
<1>13. ASSUME NEW w \in Workers, SendOn(w)
       PROVE  Entries' = Entries \union {task[w]} /\ phase[w] # "free"
  BY <1>13 DEF SendOn, PushDead, Marshal, Entries
<1>14. ASSUME NEW w \in Workers, RequeueReplyLost(w) \/ RetryAddReplyLost(w)
       PROVE  Faithful
  <2>1. Entries' = Entries \union {task[w]} /\ phase[w] # "free" /\ UNCHANGED hold
    BY <1>12, <1>13, <1>14 DEF RequeueReplyLost, RetryAddReplyLost
  <2>3. Working' = Working /\ task' = task /\ w \in Working
    BY <2>1 DEF hold, Working
  <2>2. Remembered' = Remembered
    BY <2>1, <2>3 DEF Remembered
  <2> QED
    BY <2>2 DEF Faithful
<1>3. ASSUME NEW w \in Workers, Requeue(w)
      PROVE  Faithful
  BY <1>3, <1>12, ReleaseIsFaithful DEF Requeue
<1>4. ASSUME NEW w \in Workers, StoreFails(w)
      PROVE  Faithful
  <2>1. Entries' = Entries
    BY <1>4 DEF StoreFails, store, Entries
  <2>2. \A v \in Workers : (phase'[v] # "free" <=> phase[v] # "free") /\ task'[v] = task[v]
    BY <1>4 DEF QueueTypeOK, StoreFails
  <2>3. Remembered' = Remembered
    <3>1. Working' = Working
      BY <2>2 DEF Working
    <3> QED
      BY <2>1, <2>2, <3>1 DEF Remembered, Working
  <2> QED
    BY <2>3 DEF Faithful
<1>5. ASSUME NEW w \in Workers, RetryAdd(w)
      PROVE  Faithful
  BY <1>5, <1>13, ReleaseIsFaithful DEF RetryAdd
<1>6. ASSUME NEW w \in Workers, LastCallFails(w) \/ Crash(w)
      PROVE  Faithful
  <2>1. Entries' = Entries /\ Excused
    BY <1>1, <1>6 DEF LastCallFails, Crash, store, Entries
  <2>2. Release(w)
    BY <1>6 DEF LastCallFails, Crash
  <2> QED
    BY <2>1, <2>2, ReleaseMemory, ExcusedIsFaithful
<1>7. ASSUME NEW due \in SUBSET retry, NEW batch \in Batches(due), RequeueRetries(due, batch)
      PROVE  Faithful
  <2>1. /\ pending' = pending \o batch /\ UNCHANGED hold
        /\ Range(pending') \subseteq Entries'
        /\ Entries \subseteq Range(pending) \union Entries' \union due
        /\ Entries' \subseteq Entries \union Range(pending')
    BY <1>7 DEF RequeueRetries, Entries
  <2>2. Range(pending) \subseteq Range(pending')
    BY <2>1, <1>11 DEF QueueTypeOK
  <2> QED
    BY <2>1, <2>2, MoveIsFaithful
<1>8. ASSUME NEW due \in SUBSET processing, NEW batch \in Batches(due), RequeueStale(due, batch)
      PROVE  Faithful
  <2>1. /\ pending' = pending \o batch /\ UNCHANGED hold
        /\ Range(pending') \subseteq Entries'
        /\ Entries \subseteq Range(pending) \union Entries' \union due
        /\ Entries' \subseteq Entries \union Range(pending')
    BY <1>8 DEF RequeueStale, Entries
  <2>2. Range(pending) \subseteq Range(pending')
    BY <2>1, <1>11 DEF QueueTypeOK
  <2> QED
    BY <2>1, <2>2, MoveIsFaithful
<1>9. ASSUME NEW kind, Fails(kind)
      PROVE  Faithful
  BY <1>9, SameIsFaithful DEF Fails, store, Entries
<1>10. ASSUME DeleteQueue
       PROVE  Faithful
  <2>1. Entries' = {}
    BY <1>10, EmptyRange DEF DeleteQueue, Entries
  <2>2. Owed' = {}
    BY <1>10 DEF DeleteQueue, Owed
  <2> QED
    BY <1>10, <2>1, <2>2, ExcusedIsFaithful DEF DeleteQueue, hold, Excused
<1> QED
  BY <1>2, <1>3, <1>4, <1>5, <1>6, <1>7, <1>8, <1>9, <1>10, <1>14,
     DequeueIsFaithful, AckIsFaithful, RetryRemoveIsFaithful DEF OtherStep, Recovery
-----------------------------------------------------------------------------
(* Storing a result answers the URL of the task, which stays remembered.   *)
LEMMA StoreAnswers ==
  ASSUME QueueTypeOK, HeldOK, NEW w \in Workers, Store(w)
  PROVE  /\ Remembered' = Remembered
         /\ task[w].url \in Remembered /\ task[w].url \in Keys
         /\ results'[task[w].url] > 0
         /\ \A k \in Urls \ {task[w].url} : results'[k] = results[k]
         /\ UNCHANGED <<processing, retry, accepted, Owed, disturbed>>
<1>1. /\ Entries' = Entries /\ task' = task
      /\ phase[w] = "taken" /\ phase' = [phase EXCEPT ![w] = "stored"]
      /\ UNCHANGED <<processing, retry, accepted, discarded, disturbed>>
  BY DEF Store, store, ghosts, Entries
<1>2. Working' = Working
  BY <1>1 DEF QueueTypeOK, Working
<1>3. Remembered' = Remembered
  BY <1>1, <1>2 DEF Remembered
<1>4. Clean[task[w].url] = task[w].url /\ task[w].url \in Urls
  BY <1>1, ResultsGrow DEF HeldOK
<1>5. task[w].url \in Keys /\ task[w].url \in Remembered
  BY <1>1, <1>4, RememberedMeans DEF Keys
<1>6. results'[task[w].url] > 0
  BY ResultsGrow
<1>7. \A k \in Urls \ {task[w].url} : results'[k] = results[k]
  BY <1>4 DEF Store, QueueTypeOK
<1>8. Owed' = Owed
  BY <1>1 DEF Owed
<1> QED
  BY <1>1, <1>3, <1>5, <1>6, <1>7, <1>8

(* A hand-over: a first one, or one again.                                 *)
HandsOver(u) == Enqueue(u) \/ EnqueueResent(u) \/ EnqueueRepeated(u)

(* Handing over u makes exactly Clean[u] remembered, handed over and owed. *)
LEMMA EnqueueAccepts ==
  ASSUME QueueTypeOK, LedgerInv, NEW u \in Source, HandsOver(u)
  PROVE  /\ Remembered' = Remembered \union {Clean[u]}
         /\ Clean[u] \in Keys
         /\ KeysOf(accepted)' = KeysOf(accepted) \union {Clean[u]}
         /\ KeysOf(Owed)' = KeysOf(Owed) \union {Clean[u]}
         /\ UNCHANGED <<processing, retry, hold, results>>
         /\ disturbed > 0 => disturbed' > 0
<1>1. /\ u \in Urls
      /\ pending' = Append(pending, NewTask(u))
      /\ accepted' = accepted \union {u} /\ accepted' \ discarded' = (accepted \ discarded) \union {u}
      /\ UNCHANGED <<processing, retry, dead, hold, results>>
  BY QueueAssumption
     DEF HandsOver, Enqueue, EnqueueResent, EnqueueRepeated, EnqueueAgain, Marshal, QueueTypeOK
<1>7. disturbed > 0 => disturbed' > 0
  BY QueueAssumption
     DEF HandsOver, Enqueue, EnqueueResent, EnqueueRepeated, Disturb, QueueTypeOK
<1>2. Range(pending') = Range(pending) \union {NewTask(u)}
  BY <1>1, LiveIsTask, RangeAppend DEF QueueTypeOK
<1>3. Entries' = Entries \union {NewTask(u)}
  BY <1>1, <1>2 DEF Entries
<1>4. NewTask(u).url = u
  BY DEF NewTask
<1>5. Remembered' = Remembered \union {Clean[u]}
  <2>1. {Clean[t.url] : t \in Entries'} = {Clean[t.url] : t \in Entries} \union {Clean[u]}
    BY <1>3, <1>4
  <2>2. {Clean[task[w].url] : w \in Working}' = {Clean[task[w].url] : w \in Working}
    BY <1>1 DEF Working, hold
  <2> QED
    BY <2>1, <2>2 DEF Remembered
<1>6. Owed' = Owed \union {u}
  BY <1>1 DEF Owed
<1> QED
  BY <1>1, <1>5, <1>6, <1>7 DEF KeysOf, Keys

(* What every other step leaves of the bookkeeping.                        *)
LEMMA OtherStepsKeepBooks ==
  ASSUME QueueTypeOK, LedgerInv, OtherStep
  PROVE  /\ UNCHANGED <<accepted, results>>
         /\ Owed' \in {Owed, {}}
         /\ disturbed > 0 => disturbed' > 0
         /\ IsFiniteSet(processing') /\ IsFiniteSet(retry')
         /\ \A w \in Workers : phase'[w] = "unsaved" => phase[w] = "unsaved" \/ disturbed' > 0
<1> USE QueueAssumption DEF OtherStep, QueueTypeOK
<1>1. UNCHANGED <<accepted, results>>
  BY DEF Dequeue, DequeueReplyLost, MoveToProcessing, Requeue, RequeueReplyLost, PushBack,
         StoreFails, Ack, RetryRemove, RetryRemoveFails, RetryAdd, RetryAddReplyLost, SendOn,
         LastCallFails, Crash, Recovery, RequeueRetries,
         RequeueStale, Fails, DeleteQueue, ghosts
<1>2. discarded' = discarded \/ discarded' = accepted
  BY DEF Dequeue, DequeueReplyLost, MoveToProcessing, Requeue, RequeueReplyLost, PushBack,
         StoreFails, Ack, RetryRemove, RetryRemoveFails, RetryAdd, RetryAddReplyLost, SendOn,
         LastCallFails, Crash, Recovery, RequeueRetries,
         RequeueStale, Fails, DeleteQueue, ghosts
<1>3. disturbed' = disturbed \/ disturbed' = disturbed + 1
  BY DEF Dequeue, DequeueReplyLost, MoveToProcessing, Requeue, RequeueReplyLost, PushBack,
         StoreFails, Ack, RetryRemove, RetryRemoveFails, RetryAdd, RetryAddReplyLost, SendOn,
         LastCallFails, Crash, Recovery, RequeueRetries,
         RequeueStale, Fails, DeleteQueue, Disturb
<1>4. \E m, t : processing' \subseteq processing \union {m} /\ retry' \subseteq retry \union {t}
  BY DEF Dequeue, DequeueReplyLost, MoveToProcessing, Requeue, RequeueReplyLost, PushBack,
         StoreFails, Ack, RetryRemove, RetryRemoveFails, RetryAdd, RetryAddReplyLost, SendOn,
         LastCallFails, Crash, Recovery, RequeueRetries,
         RequeueStale, Fails, DeleteQueue, store
<1>5. IsFiniteSet(processing') /\ IsFiniteSet(retry')
  <2>1. PICK m, t : processing' \subseteq processing \union {m} /\ retry' \subseteq retry \union {t}
    BY <1>4
  <2> QED
    BY <2>1, FS_AddElement, FS_Subset DEF LedgerInv
<1>6. \A w \in Workers : phase'[w] = "unsaved" => phase[w] = "unsaved" \/ disturbed' > 0
  BY DEF Dequeue, DequeueReplyLost, Requeue, RequeueReplyLost, StoreFails, Ack, RetryRemove,
         RetryRemoveFails, RetryAdd, RetryAddReplyLost, LastCallFails, Crash, Recovery,
         RequeueRetries,
         RequeueStale, Fails, DeleteQueue, hold, Hold, Release, Disturb
<1> QED
  BY <1>1, <1>2, <1>3, <1>5, <1>6 DEF Owed
(* Every step is of one of the three kinds.                                *)
LEMMA StepKinds ==
  ASSUME QueueNext
  PROVE  (\E u \in Source : HandsOver(u)) \/ (\E w \in Workers : Store(w)) \/ OtherStep
BY DEF QueueNext, WorkerStep, OtherStep, HandsOver

LEMMA LedgerInvInit == QueueInit => LedgerInv
<1> SUFFICES ASSUME QueueInit
             PROVE  LedgerInv
  OBVIOUS
<1>1. Entries = {}
  BY EmptyRange DEF QueueInit, InitStore, Entries
<1>2. Remembered = {}
  BY <1>1, RememberedMeans DEF QueueInit
<1> QED
  BY <1>2, FS_EmptySet DEF QueueInit, InitStore, LedgerInv

LEMMA LedgerInvStep ==
  ASSUME QueueTypeOK, HeldOK, LedgerInv, QueueNext
  PROVE  LedgerInv'
<1>1. ASSUME NEW u \in Source, HandsOver(u)
      PROVE  LedgerInv'
  <2>1. Remembered' \subseteq KeysOf(accepted)' /\ KeysOf(accepted) \subseteq KeysOf(accepted)'
    BY <1>1, EnqueueAccepts DEF LedgerInv
  <2> QED
    BY <1>1, <2>1, EnqueueAccepts DEF LedgerInv, hold
<1>2. ASSUME NEW w \in Workers, Store(w)
      PROVE  LedgerInv'
  <2>1. KeysOf(accepted)' = KeysOf(accepted)
    BY <1>2, StoreAnswers DEF KeysOf
  <2>2. Remembered' \subseteq KeysOf(accepted)'
    BY <1>2, <2>1, StoreAnswers DEF LedgerInv
  <2>3. \A u \in Urls : results'[u] > 0 => u \in KeysOf(accepted)'
    <3> SUFFICES ASSUME NEW u \in Urls, results'[u] > 0
                 PROVE  u \in KeysOf(accepted)'
      OBVIOUS
    <3>1. CASE u = task[w].url
      BY <1>2, <2>1, <3>1, StoreAnswers DEF LedgerInv
    <3>2. CASE u # task[w].url
      BY <1>2, <2>1, <3>2, StoreAnswers DEF LedgerInv
    <3> QED
      BY <3>1, <3>2
  <2>4. \A v \in Workers : phase'[v] = "unsaved" => phase[v] = "unsaved"
    BY <1>2 DEF QueueTypeOK, Store
  <2> QED
    BY <1>2, <2>2, <2>3, <2>4, StoreAnswers DEF LedgerInv
<1>3. ASSUME OtherStep
      PROVE  LedgerInv'
  <2>1. KeysOf(accepted)' = KeysOf(accepted)
    BY <1>3, OtherStepsKeepBooks DEF KeysOf
  <2>2. Remembered' \subseteq Remembered
    BY <1>3, OtherStepsFaithful DEF Faithful
  <2> QED
    BY <1>3, <2>1, <2>2, OtherStepsKeepBooks DEF LedgerInv
<1> QED
  BY <1>1, <1>2, <1>3, StepKinds

LEMMA LedgerInvStutter ==
  ASSUME LedgerInv, UNCHANGED queueVars
  PROVE  LedgerInv'
<1>1. Remembered' = Remembered /\ KeysOf(accepted)' = KeysOf(accepted)
  BY DEF queueVars, store, hold, ghosts, Remembered, Entries, Working, KeysOf
<1> QED
  BY <1>1 DEF LedgerInv, queueVars, store, hold, ghosts

(* The inductive invariant of the refinement: nothing is queued, held or   *)
(* answered that the ingestion has not enqueued (queue.go:43-62).          *)
THEOREM LedgerInvariant == QueueSpec => [](QueueTypeOK /\ HeldOK /\ LedgerInv)
<1>1. QueueInit => LedgerInv
  BY LedgerInvInit
<1>2. QueueTypeOK /\ HeldOK /\ LedgerInv /\ [QueueNext]_queueVars => LedgerInv'
  BY LedgerInvStep, LedgerInvStutter
<1> QED
  BY <1>1, <1>2, QueueInvariant, PTL DEF QueueSpec

-----------------------------------------------------------------------------
(* The refinement: the initial states ...                                  *)
LEMMA PromiseInit == QueueInit => Promise!LedgerInit
<1> SUFFICES ASSUME QueueInit
             PROVE  Promise!LedgerInit
  OBVIOUS
<1>1. KeysOf(accepted) = {} /\ KeysOf(Owed) = {} /\ disturbed = 0
  BY DEF QueueInit, KeysOf, Owed
<1>2. QueueLength = 0
  BY FS_EmptySet, EmptySeq DEF QueueInit, InitStore, QueueLength
<1>3. \A k \in Keys : StatusOf(k) = "new"
  BY <1>1 DEF StatusOf
<1> QED
  BY <1>1, <1>2, <1>3 DEF Promise!LedgerInit

(* ... and every step: a hand-over accepts a URL,                          *)
LEMMA EnqueueImplements ==
  ASSUME QueueTypeOK, LedgerInv, NEW u \in Source, HandsOver(u)
  PROVE  Promise!Accept(Clean[u])
<1> DEFINE old == [k \in Keys |-> StatusOf(k)]
           key == Clean[u]
<1>1. key \in Keys /\ KeysOf(Owed)' = KeysOf(Owed) \union {key}
  BY EnqueueAccepts
<1>2. \A k \in Keys : StatusOf(k)' = IF k = key /\ StatusOf(k) # "answered" THEN "kept" ELSE StatusOf(k)
  <2> SUFFICES ASSUME NEW k \in Keys
               PROVE  StatusOf(k)' = IF k = key /\ StatusOf(k) # "answered" THEN "kept" ELSE StatusOf(k)
    OBVIOUS
  <2>1. k \in Urls
    BY QueueAssumption DEF Keys
  <2>2. /\ k \in KeysOf(accepted)' <=> k \in KeysOf(accepted) \/ k = key
        /\ k \in Remembered' <=> k \in Remembered \/ k = key
        /\ results' = results
        /\ results[k] > 0 => k \in KeysOf(accepted)
    BY <2>1, EnqueueAccepts DEF LedgerInv
  <2>3. CASE k = key
    BY <2>2, <2>3 DEF StatusOf
  <2>4. CASE k # key
    BY <2>2, <2>4 DEF StatusOf
  <2> QED
    BY <2>3, <2>4
<1>3. [k \in Keys |-> StatusOf(k)]' = [old EXCEPT ![key] = IF @ = "answered" THEN @ ELSE "kept"]
  BY <1>1, <1>2
<1> QED
  BY <1>1, <1>3 DEF Promise!Accept

(* a stored result answers one, or changes nothing,                        *)
LEMMA StoreImplements ==
  ASSUME QueueTypeOK, HeldOK, LedgerInv, NEW w \in Workers, Store(w)
  PROVE  \/ \E k \in Keys : Promise!Answer(k)
         \/ /\ \A k \in Keys : StatusOf(k)' = StatusOf(k)
            /\ KeysOf(Owed)' = KeysOf(Owed)
<1> DEFINE old == [k \in Keys |-> StatusOf(k)]
<1>1. PICK key \in Keys : key = task[w].url
  BY StoreAnswers
<1>2. /\ key \in KeysOf(accepted) /\ key \in Remembered
      /\ Remembered' = Remembered /\ KeysOf(accepted)' = KeysOf(accepted)
      /\ KeysOf(Owed)' = KeysOf(Owed)
      /\ results'[key] > 0
  BY <1>1, StoreAnswers DEF LedgerInv, KeysOf
<1>3. ASSUME NEW k \in Keys, k # key
      PROVE  StatusOf(k)' = StatusOf(k)
  <2>1. k \in Urls
    BY QueueAssumption DEF Keys
  <2>2. results'[k] = results[k]
    BY <1>1, <1>3, <2>1, StoreAnswers
  <2> QED
    BY <1>2, <2>2 DEF StatusOf
<1>4. StatusOf(key) \in {"kept", "answered"} /\ StatusOf(key)' = "answered"
  BY <1>2 DEF StatusOf
<1>5. CASE StatusOf(key) = "answered"
  <2>1. \A k \in Keys : StatusOf(k)' = StatusOf(k)
    BY <1>3, <1>4, <1>5
  <2> QED
    BY <1>2, <2>1
<1>6. CASE StatusOf(key) = "kept"
  <2>1. \A k \in Keys : StatusOf(k)' = IF k = key THEN "answered" ELSE StatusOf(k)
    BY <1>3, <1>4
  <2>2. [k \in Keys |-> StatusOf(k)]' = [old EXCEPT ![key] = "answered"]
    BY <2>1
  <2> QED
    BY <1>2, <1>6, <2>2 DEF Promise!Answer
<1> QED
  BY <1>4, <1>5, <1>6

(* and every other step forgets some URLs, mostly none.                    *)
LEMMA OtherStepImplements ==
  ASSUME QueueTypeOK, HeldOK, LedgerInv, OtherStep
  PROVE  \E K \in SUBSET Keys : Promise!Forget(K)
<1> DEFINE lost == {k \in Keys : StatusOf(k) = "kept" /\ StatusOf(k)' # "kept"}
           old == [k \in Keys |-> StatusOf(k)]
<1>1. /\ KeysOf(accepted)' = KeysOf(accepted) /\ results' = results
      /\ Remembered' \subseteq Remembered
  BY OtherStepsKeepBooks, OtherStepsFaithful DEF Faithful, KeysOf
<1>2. \A k \in Keys : StatusOf(k)' = IF k \in lost THEN "gone" ELSE StatusOf(k)
  BY <1>1 DEF StatusOf
<1>3. [k \in Keys |-> StatusOf(k)]' = [k \in Keys |-> IF k \in lost THEN "gone" ELSE old[k]]
  BY <1>2
<1>4. KeysOf(Owed)' \in {KeysOf(Owed), {}}
  BY OtherStepsKeepBooks DEF KeysOf
<1>5. lost \intersect KeysOf(Owed)' = {} \/ disturbed' > 0 \/ QueueLength > BatchLimit
  <2>1. CASE Excused
    BY <2>1 DEF Excused, KeysOf
  <2>2. CASE ~Excused
    <3>1. \A k \in Remembered : k \in Remembered' \/ results[k] > 0
      BY <1>1, <2>2, OtherStepsFaithful DEF Faithful
    <3>2. lost = {}
      BY <1>1, <3>1 DEF StatusOf
    <3> QED
      BY <3>2
  <2> QED
    BY <2>1, <2>2
<1>6. Promise!Forget(lost)
  BY <1>3, <1>4, <1>5 DEF Promise!Forget
<1> QED
  BY <1>6

(* The counters of the ledger follow from those of the queue.              *)
LEMMA StepImplements ==
  ASSUME QueueTypeOK, HeldOK, LedgerInv, QueueTypeOK', LedgerInv', QueueNext
  PROVE  [Promise!LedgerNext]_Promise!ledgerVars
<1>1. (disturbed > 0)' \in BOOLEAN /\ (disturbed > 0 => disturbed' > 0)
  BY StepKinds, EnqueueAccepts, StoreAnswers, OtherStepsKeepBooks
<1>2. QueueLength' \in Nat
  <2>1. Len(pending') \in Nat
    BY DEF QueueTypeOK
  <2>2. Cardinality(retry') \in Nat /\ Cardinality(processing') \in Nat
    BY FS_CardinalityType DEF LedgerInv
  <2> QED
    BY <2>1, <2>2 DEF QueueLength
<1>3. ASSUME NEW u \in Source, HandsOver(u)
      PROVE  \E k \in Keys : Promise!Accept(k)
  BY <1>3, EnqueueAccepts, EnqueueImplements
<1>4. ASSUME NEW w \in Workers, Store(w)
      PROVE  \/ \E k \in Keys : Promise!Answer(k)
             \/ Promise!Forget({})
  <2>1. CASE /\ \A k \in Keys : StatusOf(k)' = StatusOf(k)
             /\ KeysOf(Owed)' = KeysOf(Owed)
    BY <2>1 DEF Promise!Forget
  <2> QED
    BY <1>4, <2>1, StoreImplements
<1>5. \/ \E k \in Keys : Promise!Accept(k) \/ Promise!Answer(k)
      \/ \E K \in SUBSET Keys : Promise!Forget(K)
  BY <1>3, <1>4, StepKinds, OtherStepImplements
<1> QED
  BY <1>1, <1>2, <1>5 DEF Promise!LedgerNext
LEMMA StutterImplements ==
  ASSUME UNCHANGED queueVars
  PROVE  UNCHANGED Promise!ledgerVars
<1>1. /\ Remembered' = Remembered /\ KeysOf(accepted)' = KeysOf(accepted)
      /\ KeysOf(Owed)' = KeysOf(Owed) /\ QueueLength' = QueueLength
      /\ UNCHANGED <<results, disturbed>>
  BY DEF queueVars, store, hold, ghosts, Remembered, Entries, Working, KeysOf, Owed, QueueLength
<1>2. \A k \in Keys : StatusOf(k)' = StatusOf(k)
  BY <1>1 DEF StatusOf
<1> QED
  BY <1>1, <1>2 DEF Promise!ledgerVars

(* The queue keeps its promise, whatever the numbers of URLs, workers,     *)
(* attempts and faults: without faults and with at most BatchLimit entries *)
(* in the queue every URL of a job that is not stopped is kept until it is *)
(* answered, and no answer is made up or taken back (queue.go).            *)
THEOREM QueueKeepsItsPromise == QueueSpec => KeepsItsPromise
<1>1. QueueInit => Promise!LedgerInit
  BY PromiseInit
<1>2. /\ QueueTypeOK /\ HeldOK /\ LedgerInv
      /\ (QueueTypeOK /\ HeldOK /\ LedgerInv)'
      /\ [QueueNext]_queueVars
      => [Promise!LedgerNext]_Promise!ledgerVars
  BY StepImplements, StutterImplements
<1> QED
  BY <1>1, <1>2, LedgerInvariant, PTL DEF QueueSpec, KeepsItsPromise, Promise!LedgerSpec
=============================================================================
