-------------------------- MODULE CrawlQueueProofs --------------------------
(* Theorems about the queue, for every value of its constants.             *)
EXTENDS CrawlQueue, SequenceTheorems, FiniteSetTheorems, TLAPS

(* A frame that leaves the dead list alone leaves both its parts alone.    *)
USE DEF deadList

-----------------------------------------------------------------------------
(* LPUSH adds the pushed task to the entries of the list, and nothing      *)
(* else.                                                                   *)
LEMMA RangeAppend ==
  ASSUME NEW S, NEW s \in Seq(S), NEW e \in S
  PROVE  /\ Append(s, e) \in Seq(S)
         /\ Range(Append(s, e)) = Range(s) \union {e}
<1>1. <<e>> \in Seq(S) /\ Range(<<e>>) = {e}
  <2>1. <<e>> \in Seq(S) /\ Len(<<e>>) = 1 /\ <<e>>[1] = e
    OBVIOUS
  <2>2. Range(<<e>>) = {<<e>>[i] : i \in 1..Len(<<e>>)}
    BY <2>1, RangeEquality
  <2> QED
    BY <2>1, <2>2
<1>2. Append(s, e) = s \o <<e>>
  BY AppendIsConcat
<1>3. Append(s, e) \in Seq(S)
  BY AppendProperties
<1>4. Range(s \o <<e>>) = Range(s) \union Range(<<e>>)
  BY <1>1, RangeConcatenation
<1> QED
  BY <1>1, <1>2, <1>3, <1>4

(* RPOP takes one entry; it and those left are the entries there were.     *)
LEMMA RangeHeadTail ==
  ASSUME NEW S, NEW s \in Seq(S), s # <<>>
  PROVE  /\ Head(s) \in S
         /\ Tail(s) \in Seq(S)
         /\ Range(s) = {Head(s)} \union Range(Tail(s))
<1>1. /\ Head(s) \in S
      /\ Tail(s) \in Seq(S)
      /\ Len(Tail(s)) = Len(s) - 1
      /\ \A i \in 1..Len(Tail(s)) : Tail(s)[i] = s[i + 1]
      /\ Len(s) \in Nat \ {0}
      /\ Head(s) = s[1]
  BY HeadTailProperties, EmptySeq
<1>2. Range(s) = {s[i] : i \in 1..Len(s)}
  BY RangeEquality
<1>3. Range(Tail(s)) = {Tail(s)[i] : i \in 1..(Len(s) - 1)}
  BY <1>1, RangeEquality
<1>4. Range(s) \subseteq {Head(s)} \union Range(Tail(s))
  <2> SUFFICES ASSUME NEW i \in 1..Len(s)
               PROVE  s[i] \in {Head(s)} \union Range(Tail(s))
    BY <1>2
  <2>1. CASE i = 1
    BY <2>1, <1>1
  <2>2. CASE i # 1
    <3>1. i - 1 \in 1..(Len(s) - 1) /\ Tail(s)[i - 1] = s[(i - 1) + 1] /\ (i - 1) + 1 = i
      BY <2>2, <1>1
    <3> QED
      BY <3>1, <1>3
  <2> QED
    BY <2>1, <2>2
<1>5. Range(Tail(s)) \subseteq Range(s)
  <2> SUFFICES ASSUME NEW i \in 1..(Len(s) - 1)
               PROVE  Tail(s)[i] \in Range(s)
    BY <1>3
  <2>1. i + 1 \in 1..Len(s) /\ Tail(s)[i] = s[i + 1]
    BY <1>1
  <2> QED
    BY <2>1, <1>2
<1>6. Head(s) \in Range(s)
  BY <1>1, <1>2
<1> QED
  BY <1>1, <1>4, <1>5, <1>6

(* The members a recovery script returns are a list of due members.        *)
LEMMA BatchProperties ==
  ASSUME NEW due, NEW batch \in Batches(due)
  PROVE  /\ batch \in Seq(due)
         /\ Range(batch) \subseteq due
<1>1. PICK n \in 0..BatchLimit : batch \in [1..n -> due]
  BY DEF Batches, Injection
<1>2. n \in Nat
  BY QueueAssumption
<1>3. batch \in Seq(due)
  BY <1>1, <1>2
<1> QED
  BY <1>3, RangeOfSeq

-----------------------------------------------------------------------------
(* A decoded task is as valid as its member, and decoding it again leaves  *)
(* it as it is.                                                            *)
LEMMA UnmarshalProperties ==
  ASSUME NEW t \in Live
  PROVE  /\ Unmarshal(t) \in Live
         /\ Unmarshal(t).url = Clean[t.url]
         /\ Clean[Unmarshal(t).url] = Unmarshal(t).url
         /\ Unmarshal(t) \in Task
         /\ Unmarshal(t) # NoTask
BY QueueAssumption DEF Unmarshal, Live, Task

(* A failed attempt is counted (task.Retries++), and nothing else of the   *)
(* task changes.                                                           *)
LEMMA AttemptProperties ==
  ASSUME NEW t \in Live
  PROVE  LET next == [t EXCEPT !.retries = @ + 1]
         IN  /\ next \in Task
             /\ next # NoTask
             /\ next.retries > 0
             /\ next.url = t.url
BY QueueAssumption DEF Live, Task

(* The tasks that are not exhausted are those the live lists may hold, and *)
(* a new task is one of them.                                              *)
LEMMA LiveIsTask ==
  /\ \A t \in Live : t \in Task /\ ~Exhausted(t)
  /\ \A t \in Task : ~Exhausted(t) => t \in Live
  /\ \A u \in Urls : NewTask(u) \in Live
BY QueueAssumption DEF Live, Task, Exhausted, NewTask

-----------------------------------------------------------------------------
(* The empty queue is well typed.                                          *)
LEMMA QueueTypeInit == QueueInit => QueueTypeOK
BY QueueAssumption, EmptySeq
   DEF QueueInit, InitStore, QueueTypeOK, Phases

(* A stored result adds one document for its URL, and no URL loses one.    *)
LEMMA ResultsGrow ==
  ASSUME QueueTypeOK, NEW w \in Workers, Store(w)
  PROVE  /\ results' \in [Urls -> 0..ResultCap]
         /\ task[w].url \in Urls
         /\ results'[task[w].url] > 0
         /\ \A v \in Urls : results[v] > 0 => results'[v] > 0
<1> DEFINE old == results[task[w].url]
           new == IF old < ResultCap THEN old + 1 ELSE old
<1>1. task[w].url \in Urls
  BY DEF Store, QueueTypeOK, Live
<1>2. new \in 1..ResultCap
  BY <1>1, QueueAssumption DEF QueueTypeOK
<1>3. results' = [results EXCEPT ![task[w].url] = new]
  BY DEF Store
<1> HIDE DEF new
<1>4. results \in [Urls -> 0..ResultCap]
  BY DEF QueueTypeOK
<1>5. results' \in [Urls -> 0..ResultCap]
  BY <1>1, <1>2, <1>3, <1>4, QueueAssumption
<1>6. results'[task[w].url] > 0
  BY <1>1, <1>2, <1>3, <1>4, QueueAssumption
<1>7. \A v \in Urls : results[v] > 0 => results'[v] > 0
  BY <1>1, <1>2, <1>3, <1>4, QueueAssumption
<1> QED
  BY <1>1, <1>5, <1>6, <1>7

(* Every action of the queue keeps it well typed.                          *)
LEMMA QueueTypeStep ==
  ASSUME QueueTypeOK, QueueNext
  PROVE  QueueTypeOK'
<1> USE QueueAssumption DEF QueueTypeOK, Phases
<1>1. ASSUME NEW u \in Source, Enqueue(u)
      PROVE  QueueTypeOK'
  <2>1. pending' \in Seq(Live)
    BY <1>1, LiveIsTask, RangeAppend DEF Enqueue, Marshal
  <2> QED
    BY <1>1, <2>1 DEF Enqueue, hold
<1>19. ASSUME NEW u \in Source, EnqueueResent(u) \/ EnqueueRepeated(u)
       PROVE  QueueTypeOK'
  <2>1. EnqueueAgain(u)
    BY <1>19 DEF EnqueueResent, EnqueueRepeated
  <2>2. pending' \in Seq(Live)
    BY <2>1, LiveIsTask, RangeAppend DEF EnqueueAgain, Marshal
  <2>3. disturbed' \in 0..MaxDisturbances
    BY <1>19 DEF EnqueueResent, EnqueueRepeated, Disturb
  <2> QED
    BY <2>1, <2>2, <2>3 DEF EnqueueAgain, hold
<1>2. ASSUME MoveToProcessing
      PROVE  pending' \in Seq(Live) /\ processing' \subseteq Live /\ Head(pending) \in Live
  BY <1>2, RangeHeadTail DEF MoveToProcessing
<1>3. ASSUME NEW w \in Workers, Dequeue(w)
      PROVE  QueueTypeOK'
  <2>1. pending' \in Seq(Live) /\ processing' \subseteq Live /\ Head(pending) \in Live
    BY <1>2, <1>3 DEF Dequeue
  <2>2. /\ Unmarshal(Head(pending)) \in Live
        /\ Unmarshal(Head(pending)) \in Task
        /\ Unmarshal(Head(pending)) # NoTask
    BY <2>1, UnmarshalProperties
  <2> QED
    BY <1>3, <2>1, <2>2 DEF Dequeue, MoveToProcessing, Hold, ghosts
<1>4. ASSUME NEW w \in Workers, DequeueReplyLost(w)
      PROVE  QueueTypeOK'
  BY <1>2, <1>4 DEF DequeueReplyLost, MoveToProcessing, Disturb, ghosts, hold
<1>5. ASSUME NEW w \in Workers, Requeue(w)
      PROVE  QueueTypeOK'
  <2>1. pending' \in Seq(Live)
    BY <1>5, RangeAppend DEF Requeue, PushBack, Marshal
  <2> QED
    BY <1>5, <2>1 DEF Requeue, PushBack, Release, Hold, ghosts
<1>20. ASSUME NEW w \in Workers, RequeueReplyLost(w)
       PROVE  QueueTypeOK'
  <2>1. pending' \in Seq(Live)
    BY <1>20, RangeAppend DEF RequeueReplyLost, PushBack, Marshal
  <2> QED
    BY <1>20, <2>1 DEF RequeueReplyLost, PushBack, Disturb, hold, ghosts
<1>6. ASSUME NEW w \in Workers, Store(w)
      PROVE  QueueTypeOK'
  <2>1. results' \in [Urls -> 0..ResultCap]
    BY <1>6, ResultsGrow
  <2>2. /\ phase[w] = "taken"
        /\ phase' = [phase EXCEPT ![w] = "stored"]
        /\ UNCHANGED <<pending, processing, retry, deadList, task, accepted, discarded, disturbed>>
    BY <1>6 DEF Store, store, ghosts
  <2> QED
    BY <2>1, <2>2
<1>7. ASSUME NEW w \in Workers, StoreFails(w)
      PROVE  QueueTypeOK'
  BY <1>7 DEF StoreFails, store, ghosts, Disturb
<1>8. ASSUME NEW w \in Workers, Ack(w)
      PROVE  QueueTypeOK'
  BY <1>8 DEF Ack, Release, Hold, ghosts
<1>9. ASSUME NEW w \in Workers, RetryRemove(w)
      PROVE  QueueTypeOK'
  BY <1>9, AttemptProperties DEF RetryRemove, Hold, ghosts
<1>10. ASSUME NEW w \in Workers, RetryRemoveFails(w)
       PROVE  QueueTypeOK'
  BY <1>10, AttemptProperties DEF RetryRemoveFails, Hold, ghosts, store, Disturb
<1>21. ASSUME NEW w \in Workers, SendOn(w)
       PROVE  /\ dead' \subseteq {t \in Task : Exhausted(t)} /\ deadAgain' \subseteq dead'
              /\ retry' \subseteq {t \in Live : t.retries > 0}
  <2>1. task[w] \in Task /\ task[w].retries > 0
    BY <1>21 DEF SendOn
  <2> QED
    BY <1>21, <2>1, LiveIsTask DEF SendOn, PushDead, Marshal
<1>22. ASSUME NEW w \in Workers, RetryAddReplyLost(w)
       PROVE  QueueTypeOK'
  <2>1. SendOn(w)
    BY <1>22 DEF RetryAddReplyLost
  <2> QED
    BY <1>21, <1>22, <2>1 DEF RetryAddReplyLost, SendOn, Disturb, hold, ghosts
<1>11. ASSUME NEW w \in Workers, RetryAdd(w)
       PROVE  QueueTypeOK'
  <2>1. SendOn(w)
    BY <1>11 DEF RetryAdd
  <2>2. /\ dead' \subseteq {t \in Task : Exhausted(t)} /\ deadAgain' \subseteq dead'
        /\ retry' \subseteq {t \in Live : t.retries > 0}
    BY <1>21, <2>1
  <2>3. /\ task' = [task EXCEPT ![w] = NoTask]
        /\ phase' = [phase EXCEPT ![w] = "free"]
        /\ UNCHANGED <<pending, processing, results, accepted, discarded, disturbed>>
    BY <1>11 DEF RetryAdd, SendOn, Release, Hold, ghosts
  <2> QED
    BY <2>2, <2>3
<1>12. ASSUME NEW w \in Workers, LastCallFails(w)
       PROVE  QueueTypeOK'
  BY <1>12 DEF LastCallFails, Release, Hold, ghosts, store, Disturb
<1>13. ASSUME NEW w \in Workers, Crash(w)
       PROVE  QueueTypeOK'
  BY <1>13 DEF Crash, Release, Hold, ghosts, store, Disturb
<1>14. ASSUME NEW due, due \subseteq Live, NEW batch \in Batches(due),
              pending' = pending \o batch
       PROVE  pending' \in Seq(Live)
  BY <1>14, BatchProperties, SeqMonotonic, ConcatProperties
<1>15. ASSUME NEW due \in SUBSET retry, NEW batch \in Batches(due), RequeueRetries(due, batch)
       PROVE  QueueTypeOK'
  <2>1. pending' \in Seq(Live)
    BY <1>14, <1>15 DEF RequeueRetries
  <2> QED
    BY <1>15, <2>1 DEF RequeueRetries, hold, ghosts
<1>16. ASSUME NEW due \in SUBSET processing, NEW batch \in Batches(due), RequeueStale(due, batch)
       PROVE  QueueTypeOK'
  <2>1. pending' \in Seq(Live)
    BY <1>14, <1>16 DEF RequeueStale
  <2>2. disturbed' \in 0..MaxDisturbances
    BY <1>16 DEF RequeueStale, Disturb
  <2> QED
    BY <1>16, <2>1, <2>2 DEF RequeueStale, hold, ghosts
<1>17. ASSUME NEW kind, Fails(kind)
       PROVE  QueueTypeOK'
  BY <1>17 DEF Fails, store, hold, ghosts, Disturb
<1>18. ASSUME DeleteQueue
       PROVE  QueueTypeOK'
  BY <1>18, EmptySeq DEF DeleteQueue, hold
<1> QED
  BY <1>1, <1>3, <1>4, <1>5, <1>6, <1>7, <1>8, <1>9, <1>10, <1>11, <1>12, <1>13,
     <1>15, <1>16, <1>17, <1>18, <1>19, <1>20, <1>22
     DEF QueueNext, WorkerStep, Recovery

(* So does a step of something else.                                       *)
LEMMA QueueTypeStutter ==
  ASSUME QueueTypeOK, UNCHANGED queueVars
  PROVE  QueueTypeOK'
BY DEF QueueTypeOK, queueVars, store, hold, ghosts

(* In every reachable state of every instance the four keys and the        *)
(* workers' memory are as QueueTypeOK says: no task is attempted more than *)
(* MaxRetries + 1 times, and only exhausted tasks are dead (queue.go).     *)
THEOREM QueueTypeCorrect == QueueSpec => []QueueTypeOK
<1>1. QueueInit => QueueTypeOK
  BY QueueTypeInit
<1>2. QueueTypeOK /\ [QueueNext]_queueVars => QueueTypeOK'
  BY QueueTypeStep, QueueTypeStutter
<1> QED
  BY <1>1, <1>2, PTL DEF QueueSpec

-----------------------------------------------------------------------------
(* At first no worker holds a task.                                        *)
LEMMA HeldInit == QueueInit => HeldOK
BY DEF QueueInit, HeldOK

(* Every action keeps the held tasks decoded, and a stored one with a      *)
(* result.                                                                 *)
LEMMA HeldStep ==
  ASSUME QueueTypeOK, HeldOK, QueueNext
  PROVE  HeldOK'
<1> USE QueueAssumption DEF HeldOK
<1>1. ASSUME NEW u \in Source, Enqueue(u)
      PROVE  HeldOK'
  BY <1>1 DEF Enqueue, hold
<1>2. ASSUME NEW w \in Workers, Dequeue(w)
      PROVE  HeldOK'
  <2>1. Head(pending) \in Live
    BY <1>2, RangeHeadTail DEF QueueTypeOK, Dequeue, MoveToProcessing
  <2>2. Clean[Unmarshal(Head(pending)).url] = Unmarshal(Head(pending)).url
    BY <2>1, UnmarshalProperties
  <2> QED
    BY <1>2, <2>2 DEF QueueTypeOK, Dequeue, MoveToProcessing, Hold
<1>3. ASSUME NEW w \in Workers, Store(w)
      PROVE  HeldOK'
  <2>1. \A v \in Urls : results[v] > 0 => results'[v] > 0
    BY <1>3, ResultsGrow
  <2>2. results'[task[w].url] > 0
    BY <1>3, ResultsGrow
  <2>3. phase' = [phase EXCEPT ![w] = "stored"] /\ task' = task /\ phase[w] = "taken"
    BY <1>3 DEF Store
  <2>4. \A v \in Workers : phase[v] \in {"taken", "stored"} => task[v].url \in Urls
    BY DEF QueueTypeOK, Live
  <2> QED
    BY <2>1, <2>2, <2>3, <2>4 DEF QueueTypeOK
<1>4. ASSUME NEW w \in Workers, StoreFails(w)
      PROVE  HeldOK'
  BY <1>4 DEF StoreFails, QueueTypeOK
<1>5. ASSUME NEW w \in Workers, Release(w), UNCHANGED results
      PROVE  HeldOK'
  BY <1>5 DEF Release, Hold, QueueTypeOK
<1>6. ASSUME NEW w \in Workers, phase[w] = "taken", UNCHANGED results,
             Hold(w, [task[w] EXCEPT !.retries = @ + 1], "removed")
      PROVE  HeldOK'
  <2>1. [task[w] EXCEPT !.retries = @ + 1].url = task[w].url
    BY <1>6, AttemptProperties DEF QueueTypeOK
  <2> QED
    BY <1>6, <2>1 DEF Hold, QueueTypeOK
<1>7. ASSUME UNCHANGED <<task, phase, results>>
      PROVE  HeldOK'
  BY <1>7
<1> QED
  BY <1>1, <1>2, <1>3, <1>4, <1>5, <1>6, <1>7
     DEF QueueNext, WorkerStep, Recovery, EnqueueResent, EnqueueRepeated, EnqueueAgain,
         DequeueReplyLost, MoveToProcessing, Requeue, RequeueReplyLost, PushBack, Ack,
         RetryRemove, RetryRemoveFails, RetryAdd, RetryAddReplyLost, SendOn,
         LastCallFails, Crash, Fails, RequeueRetries, RequeueStale, DeleteQueue, hold

(* What a step does that loses nothing: an entry that leaves the queue is  *)
(* in a gap or has a result, a worker that leaves the gap has put its task *)
(* into the queue, results stay.                                           *)
LosesNothing ==
  /\ \A t \in Entries :
       \/ t \in Entries'
       \/ \E w \in Workers : phase'[w] = "removed" /\ task'[w].url = t.url
       \/ results'[Clean[t.url]] > 0
  /\ \A w \in Workers :
       phase[w] = "removed" =>
         \/ phase'[w] = "removed" /\ task'[w].url = task[w].url
         \/ \E t \in Entries' : t.retries > 0 /\ t.url = task[w].url
  /\ \A v \in Urls : results[v] > 0 => results'[v] > 0

(* Such a step leaves every accounted URL accounted.                       *)
LEMMA StaysAccounted ==
  ASSUME LosesNothing, NEW u \in Urls, Accounted(u)
  PROVE  Accounted(u)'
<1>1. CASE Queued(u)
  <2>1. PICK t \in Entries : Clean[t.url] = Clean[u]
    BY <1>1 DEF Queued, Same
  <2>2. CASE t \in Entries'
    BY <2>1, <2>2 DEF Accounted, Queued, Same
  <2>3. CASE \E w \in Workers : phase'[w] = "removed" /\ task'[w].url = t.url
    BY <2>1, <2>3 DEF Accounted, InGap, Same
  <2>4. CASE results'[Clean[t.url]] > 0
    BY <2>1, <2>4 DEF Accounted
  <2> QED
    BY <2>2, <2>3, <2>4 DEF LosesNothing
<1>2. CASE InGap(u)
  <2>1. PICK w \in Workers : phase[w] = "removed" /\ Clean[task[w].url] = Clean[u]
    BY <1>2 DEF InGap, Same
  <2>2. CASE phase'[w] = "removed" /\ task'[w].url = task[w].url
    BY <2>1, <2>2 DEF Accounted, InGap, Same
  <2>3. CASE \E t \in Entries' : t.url = task[w].url
    BY <2>1, <2>3 DEF Accounted, Queued, Same
  <2> QED
    BY <2>1, <2>2, <2>3 DEF LosesNothing
<1>3. CASE results[Clean[u]] > 0
  BY <1>3, QueueAssumption DEF Accounted, LosesNothing
<1> QED
  BY <1>1, <1>2, <1>3 DEF Accounted

(* u has failed at least once, or has a result.                            *)
Tried(u) ==
  \/ results[Clean[u]] > 0
  \/ InGap(u)
  \/ \E t \in Entries : t.retries > 0 /\ Same(t.url, u)

(* A failed attempt, too, is not forgotten.                                *)
LEMMA StaysTried ==
  ASSUME LosesNothing, NEW u \in Urls, Tried(u)
  PROVE  Tried(u)'
<1>1. ASSUME NEW t \in Entries, t.retries > 0, Clean[t.url] = Clean[u]
      PROVE  Tried(u)'
  <2>1. CASE t \in Entries'
    BY <1>1, <2>1 DEF Tried, Same
  <2>2. CASE \E w \in Workers : phase'[w] = "removed" /\ task'[w].url = t.url
    BY <1>1, <2>2 DEF Tried, InGap, Same
  <2>3. CASE results'[Clean[t.url]] > 0
    BY <1>1, <2>3 DEF Tried
  <2> QED
    BY <2>1, <2>2, <2>3 DEF LosesNothing
<1>2. CASE InGap(u)
  <2>1. PICK w \in Workers : phase[w] = "removed" /\ Clean[task[w].url] = Clean[u]
    BY <1>2 DEF InGap, Same
  <2>2. CASE phase'[w] = "removed" /\ task'[w].url = task[w].url
    BY <2>1, <2>2 DEF Tried, InGap, Same
  <2>3. CASE \E t \in Entries' : t.retries > 0 /\ t.url = task[w].url
    BY <2>1, <2>3 DEF Tried, Same
  <2> QED
    BY <2>1, <2>2, <2>3 DEF LosesNothing
<1>3. CASE results[Clean[u]] > 0
  BY <1>3, QueueAssumption DEF Tried, LosesNothing
<1> QED
  BY <1>1, <1>2, <1>3 DEF Tried, Same

(* Releasing a worker leaves the other workers' gaps as they are.          *)
LEMMA ReleaseKeepsGaps ==
  ASSUME QueueTypeOK, NEW w \in Workers, Release(w)
  PROVE  \A v \in Workers : v # w => phase'[v] = phase[v] /\ task'[v] = task[v]
BY DEF QueueTypeOK, Release, Hold

(* A step that is neither one of LosingStep nor a stop loses nothing.      *)
LEMMA NoOtherLoss ==
  ASSUME QueueTypeOK, HeldOK, QueueNext, ~LosingStep, ~DeleteQueue
  PROVE  LosesNothing
<1> USE QueueAssumption
<1>1. ASSUME NEW v \in Source, Enqueue(v)
      PROVE  LosesNothing
  <2>1. Entries \subseteq Entries'
    BY <1>1, LiveIsTask, RangeAppend DEF QueueTypeOK, Enqueue, Marshal, Entries
  <2> QED
    BY <1>1, <2>1 DEF LosesNothing, Enqueue, hold
<1>16. ASSUME NEW v \in Source, EnqueueAgain(v)
       PROVE  LosesNothing
  <2>1. Entries \subseteq Entries'
    BY <1>16, LiveIsTask, RangeAppend DEF QueueTypeOK, EnqueueAgain, Marshal, Entries
  <2> QED
    BY <1>16, <2>1 DEF LosesNothing, EnqueueAgain, hold
<1>2. ASSUME MoveToProcessing
      PROVE  Entries \subseteq Entries' /\ results' = results
  BY <1>2, RangeHeadTail DEF QueueTypeOK, MoveToProcessing, Entries
<1>3. ASSUME NEW w \in Workers, Dequeue(w)
      PROVE  LosesNothing
  <2>1. \A v \in Workers : phase[v] = "removed" =>
          phase'[v] = "removed" /\ task'[v].url = task[v].url
    BY <1>3 DEF QueueTypeOK, Dequeue, Hold
  <2>2. Entries \subseteq Entries' /\ results' = results
    BY <1>2, <1>3 DEF Dequeue
  <2> QED
    BY <2>1, <2>2 DEF LosesNothing
<1>4. ASSUME NEW w \in Workers, DequeueReplyLost(w)
      PROVE  LosesNothing
  BY <1>2, <1>4 DEF LosesNothing, DequeueReplyLost, hold
<1>17. ASSUME NEW w \in Workers, PushBack(w)
       PROVE  Entries \subseteq Entries' /\ results' = results
  BY <1>17, RangeAppend DEF QueueTypeOK, PushBack, Marshal, Entries
<1>18. ASSUME NEW w \in Workers, RequeueReplyLost(w)
       PROVE  LosesNothing
  BY <1>17, <1>18 DEF LosesNothing, RequeueReplyLost, hold
<1>5. ASSUME NEW w \in Workers, Requeue(w)
      PROVE  LosesNothing
  <2>1. Entries \subseteq Entries' /\ results' = results
    BY <1>5, <1>17 DEF Requeue
  <2>2. \A v \in Workers : phase[v] = "removed" =>
          phase'[v] = "removed" /\ task'[v].url = task[v].url
    BY <1>5, ReleaseKeepsGaps DEF Requeue, PushBack
  <2> QED
    BY <2>1, <2>2 DEF LosesNothing
<1>6. ASSUME NEW w \in Workers, Store(w)
      PROVE  LosesNothing
  <2>1. Entries' = Entries
    BY <1>6 DEF Store, store, Entries
  <2>2. \A v \in Workers : phase[v] = "removed" =>
          phase'[v] = "removed" /\ task'[v].url = task[v].url
    BY <1>6 DEF QueueTypeOK, Store
  <2>3. \A v \in Urls : results[v] > 0 => results'[v] > 0
    BY <1>6, ResultsGrow
  <2> QED
    BY <2>1, <2>2, <2>3 DEF LosesNothing
<1>7. ASSUME NEW w \in Workers, StoreFails(w)
      PROVE  LosesNothing
  <2>1. Entries' = Entries /\ results' = results
    BY <1>7 DEF StoreFails, store, Entries
  <2>2. \A v \in Workers : phase[v] = "removed" =>
          phase'[v] = "removed" /\ task'[v].url = task[v].url
    BY <1>7 DEF QueueTypeOK, StoreFails
  <2> QED
    BY <2>1, <2>2 DEF LosesNothing
<1>8. ASSUME NEW w \in Workers, Ack(w)
      PROVE  LosesNothing
  <2>1. phase[w] = "stored"
    BY <1>8 DEF LosingStep, Ack
  <2>2. results' = results /\ Entries \subseteq Entries' \union {task[w]}
    BY <1>8 DEF Ack, Marshal, Entries
  <2>3. results'[Clean[task[w].url]] > 0
    BY <2>1, <2>2 DEF HeldOK
  <2>4. \A v \in Workers : phase[v] = "removed" =>
          phase'[v] = "removed" /\ task'[v].url = task[v].url
    BY <1>8, <2>1, ReleaseKeepsGaps DEF Ack
  <2> QED
    BY <2>2, <2>3, <2>4 DEF LosesNothing
<1>9. ASSUME NEW w \in Workers, RetryRemove(w) \/ RetryRemoveFails(w)
      PROVE  LosesNothing
  <2>1. results' = results /\ Entries \subseteq Entries' \union {task[w]}
    BY <1>9 DEF RetryRemove, RetryRemoveFails, store, Marshal, Entries
  <2>2. /\ phase[w] = "taken"
        /\ Hold(w, [task[w] EXCEPT !.retries = @ + 1], "removed")
    BY <1>9 DEF RetryRemove, RetryRemoveFails
  <2>3. phase'[w] = "removed" /\ task'[w].url = task[w].url
    BY <2>2, AttemptProperties DEF QueueTypeOK, Hold
  <2>4. \A v \in Workers : phase[v] = "removed" =>
          phase'[v] = "removed" /\ task'[v].url = task[v].url
    BY <2>2 DEF QueueTypeOK, Hold
  <2> QED
    BY <2>1, <2>3, <2>4 DEF LosesNothing
<1>19. ASSUME NEW w \in Workers, SendOn(w)
       PROVE  results' = results /\ Entries' = Entries \union {task[w]}
  BY <1>19 DEF SendOn, PushDead, Marshal, Entries
<1>20. ASSUME NEW w \in Workers, RetryAddReplyLost(w)
       PROVE  LosesNothing
  BY <1>19, <1>20 DEF LosesNothing, RetryAddReplyLost, hold
<1>10. ASSUME NEW w \in Workers, RetryAdd(w)
       PROVE  LosesNothing
  <2>1. results' = results /\ Entries' = Entries \union {task[w]}
    BY <1>10, <1>19 DEF RetryAdd
  <2>2. \A v \in Workers \ {w} : phase[v] = "removed" =>
          phase'[v] = "removed" /\ task'[v].url = task[v].url
    BY <1>10, ReleaseKeepsGaps DEF RetryAdd
  <2>3. task[w].retries > 0
    BY <1>10 DEF RetryAdd, SendOn, QueueTypeOK
  <2> QED
    BY <2>1, <2>2, <2>3 DEF LosesNothing
<1>11. ASSUME NEW w \in Workers, LastCallFails(w) \/ Crash(w)
       PROVE  LosesNothing
  <2>1. phase[w] # "removed"
    BY <1>11 DEF LosingStep
  <2>2. results' = results /\ Entries' = Entries
    BY <1>11 DEF LastCallFails, Crash, store, Entries
  <2>3. \A v \in Workers : phase[v] = "removed" =>
          phase'[v] = "removed" /\ task'[v].url = task[v].url
    BY <1>11, <2>1, ReleaseKeepsGaps DEF LastCallFails, Crash
  <2> QED
    BY <2>2, <2>3 DEF LosesNothing
<1>12. ASSUME NEW due \in SUBSET Live, NEW batch \in Batches(due), Range(batch) = due,
              pending' = pending \o batch
       PROVE  Range(pending') = Range(pending) \union due
  <2>1. batch \in Seq(Live)
    BY <1>12, BatchProperties, SeqMonotonic
  <2> QED
    BY <1>12, <2>1, RangeConcatenation DEF QueueTypeOK
<1>13. ASSUME NEW due \in SUBSET retry, NEW batch \in Batches(due), RequeueRetries(due, batch)
       PROVE  LosesNothing
  <2>1. Range(batch) = due
    BY <1>13 DEF LosingStep
  <2>2. Range(pending') = Range(pending) \union due
    BY <1>12, <1>13, <2>1 DEF RequeueRetries, QueueTypeOK
  <2>3. Entries \subseteq Entries'
    BY <1>13, <2>2 DEF RequeueRetries, Entries
  <2> QED
    BY <1>13, <2>3 DEF LosesNothing, RequeueRetries, hold
<1>14. ASSUME NEW due \in SUBSET processing, NEW batch \in Batches(due), RequeueStale(due, batch)
       PROVE  LosesNothing
  <2>1. Range(batch) = due
    BY <1>14 DEF LosingStep
  <2>2. Range(pending') = Range(pending) \union due
    BY <1>12, <1>14, <2>1 DEF RequeueStale, QueueTypeOK
  <2>3. Entries \subseteq Entries'
    BY <1>14, <2>2 DEF RequeueStale, Entries
  <2> QED
    BY <1>14, <2>3 DEF LosesNothing, RequeueStale, hold
<1>15. ASSUME NEW kind, Fails(kind)
       PROVE  LosesNothing
  <2>1. Entries' = Entries
    BY <1>15 DEF Fails, store, Entries
  <2> QED
    BY <1>15, <2>1 DEF LosesNothing, Fails, hold
<1> QED
  BY <1>1, <1>3, <1>4, <1>5, <1>6, <1>7, <1>8, <1>9, <1>10, <1>11, <1>13, <1>14, <1>15,
     <1>16, <1>18, <1>20
     DEF QueueNext, WorkerStep, Recovery, EnqueueResent, EnqueueRepeated

(* A URL is accounted for as soon as it is accepted, and after DeleteQueue *)
(* nothing is owed: only the steps of LosingStep forget one.               *)
LEMMA ForgettingStep ==
  ASSUME QueueTypeOK, HeldOK, QueueNext, Forgets
  PROVE  LosingStep
<1> USE QueueAssumption
<1> SUFFICES ASSUME ~LosingStep
             PROVE  FALSE
  OBVIOUS
<1>1. PICK u \in Owed' : (u \in accepted => Accounted(u)) /\ ~Accounted(u)'
  BY DEF Forgets
<1>2. ~DeleteQueue
  BY <1>1 DEF DeleteQueue, Owed
<1>3. CASE u \in accepted
  <2>1. u \in Urls
    BY <1>3 DEF QueueTypeOK
  <2> QED
    BY <1>1, <1>2, <1>3, <2>1, NoOtherLoss, StaysAccounted
<1>4. CASE u \notin accepted
  <2>1. u \in accepted'
    BY <1>1 DEF Owed
  <2>2. ASSUME NEW w \in Workers, WorkerStep(w)
        PROVE  accepted' = accepted
    BY <2>2
       DEF WorkerStep, Dequeue, DequeueReplyLost, MoveToProcessing, Requeue,
           RequeueReplyLost, PushBack, Store, StoreFails, Ack, RetryRemove,
           RetryRemoveFails, RetryAdd, RetryAddReplyLost, SendOn, LastCallFails, Crash, ghosts
  <2>3. ASSUME Recovery \/ \E kind \in {"error", "ingestion"} : Fails(kind)
        PROVE  accepted' = accepted
    BY <2>3 DEF Recovery, Fails, RequeueRetries, RequeueStale, ghosts
  <2>8. ASSUME NEW v \in Source, EnqueueResent(v) \/ EnqueueRepeated(v)
        PROVE  accepted' = accepted
    BY <2>8 DEF EnqueueResent, EnqueueRepeated, EnqueueAgain
  <2>4. PICK v \in Source : Enqueue(v)
    BY <1>2, <1>4, <2>1, <2>2, <2>3, <2>8 DEF QueueNext
  <2>5. Enqueue(u)
    BY <1>4, <2>1, <2>4 DEF Enqueue
  <2>6. NewTask(u) \in Range(pending')
    BY <2>5, LiveIsTask, RangeAppend DEF Enqueue, Marshal, QueueTypeOK
  <2>7. Accounted(u)'
    BY <2>6 DEF Accounted, Queued, Entries, Same, NewTask
  <2> QED
    BY <1>1, <2>7
<1> QED
  BY <1>3, <1>4

(* A step of something else keeps them as they are.                        *)
LEMMA HeldStutter ==
  ASSUME HeldOK, UNCHANGED queueVars
  PROVE  HeldOK'
BY DEF HeldOK, queueVars, hold

(* The inductive invariant: the queue is well typed, and what a worker     *)
(* holds was decoded once and, after InsertCrawlingResult, has a result    *)
(* (pool.go:236-255).                                                      *)
THEOREM QueueInvariant == QueueSpec => [](QueueTypeOK /\ HeldOK)
<1>1. QueueInit => QueueTypeOK /\ HeldOK
  BY QueueTypeInit, HeldInit
<1>2. QueueTypeOK /\ HeldOK /\ [QueueNext]_queueVars => (QueueTypeOK /\ HeldOK)'
  BY QueueTypeStep, QueueTypeStutter, HeldStep, HeldStutter
<1> QED
  BY <1>1, <1>2, PTL DEF QueueSpec

(* For any number of URLs, workers, attempts and faults, the only steps    *)
(* that lose an accepted URL are a fault between Retry's two commands, the *)
(* Ack of a result that was not stored, and a recovery script that finds   *)
(* more entries due than its LIMIT (queue.go:160-245).                     *)
THEOREM QueueLosesOnlyByLosingStep == QueueSpec => LostOnlyByLosingStep
<1>1. QueueTypeOK /\ HeldOK /\ [QueueNext]_queueVars => [Forgets => LosingStep]_queueVars
  BY ForgettingStep
<1> QED
  BY <1>1, QueueInvariant, PTL DEF QueueSpec, LostOnlyByLosingStep
-----------------------------------------------------------------------------
(* Every URL is one that decoding leaves as it is (valid UTF-8).           *)
CleanUrls == \A u \in Urls : Clean[u] = u

(* The steps that can multiply a task: a push of the ingestion that is     *)
(* sent again, or made again after a stop; the requeue of a paused job,    *)
(* which leaves its processing entry; Retry's ZREM that fails, and its     *)
(* LPUSH or ZADD that is sent again; a recovery script that finds a task   *)
(* stale while a worker handles it.                                        *)
MultiplyingStep ==
  \/ \E u \in Source : EnqueueResent(u) \/ EnqueueRepeated(u)
  \/ \E w \in Workers :
       Requeue(w) \/ RequeueReplyLost(w) \/ RetryRemoveFails(w) \/ RetryAddReplyLost(w)
  \/ \E due \in SUBSET processing : \E batch \in Batches(due) :
       (\E member \in due : Held(member)) /\ RequeueStale(due, batch)

(* The other steps.                                                        *)
SafeWorkerStep(w) ==
  \/ Dequeue(w) \/ DequeueReplyLost(w) \/ Store(w) \/ StoreFails(w) \/ Ack(w)
  \/ RetryRemove(w) \/ RetryAdd(w) \/ LastCallFails(w) \/ Crash(w)

SafeNext ==
  \/ \E u \in Source : Enqueue(u)
  \/ \E w \in Workers : SafeWorkerStep(w)
  \/ \E due \in SUBSET retry : \E batch \in Batches(due) : RequeueRetries(due, batch)
  \/ \E due \in SUBSET {t \in processing : ~Held(t)} : \E batch \in Batches(due) :
       RequeueStale(due, batch)
  \/ \E kind \in {"error", "ingestion"} : Fails(kind)
  \/ DeleteQueue

LEMMA SafeOrMultiplying ==
  ASSUME QueueNext, ~MultiplyingStep
  PROVE  SafeNext
<1>1. ASSUME NEW w \in Workers, WorkerStep(w)
      PROVE  SafeNext
  BY <1>1 DEF WorkerStep, MultiplyingStep, SafeNext, SafeWorkerStep
<1>2. ASSUME Recovery
      PROVE  SafeNext
  BY <1>2 DEF Recovery, MultiplyingStep, SafeNext
<1> QED
  BY <1>1, <1>2 DEF QueueNext, MultiplyingStep, SafeNext

(* The inductive invariant behind "no double-processing": a URL stands in  *)
(* one place of one list, and a worker that handles it holds what is in    *)
(* processing, or nothing of it is in the queue.                           *)
ListsApart ==
  /\ IsInjective(pending)
  /\ Range(pending) \intersect (processing \union retry) = {}
  /\ processing \intersect retry = {}
  /\ deadAgain = {}

EntriesOnce == \A s, t \in Entries : s.url = t.url => s = t

HoldersOnce == \A v, w \in Working : task[v].url = task[w].url => v = w

HolderOwns ==
  \A w \in Working : \A t \in Entries :
    t.url = task[w].url => t = task[w] /\ t \in processing /\ phase[w] # "removed"

OnlyAccepted ==
  /\ \A t \in Entries : t.url \in accepted
  /\ \A w \in Working : task[w].url \in accepted

Once == ListsApart /\ EntriesOnce /\ HoldersOnce /\ HolderOwns /\ OnlyAccepted

(* LPUSH of an element that is not in the list keeps it free of repeats.   *)
LEMMA InjectiveAppend ==
  ASSUME NEW S, NEW s \in Seq(S), NEW e \in S, IsInjective(s), e \notin Range(s)
  PROVE  IsInjective(Append(s, e))
<1>1. /\ Len(Append(s, e)) = Len(s) + 1
      /\ \A i \in 1..Len(s) : Append(s, e)[i] = s[i]
      /\ Append(s, e)[Len(s) + 1] = e
      /\ Append(s, e) \in Seq(S)
  BY AppendProperties
<1>2. \A i \in 1..Len(s) : s[i] # e
  BY RangeEquality
<1>3. DOMAIN s = 1..Len(s) /\ DOMAIN Append(s, e) = 1..(Len(s) + 1) /\ Len(s) \in Nat
  BY <1>1
<1> SUFFICES ASSUME NEW i \in 1..(Len(s) + 1), NEW j \in 1..(Len(s) + 1),
                    Append(s, e)[i] = Append(s, e)[j]
             PROVE  i = j
  BY <1>3 DEF IsInjective
<1>4. CASE i \in 1..Len(s) /\ j \in 1..Len(s)
  BY <1>1, <1>3, <1>4 DEF IsInjective
<1>5. CASE i \notin 1..Len(s) \/ j \notin 1..Len(s)
  BY <1>1, <1>2, <1>3, <1>5
<1> QED
  BY <1>4, <1>5

(* RPOP of a list free of repeats: what it takes is not left in it.        *)
LEMMA InjectiveTail ==
  ASSUME NEW S, NEW s \in Seq(S), s # <<>>, IsInjective(s)
  PROVE  IsInjective(Tail(s)) /\ Head(s) \notin Range(Tail(s))
<1>1. /\ Tail(s) \in Seq(S)
      /\ Len(Tail(s)) = Len(s) - 1
      /\ \A i \in 1..Len(Tail(s)) : Tail(s)[i] = s[i + 1]
      /\ Len(s) \in Nat \ {0}
      /\ Head(s) = s[1]
  BY HeadTailProperties, EmptySeq
<1>2. DOMAIN s = 1..Len(s) /\ DOMAIN Tail(s) = 1..(Len(s) - 1)
  BY <1>1
<1>3. Range(Tail(s)) = {Tail(s)[i] : i \in 1..(Len(s) - 1)}
  BY <1>1, RangeEquality
<1>4. \A i, j \in 1..Len(s) : s[i] = s[j] => i = j
  BY <1>2 DEF IsInjective
<1>5. \A i \in 1..(Len(s) - 1) : Tail(s)[i] # Head(s)
  <2> TAKE i \in 1..(Len(s) - 1)
  <2>1. i + 1 \in 1..Len(s) /\ 1 \in 1..Len(s) /\ i + 1 # 1
    BY <1>1
  <2> QED
    BY <2>1, <1>1, <1>4
<1>6. \A i, j \in 1..(Len(s) - 1) : Tail(s)[i] = Tail(s)[j] => i = j
  <2> TAKE i, j \in 1..(Len(s) - 1)
  <2>1. i + 1 \in 1..Len(s) /\ j + 1 \in 1..Len(s)
    BY <1>1
  <2>2. s[i + 1] = s[j + 1] => i + 1 = j + 1
    BY <2>1, <1>4
  <2> QED
    BY <2>2, <1>1
<1> QED
  BY <1>2, <1>3, <1>5, <1>6 DEF IsInjective

(* Two lists free of repeats that share nothing make one free of repeats.  *)
LEMMA InjectiveConcat ==
  ASSUME NEW S, NEW s \in Seq(S), NEW t \in Seq(S), IsInjective(s), IsInjective(t),
         Range(s) \intersect Range(t) = {}
  PROVE  IsInjective(s \o t)
<1>1. /\ s \o t \in Seq(S)
      /\ Len(s \o t) = Len(s) + Len(t)
      /\ \A i \in 1..(Len(s) + Len(t)) :
           (s \o t)[i] = IF i <= Len(s) THEN s[i] ELSE t[i - Len(s)]
  BY ConcatProperties
<1>2. /\ DOMAIN s = 1..Len(s) /\ Len(s) \in Nat
      /\ DOMAIN t = 1..Len(t) /\ Len(t) \in Nat
      /\ DOMAIN (s \o t) = 1..(Len(s) + Len(t))
  BY <1>1
<1>3. \A i \in 1..Len(s), j \in 1..Len(t) : s[i] # t[j]
  <2>1. Range(s) = {s[i] : i \in 1..Len(s)} /\ Range(t) = {t[j] : j \in 1..Len(t)}
    BY RangeEquality
  <2> QED
    BY <2>1
<1>4. /\ \A i, j \in 1..Len(s) : s[i] = s[j] => i = j
      /\ \A i, j \in 1..Len(t) : t[i] = t[j] => i = j
  BY <1>2 DEF IsInjective
<1> SUFFICES ASSUME NEW i \in 1..(Len(s) + Len(t)), NEW j \in 1..(Len(s) + Len(t)),
                    (s \o t)[i] = (s \o t)[j]
             PROVE  i = j
  BY <1>2 DEF IsInjective
<1>5. CASE i <= Len(s) /\ j <= Len(s)
  BY <1>1, <1>2, <1>4, <1>5
<1>6. CASE i > Len(s) /\ j > Len(s)
  <2>1. i - Len(s) \in 1..Len(t) /\ j - Len(s) \in 1..Len(t)
    BY <1>2, <1>6
  <2>2. t[i - Len(s)] = t[j - Len(s)]
    BY <1>1, <1>2, <1>6
  <2>3. i - Len(s) = j - Len(s)
    BY <1>4, <2>1, <2>2
  <2> QED
    BY <1>2, <2>3
<1>7. CASE i <= Len(s) /\ j > Len(s)
  <2>1. i \in 1..Len(s) /\ j - Len(s) \in 1..Len(t)
    BY <1>2, <1>7
  <2> QED
    BY <2>1, <1>1, <1>2, <1>3, <1>7
<1>8. CASE i > Len(s) /\ j <= Len(s)
  <2>1. j \in 1..Len(s) /\ i - Len(s) \in 1..Len(t)
    BY <1>2, <1>8
  <2> QED
    BY <2>1, <1>1, <1>2, <1>3, <1>8
<1> QED
  BY <1>2, <1>5, <1>6, <1>7, <1>8

(* A batch is a list free of repeats.                                      *)
LEMMA BatchInjective ==
  ASSUME NEW due, NEW batch \in Batches(due)
  PROVE  IsInjective(batch)
BY DEF Batches, Injection, IsInjective

(* Decoding a member of a list leaves it as it is.                         *)
LEMMA CleanUnmarshal ==
  ASSUME CleanUrls, NEW t \in Live
  PROVE  Unmarshal(t) = t
BY DEF CleanUrls, Unmarshal, Live

(* No entry of the other lists is exhausted.                               *)
LEMMA DeadApart ==
  ASSUME QueueTypeOK
  PROVE  dead \intersect (Range(pending) \union processing \union retry) = {}
<1>1. Range(pending) \subseteq Live
  BY RangeOfSeq DEF QueueTypeOK
<1> QED
  BY <1>1, LiveIsTask DEF QueueTypeOK

(* What a step may do to the entries and the holders: let some go, with    *)
(* the remaining ones in order.                                            *)
LEMMA OnceShrinks ==
  ASSUME Once, ListsApart', Entries' \subseteq Entries, accepted \subseteq accepted',
         Working' \subseteq Working,
         \A w \in Working' : task'[w].url = task[w].url,
         \A w \in Working' : \A t \in Entries' :
           t.url = task[w].url => t = task'[w] /\ t \in processing' /\ phase'[w] # "removed"
  PROVE  Once'
BY DEF Once, EntriesOnce, HoldersOnce, HolderOwns, OnlyAccepted

LEMMA OnceInit == QueueInit => Once
<1> SUFFICES ASSUME QueueInit
             PROVE  Once
  OBVIOUS
<1>1. Range(pending) = {} /\ IsInjective(pending)
  BY EmptySeq DEF QueueInit, InitStore, Range, IsInjective
<1>2. Working = {} /\ Entries = {}
  BY <1>1 DEF QueueInit, InitStore, Working, Entries
<1> QED
  BY <1>1, <1>2
     DEF Once, ListsApart, EntriesOnce, HoldersOnce, HolderOwns, OnlyAccepted, QueueInit,
         InitStore

(* A new URL comes into a queue that knows nothing of it.                  *)
LEMMA OnceEnqueue ==
  ASSUME QueueTypeOK, Once, NEW u \in Source, Enqueue(u)
  PROVE  Once'
<1> DEFINE e == NewTask(u)
<1>1. e \in Live /\ e.url = u
  BY LiveIsTask, QueueAssumption DEF NewTask
<1>2. /\ u \notin accepted /\ accepted' = accepted \union {u}
      /\ pending' = Append(pending, e)
      /\ UNCHANGED <<processing, retry, deadList, task, phase>>
  BY DEF Enqueue, Marshal, hold
<1> HIDE DEF e
<1>3. e \notin Entries
  BY <1>1, <1>2 DEF Once, OnlyAccepted
<1>4. Range(pending') = Range(pending) \union {e}
  BY <1>1, <1>2, RangeAppend DEF QueueTypeOK
<1>5. IsInjective(pending')
  BY <1>1, <1>2, <1>3, InjectiveAppend DEF QueueTypeOK, Once, ListsApart, Entries
<1>6. Entries' = Entries \union {e} /\ Working' = Working
  BY <1>2, <1>4 DEF Entries, Working
<1>7. ListsApart'
  BY <1>2, <1>3, <1>4, <1>5 DEF Once, ListsApart, Entries
<1>8. EntriesOnce'
  BY <1>1, <1>2, <1>6 DEF Once, EntriesOnce, OnlyAccepted
<1>9. HoldersOnce' /\ HolderOwns' /\ OnlyAccepted'
  BY <1>1, <1>2, <1>6 DEF Once, HoldersOnce, HolderOwns, OnlyAccepted
<1> QED
  BY <1>7, <1>8, <1>9 DEF Once

(* What the dequeue script does to the entries: one changes its list.      *)
LEMMA OnceMove ==
  ASSUME QueueTypeOK, Once, MoveToProcessing
  PROVE  /\ ListsApart' /\ EntriesOnce'
         /\ Entries' = Entries
         /\ Head(pending) \in Live
         /\ Head(pending) \in Range(pending) /\ Head(pending) \in processing'
         /\ processing \subseteq processing'
<1> DEFINE m == Head(pending)
<1>1. /\ pending # <<>> /\ pending' = Tail(pending)
      /\ processing' = processing \union {m} /\ UNCHANGED <<retry, deadList>>
  BY DEF MoveToProcessing
<1>2. m \in Live /\ Range(pending) = {m} \union Range(pending')
  BY <1>1, RangeHeadTail DEF QueueTypeOK
<1>3. IsInjective(pending') /\ m \notin Range(pending')
  BY <1>1, InjectiveTail DEF QueueTypeOK, Once, ListsApart
<1> HIDE DEF m
<1>4. ListsApart'
  BY <1>1, <1>2, <1>3 DEF Once, ListsApart
<1>5. Entries' = Entries
  BY <1>1, <1>2 DEF Entries
<1> QED
  BY <1>1, <1>2, <1>4, <1>5 DEF Once, EntriesOnce, m

LEMMA OnceDequeue ==
  ASSUME CleanUrls, QueueTypeOK, Once, NEW w \in Workers, Dequeue(w)
  PROVE  Once'
<1> DEFINE m == Head(pending)
<1>1. /\ ListsApart' /\ EntriesOnce' /\ Entries' = Entries
      /\ m \in Live /\ m \in Range(pending) /\ m \in processing'
      /\ processing \subseteq processing'
  BY OnceMove DEF Dequeue
<1>2. Unmarshal(m) = m
  BY <1>1, CleanUnmarshal
<1>3. /\ task' = [task EXCEPT ![w] = m] /\ phase' = [phase EXCEPT ![w] = "taken"]
      /\ phase[w] = "free" /\ accepted' = accepted
  BY <1>2 DEF Dequeue, Hold, MoveToProcessing, ghosts
<1> HIDE DEF m
<1>4. /\ Working' = Working \union {w} /\ w \notin Working
      /\ task'[w] = m /\ phase'[w] = "taken"
      /\ \A v \in Working : task'[v] = task[v] /\ phase'[v] = phase[v]
  BY <1>3 DEF QueueTypeOK, Working
<1>5. m \in Entries /\ m \notin processing
  BY <1>1 DEF Entries, Once, ListsApart
<1>6. \A v \in Working : task[v].url # m.url
  BY <1>5 DEF Once, HolderOwns
<1>7. HoldersOnce'
  BY <1>4, <1>6 DEF Once, HoldersOnce
<1>8. HolderOwns'
  <2> SUFFICES ASSUME NEW v \in Working', NEW t \in Entries, t.url = task'[v].url
               PROVE  t = task'[v] /\ t \in processing' /\ phase'[v] # "removed"
    BY <1>1 DEF HolderOwns
  <2>1. CASE v = w
    BY <2>1, <1>1, <1>4, <1>5 DEF Once, EntriesOnce
  <2>2. CASE v # w
    BY <2>2, <1>1, <1>4 DEF Once, HolderOwns
  <2> QED
    BY <2>1, <2>2
<1>9. OnlyAccepted'
  BY <1>1, <1>3, <1>4, <1>5 DEF Once, OnlyAccepted
<1> QED
  BY <1>1, <1>7, <1>8, <1>9 DEF Once

LEMMA OnceReplyLost ==
  ASSUME QueueTypeOK, Once, NEW w \in Workers, DequeueReplyLost(w)
  PROVE  Once'
<1>1. ListsApart' /\ EntriesOnce' /\ Entries' = Entries /\ processing \subseteq processing'
  BY OnceMove DEF DequeueReplyLost
<1>2. UNCHANGED <<task, phase, accepted>> /\ Working' = Working
  BY DEF DequeueReplyLost, MoveToProcessing, hold, ghosts, Working
<1> QED
  BY <1>1, <1>2, OnceShrinks DEF Once, HolderOwns

(* Storing the result, or failing to, does not move the task.              *)
LEMMA OnceStore ==
  ASSUME QueueTypeOK, Once, NEW w \in Workers, Store(w) \/ StoreFails(w)
  PROVE  Once'
<1>1. /\ UNCHANGED <<pending, processing, retry, deadList, task, accepted>>
      /\ phase[w] = "taken"
      /\ \/ phase' = [phase EXCEPT ![w] = "stored"]
         \/ phase' = [phase EXCEPT ![w] = "unsaved"]
  BY DEF Store, StoreFails, store, ghosts
<1>2. Working' = Working /\ Entries' = Entries /\ ListsApart'
  BY <1>1 DEF QueueTypeOK, Working, Entries, Once, ListsApart
<1>3. \A v \in Workers : phase[v] # "removed" => phase'[v] # "removed"
  BY <1>1 DEF QueueTypeOK
<1> QED
  BY <1>1, <1>2, <1>3, OnceShrinks DEF Once, HolderOwns, Working

(* A worker that lets its task go leaves the others as they are.           *)
LEMMA OnceRelease ==
  ASSUME QueueTypeOK, NEW w \in Workers, Release(w)
  PROVE  /\ Working' = Working \ {w}
         /\ \A v \in Working' : task'[v] = task[v] /\ phase'[v] = phase[v]
BY DEF QueueTypeOK, Release, Hold, Working

(* The ZREM of Ack, or of Retry: what the worker held is gone.             *)
LEMMA OnceAck ==
  ASSUME QueueTypeOK, Once, NEW w \in Workers, Ack(w)
  PROVE  Once'
<1>1. /\ processing' = processing \ {task[w]} /\ Release(w) /\ w \in Working
      /\ UNCHANGED <<pending, retry, deadList, accepted>>
  BY DEF Ack, Marshal, ghosts, Working
<1>2. Entries' \subseteq Entries /\ ListsApart'
  BY <1>1 DEF Entries, Once, ListsApart
<1>3. /\ Working' = Working \ {w}
      /\ \A v \in Working' : task'[v] = task[v] /\ phase'[v] = phase[v]
  BY <1>1, OnceRelease
<1>4. ASSUME NEW v \in Working', NEW t \in Entries', t.url = task[v].url
      PROVE  t = task'[v] /\ t \in processing' /\ phase'[v] # "removed"
  <2>1. t = task[v] /\ t \in processing /\ phase[v] # "removed"
    BY <1>2, <1>3, <1>4 DEF Once, HolderOwns
  <2>2. task[v].url # task[w].url
    BY <1>1, <1>3 DEF Once, HoldersOnce
  <2> QED
    BY <2>1, <2>2, <1>1, <1>3
<1> QED
  BY <1>1, <1>2, <1>3, <1>4, OnceShrinks

LEMMA OnceRetryRemove ==
  ASSUME QueueTypeOK, Once, NEW w \in Workers, RetryRemove(w)
  PROVE  Once'
<1>1. /\ processing' = processing \ {task[w]} /\ w \in Working /\ phase[w] = "taken"
      /\ task' = [task EXCEPT ![w] = [task[w] EXCEPT !.retries = @ + 1]]
      /\ phase' = [phase EXCEPT ![w] = "removed"]
      /\ UNCHANGED <<pending, retry, deadList, accepted>>
  BY DEF RetryRemove, Hold, Marshal, ghosts, Working
<1>2. [task[w] EXCEPT !.retries = @ + 1].url = task[w].url
  BY <1>1, AttemptProperties DEF QueueTypeOK
<1>3. /\ Working' = Working
      /\ task'[w].url = task[w].url
      /\ \A v \in Working \ {w} : task'[v] = task[v] /\ phase'[v] = phase[v]
  BY <1>1, <1>2 DEF QueueTypeOK, Working
<1>4. Entries' \subseteq Entries /\ ListsApart'
  BY <1>1 DEF Entries, Once, ListsApart
<1>5. ASSUME NEW v \in Working', NEW t \in Entries', t.url = task[v].url
      PROVE  t = task'[v] /\ t \in processing' /\ phase'[v] # "removed"
  <2>1. t = task[v] /\ t \in processing /\ phase[v] # "removed"
    BY <1>3, <1>4, <1>5 DEF Once, HolderOwns
  <2>2. v # w
    <3> SUFFICES ASSUME v = w
                 PROVE  FALSE
      OBVIOUS
    <3>1. t \notin processing'
      BY <1>1, <2>1
    <3>2. t \in Range(pending) \union retry \union dead
      BY <1>1, <3>1 DEF Entries
    <3> QED
      BY <2>1, <3>2, DeadApart DEF Once, ListsApart
  <2>3. task[v].url # task[w].url
    BY <1>1, <1>3, <2>2 DEF Once, HoldersOnce
  <2> QED
    BY <2>1, <2>2, <2>3, <1>1, <1>3
<1> QED
  BY <1>1, <1>3, <1>4, <1>5, OnceShrinks

(* Retry's second half: nothing else stands for the task in the gap.       *)
LEMMA OnceRetryAdd ==
  ASSUME QueueTypeOK, Once, NEW w \in Workers, RetryAdd(w)
  PROVE  Once'
<1> DEFINE e == task[w]
<1>1. /\ phase[w] = "removed" /\ w \in Working /\ Release(w)
      /\ UNCHANGED <<pending, processing, accepted>>
      /\ \/ retry' = retry \union {e} /\ UNCHANGED deadList
         \/ PushDead(e) /\ retry' = retry
  BY DEF RetryAdd, SendOn, Marshal, ghosts, Working
<1>2. \A t \in Entries : t.url # e.url
  BY <1>1 DEF Once, HolderOwns
<1>3. /\ Working' = Working \ {w}
      /\ \A v \in Working' : task'[v] = task[v] /\ phase'[v] = phase[v]
  BY <1>1, OnceRelease
<1>4. \A v \in Working' : task[v].url # e.url
  BY <1>1, <1>3 DEF Once, HoldersOnce
<1>5. e.url \in accepted
  BY <1>1 DEF Once, OnlyAccepted
<1> HIDE DEF e
<1>6. Entries' = Entries \union {e}
  BY <1>1 DEF PushDead, Entries
<1>12. e \notin dead
  BY <1>2 DEF Entries
<1>7. ListsApart'
  BY <1>1, <1>2, <1>12 DEF PushDead, Once, ListsApart, Entries
<1>8. EntriesOnce'
  BY <1>2, <1>6 DEF Once, EntriesOnce
<1>9. HoldersOnce'
  BY <1>3 DEF Once, HoldersOnce
<1>10. HolderOwns'
  BY <1>1, <1>3, <1>4, <1>6 DEF Once, HolderOwns
<1>11. OnlyAccepted'
  BY <1>1, <1>3, <1>5, <1>6 DEF Once, OnlyAccepted
<1> QED
  BY <1>7, <1>8, <1>9, <1>10, <1>11 DEF Once

(* A worker that dies, or whose last call fails, leaves its entry alone.   *)
LEMMA OnceLeaves ==
  ASSUME QueueTypeOK, Once, NEW w \in Workers, LastCallFails(w) \/ Crash(w)
  PROVE  Once'
<1>1. Release(w) /\ UNCHANGED <<pending, processing, retry, deadList, accepted>>
  BY DEF LastCallFails, Crash, store, ghosts
<1>2. /\ Working' = Working \ {w}
      /\ \A v \in Working' : task'[v] = task[v] /\ phase'[v] = phase[v]
  BY <1>1, OnceRelease
<1>3. Entries' = Entries /\ ListsApart'
  BY <1>1 DEF Entries, Once, ListsApart
<1> QED
  BY <1>1, <1>2, <1>3, OnceShrinks DEF Once, HolderOwns

(* The recovery scripts move entries from one set to pending.              *)
LEMMA OnceRequeue ==
  ASSUME QueueTypeOK, Once, NEW due, due \subseteq Live, NEW batch \in Batches(due),
         pending' = pending \o batch, due \intersect Range(pending) = {}
  PROVE  /\ IsInjective(pending')
         /\ Range(pending') \subseteq Range(pending) \union due
<1>1. batch \in Seq(Live) /\ Range(batch) \subseteq due /\ IsInjective(batch)
  BY BatchProperties, BatchInjective, SeqMonotonic
<1>2. Range(pending') = Range(pending) \union Range(batch)
  BY <1>1, RangeConcatenation DEF QueueTypeOK
<1>3. IsInjective(pending')
  BY <1>1, InjectiveConcat DEF QueueTypeOK, Once, ListsApart
<1> QED
  BY <1>1, <1>2, <1>3

LEMMA OnceRetries ==
  ASSUME QueueTypeOK, Once, NEW due \in SUBSET retry, NEW batch \in Batches(due),
         RequeueRetries(due, batch)
  PROVE  Once'
<1>1. /\ pending' = pending \o batch /\ retry' = retry \ due
      /\ UNCHANGED <<processing, deadList, task, phase, accepted>>
  BY DEF RequeueRetries, hold, ghosts
<1>2. due \subseteq Live /\ due \intersect Range(pending) = {}
  BY DEF QueueTypeOK, Once, ListsApart
<1>3. IsInjective(pending') /\ Range(pending') \subseteq Range(pending) \union due
  BY <1>1, <1>2, OnceRequeue
<1>4. ListsApart' /\ Entries' \subseteq Entries /\ Working' = Working
  BY <1>1, <1>3 DEF Once, ListsApart, Entries, Working
<1> QED
  BY <1>1, <1>4, OnceShrinks DEF Once, HolderOwns

LEMMA OnceStale ==
  ASSUME CleanUrls, QueueTypeOK, Once, NEW due \in SUBSET processing,
         NEW batch \in Batches(due), RequeueStale(due, batch), \A t \in due : ~Held(t)
  PROVE  Once'
<1>1. /\ pending' = pending \o batch /\ processing' = processing \ due
      /\ UNCHANGED <<retry, deadList, task, phase, accepted>>
  BY DEF RequeueStale, hold, ghosts
<1>2. due \subseteq Live /\ due \intersect Range(pending) = {}
  BY DEF QueueTypeOK, Once, ListsApart
<1>3. IsInjective(pending') /\ Range(pending') \subseteq Range(pending) \union due
  BY <1>1, <1>2, OnceRequeue
<1>4. ListsApart' /\ Entries' \subseteq Entries /\ Working' = Working
  BY <1>1, <1>3 DEF Once, ListsApart, Entries, Working
<1>5. ASSUME NEW w \in Working', NEW t \in Entries', t.url = task[w].url
      PROVE  t = task'[w] /\ t \in processing' /\ phase'[w] # "removed"
  <2>1. t = task[w] /\ t \in processing /\ phase[w] # "removed" /\ w \in Working
    BY <1>4, <1>5 DEF Once, HolderOwns
  <2>2. Unmarshal(t) = t
    BY <2>1, CleanUnmarshal DEF QueueTypeOK
  <2>3. phase[w] \in {"taken", "stored", "unsaved"}
    BY <2>1 DEF QueueTypeOK, Working, Phases
  <2>4. Held(t)
    BY <2>1, <2>2, <2>3 DEF Held, Working
  <2> QED
    BY <1>1, <2>1, <2>4
<1> QED
  BY <1>1, <1>4, <1>5, OnceShrinks

LEMMA OnceDelete ==
  ASSUME Once, DeleteQueue
  PROVE  Once'
<1>1. Range(pending') = {} /\ IsInjective(pending')
  BY EmptySeq DEF DeleteQueue, Range, IsInjective
<1>2. Entries' = {} /\ ListsApart' /\ Working' = Working /\ UNCHANGED <<task, accepted>>
  BY <1>1 DEF DeleteQueue, Entries, ListsApart, hold, Working
<1> QED
  BY <1>2, OnceShrinks

LEMMA OnceUnchanged ==
  ASSUME Once, UNCHANGED <<store, hold, accepted>>
  PROVE  Once'
BY DEF Once, ListsApart, EntriesOnce, HoldersOnce, HolderOwns, OnlyAccepted, store, hold,
       Entries, Working

(* Every step but the multiplying ones keeps a URL in one place.           *)
LEMMA OnceStep ==
  ASSUME CleanUrls, QueueTypeOK, Once, SafeNext
  PROVE  Once'
<1>1. ASSUME NEW w \in Workers, SafeWorkerStep(w)
      PROVE  Once'
  BY <1>1, OnceDequeue, OnceReplyLost, OnceStore, OnceAck, OnceRetryRemove, OnceRetryAdd,
     OnceLeaves
     DEF SafeWorkerStep
<1>2. ASSUME NEW due \in SUBSET {t \in processing : ~Held(t)}, NEW batch \in Batches(due),
             RequeueStale(due, batch)
      PROVE  Once'
  BY <1>2, OnceStale
<1>3. ASSUME NEW kind, Fails(kind)
      PROVE  Once'
  BY <1>3, OnceUnchanged DEF Fails, ghosts
<1> QED
  BY <1>1, <1>2, <1>3, OnceEnqueue, OnceRetries, OnceDelete DEF SafeNext

(* A URL that stands in one place has one copy.                            *)
LEMMA OnceIsSingle ==
  ASSUME QueueTypeOK, Once
  PROVE  SingleCopy
<1> SUFFICES ASSUME NEW u \in Urls
             PROVE  Cardinality(CopiesOf(u)) <= 1
  BY DEF SingleCopy
<1>1. /\ pending \in Seq(Live) /\ Range(pending) = {pending[i] : i \in DOMAIN pending}
      /\ \A i, j \in DOMAIN pending : pending[i] = pending[j] => i = j
  BY DEF QueueTypeOK, Range, Once, ListsApart, IsInjective
<1>2. \A s, t \in Entries : s.url = u /\ t.url = u => s = t
  BY DEF Once, EntriesOnce
<1>3. \A w \in Working : \A t \in Entries : t.url = task[w].url => phase[w] # "removed"
  BY DEF Once, HolderOwns
<1>4. \A v, w \in Working : task[v].url = u /\ task[w].url = u => v = w
  BY DEF Once, HoldersOnce
<1> DEFINE Place(x) ==
      \/ \E i \in DOMAIN pending : x = <<"pending", i>> /\ pending[i].url = u
      \/ \E t \in processing : x = <<"processing", t>> /\ t.url = u
      \/ \E t \in retry : x = <<"retry", t>> /\ t.url = u
      \/ \E t \in dead : x = <<"dead", t>> /\ t.url = u
      \/ \E w \in Working : x = <<"gap", w>> /\ phase[w] = "removed" /\ task[w].url = u
<1>5. \A x \in CopiesOf(u) : Place(x)
  BY DEF CopiesOf, Working, Once, ListsApart
<1>6. ASSUME NEW x \in CopiesOf(u), NEW y \in CopiesOf(u)
      PROVE  x = y
  <2>1. Place(x) /\ Place(y)
    BY <1>5, <1>6
  <2>2. CASE \E i \in DOMAIN pending : x = <<"pending", i>> /\ pending[i].url = u
    BY <2>1, <2>2, <1>1, <1>2, <1>3, DeadApart DEF Entries, Once, ListsApart
  <2>3. CASE \E t \in processing : x = <<"processing", t>> /\ t.url = u
    BY <2>1, <2>3, <1>1, <1>2, <1>3, DeadApart DEF Entries, Once, ListsApart
  <2>4. CASE \E t \in retry : x = <<"retry", t>> /\ t.url = u
    BY <2>1, <2>4, <1>1, <1>2, <1>3, DeadApart DEF Entries, Once, ListsApart
  <2>5. CASE \E t \in dead : x = <<"dead", t>> /\ t.url = u
    BY <2>1, <2>5, <1>1, <1>2, <1>3, DeadApart DEF Entries, Once, ListsApart
  <2>6. CASE \E w \in Working : x = <<"gap", w>> /\ phase[w] = "removed" /\ task[w].url = u
    BY <2>1, <2>6, <1>1, <1>3, <1>4 DEF Entries
  <2> QED
    BY <2>1, <2>2, <2>3, <2>4, <2>5, <2>6
<1>7. CASE CopiesOf(u) = {}
  BY <1>7, FS_EmptySet
<1>8. CASE CopiesOf(u) # {}
  <2>1. PICK x : CopiesOf(u) = {x}
    BY <1>6, <1>8
  <2> QED
    BY <2>1, FS_Singleton
<1> QED
  BY <1>7, <1>8

(* A URL that stands in one place has one holder.                          *)
LEMMA OnceIsExclusive ==
  ASSUME CleanUrls, QueueTypeOK, Once
  PROVE  NoDoubleProcessing
<1> SUFFICES ASSUME NEW v \in Workers, NEW w \in Workers, v # w,
                    task[v] # NoTask, task[w] # NoTask, Same(task[v].url, task[w].url)
             PROVE  FALSE
  BY DEF NoDoubleProcessing
<1>1. task[v] \in Task /\ task[w] \in Task /\ v \in Working /\ w \in Working
  BY DEF QueueTypeOK, Working
<1>2. task[v].url = task[w].url
  BY <1>1 DEF Same, CleanUrls, Task
<1> QED
  BY <1>1, <1>2 DEF Once, HoldersOnce

(* No crash, no lost task of a dequeue, no result that is not stored, no   *)
(* scan that finds an abandoned task and no retry, in any order and        *)
(* number, makes two workers handle one URL or leaves two copies of it,    *)
(* not even in the dead list: only the steps of MultiplyingStep may        *)
(* (queue.go:43-258, pool.go:188-261).                                     *)
THEOREM OnlyMultiplyingStepsMultiply ==
  ASSUME CleanUrls
  PROVE  QueueSpec /\ [][~MultiplyingStep]_queueVars => [](NoDoubleProcessing /\ SingleCopy)
<1>1. QueueInit => QueueTypeOK /\ Once
  BY QueueTypeInit, OnceInit
<1>2. QueueTypeOK /\ Once /\ [QueueNext]_queueVars /\ [~MultiplyingStep]_queueVars
        => (QueueTypeOK /\ Once)'
  <2> SUFFICES ASSUME QueueTypeOK, Once, [QueueNext]_queueVars, [~MultiplyingStep]_queueVars
               PROVE  (QueueTypeOK /\ Once)'
    OBVIOUS
  <2>1. CASE UNCHANGED queueVars
    BY <2>1, QueueTypeStutter, OnceUnchanged DEF queueVars, ghosts
  <2>2. CASE QueueNext /\ ~MultiplyingStep
    BY <2>2, QueueTypeStep, OnceStep, SafeOrMultiplying
  <2> QED
    BY <2>1, <2>2
<1>3. QueueTypeOK /\ Once => NoDoubleProcessing /\ SingleCopy
  BY OnceIsExclusive, OnceIsSingle
<1> QED
  BY <1>1, <1>2, <1>3, PTL DEF QueueSpec

(* Where no call fails, no job is paused, no URL is listed again after a   *)
(* stop and processingTimeout is longer than any handling of a task, any   *)
(* number of crashes of any workers never makes two of them handle one URL,*)
(* nor leaves two copies of it (ARCHITECTURE.md "no double-processing").   *)
THEOREM CrashesNeverMultiply ==
  ASSUME CleanUrls, Allowed \subseteq {"crash", "ingestion", "split"}, Repeats = {}
  PROVE  QueueSpec => [](NoDoubleProcessing /\ SingleCopy)
<1>1. [QueueNext]_queueVars => [~MultiplyingStep]_queueVars
  BY DEF MultiplyingStep, EnqueueResent, EnqueueRepeated, Requeue, RequeueReplyLost, PushBack,
         RetryRemoveFails, RetryAddReplyLost, RequeueStale, Disturb
<1>2. QueueSpec => [][~MultiplyingStep]_queueVars
  BY <1>1, PTL DEF QueueSpec
<1> QED
  BY <1>2, OnlyMultiplyingStepsMultiply, PTL

-----------------------------------------------------------------------------
(* The queue of a job that is never paused and enqueues no URL anew after  *)
(* a stop, the other multiplying steps included.                           *)
RunningNext ==
  \/ SafeNext
  \/ \E u \in Source : EnqueueResent(u)
  \/ \E w \in Workers : RetryRemoveFails(w) \/ RetryAddReplyLost(w)
  \/ \E due \in SUBSET processing : \E batch \in Batches(due) :
       (\E member \in due : Held(member)) /\ RequeueStale(due, batch)

(* What holds while nothing has gone wrong: what is in processing is being *)
(* handled, and a URL with a result is nowhere but with the worker that    *)
(* stored it.                                                              *)
Answered(u) ==
  /\ u \in accepted
  /\ \A t \in Range(pending) \union retry \union dead : t.url # u
  /\ \A w \in Working : task[w].url = u => phase[w] = "stored"

Undisturbed ==
  /\ Once
  /\ \A t \in processing : Held(t)
  /\ \A u \in Urls : results[u] <= 1 /\ (results[u] > 0 => Answered(u))

Calm == disturbed = 0 => Undisturbed

(* A step that counts as a disturbance owes nothing.                       *)
LEMMA DisturbedIsCalm ==
  ASSUME QueueTypeOK, NEW kind, Disturb(kind)
  PROVE  Calm'
BY QueueAssumption DEF QueueTypeOK, Disturb, Calm

(* What a step must do so that every result keeps its URL to itself.       *)
LEMMA AnsweredStays ==
  ASSUME Undisturbed, UNCHANGED results, accepted \subseteq accepted',
         Once', \A t \in processing' : Held(t)',
         \A u \in Urls : Answered(u) =>
           /\ \A t \in (Range(pending) \union retry \union dead)' : t.url # u
           /\ \A w \in Working' : task'[w].url = u => phase'[w] = "stored"
  PROVE  Undisturbed'
BY DEF Undisturbed, Answered

LEMMA CalmEnqueue ==
  ASSUME QueueTypeOK, Undisturbed, NEW u \in Source, Enqueue(u)
  PROVE  Undisturbed'
<1>1. Once'
  BY OnceEnqueue DEF Undisturbed
<1>2. /\ u \notin accepted /\ accepted' = accepted \union {u}
      /\ pending' = Append(pending, NewTask(u))
      /\ UNCHANGED <<processing, retry, deadList, task, phase, results>>
  BY DEF Enqueue, Marshal, hold
<1>3. Range(pending') = Range(pending) \union {NewTask(u)} /\ NewTask(u).url = u
  BY <1>2, LiveIsTask, RangeAppend, QueueAssumption DEF QueueTypeOK, NewTask
<1>4. Working' = Working /\ \A t \in processing' : Held(t)'
  BY <1>2 DEF Working, Undisturbed, Held
<1> QED
  BY <1>1, <1>2, <1>3, <1>4, AnsweredStays DEF Answered

LEMMA CalmDequeue ==
  ASSUME CleanUrls, QueueTypeOK, Undisturbed, NEW w \in Workers, Dequeue(w)
  PROVE  Undisturbed'
<1> DEFINE m == Head(pending)
<1>1. Once'
  BY OnceDequeue DEF Undisturbed
<1>2. m \in Live /\ Range(pending) = {m} \union Range(pending')
  BY RangeHeadTail DEF QueueTypeOK, Dequeue, MoveToProcessing
<1>3. /\ processing' = processing \union {m}
      /\ task' = [task EXCEPT ![w] = m] /\ phase' = [phase EXCEPT ![w] = "taken"]
      /\ phase[w] = "free"
      /\ UNCHANGED <<retry, deadList, results, accepted>>
  BY <1>2, CleanUnmarshal DEF Dequeue, Hold, MoveToProcessing, ghosts
<1>4. Unmarshal(m) = m
  BY <1>2, CleanUnmarshal
<1> HIDE DEF m
<1>5. \A t \in processing' : Held(t)'
  BY <1>3, <1>4 DEF Undisturbed, Held, QueueTypeOK
<1>6. \A v \in Working' :
        \/ v = w /\ task'[v] = m
        \/ v \in Working /\ task'[v] = task[v] /\ phase'[v] = phase[v]
  BY <1>3 DEF Working, QueueTypeOK
<1>7. \A u \in Urls : Answered(u) => m.url # u
  BY <1>2 DEF Answered
<1> QED
  BY <1>1, <1>2, <1>3, <1>5, <1>6, <1>7, AnsweredStays DEF Answered

LEMMA CalmStore ==
  ASSUME QueueTypeOK, Undisturbed, NEW w \in Workers, Store(w)
  PROVE  Undisturbed'
<1>1. Once'
  BY OnceStore DEF Undisturbed
<1>2. /\ UNCHANGED <<pending, processing, retry, deadList, task, accepted>>
      /\ phase[w] = "taken" /\ phase' = [phase EXCEPT ![w] = "stored"]
      /\ results' = [results EXCEPT ![task[w].url] = IF @ < ResultCap THEN @ + 1 ELSE @]
      /\ w \in Working
  BY DEF Store, store, ghosts, Working
<1>3. PICK u \in Urls : u = task[w].url
  BY <1>2 DEF QueueTypeOK, Live
<1>4. results[u] \in 0..ResultCap /\ ~(results[u] > 0)
  BY <1>2, <1>3 DEF QueueTypeOK, Undisturbed, Answered
<1>5. results' = [results EXCEPT ![u] = 1]
  <2>1. results[u] = 0 /\ results[u] < ResultCap /\ results[u] + 1 = 1
    BY <1>4, QueueAssumption
  <2> QED
    BY <1>2, <1>3, <2>1
<1>6. results'[u] = 1 /\ \A v \in Urls : v # u => results'[v] = results[v]
  BY <1>3, <1>5 DEF QueueTypeOK
<1>7. \A t \in processing' : Held(t)'
  BY <1>2 DEF Undisturbed, Held, QueueTypeOK
<1>8. /\ Working' = Working /\ phase'[w] = "stored"
      /\ \A v \in Working : v # w => phase'[v] = phase[v]
  BY <1>2 DEF Working, QueueTypeOK
<1>9. Answered(u)'
  <2>1. u \in accepted'
    BY <1>2, <1>3 DEF Undisturbed, Once, OnlyAccepted
  <2>2. ASSUME NEW t \in Range(pending) \union retry \union dead, t.url = u
        PROVE  FALSE
    <3>1. t \in processing
      BY <1>2, <1>3, <2>2 DEF Undisturbed, Once, HolderOwns, Entries
    <3> QED
      BY <2>2, <3>1, DeadApart DEF Undisturbed, Once, ListsApart
  <2>3. \A v \in Working : task[v].url = u => v = w
    BY <1>2, <1>3 DEF Undisturbed, Once, HoldersOnce
  <2>4. \A t \in Range(pending') \union retry' \union dead' : t.url # u
    BY <1>2, <2>2
  <2>5. \A v \in Working' : task'[v].url = u => phase'[v] = "stored"
    BY <1>2, <1>8, <2>3
  <2> QED
    BY <2>1, <2>4, <2>5 DEF Answered
<1>10. ASSUME NEW v \in Urls, v # u, Answered(v)
       PROVE  Answered(v)'
  BY <1>2, <1>3, <1>8, <1>10 DEF Answered
<1>11. ASSUME NEW v \in Urls
       PROVE  results'[v] <= 1 /\ (results'[v] > 0 => Answered(v)')
  <2>1. CASE v = u
    BY <2>1, <1>6, <1>9
  <2>2. CASE v # u
    BY <2>2, <1>6, <1>10 DEF Undisturbed
  <2> QED
    BY <2>1, <2>2
<1> QED
  BY <1>1, <1>7, <1>11 DEF Undisturbed

(* The ends of a handling: what was held is out of processing.             *)
LEMMA CalmAck ==
  ASSUME CleanUrls, QueueTypeOK, Undisturbed, NEW w \in Workers, Ack(w)
  PROVE  Undisturbed'
<1>1. Once'
  BY OnceAck DEF Undisturbed
<1>2. /\ processing' = processing \ {task[w]} /\ Release(w)
      /\ UNCHANGED <<pending, retry, deadList, results, accepted>>
  BY DEF Ack, Marshal, ghosts
<1>3. /\ Working' = Working \ {w}
      /\ \A v \in Working' : task'[v] = task[v] /\ phase'[v] = phase[v]
  BY <1>2, OnceRelease
<1>4. ASSUME NEW t \in processing'
      PROVE  Held(t)'
  <2>1. Unmarshal(t) = t /\ t \in processing /\ t # task[w]
    BY <1>2, CleanUnmarshal DEF QueueTypeOK
  <2>2. PICK v \in Workers : phase[v] \in {"taken", "stored", "unsaved"} /\ task[v] = t
    BY <2>1 DEF Undisturbed, Held
  <2>3. v \in Working'
    BY <1>3, <2>1, <2>2 DEF Working
  <2> QED
    BY <1>3, <2>1, <2>2, <2>3 DEF Held
<1> QED
  BY <1>1, <1>2, <1>3, <1>4, AnsweredStays DEF Answered

LEMMA CalmRetryRemove ==
  ASSUME CleanUrls, QueueTypeOK, Undisturbed, NEW w \in Workers, RetryRemove(w)
  PROVE  Undisturbed'
<1>1. Once'
  BY OnceRetryRemove DEF Undisturbed
<1>2. /\ processing' = processing \ {task[w]} /\ phase[w] = "taken" /\ w \in Working
      /\ task' = [task EXCEPT ![w] = [task[w] EXCEPT !.retries = @ + 1]]
      /\ phase' = [phase EXCEPT ![w] = "removed"]
      /\ UNCHANGED <<pending, retry, deadList, results, accepted>>
  BY DEF RetryRemove, Hold, Marshal, ghosts, Working
<1>3. [task[w] EXCEPT !.retries = @ + 1].url = task[w].url
  BY <1>2, AttemptProperties DEF QueueTypeOK
<1>4. /\ Working' = Working
      /\ task'[w].url = task[w].url
      /\ \A v \in Workers \ {w} : task'[v] = task[v] /\ phase'[v] = phase[v]
  BY <1>2, <1>3 DEF QueueTypeOK, Working
<1>5. ASSUME NEW t \in processing'
      PROVE  Held(t)'
  <2>1. Unmarshal(t) = t /\ t \in processing /\ t # task[w]
    BY <1>2, CleanUnmarshal DEF QueueTypeOK
  <2>2. PICK v \in Workers : phase[v] \in {"taken", "stored", "unsaved"} /\ task[v] = t
    BY <2>1 DEF Undisturbed, Held
  <2> QED
    BY <1>4, <2>1, <2>2 DEF Held
<1>6. \A u \in Urls : Answered(u) => task[w].url # u
  BY <1>2 DEF Answered
<1> QED
  BY <1>1, <1>2, <1>4, <1>5, <1>6, AnsweredStays DEF Answered, Working

LEMMA CalmRetryAdd ==
  ASSUME QueueTypeOK, Undisturbed, NEW w \in Workers, RetryAdd(w)
  PROVE  Undisturbed'
<1>1. Once'
  BY OnceRetryAdd DEF Undisturbed
<1>2. /\ phase[w] = "removed" /\ w \in Working /\ Release(w)
      /\ UNCHANGED <<pending, processing, results, accepted>>
      /\ retry' \subseteq retry \union {task[w]} /\ dead' \subseteq dead \union {task[w]}
  BY DEF RetryAdd, SendOn, PushDead, Marshal, ghosts, Working
<1>3. /\ Working' = Working \ {w}
      /\ \A v \in Working' : task'[v] = task[v] /\ phase'[v] = phase[v]
  BY <1>2, OnceRelease
<1>4. ASSUME NEW t \in processing'
      PROVE  Held(t)'
  <2>1. PICK v \in Workers : phase[v] \in {"taken", "stored", "unsaved"} /\ task[v] = Unmarshal(t)
    BY <1>2 DEF Undisturbed, Held
  <2>2. v \in Working'
    BY <1>2, <1>3, <2>1 DEF Working
  <2> QED
    BY <1>3, <2>1, <2>2 DEF Held
<1>5. \A u \in Urls : Answered(u) => task[w].url # u
  BY <1>2 DEF Answered
<1> QED
  BY <1>1, <1>2, <1>3, <1>4, <1>5, AnsweredStays DEF Answered

LEMMA CalmRetries ==
  ASSUME QueueTypeOK, Undisturbed, NEW due \in SUBSET retry, NEW batch \in Batches(due),
         RequeueRetries(due, batch)
  PROVE  Undisturbed'
<1>1. Once'
  BY OnceRetries DEF Undisturbed
<1>2. /\ pending' = pending \o batch /\ retry' = retry \ due
      /\ UNCHANGED <<processing, deadList, task, phase, results, accepted>>
  BY DEF RequeueRetries, hold, ghosts
<1>3. due \subseteq Live /\ due \intersect Range(pending) = {}
  BY DEF QueueTypeOK, Undisturbed, Once, ListsApart
<1>4. Range(pending') \subseteq Range(pending) \union due
  BY <1>2, <1>3, OnceRequeue DEF Undisturbed
<1>5. Working' = Working /\ \A t \in processing' : Held(t)'
  BY <1>2 DEF Working, Undisturbed, Held
<1> QED
  BY <1>1, <1>2, <1>4, <1>5, AnsweredStays DEF Answered

LEMMA CalmDelete ==
  ASSUME Undisturbed, DeleteQueue
  PROVE  Undisturbed'
<1>1. Once'
  BY OnceDelete DEF Undisturbed
<1>2. /\ Range(pending') = {} /\ processing' = {} /\ retry' = {} /\ dead' = {}
      /\ UNCHANGED <<task, phase, results, accepted>> /\ Working' = Working
  BY EmptySeq DEF DeleteQueue, Range, hold, Working
<1> QED
  BY <1>1, <1>2, AnsweredStays DEF Answered

LEMMA CalmStutter ==
  ASSUME Calm, UNCHANGED queueVars
  PROVE  Calm'
BY OnceUnchanged
   DEF Calm, Undisturbed, Answered, Held, Working, queueVars, store, hold, ghosts

(* Every step of a job that is not paused keeps it so.                     *)
LEMMA CalmStep ==
  ASSUME CleanUrls, QueueTypeOK, Calm, RunningNext
  PROVE  Calm'
<1> USE DEF Calm
<1>7. ASSUME NEW u \in Source, EnqueueResent(u)
      PROVE  Calm'
  BY <1>7, DisturbedIsCalm DEF EnqueueResent
<1>1. ASSUME NEW w \in Workers, SafeWorkerStep(w) \/ RetryRemoveFails(w) \/ RetryAddReplyLost(w)
      PROVE  Calm'
  <2>1. CASE \/ DequeueReplyLost(w) \/ StoreFails(w) \/ LastCallFails(w) \/ Crash(w)
             \/ RetryRemoveFails(w) \/ RetryAddReplyLost(w)
    BY <2>1, DisturbedIsCalm
       DEF DequeueReplyLost, StoreFails, LastCallFails, Crash, RetryRemoveFails,
           RetryAddReplyLost
  <2>2. CASE Dequeue(w)
    BY <2>2, CalmDequeue DEF Dequeue
  <2>3. CASE Store(w)
    BY <2>3, CalmStore DEF Store
  <2>4. CASE Ack(w)
    BY <2>4, CalmAck DEF Ack
  <2>5. CASE RetryRemove(w)
    BY <2>5, CalmRetryRemove DEF RetryRemove
  <2>6. CASE RetryAdd(w)
    BY <2>6, CalmRetryAdd DEF RetryAdd, SendOn
  <2> QED
    BY <1>1, <2>1, <2>2, <2>3, <2>4, <2>5, <2>6 DEF SafeWorkerStep
<1>2. ASSUME NEW u \in Source, Enqueue(u)
      PROVE  Calm'
  BY <1>2, CalmEnqueue DEF Enqueue
<1>3. ASSUME NEW due \in SUBSET retry, NEW batch \in Batches(due), RequeueRetries(due, batch)
      PROVE  Calm'
  BY <1>3, CalmRetries DEF RequeueRetries
<1>4. ASSUME NEW due \in SUBSET processing, NEW batch \in Batches(due), RequeueStale(due, batch)
      PROVE  Calm'
  <2>1. CASE \E member \in due : Held(member)
    BY <1>4, <2>1, DisturbedIsCalm DEF RequeueStale
  <2>2. CASE ~\E member \in due : Held(member)
    <3>1. batch \in Seq(due) /\ batch # <<>> /\ disturbed' = disturbed
      BY <1>4, <2>2, BatchProperties DEF RequeueStale
    <3>2. Head(batch) \in due
      BY <3>1, HeadTailProperties
    <3> QED
      BY <2>2, <3>1, <3>2 DEF Undisturbed
  <2> QED
    BY <2>1, <2>2
<1>5. ASSUME NEW kind, Fails(kind)
      PROVE  Calm'
  BY <1>5, DisturbedIsCalm DEF Fails
<1>6. ASSUME DeleteQueue
      PROVE  Calm'
  BY <1>6, CalmDelete DEF DeleteQueue
<1> QED
  BY <1>1, <1>2, <1>3, <1>4, <1>5, <1>6, <1>7 DEF RunningNext, SafeNext

LEMMA CalmInit == QueueInit => Calm
<1> SUFFICES ASSUME QueueInit
             PROVE  Undisturbed
  BY DEF Calm
<1> QED
  BY OnceInit DEF Undisturbed, QueueInit, InitStore

LEMMA CalmIsOneOutcome == QueueTypeOK /\ Calm => OneOutcome
BY QueueAssumption DEF QueueTypeOK, Calm, Undisturbed, Answered, OneOutcome

(* While no call fails, no process dies and no timeout is premature, every *)
(* URL of a job that is never paused comes to at most one result, and one  *)
(* with a result is not pending, not in the backoff and not dead, whatever *)
(* the failed fetches, scans and stops before it (queue.go, pool.go), if   *)
(* none is pushed again after a stop has emptied the seen set.             *)
THEOREM CalmQueueHasOneOutcome ==
  ASSUME CleanUrls, "pause" \notin Allowed, Repeats = {}
  PROVE  QueueSpec => []OneOutcome
<1>1. QueueInit => QueueTypeOK /\ Calm
  BY QueueTypeInit, CalmInit
<1>2. QueueTypeOK /\ Calm /\ [QueueNext]_queueVars => (QueueTypeOK /\ Calm)'
  <2> SUFFICES ASSUME QueueTypeOK, Calm, [QueueNext]_queueVars
               PROVE  (QueueTypeOK /\ Calm)'
    OBVIOUS
  <2>1. CASE UNCHANGED queueVars
    BY <2>1, QueueTypeStutter, CalmStutter
  <2>2. CASE QueueNext
    <3>1. /\ \A w \in Workers : ~Requeue(w) /\ ~RequeueReplyLost(w)
          /\ \A u \in Source : ~EnqueueRepeated(u)
      BY DEF Requeue, RequeueReplyLost, PushBack, EnqueueRepeated
    <3>2. RunningNext
      BY <2>2, <3>1, SafeOrMultiplying DEF MultiplyingStep, RunningNext
    <3> QED
      BY <2>2, <3>2, QueueTypeStep, CalmStep
  <2> QED
    BY <2>1, <2>2
<1>3. QueueTypeOK /\ Calm => OneOutcome
  BY CalmIsOneOutcome
<1> QED
  BY <1>1, <1>2, <1>3, PTL DEF QueueSpec
=============================================================================
