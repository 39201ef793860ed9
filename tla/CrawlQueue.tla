----------------------------- MODULE CrawlQueue -----------------------------
(***************************************************************************)
(* The distributed task queue of one crawling job                          *)
(* (internal/queue/queue.go): the four Redis keys crawl:{id}:pending,      *)
(* :processing, :retry and :dead, and what each worker goroutine holds in  *)
(* memory between two calls of the queue.                                  *)
(*                                                                         *)
(* Every Redis command, pipeline command or Lua script is one step; a      *)
(* queue method that issues two commands (Retry) is two actions.           *)
(* There is no clock: scores are Unix seconds taken on the machine that    *)
(* writes them and compared with the clock of the machine that scans, so   *)
(* which entries a scan finds due is a nondeterministic choice.            *)
(***************************************************************************)
EXTENDS Integers, Sequences, FiniteSets, Functions

CONSTANTS
  Urls,             \* every URL the model speaks of
  Source,           \* the URLs an ingestion may enqueue, as the parser read them
  Repeats,          \* those a source may list again, as new after a stop
  Clean,            \* Clean[u]: u after one json.Unmarshal (invalid UTF-8 replaced)
  Workers,          \* worker goroutines, of every replica
  MaxRetries,       \* CrawlTask.MaxRetries (CRAWLER_MAX_RETRIES)
  BatchLimit,       \* LIMIT of the two recovery scripts (1000 in the code)
  MaxPending,       \* bound: copies are requeued only while pending is shorter
  Allowed,          \* what may go wrong in this instance
  MaxDisturbances,  \* bound: how many times something goes wrong
  ResultCap,        \* bound: the results of a URL are counted up to it
  NoTask            \* the memory of a worker that holds no task

(* crash: a worker's process dies.  error: a call fails, or its commands   *)
(* run and the reply is lost, after which go-redis sends them again.       *)
(* timeout: a task is found stale while it is being handled.  ingestion:   *)
(* the ingestion goroutine ends early.  Not counted: pause, the job stops  *)
(* running while a worker holds a task; split, other clients' commands run *)
(* between those of a pipeline that reads.                                 *)
Disturbances == {"crash", "error", "timeout", "ingestion", "pause", "split"}

Task == [url : Urls, retries : 0..(MaxRetries + 1)]

ASSUME QueueAssumption ==
  /\ Source \subseteq Urls
  /\ Repeats \subseteq Source
  /\ Clean \in [Urls -> Urls]
  /\ \A u \in Urls : Clean[Clean[u]] = Clean[u]
  /\ MaxRetries \in Nat
  /\ BatchLimit \in Nat \ {0}
  /\ MaxPending \in Nat
  /\ Allowed \subseteq Disturbances
  /\ MaxDisturbances \in Nat
  /\ ResultCap \in Nat \ {0}
  /\ NoTask \notin Task

VARIABLES
  pending,     \* LIST, LPUSHed at the end of the sequence, RPOPped at its head
  processing,  \* ZSET of task JSON, scored by the second of the dequeue
  retry,       \* ZSET of task JSON, scored by the second the backoff ends
  dead,        \* LIST of task JSON, never read back: the set of its members
  deadAgain,   \* those of them that are in that list more than once
  task,        \* task[w]: the *CrawlTask worker w holds, or NoTask
  phase,       \* phase[w]: how far the handling of task[w] has come
  results,     \* results[u]: crawl_results documents of u, up to ResultCap
  accepted,    \* history: the URLs enqueued so far
  discarded,   \* history: those enqueued before the last DeleteQueue
  disturbed    \* how many times something went wrong

deadList == <<dead, deadAgain>>
store == <<pending, processing, retry, deadList>>
hold == <<task, phase>>
ghosts == <<accepted, discarded>>
queueVars == <<store, hold, results, ghosts, disturbed>>

(* free: no task.  taken: dequeued.  stored / unsaved: fetched, the result *)
(* inserted / not inserted.  removed: ZREMed by Retry, not yet ZADDed.     *)
Phases == {"free", "taken", "stored", "unsaved", "removed"}

-----------------------------------------------------------------------------
(* encoding/json: Marshal writes a string's invalid bytes as \ufffd, and a  *)
(* U+FFFD that came in through Unmarshal as itself.  A member and its       *)
(* decoded form differ exactly when the URL is not clean.                   *)
Marshal(t) == t
Unmarshal(member) == [member EXCEPT !.url = Clean[@]]

NewTask(u) == [url |-> u, retries |-> 0]

Disturb(kind) ==
  /\ kind \in Allowed
  /\ disturbed < MaxDisturbances
  /\ disturbed' = disturbed + 1

(* Mutant: one attempt too many.                                           *)
ExhaustedLate(t) == t.retries > MaxRetries + 1

(* A failed attempt beyond the last permitted one goes to the dead list.   *)
Exhausted(t) == t.retries > MaxRetries

(* Mutants: the processing set forgotten; the dead list counted.           *)
QueueLengthNoProcessing == Len(pending) + Cardinality(retry)
QueueLengthWithDead ==
  Len(pending) + Cardinality(processing) + Cardinality(retry) + Cardinality(dead)

(* LLEN pending + ZCARD processing + ZCARD retry.                          *)
QueueLength == Len(pending) + Cardinality(processing) + Cardinality(retry)

Hold(w, t, ph) ==
  /\ task' = [task EXCEPT ![w] = t]
  /\ phase' = [phase EXCEPT ![w] = ph]

Release(w) == Hold(w, NoTask, "free")

(* The members a ZRANGEBYSCORE ... LIMIT 0 BatchLimit returns when `due`   *)
(* are in range: all of them, or the first BatchLimit.                     *)
Batches(due) ==
  {batch \in UNION {Injection(1..n, due) : n \in 0..BatchLimit} :
     Range(batch) = due \/ Len(batch) = BatchLimit}

InitStore ==
  /\ pending = <<>>
  /\ processing = {}
  /\ retry = {}
  /\ dead = {}
  /\ deadAgain = {}

QueueInit ==
  /\ InitStore
  /\ task = [w \in Workers |-> NoTask]
  /\ phase = [w \in Workers |-> "free"]
  /\ results = [u \in Urls |-> 0]
  /\ accepted = {}
  /\ discarded = {}
  /\ disturbed = 0

-----------------------------------------------------------------------------
(* One LPUSH of EnqueueBatch's pipeline, for a URL the ingestion's dedup   *)
(* set has let through ...                                                 *)
Enqueue(u) ==
  /\ u \in Source \ accepted
  /\ pending' = Append(pending, Marshal(NewTask(u)))
  /\ accepted' = accepted \union {u}
  /\ UNCHANGED <<processing, retry, deadList, hold, results, discarded, disturbed>>

(* ... and one for a URL that has been pushed before: it counts as handed  *)
(* over anew.                                                              *)
EnqueueAgain(u) ==
  /\ u \in accepted
  /\ Len(pending) < MaxPending
  /\ pending' = Append(pending, Marshal(NewTask(u)))
  /\ discarded' = discarded \ {u}
  /\ UNCHANGED <<processing, retry, deadList, hold, results, accepted>>

(* The pipeline ran, wholly or up to some command, its reply was lost, and *)
(* go-redis sends it again ...                                             *)
EnqueueResent(u) == EnqueueAgain(u) /\ Disturb("error")

(* ... or the URL is read a second time and MarkSeen finds it new, the     *)
(* seen set having been emptied by a stop.                                 *)
EnqueueRepeated(u) ==
  /\ u \in Repeats
  /\ EnqueueAgain(u)
  /\ UNCHANGED disturbed

(* The RPOP and ZADD of the dequeue script.                                *)
MoveToProcessing ==
  /\ pending # <<>>
  /\ pending' = Tail(pending)
  /\ processing' = processing \union {Head(pending)}
  /\ UNCHANGED <<retry, deadList, results, ghosts>>

Dequeue(w) ==
  /\ phase[w] = "free"
  /\ MoveToProcessing
  /\ Hold(w, Unmarshal(Head(pending)), "taken")
  /\ UNCHANGED disturbed

(* The script ran and its reply did not arrive: the caller has no task.    *)
DequeueReplyLost(w) ==
  /\ phase[w] = "free"
  /\ MoveToProcessing
  /\ Disturb("error")
  /\ UNCHANGED hold

(* processTask finds the job not running: EnqueueBatch of the one task,    *)
(* and no command on the processing set.                                   *)
PushBack(w) ==
  /\ phase[w] = "taken"
  /\ "pause" \in Allowed
  /\ Len(pending) < MaxPending
  /\ pending' = Append(pending, Marshal(task[w]))
  /\ UNCHANGED <<processing, retry, deadList, results, ghosts>>

Requeue(w) ==
  /\ PushBack(w)
  /\ Release(w)
  /\ UNCHANGED disturbed

(* The LPUSH ran and its reply was lost: it is sent again, or given up.    *)
RequeueReplyLost(w) ==
  /\ PushBack(w)
  /\ Disturb("error")
  /\ UNCHANGED hold

(* The fetch succeeded and InsertCrawlingResult stored its result ...      *)
Store(w) ==
  /\ phase[w] = "taken"
  /\ phase' = [phase EXCEPT ![w] = "stored"]
  /\ results' = [results EXCEPT ![task[w].url] = IF @ < ResultCap THEN @ + 1 ELSE @]
  /\ UNCHANGED <<store, task, ghosts, disturbed>>

(* ... or failed, which is logged and not retried.                         *)
StoreFails(w) ==
  /\ phase[w] = "taken"
  /\ phase' = [phase EXCEPT ![w] = "unsaved"]
  /\ Disturb("error")
  /\ UNCHANGED <<store, task, results, ghosts>>

(* Mutant: nothing is removed.                                             *)
AckKeeps(w) ==
  /\ phase[w] \in {"stored", "unsaved"}
  /\ Release(w)
  /\ UNCHANGED <<store, results, ghosts, disturbed>>

Ack(w) ==
  /\ phase[w] \in {"stored", "unsaved"}
  /\ processing' = processing \ {Marshal(task[w])}
  /\ Release(w)
  /\ UNCHANGED <<pending, retry, deadList, results, ghosts, disturbed>>

(* Mutant: the ZREM forgotten.                                             *)
RetryRemoveKeeps(w) ==
  /\ phase[w] = "taken"
  /\ Hold(w, [task[w] EXCEPT !.retries = @ + 1], "removed")
  /\ UNCHANGED <<store, results, ghosts, disturbed>>

(* Retry, first half: ZREM (its error is dropped) and task.Retries++.      *)
RetryRemove(w) ==
  /\ phase[w] = "taken"
  /\ processing' = processing \ {Marshal(task[w])}
  /\ Hold(w, [task[w] EXCEPT !.retries = @ + 1], "removed")
  /\ UNCHANGED <<pending, retry, deadList, results, ghosts, disturbed>>

RetryRemoveFails(w) ==
  /\ phase[w] = "taken"
  /\ Disturb("error")
  /\ Hold(w, [task[w] EXCEPT !.retries = @ + 1], "removed")
  /\ UNCHANGED <<store, results, ghosts>>

(* Mutant: an exhausted task is dropped.                                   *)
RetryAddNoDead(w) ==
  /\ phase[w] = "removed"
  /\ retry' = IF Exhausted(task[w]) THEN retry ELSE retry \union {Marshal(task[w])}
  /\ Release(w)
  /\ UNCHANGED <<pending, processing, deadList, results, ghosts, disturbed>>

PushDead(t) ==
  /\ dead' = dead \union {t}
  /\ deadAgain' = deadAgain \union ({t} \intersect dead)

(* Retry, second half: LPUSH to the dead list or ZADD to the retry set.    *)
SendOn(w) ==
  /\ phase[w] = "removed"
  /\ IF Exhausted(task[w])
     THEN PushDead(Marshal(task[w])) /\ UNCHANGED retry
     ELSE retry' = retry \union {Marshal(task[w])} /\ UNCHANGED deadList
  /\ UNCHANGED <<pending, processing, results, ghosts>>

RetryAdd(w) ==
  /\ SendOn(w)
  /\ Release(w)
  /\ UNCHANGED disturbed

(* The command ran and its reply was lost: it is sent again, or given up.  *)
RetryAddReplyLost(w) ==
  /\ SendOn(w)
  /\ Disturb("error")
  /\ UNCHANGED hold

(* The call that would end the handling of a task (the pause's requeue,    *)
(* Ack, the second half of Retry) fails without effect: the error is       *)
(* dropped or logged, and so is the task.                                  *)
LastCallFails(w) ==
  /\ phase[w] \in (Phases \ {"free"})
  /\ Disturb("error")
  /\ Release(w)
  /\ UNCHANGED <<store, results, ghosts>>

(* The worker's process dies: only its memory is lost.                     *)
Crash(w) ==
  /\ Disturb("crash")
  /\ Release(w)
  /\ UNCHANGED <<store, results, ghosts>>

(* Nothing happens to the queue: another call fails without effect         *)
(* (GetStats, Dequeue, a recovery script), or the ingestion ends early.    *)
Fails(kind) ==
  /\ Disturb(kind)
  /\ UNCHANGED <<store, hold, results, ghosts>>

CallFails == Fails("error")

(* Mutant: a recovery script that removes and does not push.              *)
RequeueRetriesNoPush(due, batch) ==
  /\ batch # <<>>
  /\ retry' = retry \ due
  /\ UNCHANGED <<pending, processing, deadList, hold, results, ghosts, disturbed>>

(* The two recovery scripts: LPUSH the members ZRANGEBYSCORE returned,     *)
(* ZREMRANGEBYSCORE everything due.                                        *)
RequeueRetries(due, batch) ==
  /\ batch # <<>>
  /\ Len(pending) + Len(batch) <= MaxPending
  /\ pending' = pending \o batch
  /\ retry' = retry \ due
  /\ UNCHANGED <<processing, deadList, hold, results, ghosts, disturbed>>

(* A worker still handles the task decoded from this member.               *)
Held(member) ==
  \E w \in Workers : phase[w] \in {"taken", "stored", "unsaved"} /\ task[w] = Unmarshal(member)

(* processingTimeout has passed for `due`.  When a worker still handles    *)
(* one of them the timeout is premature, and counts as a disturbance.      *)
RequeueStale(due, batch) ==
  /\ batch # <<>>
  /\ Len(pending) + Len(batch) <= MaxPending
  /\ pending' = pending \o batch
  /\ processing' = processing \ due
  /\ IF \E member \in due : Held(member) THEN Disturb("timeout") ELSE UNCHANGED disturbed
  /\ UNCHANGED <<retry, deadList, hold, results, ghosts>>

(* DEL of the four keys, on behalf of StopCrawling.                        *)
DeleteQueue ==
  /\ pending' = <<>>
  /\ processing' = {}
  /\ retry' = {}
  /\ dead' = {}
  /\ deadAgain' = {}
  /\ discarded' = accepted
  /\ UNCHANGED <<hold, results, accepted, disturbed>>

-----------------------------------------------------------------------------
WorkerStep(w) ==
  \/ Dequeue(w)
  \/ DequeueReplyLost(w)
  \/ Requeue(w)
  \/ RequeueReplyLost(w)
  \/ Store(w)
  \/ StoreFails(w)
  \/ Ack(w)
  \/ RetryRemove(w)
  \/ RetryRemoveFails(w)
  \/ RetryAdd(w)
  \/ RetryAddReplyLost(w)
  \/ LastCallFails(w)
  \/ Crash(w)

Recovery ==
  \/ \E due \in SUBSET retry : \E batch \in Batches(due) : RequeueRetries(due, batch)
  \/ \E due \in SUBSET processing : \E batch \in Batches(due) : RequeueStale(due, batch)

QueueNext ==
  \/ \E u \in Source : Enqueue(u) \/ EnqueueResent(u) \/ EnqueueRepeated(u)
  \/ \E w \in Workers : WorkerStep(w)
  \/ Recovery
  \/ \E kind \in {"error", "ingestion"} : Fails(kind)
  \/ DeleteQueue

QueueSpec == QueueInit /\ [][QueueNext]_queueVars
-----------------------------------------------------------------------------
(* Properties.                                                             *)

Live == [url : Urls, retries : 0..MaxRetries]

(* Type invariant: a task is crawled at most MaxRetries + 1 times, so the   *)
(* dead list holds exactly those that have failed MaxRetries + 1 times, and *)
(* no other list holds one; a worker holds a task exactly when it is busy.  *)
QueueTypeOK ==
  /\ pending \in Seq(Live)
  /\ processing \subseteq Live
  /\ retry \subseteq {t \in Live : t.retries > 0}
  /\ dead \subseteq {t \in Task : Exhausted(t)}
  /\ deadAgain \subseteq dead
  /\ task \in [Workers -> Task \union {NoTask}]
  /\ phase \in [Workers -> Phases]
  /\ \A w \in Workers :
       /\ phase[w] = "free" <=> task[w] = NoTask
       /\ phase[w] \in {"taken", "stored", "unsaved"} => task[w] \in Live
       /\ phase[w] = "removed" => task[w].retries > 0
  /\ results \in [Urls -> 0..ResultCap]
  /\ accepted \subseteq Source
  /\ discarded \subseteq accepted
  /\ disturbed \in 0..MaxDisturbances

(* Entries of the queue are of the same URL when they decode to the same.  *)
Same(u, v) == Clean[u] = Clean[v]

Entries == Range(pending) \union processing \union retry \union dead

Queued(u) == \E t \in Entries : Same(t.url, u)

(* Between the two commands of Retry the task is nowhere but in memory.    *)
InGap(u) == \E w \in Workers : phase[w] = "removed" /\ Same(task[w].url, u)

Accounted(u) == Queued(u) \/ InGap(u) \/ results[Clean[u]] > 0

(* What a worker holds was decoded once, and "stored" tasks have results.   *)
HeldOK ==
  \A w \in Workers :
    /\ phase[w] # "free" => Clean[task[w].url] = task[w].url
    /\ phase[w] = "stored" => results[task[w].url] > 0

Owed == accepted \ discarded

(* The only steps of the queue that forget a URL: a crash or a failed call  *)
(* between Retry's two commands, the Ack of a result that was not stored,   *)
(* and a recovery script that finds more than BatchLimit entries due.       *)
LosingStep ==
  \/ \E w \in Workers : phase[w] = "removed" /\ (Crash(w) \/ LastCallFails(w))
  \/ \E w \in Workers : phase[w] = "unsaved" /\ Ack(w)
  \/ \E due \in SUBSET retry : \E batch \in Batches(due) :
       Range(batch) # due /\ RequeueRetries(due, batch)
  \/ \E due \in SUBSET processing : \E batch \in Batches(due) :
       Range(batch) # due /\ RequeueStale(due, batch)

Forgets == \E u \in Owed' : (u \in accepted => Accounted(u)) /\ ~Accounted(u)'

(* No other step of any worker, of the recovery loop or of the ingestion,   *)
(* under any crashes, failed calls, premature timeouts and pauses, loses an *)
(* accepted URL (queue.go as a whole).                                      *)
LostOnlyByLosingStep == [][Forgets => LosingStep]_queueVars

(* ARCHITECTURE.md "Redis queues provide atomic dequeue (no                 *)
(* double-processing)": no URL is handled by two workers at once.           *)
NoDoubleProcessing ==
  \A v, w \in Workers :
    v # w /\ task[v] # NoTask /\ task[w] # NoTask => ~Same(task[v].url, task[w].url)

(* The positions of the lists, the members of the sets and the workers in  *)
(* Retry's gap that stand for u.                                           *)
CopiesOf(u) ==
  {<<"pending", i>> : i \in {j \in DOMAIN pending : pending[j].url = u}}
    \union {<<"processing", t>> : t \in {s \in processing : s.url = u}}
    \union {<<"retry", t>> : t \in {s \in retry : s.url = u}}
    \union {<<"dead", t>> : t \in {s \in dead : s.url = u}}
    \union {<<"dead again", t>> : t \in {s \in deadAgain : s.url = u}}
    \union {<<"gap", w>> : w \in {v \in Workers : phase[v] = "removed" /\ task[v].url = u}}

(* Crashes, recovery and retries never multiply a task: over the four keys  *)
(* and the workers between Retry's commands, a URL has at most one copy.    *)
SingleCopy == \A u \in Urls : Cardinality(CopiesOf(u)) <= 1

(* Without faults a URL comes to one end: one stored result and no copy of  *)
(* the task left after its Ack, or the dead list and no result.             *)
OneOutcome ==
  disturbed = 0 =>
    \A u \in Urls :
      /\ results[u] <= 1
      /\ results[u] = 1 => \A t \in Range(pending) \union retry \union dead : t.url # u

(* The abstract state of module Ledger: the URLs as the results name them,  *)
(* each kept while an entry or the memory of a worker stands for it.        *)
Keys == {Clean[u] : u \in Urls}

KeysOf(us) == {Clean[u] : u \in us}

Working == {w \in Workers : phase[w] # "free"}

Remembered == {Clean[t.url] : t \in Entries} \union {Clean[task[w].url] : w \in Working}

StatusOf(k) ==
  IF k \notin KeysOf(accepted) THEN "new"
  ELSE IF results[k] > 0 THEN "answered"
  ELSE IF k \in Remembered THEN "kept"
  ELSE "gone"

Promise == INSTANCE Ledger
  WITH Keys <- Keys, Limit <- BatchLimit, status <- [k \in Keys |-> StatusOf(k)],
       owed <- KeysOf(Owed), failed <- disturbed > 0, backlog <- QueueLength

(* The queue implements the ledger: no result for a URL nobody handed over, *)
(* none revived after it is gone unless it is handed over again, and        *)
(* without faults or an overflow no URL of a job that is not stopped is     *)
(* ever gone (queue.go, pool.go:200-257).                                   *)
KeepsItsPromise == Promise!LedgerSpec
=============================================================================
