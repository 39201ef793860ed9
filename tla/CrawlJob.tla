------------------------------ MODULE CrawlJob ------------------------------
(***************************************************************************)
(* One crawling job from POST /crawlings/start to its end: the ingestion   *)
(* goroutine and the pause, resume and stop requests of the API            *)
(* (internal/api/handler.go), running against the workers and the recovery *)
(* loop of module WorkerPool.                                              *)
(*                                                                         *)
(* Every call a handler makes to Redis or MongoDB is a step; between two   *)
(* of them anything else may happen.  A handler reads the status once, at  *)
(* its start.                                                              *)
(***************************************************************************)
EXTENDS WorkerPool

CONSTANTS
  Requests,   \* pause, resume and stop requests that may come
  Operations, \* which of "pause", "resume" and "stop" they may be
  Times       \* how many times the source lists each of its URLs

ASSUME JobAssumption ==
  /\ Operations \subseteq {"pause", "resume", "stop"}
  /\ IsFiniteSet(Source)
  /\ Times \in Nat \ {0}

VARIABLES
  ing,      \* what the ingestion goroutine does next
  unread,   \* parsed lines it has not looked at yet
  fresh,    \* lines of the current batch that MarkSeen let through
  seen,     \* crawl:{id}:seen
  total,    \* total_urls of the crawling's document
  req       \* req[r]: the call request r makes next

ingestVars == <<ing, unread, fresh, seen, total>>
jobVars == <<queueVars, poolVars, ingestVars, req>>

(* What the parser returns: <<u, n>> is the n-th mention of URL u.         *)
Lines == Source \X (1..Times)

JobInit ==
  /\ QueueInit
  /\ PoolInit
  /\ ing = "none"
  /\ unread = {}
  /\ fresh = {}
  /\ seen = {}
  /\ total = 0
  /\ req = [r \in Requests |-> "none"]

-----------------------------------------------------------------------------
(* StartCrawling: insert the document as "pending", start the ingestion.   *)
StartCrawling ==
  /\ ing = "none"
  /\ status = ""
  /\ status' = "pending"
  /\ ing' = "parse"
  /\ UNCHANGED <<queueVars, control, state, active, progress, bucket>>
  /\ UNCHANGED <<unread, fresh, seen, total, req>>

(* An ingestion step that touches neither the queue nor the job's state.   *)
Ingests(from, to) ==
  /\ ing = from
  /\ ing' = to
  /\ UNCHANGED <<control, progress, req>>

Parse ==
  /\ Ingests("parse", "total")
  /\ unread' = Lines
  /\ UNCHANGED <<queueVars, jobState, bucket, fresh, seen, total>>

(* The source cannot be read, or has no URL.                               *)
ParseFails ==
  /\ Ingests("parse", "fail")
  /\ UNCHANGED <<queueVars, jobState, bucket, unread, fresh, seen, total>>

(* SetCrawlingError.                                                       *)
MarkFailed ==
  /\ Ingests("fail", "ended")
  /\ status' = "failed"
  /\ UNCHANGED <<queueVars, state, active, bucket, unread, fresh, seen, total>>

SetTotal ==
  /\ Ingests("total", "limiter")
  /\ total' = Cardinality(unread)
  /\ UNCHANGED <<queueVars, jobState, bucket, unread, fresh, seen>>

(* Mutant: the job is activated before its URLs are enqueued.              *)
InitLimiterActivates ==
  /\ Ingests("limiter", "mark")
  /\ bucket' = TRUE
  /\ active' = TRUE
  /\ UNCHANGED <<queueVars, state, status, unread, fresh, seen, total>>

InitLimiter ==
  /\ Ingests("limiter", "mark")
  /\ bucket' = TRUE
  /\ UNCHANGED <<queueVars, jobState, unread, fresh, seen, total>>

(* Some of Init's pipeline may have run all the same.                      *)
LimiterFails ==
  /\ Ingests("limiter", "fail")
  /\ CallFails
  /\ bucket' \in {bucket, TRUE}
  /\ UNCHANGED <<jobState, unread, fresh, seen, total>>

(* MarkSeen; only a URL that is new goes into the batch.                   *)
MarkSeen(line) ==
  /\ Ingests("mark", "mark")
  /\ line \in unread
  /\ unread' = unread \ {line}
  /\ seen' = seen \union {line[1]}
  /\ fresh' = IF line[1] \in seen THEN fresh ELSE fresh \union {line}
  /\ UNCHANGED <<queueVars, jobState, bucket, total>>

(* The batch ends, after 1000 URLs or with the list.                       *)
EndBatch ==
  /\ Ingests("mark", "push")
  /\ fresh # {} \/ unread = {}
  /\ UNCHANGED <<queueVars, jobState, bucket, unread, fresh, seen, total>>

(* A URL comes a second time when a stop has emptied the seen set.         *)
PushTask(line) ==
  /\ Ingests("push", "push")
  /\ line \in fresh
  /\ Enqueue(line[1]) \/ EnqueueRepeated(line[1])
  /\ fresh' = fresh \ {line}
  /\ UNCHANGED <<jobState, bucket, unread, seen, total>>

(* The pipeline is sent again (which batch a URL was of is not kept).      *)
PushTaskAgain(u) ==
  /\ Ingests("push", "push")
  /\ EnqueueResent(u)
  /\ UNCHANGED <<jobState, bucket, unread, fresh, seen, total>>

NextBatch ==
  /\ Ingests("push", IF unread = {} THEN "setStatus" ELSE "mark")
  /\ fresh = {}
  /\ UNCHANGED <<queueVars, jobState, bucket, unread, fresh, seen, total>>

MarkRunning ==
  /\ Ingests("setStatus", "setState")
  /\ status' = "running"
  /\ UNCHANGED <<queueVars, state, active, bucket, unread, fresh, seen, total>>

SetRunning ==
  /\ Ingests("setState", "addActive")
  /\ state' = "running"
  /\ UNCHANGED <<queueVars, active, status, bucket, unread, fresh, seen, total>>

AddActive ==
  /\ Ingests("addActive", "ended")
  /\ active' = TRUE
  /\ UNCHANGED <<queueVars, state, status, bucket, unread, fresh, seen, total>>

(* A failed MarkSeen skips its URL (marked or not), a failed push what is  *)
(* left of its batch; the other errors are dropped.                        *)
IngestionCallFails ==
  /\ CallFails
  /\ \/ Ingests("total", "limiter") /\ UNCHANGED <<unread, fresh, seen>>
     \/ Ingests("fail", "ended") /\ UNCHANGED <<unread, fresh, seen>>
     \/ Ingests("setStatus", "setState") /\ UNCHANGED <<unread, fresh, seen>>
     \/ Ingests("setState", "addActive") /\ UNCHANGED <<unread, fresh, seen>>
     \/ Ingests("addActive", "ended") /\ UNCHANGED <<unread, fresh, seen>>
     \/ /\ Ingests("mark", "mark")
        /\ \E line \in unread :
             unread' = unread \ {line} /\ seen' \in {seen, seen \union {line[1]}}
        /\ UNCHANGED fresh
     \/ /\ Ingests("push", "push")
        /\ fresh # {}
        /\ fresh' = {}
        /\ UNCHANGED <<unread, seen>>
  /\ UNCHANGED <<jobState, bucket, total>>

(* The API process dies, or the ten minutes of the ingestion's context are *)
(* over and every later call fails, SetCrawlingError too.                  *)
IngestionDies ==
  /\ ing \notin {"none", "ended"}
  /\ Fails("ingestion")
  /\ ing' = "ended"
  /\ unread' = {}
  /\ fresh' = {}
  /\ UNCHANGED <<poolVars, seen, total, req>>

-----------------------------------------------------------------------------
(* The handlers of POST /crawlings/:id/pause, /resume and /stop.           *)

Serves(r, from, to) ==
  /\ req[r] = from
  /\ req' = [req EXCEPT ![r] = to]
  /\ UNCHANGED <<control, progress, ingestVars>>

(* GetCrawling and the check of its status.  A request that fails it       *)
(* changes nothing and is left out.                                        *)
Admit(r) ==
  /\ \/ "pause" \in Operations /\ status = "running" /\ Serves(r, "none", "pauseState")
     \/ "resume" \in Operations /\ status = "paused" /\ Serves(r, "none", "resumeState")
     \/ /\ "stop" \in Operations
        /\ status \notin {"", "completed", "stopped"}
        /\ Serves(r, "none", "stopState")
  /\ UNCHANGED <<queueVars, jobState, bucket>>

SetsState(r, from, to, value) ==
  /\ Serves(r, from, to)
  /\ state' = value
  /\ UNCHANGED <<queueVars, active, status, bucket>>

SetsStatus(r, from, to, value) ==
  /\ Serves(r, from, to)
  /\ status' = value
  /\ UNCHANGED <<queueVars, state, active, bucket>>

Pause(r) ==
  \/ SetsState(r, "pauseState", "pauseStatus", "paused")
  \/ SetsStatus(r, "pauseStatus", "served", "paused")

Resume(r) ==
  \/ SetsState(r, "resumeState", "resumeStatus", "running")
  \/ SetsStatus(r, "resumeStatus", "served", "running")

StopActive(r) ==
  /\ Serves(r, "stopActive", "stopStatus")
  /\ active' = FALSE
  /\ UNCHANGED <<queueVars, state, status, bucket>>

(* Mutant: only the pending list is deleted.                               *)
StopQueuePendingOnly(r) ==
  /\ Serves(r, "stopQueue", "stopSeen")
  /\ pending' = <<>>
  /\ discarded' = accepted
  /\ UNCHANGED <<processing, retry, deadList, hold, results, accepted, disturbed>>
  /\ UNCHANGED <<jobState, bucket>>

StopQueue(r) ==
  /\ Serves(r, "stopQueue", "stopSeen")
  /\ DeleteQueue
  /\ UNCHANGED <<jobState, bucket>>

StopSeen(r) ==
  /\ req[r] = "stopSeen"
  /\ req' = [req EXCEPT ![r] = "stopLimiter"]
  /\ seen' = {}
  /\ UNCHANGED <<queueVars, poolVars, ing, unread, fresh, total>>

StopLimiter(r) ==
  /\ Serves(r, "stopLimiter", "served")
  /\ bucket' = FALSE
  /\ UNCHANGED <<queueVars, jobState>>

Stop(r) ==
  \/ SetsState(r, "stopState", "stopActive", "stopped")
  \/ StopActive(r)
  \/ SetsStatus(r, "stopStatus", "stopQueue", "stopped")
  \/ StopQueue(r)
  \/ StopSeen(r)
  \/ StopLimiter(r)

(* The handlers drop every error and go on with the next call.             *)
AfterCall ==
  [step \in {"pauseState", "pauseStatus", "resumeState", "resumeStatus", "stopState",
             "stopActive", "stopStatus", "stopQueue", "stopSeen", "stopLimiter"}
     |-> CASE step = "pauseState" -> "pauseStatus"
           [] step = "resumeState" -> "resumeStatus"
           [] step = "stopState" -> "stopActive"
           [] step = "stopActive" -> "stopStatus"
           [] step = "stopStatus" -> "stopQueue"
           [] step = "stopQueue" -> "stopSeen"
           [] step = "stopSeen" -> "stopLimiter"
           [] OTHER -> "served"]

RequestCallFails(r) ==
  /\ req[r] \in DOMAIN AfterCall
  /\ CallFails
  /\ Serves(r, req[r], AfterCall[req[r]])
  /\ UNCHANGED <<jobState, bucket>>

(* The client goes away, which cancels the request's context and fails all *)
(* its later calls, or the API process dies.                               *)
RequestDies(r) ==
  /\ req[r] \in DOMAIN AfterCall
  /\ CallFails
  /\ Serves(r, req[r], "served")
  /\ UNCHANGED <<jobState, bucket>>

-----------------------------------------------------------------------------
IngestionNext ==
  \/ Parse
  \/ SetTotal
  \/ InitLimiter
  \/ \E line \in Lines : MarkSeen(line) \/ PushTask(line)
  \/ EndBatch
  \/ NextBatch
  \/ MarkRunning
  \/ SetRunning
  \/ AddActive
  \/ MarkFailed

IngestionFault ==
  \/ ParseFails
  \/ LimiterFails
  \/ \E u \in Source : PushTaskAgain(u)
  \/ IngestionCallFails
  \/ IngestionDies

RequestNext(r) == Pause(r) \/ Resume(r) \/ Stop(r)

JobNext ==
  \/ StartCrawling
  \/ IngestionNext
  \/ IngestionFault
  \/ \E r \in Requests : Admit(r) \/ RequestNext(r) \/ RequestCallFails(r) \/ RequestDies(r)
  \/ PoolNext /\ UNCHANGED <<ingestVars, req>>

JobSpec == JobInit /\ [][JobNext]_jobVars

(* Fairness.  A goroutine keeps making calls (WF).  Tokens are refilled, so *)
(* a worker that keeps asking gets one; a backoff ends, and an entry nobody *)
(* handles gets older than processingTimeout, so that a scan finds it (SF). *)
Abandoned == {member \in processing : ~Held(member)}

PoolFairness ==
  /\ \A w \in Workers :
       /\ WF_jobVars(WorkerNext(w) /\ UNCHANGED <<ingestVars, req>>)
       /\ SF_jobVars(Acquire(w, TRUE) /\ UNCHANGED <<ingestVars, req>>)
  /\ WF_jobVars(RecoveryNext /\ UNCHANGED <<ingestVars, req>>)
  /\ SF_jobVars(ScanStale(Abandoned) /\ UNCHANGED <<ingestVars, req>>)
  /\ SF_jobVars(ScanRetries(retry) /\ UNCHANGED <<ingestVars, req>>)

FairJobSpec ==
  /\ JobSpec
  /\ WF_jobVars(IngestionNext)
  /\ \A r \in Requests : WF_jobVars(RequestNext(r))
  /\ PoolFairness

-----------------------------------------------------------------------------
(* Properties.                                                             *)

Steps ==
  {"poll", "getState", "acquire", "dequeue", "recheck", "requeue", "fetch", "store", "ack",
   "succeeded", "retryRemove", "retryAdd", "failed", "length", "lengthProcessing",
   "lengthRetry", "confirm", "complete", "deactivate", "record"}

(* Where a worker's control is, its hold on a task is.                     *)
PhaseAt(step) ==
  CASE step \in {"recheck", "requeue", "fetch", "store", "retryRemove"} -> {"taken"}
    [] step = "ack" -> {"stored", "unsaved"}
    [] step = "retryAdd" -> {"removed"}
    [] OTHER -> {"free"}

(* Type invariant: a worker holds a task exactly from its dequeue to the   *)
(* last call of processTask on the queue (pool.go).                        *)
JobTypeOK ==
  /\ pc \in [Workers -> Steps]
  /\ \A w \in Workers : phase[w] \in PhaseAt(pc[w])
  /\ scan \in {"idle", "stale", "retries"}
  /\ state \in {"", "running", "paused", "stopped", "completed"}
  /\ active \in BOOLEAN /\ bucket \in BOOLEAN
  /\ status \in {"", "pending", "running", "paused", "stopped", "completed", "failed"}
  /\ crawled \in 0..CountCap /\ failed \in 0..CountCap
  /\ ing \in {"none", "parse", "total", "limiter", "mark", "push", "fail", "setStatus",
              "setState", "addActive", "ended"}
  /\ unread \subseteq Lines /\ fresh \subseteq Lines /\ seen \subseteq Source
  /\ total \in {0, Cardinality(Lines)}
  /\ req \in [Requests -> {"none", "served"} \union DOMAIN AfterCall]

(* No worker touches the queue, and nobody can find it empty, before the   *)
(* ingestion has made its last call (handler.go:367-370): a job cannot be  *)
(* completed while its URLs are still being enqueued.                      *)
WorkAfterIngestion ==
  state = "completed" \/ (\E w \in Workers : pc[w] # "poll") => ing = "ended"

Settled(u) == results[Clean[u]] > 0 \/ \E t \in dead : Same(t.url, u)

Attempted(u) ==
  \/ \E t \in Range(pending) \union processing \union retry : t.retries > 0 /\ Same(t.url, u)
  \/ \E w \in Workers : task[w] # NoTask /\ task[w].retries > 0 /\ Same(task[w].url, u)

(* However the workers race for the last tasks, a completed job has tried   *)
(* every URL: those that are not settled have failed and were on their way  *)
(* through Retry, or out of it again, while checkJobCompletion measured the *)
(* queue (pool.go:264-285).                                                *)
CompletedMeansTried == state = "completed" => \A u \in Owed : Settled(u) \/ Attempted(u)

(* Between a stored result and the count of it there is exactly a worker    *)
(* on its way from InsertCrawlingResult to UpdateCrawlingProgress.          *)
CrawledCountsResults ==
  crawled + Cardinality({w \in Workers : pc[w] \in {"ack", "succeeded"}})
    = Cardinality({u \in Urls : results[u] > 0})

(* failed_urls counts attempts, not URLs (pool.go:217, 231): progress may    *)
(* exceed 100 percent, but a job without faults counts every URL at most    *)
(* MaxRetries + 1 times, by whichever workers it is tried.                  *)
ProgressBounded == crawled + failed <= (MaxRetries + 1) * total

(* HOW-TO-USE.md:410 "This is irreversible": a stopped job is never marked  *)
(* running again.                                                           *)
StopIsFinal == [][status = "stopped" => status' # "running"]_jobVars

(* A job that is created comes to an end, whatever the fetches return and   *)
(* however the workers race for the last tasks.                             *)
EventuallyFinishes == (status = "pending") ~> (status \in {"completed", "failed"})

(* ARCHITECTURE.md "Worker Crash Recovery": what a crashed worker held, and *)
(* what waits for its retry, is worked off while the job runs and is listed *)
(* in active:crawlings.                                                     *)
Drains == active ~> (QueueLength = 0 \/ state # "running" \/ ~active)

(* Workers that are in the middle of a task or of a completion when the job *)
(* leaves active:crawlings finish and do not come back to it.               *)
InactiveWorkersIdle == (ing = "ended" /\ ~active) ~> (\A w \in Workers : pc[w] = "poll")

(* While a job stays paused every worker finishes what it has in flight,    *)
(* hands it back or to Retry, and from then on only asks for the state      *)
(* (processTask's re-check, workerLoop's GetState).                         *)
PausedWorkersIdle ==
  <>[](state = "paused") => <>[](\A w \in Workers : pc[w] \in {"poll", "getState"})

(* The same after a stop, even if its client has gone and the rest of its   *)
(* calls fail (handler.go:440-453): no worker goes on with a stopped job.   *)
StoppedWorkersIdle ==
  <>[](status = "stopped" /\ ing = "ended") => <>[](\A w \in Workers : pc[w] \in {"poll", "getState"})
=============================================================================
