----------------------------- MODULE WorkerPool -----------------------------
(***************************************************************************)
(* The worker pool (internal/worker/pool.go) at work on one crawling job:  *)
(* workerLoop, processTask and checkJobCompletion of every goroutine, and  *)
(* the recovery loop, over the queue of module CrawlQueue, the job's state *)
(* in Redis (internal/queue/jobstate.go) and its document in MongoDB.      *)
(* Every call to Redis or MongoDB is a step of its own; pc[w] names the    *)
(* next one.  The loop over the other active jobs is left out.             *)
(***************************************************************************)
EXTENDS CrawlQueue

CONSTANT CountCap  \* bound: crawled_urls and failed_urls are counted up to it

ASSUME PoolAssumption == CountCap \in Nat

VARIABLES
  pc,        \* pc[w]: the call worker w makes next
  scan,      \* the call the recovery loop makes next
  state,     \* crawl:{id}:state, "" when there is no such key
  active,    \* whether the job is in active:crawlings
  status,    \* the status in the crawling's document, "" before it exists
  crawled,   \* crawled_urls of that document
  failed,    \* failed_urls of that document
  bucket     \* whether the rate limiter's token keys exist

control == <<pc, scan>>
jobState == <<state, active, status>>
progress == <<crawled, failed>>
poolVars == <<control, jobState, progress, bucket>>

PoolInit ==
  /\ pc = [w \in Workers |-> "poll"]
  /\ scan = "idle"
  /\ state = ""
  /\ active = FALSE
  /\ status = ""
  /\ crawled = 0
  /\ failed = 0
  /\ bucket = FALSE

Goto(w, step) == pc' = [pc EXCEPT ![w] = step] /\ UNCHANGED scan

(* Worker w is at `from`, and whatever it reads sends it to `to`.          *)
Reads(w, from, to) ==
  /\ pc[w] = from
  /\ Goto(w, to)
  /\ UNCHANGED <<jobState, progress>>

Counted(n) == IF n < CountCap THEN n + 1 ELSE n

-----------------------------------------------------------------------------
(* workerLoop.                                                             *)

(* GetActiveCrawlings returns the job.                                     *)
Poll(w) ==
  /\ active
  /\ Reads(w, "poll", "getState")
  /\ UNCHANGED <<bucket, queueVars>>

(* Mutant: the state is not looked at.                                     *)
GetStateIgnored(w) ==
  /\ Reads(w, "getState", "acquire")
  /\ UNCHANGED <<bucket, queueVars>>

GetState(w) ==
  /\ Reads(w, "getState", IF state = "running" THEN "acquire" ELSE "poll")
  /\ UNCHANGED <<bucket, queueVars>>

(* Acquire writes the token keys whether or not it grants a token.         *)
Acquire(w, granted) ==
  /\ Reads(w, "acquire", IF granted THEN "dequeue" ELSE "poll")
  /\ bucket' = TRUE
  /\ UNCHANGED queueVars

TakeTask(w) ==
  /\ Reads(w, "dequeue", "recheck")
  /\ Dequeue(w)
  /\ UNCHANGED bucket

FindNoTask(w) ==
  /\ pending = <<>>
  /\ Reads(w, "dequeue", "length")
  /\ UNCHANGED <<bucket, queueVars>>

(* The script's reply is lost: it is sent again, or given up.              *)
TakeTaskReplyLost(w) ==
  /\ Reads(w, "dequeue", "poll") \/ Reads(w, "dequeue", "dequeue")
  /\ DequeueReplyLost(w)
  /\ UNCHANGED bucket

-----------------------------------------------------------------------------
(* processTask.                                                            *)

(* Mutant: wait for the job to run again.                                  *)
RecheckWaits(w) ==
  /\ Reads(w, "recheck", IF state = "running" THEN "fetch" ELSE "recheck")
  /\ UNCHANGED <<bucket, queueVars>>

Recheck(w) ==
  /\ Reads(w, "recheck", IF state = "running" THEN "fetch" ELSE "requeue")
  /\ UNCHANGED <<bucket, queueVars>>

PutBack(w) ==
  /\ Reads(w, "requeue", "poll")
  /\ Requeue(w)
  /\ UNCHANGED bucket

PutBackReplyLost(w) ==
  /\ Reads(w, "requeue", "requeue")
  /\ RequeueReplyLost(w)
  /\ UNCHANGED bucket

(* The fetch ends: below 500, or with an error or a server error.          *)
Fetch(w, ok) ==
  /\ Reads(w, "fetch", IF ok THEN "store" ELSE "retryRemove")
  /\ UNCHANGED <<bucket, queueVars>>

(* Mutant: a return before the Ack.                                        *)
StoreSkipsAck(w) ==
  /\ Reads(w, "store", "succeeded")
  /\ Store(w) \/ StoreFails(w)
  /\ UNCHANGED bucket

StoreResult(w) ==
  /\ Reads(w, "store", "ack")
  /\ Store(w) \/ StoreFails(w)
  /\ UNCHANGED bucket

Acknowledge(w) ==
  /\ Reads(w, "ack", "succeeded")
  /\ Ack(w)
  /\ UNCHANGED bucket

RemoveForRetry(w) ==
  /\ Reads(w, "retryRemove", "retryAdd")
  /\ RetryRemove(w) \/ RetryRemoveFails(w)
  /\ UNCHANGED bucket

AddToRetry(w) ==
  /\ Reads(w, "retryAdd", "failed")
  /\ RetryAdd(w)
  /\ UNCHANGED bucket

AddToRetryReplyLost(w) ==
  /\ Reads(w, "retryAdd", "retryAdd")
  /\ RetryAddReplyLost(w)
  /\ UNCHANGED bucket

(* Mutant: a failed attempt is counted as crawled.                         *)
CountAttemptCrawled(w) ==
  /\ pc[w] \in {"succeeded", "failed"}
  /\ crawled' = Counted(crawled)
  /\ UNCHANGED failed
  /\ Goto(w, "poll")
  /\ UNCHANGED <<jobState, bucket, queueVars>>

(* UpdateCrawlingProgress: every attempt counts, failed ones as failed.    *)
CountAttempt(w) ==
  /\ pc[w] \in {"succeeded", "failed"}
  /\ IF pc[w] = "succeeded"
     THEN crawled' = Counted(crawled) /\ UNCHANGED failed
     ELSE failed' = Counted(failed) /\ UNCHANGED crawled
  /\ Goto(w, "poll")
  /\ UNCHANGED <<jobState, bucket, queueVars>>

-----------------------------------------------------------------------------
(* checkJobCompletion.                                                     *)

(* The pipeline of GetStats, run in one go ...                             *)
MeasureQueue(w) ==
  /\ Reads(w, "length", IF QueueLength = 0 THEN "confirm" ELSE "poll")
  /\ UNCHANGED <<bucket, queueVars>>

(* ... or, a pipeline being no transaction, with other clients' commands   *)
(* between its own.  Once a length is not 0 the others do not matter.      *)
MeasureApart(w) ==
  /\ "split" \in Allowed
  /\ \/ Reads(w, "length", IF pending = <<>> THEN "lengthProcessing" ELSE "poll")
     \/ Reads(w, "lengthProcessing", IF processing = {} THEN "lengthRetry" ELSE "poll")
     \/ Reads(w, "lengthRetry", IF retry = {} THEN "confirm" ELSE "poll")
  /\ UNCHANGED <<bucket, queueVars>>

Confirm(w) ==
  /\ Reads(w, "confirm", IF state = "running" THEN "complete" ELSE "poll")
  /\ UNCHANGED <<bucket, queueVars>>

Complete(w) ==
  /\ pc[w] = "complete"
  /\ state' = "completed"
  /\ Goto(w, "deactivate")
  /\ UNCHANGED <<active, status, progress, bucket, queueVars>>

Deactivate(w) ==
  /\ pc[w] = "deactivate"
  /\ active' = FALSE
  /\ Goto(w, "record")
  /\ UNCHANGED <<state, status, progress, bucket, queueVars>>

Record(w) ==
  /\ pc[w] = "record"
  /\ status' = "completed"
  /\ Goto(w, "poll")
  /\ UNCHANGED <<state, active, progress, bucket, queueVars>>

-----------------------------------------------------------------------------
(* Where a worker goes when the call at its pc fails: most give up this    *)
(* round (pool.go:135-163, 217-274), a failed re-check counts as "not      *)
(* running" (194), and the errors of the writes are dropped (279-281).     *)
OnError ==
  [step \in {"getState", "acquire", "dequeue", "recheck", "length", "lengthProcessing",
             "lengthRetry", "confirm", "complete", "deactivate", "record", "succeeded", "failed"}
     |-> CASE step = "recheck" -> "requeue"
           [] step = "complete" -> "deactivate"
           [] step = "deactivate" -> "record"
           [] OTHER -> "poll"]

WorkerCallFails(w) ==
  /\ pc[w] \in DOMAIN OnError
  /\ CallFails
  /\ Goto(w, OnError[pc[w]])
  /\ UNCHANGED <<jobState, progress, bucket>>

OnTaskError == [requeue |-> "poll", ack |-> "succeeded", retryAdd |-> "failed"]

TaskCallFails(w) ==
  /\ pc[w] \in DOMAIN OnTaskError
  /\ LastCallFails(w)
  /\ Goto(w, OnTaskError[pc[w]])
  /\ UNCHANGED <<jobState, progress, bucket>>

(* The process dies and a new one starts at the top of the loop.           *)
Restart(w) ==
  /\ pc[w] # "poll"
  /\ Crash(w)
  /\ Goto(w, "poll")
  /\ UNCHANGED <<jobState, progress, bucket>>

-----------------------------------------------------------------------------
(* recoveryLoop: at a tick, for a job that is active, one scan of the      *)
(* processing set and then one of the retry set.                           *)

Scans(from, to) ==
  /\ scan = from
  /\ scan' = to
  /\ UNCHANGED <<pc, jobState, progress, bucket>>

Tick ==
  /\ active
  /\ Scans("idle", "stale")
  /\ UNCHANGED queueVars

(* Mutant: nothing is ever stale.                                          *)
ScanStaleNever(due) ==
  /\ Scans("stale", "retries")
  /\ due = processing
  /\ UNCHANGED queueVars

ScanStale(due) ==
  /\ Scans("stale", "retries")
  /\ IF due = {} THEN UNCHANGED queueVars
     ELSE \E batch \in Batches(due) : RequeueStale(due, batch)

ScanRetries(due) ==
  /\ Scans("retries", "idle")
  /\ IF due = {} THEN UNCHANGED queueVars
     ELSE \E batch \in Batches(due) : RequeueRetries(due, batch)

ScanFails ==
  /\ Scans("stale", "retries") \/ Scans("retries", "idle")
  /\ CallFails

-----------------------------------------------------------------------------
WorkerNext(w) ==
  \/ Poll(w)
  \/ GetState(w)
  \/ \E granted \in BOOLEAN : Acquire(w, granted)
  \/ TakeTask(w)
  \/ FindNoTask(w)
  \/ Recheck(w)
  \/ PutBack(w)
  \/ \E ok \in BOOLEAN : Fetch(w, ok)
  \/ StoreResult(w)
  \/ Acknowledge(w)
  \/ RemoveForRetry(w)
  \/ AddToRetry(w)
  \/ CountAttempt(w)
  \/ MeasureQueue(w)
  \/ MeasureApart(w)
  \/ Confirm(w)
  \/ Complete(w)
  \/ Deactivate(w)
  \/ Record(w)

WorkerFault(w) ==
  \/ TakeTaskReplyLost(w)
  \/ PutBackReplyLost(w)
  \/ AddToRetryReplyLost(w)
  \/ WorkerCallFails(w)
  \/ TaskCallFails(w)
  \/ Restart(w)

RecoveryNext ==
  \/ Tick
  \/ \E due \in SUBSET processing : ScanStale(due)
  \/ \E due \in SUBSET retry : ScanRetries(due)

PoolNext ==
  \/ \E w \in Workers : WorkerNext(w) \/ WorkerFault(w)
  \/ RecoveryNext
  \/ ScanFails
=============================================================================
