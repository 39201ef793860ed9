--------------------------- MODULE CrawlJobProofs ---------------------------
(* Theorems about the whole job, for every value of its constants.         *)
EXTENDS CrawlJob, LedgerProofs

USE DEF deadList

-----------------------------------------------------------------------------
(* Every step of the job is a step of the queue or leaves it alone.        *)

(* A worker touches the queue by one of its operations, or not at all.     *)
LEMMA WorkerIsQueueStep ==
  ASSUME NEW w \in Workers, WorkerNext(w) \/ WorkerFault(w)
  PROVE  QueueNext \/ UNCHANGED queueVars
<1>1. CASE WorkerNext(w)
  BY <1>1
     DEF WorkerNext, Poll, GetState, Acquire, TakeTask, FindNoTask, Recheck, PutBack, Fetch,
         StoreResult, Acknowledge, RemoveForRetry, AddToRetry, CountAttempt, MeasureQueue,
         MeasureApart, Confirm, Complete, Deactivate, Record, QueueNext, WorkerStep
<1>2. CASE WorkerFault(w)
  BY <1>2
     DEF WorkerFault, TakeTaskReplyLost, PutBackReplyLost, AddToRetryReplyLost,
         WorkerCallFails, TaskCallFails, Restart, CallFails,
         QueueNext, WorkerStep
<1> QED
  BY <1>1, <1>2

(* So does the recovery loop: its scans are the two recovery scripts.      *)
LEMMA RecoveryIsQueueStep ==
  ASSUME RecoveryNext \/ ScanFails
  PROVE  QueueNext \/ UNCHANGED queueVars
<1>1. CASE Tick
  BY <1>1 DEF Tick
<1>2. ASSUME NEW due \in SUBSET processing, ScanStale(due)
      PROVE  QueueNext \/ UNCHANGED queueVars
  BY <1>2 DEF ScanStale, QueueNext, Recovery
<1>3. ASSUME NEW due \in SUBSET retry, ScanRetries(due)
      PROVE  QueueNext \/ UNCHANGED queueVars
  BY <1>3 DEF ScanRetries, QueueNext, Recovery
<1>4. CASE ScanFails
  BY <1>4 DEF ScanFails, CallFails, QueueNext
<1> QED
  BY <1>1, <1>2, <1>3, <1>4 DEF RecoveryNext

(* So does the ingestion: it enqueues, fails or dies.                      *)
LEMMA IngestionIsQueueStep ==
  ASSUME StartCrawling \/ IngestionNext \/ IngestionFault
  PROVE  QueueNext \/ UNCHANGED queueVars
<1>1. CASE StartCrawling
  BY <1>1 DEF StartCrawling
<1>2. ASSUME NEW line \in Lines, PushTask(line)
      PROVE  QueueNext
  <2>1. line[1] \in Source
    BY DEF Lines
  <2> QED
    BY <1>2, <2>1 DEF PushTask, QueueNext
<1>4. CASE IngestionNext
  BY <1>2, <1>4
     DEF IngestionNext, Parse, SetTotal, InitLimiter, MarkSeen, EndBatch, NextBatch,
         MarkRunning, SetRunning, AddActive, MarkFailed
<1>3. CASE IngestionFault
  BY <1>3
     DEF IngestionFault, ParseFails, LimiterFails, PushTaskAgain, IngestionCallFails,
         IngestionDies,
         CallFails, QueueNext
<1> QED
  BY <1>1, <1>3, <1>4

(* So does a request of the API: a stop deletes the queue.                 *)
LEMMA RequestIsQueueStep ==
  ASSUME NEW r \in Requests, Admit(r) \/ RequestNext(r) \/ RequestCallFails(r) \/ RequestDies(r)
  PROVE  QueueNext \/ UNCHANGED queueVars
<1>1. CASE Admit(r)
  BY <1>1 DEF Admit
<1>2. CASE RequestNext(r)
  BY <1>2
     DEF RequestNext, Pause, Resume, Stop, SetsState, SetsStatus, StopActive, StopQueue,
         StopSeen, StopLimiter, QueueNext
<1>3. CASE RequestCallFails(r) \/ RequestDies(r)
  BY <1>3 DEF RequestCallFails, RequestDies, CallFails, QueueNext
<1> QED
  BY <1>1, <1>2, <1>3

LEMMA JobStepIsQueueStep == [JobNext]_jobVars => [QueueNext]_queueVars
<1>1. CASE JobNext
  BY <1>1, WorkerIsQueueStep, RecoveryIsQueueStep, IngestionIsQueueStep, RequestIsQueueStep
     DEF JobNext, PoolNext
<1>2. CASE UNCHANGED jobVars
  BY <1>2 DEF jobVars
<1> QED
  BY <1>1, <1>2

(* The job, with its pauses, stops, crashes and failing calls, uses its    *)
(* queue only in the ways CrawlQueue describes (pool.go, handler.go).      *)
THEOREM JobImplementsQueue == JobSpec => QueueSpec
<1>1. JobInit => QueueInit
  BY DEF JobInit
<1>2. [JobNext]_jobVars => [QueueNext]_queueVars
  BY JobStepIsQueueStep
<1> QED
  BY <1>1, <1>2, PTL DEF JobSpec, QueueSpec

(* So the URLs of a job, too, are lost only in Retry's gap, by the Ack of   *)
(* a result that was not stored, or by an overflowing recovery script.      *)
THEOREM JobLosesOnlyByLosingStep == JobSpec => LostOnlyByLosingStep
  BY JobImplementsQueue, QueueLosesOnlyByLosingStep

-----------------------------------------------------------------------------
(* Before the ingestion has ended no worker has left the top of its loop.  *)

Quiet ==
  ing # "ended" => ~active /\ state # "completed" /\ pc = [w \in Workers |-> "poll"]

(* A worker that is not at the top of its loop, or finds the job active,    *)
(* shows that the ingestion has ended.                                     *)
LEMMA WorkersWait ==
  ASSUME Quiet, NEW w \in Workers, WorkerNext(w) \/ WorkerFault(w)
  PROVE  ing = "ended"
<1> SUFFICES ASSUME ing # "ended" PROVE FALSE
  OBVIOUS
<1>1. ~active /\ pc[w] = "poll"
  BY DEF Quiet
<1>2. CASE WorkerNext(w)
  BY <1>1, <1>2
     DEF WorkerNext, Reads, Poll, GetState, Acquire, TakeTask, FindNoTask, Recheck, PutBack,
         Fetch, StoreResult, Acknowledge, RemoveForRetry, AddToRetry, CountAttempt,
         MeasureQueue, MeasureApart, Confirm, Complete, Deactivate, Record
<1>3. CASE WorkerFault(w)
  BY <1>1, <1>3
     DEF WorkerFault, Reads, TakeTaskReplyLost, PutBackReplyLost, AddToRetryReplyLost,
         WorkerCallFails, TaskCallFails, Restart,
         OnError, OnTaskError
<1> QED
  BY <1>2, <1>3

LEMMA WorkerKeepsQuiet ==
  ASSUME Quiet, NEW w \in Workers, WorkerNext(w) \/ WorkerFault(w),
         UNCHANGED ingestVars
  PROVE  Quiet'
BY WorkersWait DEF Quiet, ingestVars

(* The recovery loop moves tasks and nothing else.                         *)
LEMMA RecoveryKeepsQuiet ==
  ASSUME Quiet, RecoveryNext \/ ScanFails, UNCHANGED ingestVars
  PROVE  Quiet'
  BY DEF Quiet, RecoveryNext, Tick, ScanStale, ScanRetries, ScanFails, Scans, jobState,
         ingestVars

(* The ingestion activates the job with its last call.                     *)
LEMMA IngestionKeepsQuiet ==
  ASSUME Quiet, StartCrawling \/ IngestionNext \/ IngestionFault
  PROVE  Quiet'
<1>1. CASE StartCrawling
  BY <1>1 DEF StartCrawling, Quiet, control
<1>2. CASE IngestionNext
  BY <1>2
     DEF IngestionNext, Quiet, Ingests, Parse, SetTotal, InitLimiter, MarkSeen, PushTask,
         EndBatch, NextBatch, MarkRunning, SetRunning, AddActive, MarkFailed, control, jobState
<1>3. CASE IngestionFault
  BY <1>3
     DEF IngestionFault, Quiet, Ingests, ParseFails, LimiterFails, PushTaskAgain,
         IngestionCallFails,
         IngestionDies, control, jobState, poolVars
<1> QED
  BY <1>1, <1>2, <1>3

(* A request never completes a job and never activates one.                *)
LEMMA RequestKeepsQuiet ==
  ASSUME Quiet, NEW r \in Requests, Admit(r) \/ RequestNext(r) \/ RequestCallFails(r) \/ RequestDies(r)
  PROVE  Quiet'
  BY DEF Quiet, Admit, RequestNext, RequestCallFails, RequestDies, Pause, Resume, Stop,
         SetsState,
         SetsStatus, StopActive, StopQueue, StopSeen, StopLimiter, Serves, control, jobState,
         poolVars, ingestVars

LEMMA QuietStep ==
  ASSUME Quiet, [JobNext]_jobVars
  PROVE  Quiet'
<1>1. CASE JobNext
  BY <1>1, WorkerKeepsQuiet, RecoveryKeepsQuiet, IngestionKeepsQuiet, RequestKeepsQuiet
     DEF JobNext, PoolNext
<1>2. CASE UNCHANGED jobVars
  BY <1>2 DEF Quiet, jobVars, poolVars, ingestVars, control, jobState
<1> QED
  BY <1>1, <1>2

(* No worker works on a job, and nobody completes it, before its ingestion  *)
(* has ended (handler.go:367-370), whatever pauses, stops and faults come.  *)
THEOREM WorkersWaitForIngestion == JobSpec => []WorkAfterIngestion
<1>1. JobInit => Quiet
  BY DEF JobInit, PoolInit, Quiet
<1>2. Quiet /\ [JobNext]_jobVars => Quiet'
  BY QuietStep
<1>3. Quiet => WorkAfterIngestion
  BY DEF Quiet, WorkAfterIngestion
<1> QED
  BY <1>1, <1>2, <1>3, PTL DEF JobSpec

-----------------------------------------------------------------------------
(* Types.  A worker's control and its hold on a task go together.          *)

ControlOK ==
  /\ pc \in [Workers -> Steps]
  /\ \A w \in Workers : phase[w] \in PhaseAt(pc[w])
  /\ scan \in {"idle", "stale", "retries"}

StateOK ==
  /\ state \in {"", "running", "paused", "stopped", "completed"}
  /\ active \in BOOLEAN /\ bucket \in BOOLEAN
  /\ status \in {"", "pending", "running", "paused", "stopped", "completed", "failed"}
  /\ crawled \in 0..CountCap /\ failed \in 0..CountCap

(* SetTotal counts what Parse has just read.                               *)
IngestOK ==
  /\ ing \in {"none", "parse", "total", "limiter", "mark", "push", "fail", "setStatus",
              "setState", "addActive", "ended"}
  /\ unread \subseteq Lines /\ fresh \subseteq Lines /\ seen \subseteq Source
  /\ ing = "total" => unread = Lines
  /\ total \in {0, Cardinality(Lines)}
  /\ req \in [Requests -> {"none", "served"} \union DOMAIN AfterCall]

JobInv == QueueTypeOK /\ ControlOK /\ StateOK /\ IngestOK

LEMMA JobInvInit == JobInit => JobInv
<1> SUFFICES ASSUME JobInit PROVE JobInv
  OBVIOUS
<1>1. QueueTypeOK
  BY QueueTypeInit DEF JobInit
<1>2. ControlOK
  BY DEF JobInit, PoolInit, QueueInit, ControlOK, PhaseAt, Steps
<1>3. StateOK
  <2>1. 0 \in 0..CountCap
    BY PoolAssumption
  <2> QED
    BY <2>1 DEF JobInit, PoolInit, StateOK
<1>4. IngestOK
  BY DEF JobInit, IngestOK
<1> QED
  BY <1>1, <1>2, <1>3, <1>4 DEF JobInv

(* Only the control and the hold of one worker change.                     *)
LEMMA ControlMoves ==
  ASSUME QueueTypeOK, ControlOK, NEW w \in Workers,
         pc' = [pc EXCEPT ![w] = pc'[w]], phase' = [phase EXCEPT ![w] = phase'[w]],
         pc'[w] \in Steps, phase'[w] \in PhaseAt(pc'[w]), UNCHANGED scan
  PROVE  ControlOK'
<1>1. \A v \in Workers \ {w} : pc'[v] = pc[v] /\ phase'[v] = phase[v]
  BY DEF QueueTypeOK, ControlOK
<1>2. pc' \in [Workers -> Steps]
  BY DEF ControlOK
<1>3. \A v \in Workers : phase'[v] \in PhaseAt(pc'[v])
  BY <1>1 DEF ControlOK
<1> QED
  BY <1>2, <1>3 DEF ControlOK, PhaseAt

(* A call that reads leaves the worker's hold as it is.                    *)
LEMMA ControlReads ==
  ASSUME QueueTypeOK, ControlOK, NEW w \in Workers, NEW to \in Steps, Goto(w, to),
         phase[w] \in PhaseAt(to), UNCHANGED phase
  PROVE  ControlOK'
<1>1. pc' = [pc EXCEPT ![w] = to] /\ pc'[w] = to /\ UNCHANGED scan
  BY DEF Goto, ControlOK
<1>2. phase' = [phase EXCEPT ![w] = phase'[w]]
  BY DEF QueueTypeOK
<1> QED
  BY <1>1, <1>2, ControlMoves

(* One that ends the handling of its task, or begins it, changes it.       *)
LEMMA ControlHolds ==
  ASSUME QueueTypeOK, ControlOK, NEW w \in Workers, NEW to \in Steps, Goto(w, to),
         NEW p \in PhaseAt(to), phase' = [phase EXCEPT ![w] = p]
  PROVE  ControlOK'
<1>1. pc' = [pc EXCEPT ![w] = to] /\ pc'[w] = to /\ UNCHANGED scan
  BY DEF Goto, ControlOK
<1>2. phase'[w] = p
  BY DEF QueueTypeOK
<1> QED
  BY <1>1, <1>2, ControlMoves

LEMMA WorkerKeepsControl ==
  ASSUME QueueTypeOK, ControlOK, NEW w \in Workers, WorkerNext(w)
  PROVE  ControlOK'
<1> USE DEF Reads, PhaseAt, Steps
<1>0. phase[w] \in PhaseAt(pc[w])
  BY DEF ControlOK
<1>1. CASE \/ Poll(w) \/ GetState(w) \/ FindNoTask(w) \/ MeasureQueue(w) \/ MeasureApart(w)
           \/ Confirm(w) \/ \E granted \in BOOLEAN : Acquire(w, granted)
  <2>1. PICK to \in {"poll", "getState", "acquire", "dequeue", "length", "lengthProcessing",
                     "lengthRetry", "confirm", "complete"} :
          /\ pc[w] \in {"poll", "getState", "acquire", "dequeue", "length", "lengthProcessing",
                        "lengthRetry", "confirm"}
          /\ Goto(w, to) /\ UNCHANGED phase
    BY <1>1 DEF Poll, GetState, FindNoTask, MeasureQueue, MeasureApart, Confirm, Acquire,
                queueVars, hold
  <2> QED
    BY <1>0, <2>1, ControlReads
<1>2. CASE \/ Complete(w) \/ Deactivate(w) \/ Record(w) \/ CountAttempt(w)
  <2>1. PICK to \in {"deactivate", "record", "poll"} :
          /\ pc[w] \in {"complete", "deactivate", "record", "succeeded", "failed"}
          /\ Goto(w, to) /\ UNCHANGED phase
    BY <1>2 DEF Complete, Deactivate, Record, CountAttempt, queueVars, hold
  <2> QED
    BY <1>0, <2>1, ControlReads
<1>3. CASE Recheck(w) \/ \E ok \in BOOLEAN : Fetch(w, ok)
  <2>1. PICK to \in {"fetch", "requeue", "store", "retryRemove"} :
          pc[w] \in {"recheck", "fetch"} /\ Goto(w, to) /\ UNCHANGED phase
    BY <1>3 DEF Recheck, Fetch, queueVars, hold
  <2> QED
    BY <1>0, <2>1, ControlReads
<1>4. CASE TakeTask(w)
  <2>1. Goto(w, "recheck") /\ phase' = [phase EXCEPT ![w] = "taken"]
    BY <1>4 DEF TakeTask, Dequeue, Hold
  <2> QED
    BY <2>1, ControlHolds
<1>5. CASE PutBack(w) \/ Acknowledge(w) \/ AddToRetry(w)
  <2>1. PICK to \in {"poll", "succeeded", "failed"} :
          Goto(w, to) /\ phase' = [phase EXCEPT ![w] = "free"]
    BY <1>5 DEF PutBack, Requeue, PushBack, Acknowledge, Ack, AddToRetry, RetryAdd, SendOn,
                Release, Hold
  <2> QED
    BY <2>1, ControlHolds
<1>6. CASE StoreResult(w)
  <2>1. PICK p \in {"stored", "unsaved"} : Goto(w, "ack") /\ phase' = [phase EXCEPT ![w] = p]
    BY <1>6 DEF StoreResult, Store, StoreFails
  <2> QED
    BY <2>1, ControlHolds
<1>7. CASE RemoveForRetry(w)
  <2>1. Goto(w, "retryAdd") /\ phase' = [phase EXCEPT ![w] = "removed"]
    BY <1>7 DEF RemoveForRetry, RetryRemove, RetryRemoveFails, Hold
  <2> QED
    BY <2>1, ControlHolds
<1> QED
  BY <1>1, <1>2, <1>3, <1>4, <1>5, <1>6, <1>7 DEF WorkerNext

LEMMA FaultKeepsControl ==
  ASSUME QueueTypeOK, ControlOK, NEW w \in Workers, WorkerFault(w)
  PROVE  ControlOK'
<1> USE DEF Reads, PhaseAt, Steps
<1>0. phase[w] \in PhaseAt(pc[w])
  BY DEF ControlOK
<1>1. CASE TakeTaskReplyLost(w)
  <2>1. PICK to \in {"poll", "dequeue"} : pc[w] = "dequeue" /\ Goto(w, to) /\ UNCHANGED phase
    BY <1>1 DEF TakeTaskReplyLost, DequeueReplyLost, hold
  <2> QED
    BY <1>0, <2>1, ControlReads
<1>5. CASE PutBackReplyLost(w) \/ AddToRetryReplyLost(w)
  <2>1. PICK at \in {"requeue", "retryAdd"} : pc[w] = at /\ Goto(w, at) /\ UNCHANGED phase
    BY <1>5 DEF PutBackReplyLost, AddToRetryReplyLost, RequeueReplyLost, RetryAddReplyLost, hold
  <2> QED
    BY <1>0, <2>1, ControlReads
<1>2. CASE WorkerCallFails(w)
  <2>1. /\ pc[w] \in DOMAIN OnError /\ Goto(w, OnError[pc[w]]) /\ UNCHANGED phase
    BY <1>2 DEF WorkerCallFails, CallFails, Fails, hold
  <2>2. OnError[pc[w]] \in Steps /\ phase[w] \in PhaseAt(OnError[pc[w]])
    BY <1>0, <2>1 DEF OnError
  <2> QED
    BY <2>1, <2>2, ControlReads
<1>3. CASE TaskCallFails(w)
  <2>1. PICK to \in {"poll", "succeeded", "failed"} :
          Goto(w, to) /\ phase' = [phase EXCEPT ![w] = "free"]
    BY <1>3 DEF TaskCallFails, LastCallFails, Release, Hold, OnTaskError
  <2> QED
    BY <2>1, ControlHolds
<1>4. CASE Restart(w)
  <2>1. Goto(w, "poll") /\ phase' = [phase EXCEPT ![w] = "free"]
    BY <1>4 DEF Restart, Crash, Release, Hold
  <2> QED
    BY <2>1, ControlHolds
<1> QED
  BY <1>1, <1>2, <1>3, <1>4, <1>5 DEF WorkerFault

(* The recovery loop, the ingestion and the requests hold no task.         *)
LEMMA OthersKeepControl ==
  ASSUME ControlOK,
         \/ RecoveryNext \/ ScanFails
         \/ StartCrawling \/ IngestionNext \/ IngestionFault
         \/ \E r \in Requests : Admit(r) \/ RequestNext(r) \/ RequestCallFails(r) \/ RequestDies(r)
  PROVE  ControlOK'
<1> USE DEF ControlOK, control, poolVars, queueVars, hold
<1>1. CASE RecoveryNext \/ ScanFails
  BY <1>1 DEF RecoveryNext, Tick, ScanStale, ScanRetries, ScanFails, Scans, CallFails, Fails,
              RequeueStale, RequeueRetries
<1>2. CASE StartCrawling \/ IngestionNext
  BY <1>2 DEF StartCrawling, IngestionNext, Ingests, Parse, SetTotal, InitLimiter, MarkSeen,
              PushTask, Enqueue, EnqueueRepeated, EnqueueAgain, EndBatch, NextBatch,
              MarkRunning, SetRunning, AddActive, MarkFailed
<1>3. CASE IngestionFault
  BY <1>3 DEF IngestionFault, Ingests, ParseFails, LimiterFails, PushTaskAgain, EnqueueResent,
              EnqueueAgain, IngestionCallFails, IngestionDies, CallFails, Fails
<1>4. ASSUME NEW r \in Requests, Admit(r) \/ RequestNext(r) \/ RequestCallFails(r) \/ RequestDies(r)
      PROVE  ControlOK'
  BY <1>4 DEF Admit, RequestNext, RequestCallFails, RequestDies, Pause, Resume, Stop,
              SetsState, SetsStatus,
              StopActive, StopQueue, DeleteQueue, StopSeen, StopLimiter, Serves, CallFails,
              Fails
<1> QED
  BY <1>1, <1>2, <1>3, <1>4

-----------------------------------------------------------------------------
LEMMA CountedInRange ==
  ASSUME NEW n \in 0..CountCap
  PROVE  Counted(n) \in 0..CountCap
BY PoolAssumption DEF Counted

LEMMA WorkerKeepsState ==
  ASSUME StateOK, NEW w \in Workers, WorkerNext(w) \/ WorkerFault(w)
  PROVE  StateOK'
<1> USE DEF StateOK, Reads, jobState, progress
<1>1. CASE CountAttempt(w)
  <2>1. Counted(crawled) \in 0..CountCap /\ Counted(failed) \in 0..CountCap
    BY CountedInRange
  <2> QED
    BY <1>1, <2>1 DEF CountAttempt
<1>2. CASE Acquire(w, TRUE) \/ Acquire(w, FALSE) \/ Complete(w) \/ Deactivate(w) \/ Record(w)
  BY <1>2 DEF Acquire, Complete, Deactivate, Record
<1>3. CASE \/ Poll(w) \/ GetState(w) \/ TakeTask(w) \/ FindNoTask(w) \/ Recheck(w) \/ PutBack(w)
           \/ Fetch(w, TRUE) \/ Fetch(w, FALSE) \/ StoreResult(w) \/ Acknowledge(w)
           \/ RemoveForRetry(w) \/ AddToRetry(w) \/ MeasureQueue(w) \/ MeasureApart(w) \/ Confirm(w)
  BY <1>3 DEF Poll, GetState, TakeTask, FindNoTask, Recheck, PutBack, Fetch, StoreResult,
              Acknowledge, RemoveForRetry, AddToRetry, MeasureQueue, MeasureApart, Confirm
<1>4. CASE WorkerFault(w)
  BY <1>4 DEF WorkerFault, TakeTaskReplyLost, PutBackReplyLost, AddToRetryReplyLost,
              WorkerCallFails, TaskCallFails, Restart
<1> QED
  BY <1>1, <1>2, <1>3, <1>4 DEF WorkerNext

LEMMA OthersKeepState ==
  ASSUME StateOK,
         \/ RecoveryNext \/ ScanFails
         \/ StartCrawling \/ IngestionNext \/ IngestionFault
         \/ \E r \in Requests : Admit(r) \/ RequestNext(r) \/ RequestCallFails(r) \/ RequestDies(r)
  PROVE  StateOK'
<1> USE DEF StateOK, jobState, progress, poolVars
<1>1. CASE RecoveryNext \/ ScanFails
  BY <1>1 DEF RecoveryNext, Tick, ScanStale, ScanRetries, ScanFails, Scans
<1>2. CASE StartCrawling \/ IngestionNext
  BY <1>2 DEF StartCrawling, IngestionNext, Ingests, Parse, SetTotal, InitLimiter, MarkSeen,
              PushTask, EndBatch, NextBatch, MarkRunning, SetRunning, AddActive, MarkFailed
<1>3. CASE IngestionFault
  BY <1>3 DEF IngestionFault, Ingests, ParseFails, LimiterFails, PushTaskAgain,
              IngestionCallFails, IngestionDies
<1>4. ASSUME NEW r \in Requests, Admit(r) \/ RequestNext(r) \/ RequestCallFails(r) \/ RequestDies(r)
      PROVE  StateOK'
  BY <1>4 DEF Admit, RequestNext, RequestCallFails, RequestDies, Pause, Resume, Stop,
              SetsState, SetsStatus,
              StopActive, StopQueue, StopSeen, StopLimiter, Serves
<1> QED
  BY <1>1, <1>2, <1>3, <1>4

LEMMA IngestionKeepsTypes ==
  ASSUME IngestOK, StartCrawling \/ IngestionNext \/ IngestionFault
  PROVE  IngestOK'
<1> USE DEF IngestOK, Ingests
<1>3. \A line \in Lines : line[1] \in Source
  BY DEF Lines
<1>1. CASE StartCrawling \/ IngestionNext
  BY <1>1, <1>3 DEF StartCrawling, IngestionNext, Parse, SetTotal, InitLimiter, MarkSeen,
              PushTask, EndBatch, NextBatch, MarkRunning, SetRunning, AddActive, MarkFailed
<1>2. CASE IngestionFault
  BY <1>2, <1>3 DEF IngestionFault, ParseFails, LimiterFails, PushTaskAgain,
                    IngestionCallFails, IngestionDies
<1> QED
  BY <1>1, <1>2

LEMMA RequestKeepsTypes ==
  ASSUME IngestOK, NEW r \in Requests, Admit(r) \/ RequestNext(r) \/ RequestCallFails(r) \/ RequestDies(r)
  PROVE  IngestOK'
<1> DEFINE Calls == {"none", "served"} \union DOMAIN AfterCall
<1>1. PICK to \in Calls : req' = [req EXCEPT ![r] = to]
  BY DEF Admit, RequestNext, RequestCallFails, RequestDies, Pause, Resume, Stop, SetsState,
         SetsStatus,
         StopActive, StopQueue, StopSeen, StopLimiter, Serves, AfterCall
<1>2. req' \in [Requests -> Calls]
  BY <1>1 DEF IngestOK
<1>3. UNCHANGED <<ing, unread, fresh, total>> /\ seen' \in {seen, {}}
  BY DEF Admit, RequestNext, RequestCallFails, RequestDies, Pause, Resume, Stop, SetsState,
         SetsStatus,
         StopActive, StopQueue, StopSeen, StopLimiter, Serves, ingestVars
<1> QED
  BY <1>2, <1>3 DEF IngestOK

LEMMA JobInvStep ==
  ASSUME JobInv, [JobNext]_jobVars
  PROVE  JobInv'
<1> USE DEF JobInv
<1>1. CASE UNCHANGED jobVars
  <2>1. QueueTypeOK' /\ UNCHANGED phase
    BY <1>1, QueueTypeStutter DEF jobVars, queueVars, hold
  <2>2. ControlOK' /\ StateOK'
    BY <1>1, <2>1 DEF jobVars, poolVars, control, jobState, progress, ControlOK, StateOK
  <2>3. IngestOK'
    BY <1>1 DEF jobVars, ingestVars, IngestOK
  <2> QED
    BY <2>1, <2>2, <2>3
<1>2. CASE JobNext
  <2>1. QueueTypeOK'
    BY <1>2, QueueTypeStep, QueueTypeStutter, WorkerIsQueueStep, RecoveryIsQueueStep,
       IngestionIsQueueStep, RequestIsQueueStep DEF JobNext, PoolNext
  <2>2. ControlOK'
    BY <1>2, WorkerKeepsControl, FaultKeepsControl, OthersKeepControl DEF JobNext, PoolNext
  <2>3. StateOK'
    BY <1>2, WorkerKeepsState, OthersKeepState DEF JobNext, PoolNext
  <2>4. CASE PoolNext /\ UNCHANGED <<ingestVars, req>>
    BY <2>1, <2>2, <2>3, <2>4 DEF IngestOK, ingestVars
  <2>5. CASE ~(PoolNext /\ UNCHANGED <<ingestVars, req>>)
    BY <1>2, <2>1, <2>2, <2>3, <2>5, IngestionKeepsTypes, RequestKeepsTypes DEF JobNext
  <2> QED
    BY <2>4, <2>5
<1> QED
  BY <1>1, <1>2

(* The inductive invariant: the queue is well typed, a worker's hold fits  *)
(* its next call, and the job's state, counters and lists are as JobInv    *)
(* says, under every fault and request (pool.go, handler.go:220-460).      *)
THEOREM JobInvariant == JobSpec => []JobInv
<1>1. JobInit => JobInv
  BY JobInvInit
<1>2. JobInv /\ [JobNext]_jobVars => JobInv'
  BY JobInvStep
<1> QED
  BY <1>1, <1>2, PTL DEF JobSpec

(* In every reachable state of a job, under every fault, a worker holds a   *)
(* task exactly while its next call is one of processTask's on the queue:   *)
(* no error path of the worker loop forgets or keeps one (pool.go:110-285). *)
THEOREM JobTypeCorrect == JobSpec => []JobTypeOK
<1>1. JobInv => JobTypeOK
  BY DEF JobInv, ControlOK, StateOK, IngestOK, JobTypeOK
<1> QED
  BY <1>1, JobInvariant, PTL
-----------------------------------------------------------------------------
(* A completed job has tried every URL.                                    *)

(* The steps that put an entry of processing back into pending, untried.   *)
ReturningStep ==
  \/ \E w \in Workers : Requeue(w) \/ RequeueReplyLost(w)
  \/ \E due \in SUBSET processing : \E batch \in Batches(due) : RequeueStale(due, batch)

Started(u) == Tried(u) \/ \E t \in processing : Same(t.url, u)

AllAccounted == \A u \in Owed : Accounted(u)
AllStarted == \A u \in Owed : Started(u)
AllTried == \A u \in Owed : Tried(u)

(* Until every URL has been tried no worker is past its measure, and one   *)
(* that has seen an empty pending list knows the others in processing.     *)
Measured ==
  \/ AllTried
  \/ /\ state # "completed"
     /\ \A w \in Workers : pc[w] \notin {"lengthRetry", "confirm", "complete"}
     /\ \A w \in Workers : pc[w] = "lengthProcessing" => AllStarted /\ "split" \in Allowed

(* Where the lengths are read one by one, nothing is put back meanwhile.   *)
Steady == ~LosingStep /\ ("split" \in Allowed /\ state # "completed" => ~ReturningStep)

(* Nothing is handed over.                                                 *)
NothingEnqueued == accepted' = accepted /\ discarded \subseteq discarded'

(* What is owed anew after a stop is in pending.                           *)
LEMMA OwedAnew ==
  ASSUME QueueTypeOK, QueueNext, NEW u \in discarded \ discarded'
  PROVE  Accounted(u)'
<1>1. PICK v \in Source : EnqueueAgain(v)
  BY DEF QueueTypeOK, QueueNext, EnqueueResent, EnqueueRepeated, Enqueue, WorkerStep, Dequeue,
         DequeueReplyLost, MoveToProcessing, Requeue, RequeueReplyLost, PushBack, Store,
         StoreFails,
         Ack, RetryRemove, RetryRemoveFails, RetryAdd, RetryAddReplyLost, SendOn, LastCallFails,
         Crash, Recovery, RequeueRetries, RequeueStale, Fails, DeleteQueue, ghosts
<1>2. v = u /\ pending' = Append(pending, NewTask(u))
  BY <1>1 DEF EnqueueAgain, Marshal
<1>3. pending \in Seq(Live) /\ NewTask(u) \in Live /\ NewTask(u).url = u
  BY <1>1, <1>2, LiveIsTask, QueueAssumption DEF QueueTypeOK, NewTask, Live
<1>4. NewTask(u) \in Range(pending')
  BY <1>2, <1>3, RangeAppend
<1> QED
  BY <1>3, <1>4 DEF Accounted, Queued, Entries, Same

(* While nothing is enqueued, nothing new is owed.                         *)
LEMMA OwedShrinks ==
  ASSUME QueueTypeOK, NothingEnqueued
  PROVE  Owed' \subseteq Owed /\ Owed \subseteq Urls /\ (DeleteQueue => Owed' = {})
BY QueueAssumption DEF QueueTypeOK, Owed, DeleteQueue, NothingEnqueued

LEMMA AccountedStep ==
  ASSUME QueueTypeOK, HeldOK, AllAccounted, QueueNext, ~LosingStep
  PROVE  AllAccounted'
<1>1. ~Forgets
  BY ForgettingStep
<1>2. ASSUME NEW u \in Owed'
      PROVE  Accounted(u)'
  <2>1. CASE u \in discarded
    BY <1>2, <2>1, OwedAnew DEF Owed
  <2>2. CASE u \notin discarded
    BY <1>1, <1>2, <2>2 DEF Forgets, AllAccounted, Owed
  <2> QED
    BY <2>1, <2>2
<1> QED
  BY <1>2 DEF AllAccounted

LEMMA TriedStep ==
  ASSUME QueueTypeOK, HeldOK, AllTried, QueueNext, ~LosingStep, NothingEnqueued
  PROVE  AllTried'
<1>1. Owed' \subseteq Owed /\ Owed \subseteq Urls /\ (DeleteQueue => Owed' = {})
  BY OwedShrinks
<1>2. CASE DeleteQueue
  BY <1>1, <1>2 DEF AllTried
<1>3. CASE ~DeleteQueue
  <2>1. LosesNothing
    BY <1>3, NoOtherLoss
  <2> QED
    BY <1>1, <2>1, StaysTried DEF AllTried
<1> QED
  BY <1>2, <1>3

(* An entry leaves processing with a result, into Retry's gap, or by one of *)
(* the steps that put it back.                                             *)
LEMMA LeavesProcessing ==
  ASSUME QueueTypeOK, HeldOK, QueueNext, ~LosingStep, ~ReturningStep, ~DeleteQueue
  PROVE  \A t \in processing :
           \/ t \in processing'
           \/ \E w \in Workers : phase'[w] = "removed" /\ task'[w].url = t.url
           \/ results'[Clean[t.url]] > 0
<1>1. ASSUME NEW w \in Workers, Ack(w), NEW t \in processing, t \notin processing'
      PROVE  results'[Clean[t.url]] > 0
  <2>1. phase[w] = "stored" /\ t = task[w] /\ results' = results
    BY <1>1 DEF LosingStep, Ack, Marshal
  <2> QED
    BY <2>1 DEF HeldOK
<1>2. ASSUME NEW w \in Workers, RetryRemove(w), NEW t \in processing, t \notin processing'
      PROVE  phase'[w] = "removed" /\ task'[w].url = t.url
  <2>1. /\ t = task[w] /\ phase[w] = "taken"
        /\ Hold(w, [task[w] EXCEPT !.retries = @ + 1], "removed")
    BY <1>2 DEF RetryRemove, Marshal
  <2> QED
    BY <2>1, AttemptProperties DEF QueueTypeOK, Hold
<1>3. ASSUME NEW w \in Workers, WorkerStep(w), ~Ack(w), ~RetryRemove(w)
      PROVE  processing \subseteq processing'
  BY <1>3 DEF WorkerStep, Dequeue, DequeueReplyLost, MoveToProcessing, Requeue,
              RequeueReplyLost,
              PushBack, Store, StoreFails, RetryRemoveFails, RetryAdd, RetryAddReplyLost,
              SendOn,
              LastCallFails, Crash, store
<1>4. ASSUME \/ \E u \in Source : Enqueue(u) \/ EnqueueResent(u) \/ EnqueueRepeated(u)
             \/ Recovery
             \/ \E kind \in {"error", "ingestion"} : Fails(kind)
      PROVE  processing \subseteq processing'
  BY <1>4 DEF ReturningStep, Enqueue, EnqueueResent, EnqueueRepeated, EnqueueAgain, Recovery,
              RequeueRetries, Fails, store
<1> QED
  BY <1>1, <1>2, <1>3, <1>4 DEF QueueNext

LEMMA StartedStep ==
  ASSUME QueueTypeOK, HeldOK, AllStarted, QueueNext, ~LosingStep, ~ReturningStep,
         NothingEnqueued
  PROVE  AllStarted'
<1>1. Owed' \subseteq Owed /\ Owed \subseteq Urls /\ (DeleteQueue => Owed' = {})
  BY OwedShrinks
<1>2. CASE DeleteQueue
  BY <1>1, <1>2 DEF AllStarted
<1>3. ASSUME ~DeleteQueue, NEW u \in Urls, Started(u)
      PROVE  Started(u)'
  <2>1. CASE Tried(u)
    BY <1>3, <2>1, NoOtherLoss, StaysTried DEF Started
  <2>2. CASE \E t \in processing : Same(t.url, u)
    <3>1. PICK t \in processing : Clean[t.url] = Clean[u]
      BY <2>2 DEF Same
    <3>2. CASE t \in processing'
      BY <3>1, <3>2 DEF Started, Same
    <3>3. CASE \E w \in Workers : phase'[w] = "removed" /\ task'[w].url = t.url
      BY <3>1, <3>3 DEF Started, Tried, InGap, Same
    <3>4. CASE results'[Clean[t.url]] > 0
      BY <3>1, <3>4 DEF Started, Tried
    <3> QED
      BY <1>3, <3>2, <3>3, <3>4, LeavesProcessing
  <2> QED
    BY <1>3, <2>1, <2>2 DEF Started
<1> QED
  BY <1>1, <1>2, <1>3 DEF AllStarted

(* What is neither pending nor in processing waits for a retry or is dead, *)
(* and has been tried.                                                     *)
LEMMA NotPendingIsStarted ==
  ASSUME QueueTypeOK, AllAccounted, pending = <<>>
  PROVE  AllStarted /\ (processing = {} => AllTried)
<1>1. Entries = processing \union retry \union dead
  BY DEF Entries, Range
<1>2. \A t \in retry \union dead : t.retries > 0
  BY QueueAssumption DEF QueueTypeOK, Exhausted, Task
<1>3. ASSUME NEW u \in Owed
      PROVE  Started(u) /\ (processing = {} => Tried(u))
  BY <1>1, <1>2, <1>3 DEF AllAccounted, Accounted, Queued, Started, Tried, Same
<1> QED
  BY <1>3 DEF AllStarted, AllTried

LEMMA NoneStartedIsTried ==
  ASSUME AllStarted, processing = {}
  PROVE  AllTried
BY DEF AllStarted, Started, AllTried


LEMMA EmptyQueue ==
  ASSUME QueueTypeOK, LedgerInv, QueueLength = 0
  PROVE  pending = <<>> /\ processing = {}
<1>1. Len(pending) \in Nat /\ Cardinality(retry) \in Nat /\ Cardinality(processing) \in Nat
  BY FS_CardinalityType DEF QueueTypeOK, LedgerInv
<1>2. Len(pending) = 0 /\ Cardinality(processing) = 0
  BY <1>1 DEF QueueLength
<1>3. pending = <<>>
  BY <1>2, EmptySeq DEF QueueTypeOK
<1>4. processing = {}
  BY <1>2, FS_EmptySet DEF LedgerInv
<1> QED
  BY <1>3, <1>4


LEMMA SameQueueSameTried ==
  ASSUME UNCHANGED queueVars
  PROVE  /\ AllAccounted => AllAccounted'
         /\ AllTried => AllTried'
         /\ AllStarted => AllStarted'
BY DEF AllAccounted, Accounted, Queued, InGap, AllTried, Tried, AllStarted, Started, Entries,
       Owed,
       queueVars, store, hold, ghosts

-----------------------------------------------------------------------------
(* A worker gets past its measure only if it has found the queue empty.    *)
LEMMA WorkerMeasures ==
  ASSUME ControlOK, NEW w \in Workers, WorkerNext(w) \/ WorkerFault(w)
  PROVE  /\ \A v \in Workers \ {w} : pc'[v] = pc[v]
         /\ state' = state \/ pc[w] = "complete"
         /\ \/ pc'[w] \notin {"lengthProcessing", "lengthRetry", "confirm", "complete"}
            \/ pc[w] \in {"lengthRetry", "confirm", "complete"}
            \/ /\ UNCHANGED queueVars
               /\ \/ QueueLength = 0
                  \/ pending = <<>> /\ pc'[w] = "lengthProcessing" /\ "split" \in Allowed
                  \/ pc[w] = "lengthProcessing" /\ processing = {}
<1> USE DEF Reads, Goto, ControlOK, Steps, jobState
<1>1. CASE WorkerNext(w)
  BY <1>1
     DEF WorkerNext, Poll, GetState, Acquire, TakeTask, FindNoTask, Recheck, PutBack,
         Fetch, StoreResult, Acknowledge, RemoveForRetry, AddToRetry, CountAttempt,
         MeasureQueue, MeasureApart, Confirm, Complete, Deactivate, Record
<1>2. CASE WorkerFault(w)
  BY <1>2
     DEF WorkerFault, TakeTaskReplyLost, PutBackReplyLost, AddToRetryReplyLost,
         WorkerCallFails, TaskCallFails, Restart, OnError, OnTaskError
<1> QED
  BY <1>1, <1>2

LEMMA OthersMeasureNothing ==
  ASSUME \/ RecoveryNext \/ ScanFails
         \/ StartCrawling \/ IngestionNext \/ IngestionFault
         \/ \E r \in Requests : Admit(r) \/ RequestNext(r) \/ RequestCallFails(r) \/ RequestDies(r)
  PROVE  pc' = pc /\ (state' = "completed" => state = "completed")
<1> USE DEF control, jobState, poolVars
<1>1. CASE RecoveryNext \/ ScanFails
  BY <1>1 DEF RecoveryNext, Tick, ScanStale, ScanRetries, ScanFails, Scans
<1>2. CASE StartCrawling \/ IngestionNext
  BY <1>2 DEF StartCrawling, IngestionNext, Ingests, Parse, SetTotal, InitLimiter, MarkSeen,
              PushTask, EndBatch, NextBatch, MarkRunning, SetRunning, AddActive, MarkFailed
<1>3. CASE IngestionFault
  BY <1>3 DEF IngestionFault, Ingests, ParseFails, LimiterFails, PushTaskAgain,
              IngestionCallFails, IngestionDies
<1>4. ASSUME NEW r \in Requests, Admit(r) \/ RequestNext(r) \/ RequestCallFails(r) \/ RequestDies(r)
      PROVE  pc' = pc /\ (state' = "completed" => state = "completed")
  BY <1>4 DEF Admit, RequestNext, RequestCallFails, RequestDies, Pause, Resume, Stop,
              SetsState, SetsStatus,
              StopActive, StopQueue, StopSeen, StopLimiter, Serves
<1> QED
  BY <1>1, <1>2, <1>3, <1>4

(* Once the ingestion has ended nothing is enqueued any more.              *)
LEMMA AcceptedStays ==
  ASSUME QueueTypeOK, JobNext, ing = "ended"
  PROVE  NothingEnqueued
<1> USE DEF queueVars, ghosts, NothingEnqueued, QueueTypeOK
<1>1. ASSUME NEW w \in Workers, WorkerNext(w)
      PROVE  NothingEnqueued
  BY <1>1
     DEF WorkerNext, Poll, GetState, Acquire, TakeTask, FindNoTask, Recheck, PutBack, Fetch,
         StoreResult, Acknowledge, RemoveForRetry, AddToRetry, CountAttempt, MeasureQueue,
         MeasureApart, Confirm, Complete, Deactivate, Record, Dequeue, MoveToProcessing,
         Requeue, PushBack,
         Store, StoreFails, Ack, RetryRemove, RetryRemoveFails, RetryAdd, SendOn
<1>2. ASSUME NEW w \in Workers, WorkerFault(w)
      PROVE  NothingEnqueued
  BY <1>2
     DEF WorkerFault, TakeTaskReplyLost, PutBackReplyLost, AddToRetryReplyLost,
         WorkerCallFails, TaskCallFails, Restart, DequeueReplyLost,
         MoveToProcessing, RequeueReplyLost, PushBack, RetryAddReplyLost, SendOn, CallFails,
         Fails,
         LastCallFails, Crash
<1>3. CASE RecoveryNext \/ ScanFails
  BY <1>3 DEF RecoveryNext, Tick, ScanStale, ScanRetries, ScanFails, RequeueStale,
              RequeueRetries,
              CallFails, Fails
<1>4. CASE StartCrawling \/ IngestionNext \/ IngestionFault
  BY <1>4
     DEF StartCrawling, IngestionNext, IngestionFault, Ingests, Parse, SetTotal, InitLimiter,
         MarkSeen, PushTask, EndBatch, NextBatch, MarkRunning, SetRunning, AddActive,
         MarkFailed, ParseFails,
         LimiterFails, PushTaskAgain, IngestionCallFails, IngestionDies
<1>5. ASSUME NEW r \in Requests, Admit(r) \/ RequestNext(r) \/ RequestCallFails(r) \/ RequestDies(r)
      PROVE  NothingEnqueued
  BY <1>5 DEF Admit, RequestNext, RequestCallFails, RequestDies, Pause, Resume, Stop,
              SetsState, SetsStatus,
              StopActive, StopQueue, DeleteQueue, StopSeen, StopLimiter, CallFails, Fails
<1> QED
  BY <1>1, <1>2, <1>3, <1>4, <1>5 DEF JobNext, PoolNext

(* Before that no worker moves.                                            *)
LEMMA NobodyMoves ==
  ASSUME Quiet, JobNext, ing # "ended"
  PROVE  pc' = pc /\ state' # "completed"
<1>1. state # "completed"
  BY DEF Quiet
<1> QED
  BY <1>1, WorkersWait, OthersMeasureNothing DEF JobNext, PoolNext

LEMMA MeasuredStep ==
  ASSUME QueueTypeOK, ControlOK, HeldOK, LedgerInv, Quiet, AllAccounted, Measured,
         JobNext, UNCHANGED queueVars \/ (QueueNext /\ Steady)
  PROVE  Measured'
<1>1. CASE ing # "ended"
  <2>1. pc' = pc /\ state' # "completed" /\ \A w \in Workers : pc'[w] = "poll"
    BY <1>1, NobodyMoves DEF Quiet
  <2> QED
    BY <2>1 DEF Measured
<1>2. CASE ing = "ended" /\ AllTried
  <2>1. AllTried'
    BY <1>2, AcceptedStays, TriedStep, SameQueueSameTried DEF Steady
  <2> QED
    BY <2>1 DEF Measured
<1>3. CASE ing = "ended" /\ ~AllTried
  <2>1. /\ state # "completed"
        /\ \A w \in Workers : pc[w] \notin {"lengthRetry", "confirm", "complete"}
        /\ \A w \in Workers : pc[w] = "lengthProcessing" => AllStarted /\ "split" \in Allowed
    BY <1>3 DEF Measured
  <2>2. AllStarted /\ "split" \in Allowed => AllStarted'
    BY <1>3, <2>1, AcceptedStays, StartedStep, SameQueueSameTried DEF Steady
  <2>3. ASSUME NEW w \in Workers, WorkerNext(w) \/ WorkerFault(w)
        PROVE  Measured'
    <3>1. state' # "completed"
      BY <2>1, <2>3, WorkerMeasures
    <3>2. \A v \in Workers \ {w} : pc'[v] = pc[v]
      BY <2>3, WorkerMeasures
    <3>3. CASE pc'[w] \notin {"lengthProcessing", "lengthRetry", "confirm", "complete"}
      BY <2>1, <2>2, <3>1, <3>2, <3>3 DEF Measured
    <3>4. CASE \/ QueueLength = 0
               \/ pc[w] = "lengthProcessing" /\ processing = {}
      <4>1. AllTried
        BY <2>1, <3>4, EmptyQueue, NotPendingIsStarted, NoneStartedIsTried
      <4> QED
        BY <1>3, <4>1
    <3>5. CASE /\ UNCHANGED queueVars
               /\ pending = <<>> /\ pc'[w] = "lengthProcessing" /\ "split" \in Allowed
      <4>1. AllStarted'
        BY <3>5, NotPendingIsStarted, SameQueueSameTried
      <4> QED
        BY <2>1, <3>1, <3>2, <3>5, <4>1 DEF Measured
    <3> QED
      BY <2>1, <2>3, <3>3, <3>4, <3>5, WorkerMeasures
  <2>4. CASE pc' = pc /\ state' # "completed"
    BY <2>1, <2>2, <2>4 DEF Measured
  <2> QED
    BY <2>1, <2>3, <2>4, OthersMeasureNothing DEF JobNext, PoolNext
<1> QED
  BY <1>2, <1>3, <1>1

(* However the workers race for the last tasks, whatever crashes, fails or  *)
(* is late, paused, resumed or stopped: a completed job has tried every URL *)
(* it still owes, unless one is lost (LosingStep) or, where the pipeline of *)
(* GetStats is not run in one go, is put back between two of its commands   *)
(* (pool.go:264-285, queue.go:256-270).                                     *)
THEOREM CompletedJobsHaveTried ==
  JobSpec /\ [][Steady]_queueVars => []CompletedMeansTried
<1> DEFINE Inv == Quiet /\ AllAccounted /\ Measured
<1>1. JobInit => Inv
  <2> SUFFICES ASSUME JobInit PROVE Inv
    OBVIOUS
  <2>1. Quiet
    BY DEF JobInit, PoolInit, Quiet
  <2>2. Owed = {}
    BY DEF JobInit, QueueInit, Owed
  <2> QED
    BY <2>1, <2>2 DEF AllAccounted, Measured, AllTried
<1>2. JobInv /\ HeldOK /\ LedgerInv /\ Inv /\ [JobNext]_jobVars /\ [Steady]_queueVars => Inv'
  <2> SUFFICES ASSUME JobInv, HeldOK, LedgerInv, Inv, [JobNext]_jobVars, [Steady]_queueVars
               PROVE  Inv'
    OBVIOUS
  <2>1. Quiet'
    BY QuietStep
  <2>2. UNCHANGED queueVars \/ (QueueNext /\ Steady)
    BY JobStepIsQueueStep
  <2>3. AllAccounted'
    BY <2>2, AccountedStep, SameQueueSameTried DEF JobInv, Steady
  <2>4. CASE JobNext
    BY <2>1, <2>2, <2>3, <2>4, MeasuredStep DEF JobInv
  <2>5. CASE UNCHANGED jobVars
    <3>1. UNCHANGED <<pc, state>> /\ UNCHANGED queueVars
      BY <2>5 DEF jobVars, poolVars, control, jobState
    <3> QED
      BY <2>1, <2>3, <3>1, SameQueueSameTried DEF Measured
  <2> QED
    BY <2>4, <2>5
<1>3. JobInv /\ Inv => CompletedMeansTried
  <2> SUFFICES ASSUME JobInv, Inv, state = "completed", NEW u \in Owed
               PROVE  Settled(u) \/ Attempted(u)
    BY DEF CompletedMeansTried
  <2>1. Tried(u)
    BY DEF Measured, AllTried
  <2>2. CASE results[Clean[u]] > 0
    BY <2>2 DEF Settled
  <2>3. CASE InGap(u)
    <3>1. PICK w \in Workers : phase[w] = "removed" /\ Same(task[w].url, u)
      BY <2>3 DEF InGap
    <3>2. task[w] # NoTask /\ task[w].retries > 0
      BY <3>1 DEF JobInv, QueueTypeOK
    <3> QED
      BY <3>1, <3>2 DEF Attempted
  <2>4. CASE \E t \in Entries : t.retries > 0 /\ Same(t.url, u)
    BY <2>4 DEF Entries, Settled, Attempted
  <2> QED
    BY <2>1, <2>2, <2>3, <2>4 DEF Tried
<1>4. JobSpec => [](JobInv /\ HeldOK /\ LedgerInv)
  BY JobInvariant, JobImplementsQueue, LedgerInvariant, PTL
<1> QED
  BY <1>1, <1>2, <1>3, <1>4, PTL DEF JobSpec

-----------------------------------------------------------------------------
(* A job without faults and requests.                                      *)

Faultless == CleanUrls /\ MaxDisturbances = 0 /\ Requests = {}

(* Worker w, before or in its fetch, has its URL to itself.                *)
Alone(w) ==
  /\ phase[w] = "taken"
  /\ task[w].url \in accepted
  /\ results[task[w].url] = 0
  /\ \A v \in Working : task[v].url = task[w].url => v = w
  /\ \A t \in Entries :
       t.url = task[w].url => t = task[w] /\ t \notin Range(pending) \union retry \union dead

(* The lines of the batch are of URLs never pushed before, once each.      *)
FreshOnce ==
  /\ accepted \subseteq seen
  /\ \A line \in fresh : line[1] \in seen \ accepted
  /\ \A line, other \in fresh : line[1] = other[1] => line = other

(* Until it is completed the job's queue is undisturbed and no task is put *)
(* back; fetches that are under way by then stay alone with their URLs.    *)
CalmJob ==
  /\ FreshOnce
  /\ state \in {"", "running", "completed"}
  /\ ing = "addActive" => state # ""
  /\ active \/ (\E w \in Workers : pc[w] # "poll") => state # ""
  /\ state # "completed" => Undisturbed /\ \A w \in Workers : pc[w] # "requeue"
  /\ \A w \in Workers : pc[w] \in {"fetch", "store", "retryRemove"} => Alone(w)

(* The attempts that are still possible: of a URL without a result, not    *)
(* enqueued yet, or on an entry or in the memory of a worker that has not  *)
(* failed as often.                                                        *)
Waiting(u, r) ==
  \/ u \notin accepted
  \/ \E t \in Entries : t.url = u /\ t.retries <= r
  \/ \E w \in Working : task[w].url = u /\ task[w].retries <= r

Open == {a \in Source \X (0..MaxRetries) : results[a[1]] = 0 /\ Waiting(a[1], a[2])}

Busy == {w \in Workers : pc[w] \in {"ack", "succeeded", "retryAdd", "failed"}}

AttemptsLeft == crawled + failed + Cardinality(Busy) + Cardinality(Open)
                  <= (MaxRetries + 1) * Cardinality(Source)

(* What is counted has been announced.                                     *)
TotalFirst ==
  \/ total = Cardinality(Lines)
  \/ /\ crawled = 0 /\ failed = 0 /\ ~active
     /\ ing \in {"none", "parse", "total", "fail", "ended"}
     /\ pc = [w \in Workers |-> "poll"]

(* A recovery script adds nothing to pending but what is due.              *)
LEMMA MovedToPending ==
  ASSUME NEW due \in SUBSET Live, pending \in Seq(Live), NEW batch \in Batches(due),
         pending' = pending \o batch
  PROVE  Range(pending') \subseteq Range(pending) \union due
<1>1. batch \in Seq(Live) /\ Range(batch) \subseteq due
  BY BatchProperties, SeqMonotonic
<1> QED
  BY <1>1, RangeConcatenation

(* Nothing that counts as a disturbance can happen.                        *)
LEMMA NoFault ==
  ASSUME Faultless, QueueTypeOK
  PROVE  disturbed = 0 /\ \A kind : ~Disturb(kind)
BY DEF Faultless, QueueTypeOK, Disturb

(* The queue's steps in such a job: nothing is enqueued a second time.     *)
CalmNext == RunningNext \/ \E w \in Workers : Requeue(w)

(* While the queue is undisturbed every worker that has just taken a task  *)
(* is alone with its URL.                                                  *)
LEMMA UndisturbedAlone ==
  ASSUME QueueTypeOK, Undisturbed, NEW w \in Workers, phase[w] = "taken"
  PROVE  Alone(w)
<1>1. w \in Working /\ task[w].url \in Urls
  BY DEF Working, QueueTypeOK, Live
<1>2. task[w].url \in accepted /\ \A v \in Working : task[v].url = task[w].url => v = w
  BY <1>1 DEF Undisturbed, Once, OnlyAccepted, HoldersOnce
<1>3. results[task[w].url] = 0
  <2>1. results[task[w].url] \in 0..ResultCap
    BY <1>1 DEF QueueTypeOK
  <2>2. ~(results[task[w].url] > 0)
    BY <1>1 DEF Undisturbed, Answered
  <2> QED
    BY <2>1, <2>2, QueueAssumption
<1>4. ASSUME NEW t \in Entries, t.url = task[w].url
      PROVE  t = task[w] /\ t \notin Range(pending) \union retry \union dead
  <2>1. t = task[w] /\ t \in processing
    BY <1>1, <1>4 DEF Undisturbed, Once, HolderOwns
  <2> QED
    BY <2>1, DeadApart DEF Undisturbed, Once, ListsApart
<1> QED
  BY <1>2, <1>3, <1>4 DEF Alone

(* What a step must do for worker w to stay alone.                         *)
LEMMA StaysAlone ==
  ASSUME NEW w \in Workers, Alone(w), task'[w] = task[w], phase'[w] = phase[w],
         accepted \subseteq accepted', results'[task[w].url] = results[task[w].url],
         \A v \in Working' :
           \/ v \in Working /\ task'[v].url = task[v].url
           \/ task'[v].url # task[w].url,
         \A t \in Entries' :
           \/ /\ t \in Entries
              /\ t \notin Range(pending) \union retry \union dead
                   => t \notin Range(pending') \union retry' \union dead'
           \/ t.url # task[w].url
  PROVE  Alone(w)'
<1>1. \A v \in Working' : task'[v].url = task'[w].url => v = w
  BY DEF Alone
<1>2. \A t \in Entries' :
        t.url = task'[w].url => t = task'[w] /\ t \notin Range(pending') \union retry' \union dead'
  BY DEF Alone
<1> QED
  BY <1>1, <1>2 DEF Alone

LEMMA AloneStep ==
  ASSUME Faultless, QueueTypeOK, CalmNext, NEW w \in Workers, Alone(w),
         task'[w] = task[w], phase'[w] = phase[w]
  PROVE  Alone(w)'
<1>0. /\ \A kind : ~Disturb(kind)
      /\ phase[w] = "taken" /\ w \in Working /\ task[w] \in Live
      /\ \A t \in Live : Unmarshal(t) = t
  BY NoFault, CleanUnmarshal DEF Alone, Working, Faultless, QueueTypeOK
<1>a. \A v \in Workers : v # w /\ v \in Working => task[v].url # task[w].url
  BY DEF Alone
<1>1. ASSUME NEW u \in Source, Enqueue(u)
      PROVE  Alone(w)'
  <2>1. Range(pending') = Range(pending) \union {NewTask(u)} /\ NewTask(u).url # task[w].url
    BY <1>1, LiveIsTask, RangeAppend, QueueAssumption DEF QueueTypeOK, NewTask, Alone,
    Enqueue, Marshal
  <2>2. /\ UNCHANGED <<processing, retry, dead, task, phase, results>> /\ accepted \subseteq accepted'
        /\ Working' = Working
    BY <1>1 DEF Enqueue, hold, Working
  <2> QED
    BY <2>1, <2>2, StaysAlone DEF Entries
<1>2. ASSUME NEW v \in Workers, Dequeue(v)
      PROVE  Alone(w)'
  <2>1. PICK m \in Live : Range(pending) = {m} \union Range(pending') /\ m = Head(pending)
    BY <1>2, RangeHeadTail DEF QueueTypeOK, Dequeue, MoveToProcessing
  <2>2. /\ processing' = processing \union {m} /\ UNCHANGED <<retry, dead, results, accepted>>
        /\ task' = [task EXCEPT ![v] = m] /\ phase' = [phase EXCEPT ![v] = "taken"]
    BY <1>0, <1>2, <2>1 DEF Dequeue, MoveToProcessing, Hold, ghosts
  <2>3. m.url # task[w].url
    BY <2>1 DEF Alone, Entries
  <2>4. \A x \in Working' : (x \in Working /\ task'[x] = task[x]) \/ task'[x] = m
    BY <2>2 DEF Working, QueueTypeOK
  <2> QED
    BY <2>1, <2>2, <2>3, <2>4, StaysAlone DEF Entries
<1>3. ASSUME NEW v \in Workers, Requeue(v) \/ Ack(v) \/ RetryAdd(v)
      PROVE  Alone(w)'
  <2>1. Release(v) /\ phase[v] # "free" /\ UNCHANGED <<results, accepted>>
    BY <1>3 DEF Requeue, PushBack, Ack, RetryAdd, SendOn, ghosts
  <2>2. v # w
    BY <1>0, <2>1 DEF Release, Hold, QueueTypeOK
  <2>3. task[v].url # task[w].url
    BY <1>a, <2>1, <2>2 DEF Working
  <2>4. /\ Range(pending') \subseteq Range(pending) \union {task[v]}
        /\ processing' \subseteq processing
        /\ retry' \subseteq retry \union {task[v]} /\ dead' \subseteq dead \union {task[v]}
    <3>1. CASE Requeue(v)
      <4>1. pending \in Seq(Live) /\ task[v] \in Live /\ pending' = Append(pending, task[v])
        BY <3>1 DEF Requeue, PushBack, Marshal, QueueTypeOK
      <4>2. Range(pending') = Range(pending) \union {task[v]}
        BY <4>1, RangeAppend
      <4> QED
        BY <3>1, <4>2 DEF Requeue, PushBack
    <3>2. CASE Ack(v) \/ RetryAdd(v)
      BY <3>2 DEF Ack, RetryAdd, SendOn, PushDead, Marshal
    <3> QED
      BY <1>3, <3>1, <3>2
  <2>5. \A x \in Working' : x \in Working /\ task'[x] = task[x]
    BY <2>1, OnceRelease
  <2> QED
    BY <2>1, <2>3, <2>4, <2>5, StaysAlone DEF Entries
<1>4. ASSUME NEW v \in Workers, Store(v)
      PROVE  Alone(w)'
  <2>1. /\ UNCHANGED <<pending, processing, retry, dead, task, accepted>>
        /\ phase[v] = "taken" /\ phase' = [phase EXCEPT ![v] = "stored"]
        /\ results' = [results EXCEPT ![task[v].url] = IF @ < ResultCap THEN @ + 1 ELSE @]
    BY <1>4 DEF Store, store, ghosts
  <2>2. v # w
    BY <1>0, <2>1 DEF QueueTypeOK
  <2>3. task[v].url # task[w].url
    BY <1>a, <2>1, <2>2 DEF Working
  <2>4. results'[task[w].url] = results[task[w].url]
    BY <2>1, <2>3, <1>0 DEF QueueTypeOK, Live
  <2>5. Working' = Working
    BY <2>1 DEF Working, QueueTypeOK
  <2> QED
    BY <2>1, <2>4, <2>5, StaysAlone DEF Entries
<1>5. ASSUME NEW v \in Workers, RetryRemove(v)
      PROVE  Alone(w)'
  <2>1. /\ UNCHANGED <<pending, retry, dead, results, accepted>> /\ processing' \subseteq processing
        /\ phase[v] = "taken" /\ phase' = [phase EXCEPT ![v] = "removed"]
        /\ task' = [task EXCEPT ![v] = [task[v] EXCEPT !.retries = @ + 1]]
    BY <1>5 DEF RetryRemove, Hold, ghosts
  <2>2. [task[v] EXCEPT !.retries = @ + 1].url = task[v].url
    BY <2>1, AttemptProperties DEF QueueTypeOK
  <2>3. Working' = Working /\ \A x \in Working : task'[x].url = task[x].url
    BY <2>1, <2>2 DEF Working, QueueTypeOK
  <2> QED
    BY <2>1, <2>3, StaysAlone DEF Entries
<1>6. ASSUME NEW due \in SUBSET retry, NEW batch \in Batches(due), RequeueRetries(due, batch)
      PROVE  Alone(w)'
  <2>1. /\ UNCHANGED <<processing, dead, task, phase, results, accepted>> /\ retry' \subseteq retry
        /\ Working' = Working
    BY <1>6 DEF RequeueRetries, hold, ghosts, Working
  <2>2. Range(pending') \subseteq Range(pending) \union due
    BY <1>6, MovedToPending DEF RequeueRetries, QueueTypeOK
  <2> QED
    BY <2>1, <2>2, StaysAlone DEF Entries
<1>7. ASSUME NEW due \in SUBSET processing, NEW batch \in Batches(due), RequeueStale(due, batch)
      PROVE  Alone(w)'
  <2>1. /\ UNCHANGED <<retry, dead, task, phase, results, accepted>> /\ processing' \subseteq processing
        /\ Working' = Working
    BY <1>7 DEF RequeueStale, hold, ghosts, Working
  <2>2. Range(pending') \subseteq Range(pending) \union due
    BY <1>7, MovedToPending DEF RequeueStale, QueueTypeOK
  <2>3. ~\E member \in due : Held(member)
    BY <1>0, <1>7 DEF RequeueStale
  <2>4. \A t \in due : t # task[w]
    BY <1>0, <2>3 DEF Held
  <2>5. \A t \in due : t.url # task[w].url
    BY <2>4 DEF Alone, Entries
  <2> QED
    BY <2>1, <2>2, <2>5, StaysAlone DEF Entries
<1>8. ASSUME DeleteQueue
      PROVE  Alone(w)'
  <2>1. /\ UNCHANGED <<task, phase, results, accepted>> /\ Working' = Working
        /\ Range(pending') = {} /\ processing' = {} /\ retry' = {} /\ dead' = {}
    BY <1>8, EmptySeq DEF DeleteQueue, hold, Working, Range
  <2> QED
    BY <2>1, StaysAlone DEF Entries
<1> QED
  BY <1>0, <1>1, <1>2, <1>3, <1>4, <1>5, <1>6, <1>7, <1>8
     DEF CalmNext, RunningNext, SafeNext, SafeWorkerStep, EnqueueResent, DequeueReplyLost,
         StoreFails,
         RetryRemoveFails, RetryAddReplyLost, LastCallFails, Crash, Fails

-----------------------------------------------------------------------------
(* What every step of the queue is: an entry was one before, was in the    *)
(* memory of a worker or is new; a worker has its task, tries it once more *)
(* or takes an entry.                                                      *)
OnlyMoves ==
  /\ accepted \subseteq accepted'
  /\ \A u \in Urls : results[u] > 0 => results'[u] > 0
  /\ \A t \in Entries' : t \in Entries \/ t.url \notin accepted \/ \E v \in Working : t = task[v]
  /\ \A w \in Working' :
       \/ task'[w] \in Entries
       \/ /\ w \in Working
          /\ task'[w].url = task[w].url
          /\ task'[w].retries \in {task[w].retries, task[w].retries + 1}

LEMMA StepOnlyMoves ==
  ASSUME Faultless, QueueTypeOK, CalmNext
  PROVE  OnlyMoves
<1> USE DEF OnlyMoves
<1>0. CleanUrls /\ \A kind : ~Disturb(kind)
  BY NoFault DEF Faultless
<1>1. ASSUME NEW u \in Source, Enqueue(u)
      PROVE  OnlyMoves
  <2>1. Range(pending') = Range(pending) \union {NewTask(u)} /\ NewTask(u).url \notin accepted
    BY <1>1, LiveIsTask, RangeAppend, QueueAssumption DEF QueueTypeOK, NewTask, Enqueue, Marshal
  <2>2. /\ UNCHANGED <<processing, retry, dead, task, phase, results>> /\ accepted \subseteq accepted'
        /\ Working' = Working
    BY <1>1 DEF Enqueue, hold, Working
  <2> QED
    BY <2>1, <2>2 DEF Entries
<1>2. ASSUME MoveToProcessing
      PROVE  /\ Head(pending) \in Live /\ Head(pending) \in Entries
             /\ Entries' = Entries /\ UNCHANGED <<results, accepted>>
  BY <1>2, RangeHeadTail DEF QueueTypeOK, MoveToProcessing, Entries, ghosts
<1>3. ASSUME NEW w \in Workers, Dequeue(w) \/ DequeueReplyLost(w)
      PROVE  OnlyMoves
  <2>1. /\ Head(pending) \in Live /\ Head(pending) \in Entries
        /\ Entries' = Entries /\ UNCHANGED <<results, accepted>>
    BY <1>2, <1>3 DEF Dequeue, DequeueReplyLost
  <2>2. Unmarshal(Head(pending)) = Head(pending)
    BY <1>0, <2>1, CleanUnmarshal
  <2>3. \A x \in Working' : (x \in Working /\ task'[x] = task[x]) \/ task'[x] = Head(pending)
    BY <1>3, <2>2 DEF Dequeue, DequeueReplyLost, Hold, hold, Working, QueueTypeOK
  <2> QED
    BY <2>1, <2>3
<1>4. ASSUME NEW w \in Workers, Requeue(w) \/ Ack(w) \/ RetryAdd(w) \/ LastCallFails(w) \/ Crash(w)
      PROVE  OnlyMoves
  <2>1. Release(w) /\ UNCHANGED <<results, accepted>>
    BY <1>4 DEF Requeue, PushBack, Ack, RetryAdd, SendOn, LastCallFails, Crash, ghosts
  <2>2. Entries' \subseteq Entries \union {task[v] : v \in Working}
    <3>1. CASE Requeue(w)
      <4>1. pending \in Seq(Live) /\ task[w] \in Live /\ pending' = Append(pending, task[w]) /\ w \in Working
        BY <3>1 DEF Requeue, PushBack, Marshal, QueueTypeOK, Working
      <4>2. Range(pending') = Range(pending) \union {task[w]}
        BY <4>1, RangeAppend
      <4> QED
        BY <3>1, <4>1, <4>2 DEF Requeue, PushBack, Entries
    <3>2. CASE ~Requeue(w)
      BY <1>4, <3>2 DEF Ack, RetryAdd, SendOn, PushDead, Marshal, LastCallFails, Crash, store,
                        Entries, Working
    <3> QED
      BY <3>1, <3>2
  <2>3. \A x \in Working' : x \in Working /\ task'[x] = task[x]
    BY <2>1, OnceRelease
  <2> QED
    BY <2>1, <2>2, <2>3
<1>5. ASSUME NEW w \in Workers, Store(w) \/ StoreFails(w)
      PROVE  OnlyMoves
  <2>1. /\ UNCHANGED <<pending, processing, retry, dead, task, accepted>> /\ Working' = Working
    BY <1>5 DEF Store, StoreFails, store, ghosts, Working, QueueTypeOK
  <2>2. \A u \in Urls : results[u] > 0 => results'[u] > 0
    BY <1>5, ResultsGrow DEF StoreFails
  <2> QED
    BY <2>1, <2>2 DEF Entries
<1>6. ASSUME NEW w \in Workers, RetryRemove(w) \/ RetryRemoveFails(w)
      PROVE  OnlyMoves
  <2>1. /\ UNCHANGED <<pending, retry, dead, results, accepted>> /\ processing' \subseteq processing
        /\ phase[w] = "taken" /\ phase' = [phase EXCEPT ![w] = "removed"] /\ task[w] \in Live
        /\ task' = [task EXCEPT ![w] = [task[w] EXCEPT !.retries = @ + 1]]
    BY <1>6 DEF RetryRemove, RetryRemoveFails, Hold, ghosts, store, QueueTypeOK
  <2>2. /\ [task[w] EXCEPT !.retries = @ + 1].url = task[w].url
        /\ [task[w] EXCEPT !.retries = @ + 1].retries = task[w].retries + 1
    BY <2>1 DEF Live
  <2>3. Working' = Working /\ w \in Working
    BY <2>1 DEF Working, QueueTypeOK
  <2>4. \A x \in Working : x # w => task'[x] = task[x]
    BY <2>1
  <2>5. task'[w].url = task[w].url /\ task'[w].retries = task[w].retries + 1
    BY <2>1, <2>2 DEF QueueTypeOK
  <2> QED
    BY <2>1, <2>3, <2>4, <2>5 DEF Entries
<1>7. ASSUME NEW due \in SUBSET retry, NEW batch \in Batches(due), RequeueRetries(due, batch)
      PROVE  OnlyMoves
  <2>1. /\ UNCHANGED <<processing, dead, task, phase, results, accepted>> /\ retry' \subseteq retry
        /\ Working' = Working
    BY <1>7 DEF RequeueRetries, hold, ghosts, Working
  <2>2. Range(pending') \subseteq Range(pending) \union due
    BY <1>7, MovedToPending DEF RequeueRetries, QueueTypeOK
  <2> QED
    BY <2>1, <2>2 DEF Entries
<1>8. ASSUME NEW due \in SUBSET processing, NEW batch \in Batches(due), RequeueStale(due, batch)
      PROVE  OnlyMoves
  <2>1. /\ UNCHANGED <<retry, dead, task, phase, results, accepted>> /\ processing' \subseteq processing
        /\ Working' = Working
    BY <1>8 DEF RequeueStale, hold, ghosts, Working
  <2>2. Range(pending') \subseteq Range(pending) \union due
    BY <1>8, MovedToPending DEF RequeueStale, QueueTypeOK
  <2> QED
    BY <2>1, <2>2 DEF Entries
<1>9. ASSUME NEW kind, Fails(kind)
      PROVE  OnlyMoves
  BY <1>9 DEF Fails, store, hold, ghosts, Entries, Working
<1>10. ASSUME DeleteQueue
       PROVE  OnlyMoves
  BY <1>10, EmptySeq DEF DeleteQueue, hold, Entries, Working, Range
<1> QED
  BY <1>0, <1>1, <1>3, <1>4, <1>5, <1>6, <1>7, <1>8, <1>9, <1>10
     DEF CalmNext, RunningNext, SafeNext, SafeWorkerStep, EnqueueResent, RetryAddReplyLost

(* So no attempt is ever added to those that are left.                     *)
LEMMA OpenShrinks ==
  ASSUME QueueTypeOK, OnlyMoves
  PROVE  Open' \subseteq Open
<1> SUFFICES ASSUME NEW u \in Source, NEW r \in 0..MaxRetries, results'[u] = 0, Waiting(u, r)'
             PROVE  results[u] = 0 /\ Waiting(u, r)
  BY DEF Open
<1>1. results[u] = 0
  BY QueueAssumption DEF QueueTypeOK, OnlyMoves
<1>2. CASE u \notin accepted'
  BY <1>1, <1>2 DEF Waiting, OnlyMoves
<1>3. ASSUME NEW t \in Entries', t.url = u, t.retries <= r
      PROVE  Waiting(u, r)
  BY <1>3 DEF Waiting, OnlyMoves
<1>4. ASSUME NEW w \in Working', task'[w].url = u, task'[w].retries <= r
      PROVE  Waiting(u, r)
  <2>1. CASE task'[w] \in Entries
    BY <1>4, <2>1 DEF Waiting
  <2>2. CASE /\ w \in Working /\ task'[w].url = task[w].url
             /\ task'[w].retries \in {task[w].retries, task[w].retries + 1}
    <3>1. task[w].retries \in Nat
      BY <2>2, QueueAssumption DEF QueueTypeOK, Task, Working
    <3>2. task[w].retries <= r
      BY <1>4, <2>2, <3>1, QueueAssumption
    <3> QED
      BY <1>4, <2>2, <3>2 DEF Waiting
  <2> QED
    BY <1>4, <2>1, <2>2 DEF OnlyMoves
<1> QED
  BY <1>1, <1>2, <1>3, <1>4 DEF Waiting

(* A stored result closes the attempt it is the result of ...              *)
LEMMA StoreCloses ==
  ASSUME Faultless, QueueTypeOK, NEW w \in Workers, Alone(w), Store(w)
  PROVE  \E a \in Open : Open' \subseteq Open \ {a}
<1> DEFINE a == <<task[w].url, task[w].retries>>
<1>1. w \in Working /\ task[w] \in Live /\ task[w].url \in Source
  BY DEF Store, Working, QueueTypeOK, Alone
<1>2. task[w].retries \in 0..MaxRetries
  BY <1>1 DEF Live
<1>3. task[w].retries <= task[w].retries
  BY <1>2
<1>4. a \in Open
  BY <1>1, <1>2, <1>3 DEF Alone, Open, Waiting
<1>5. results'[task[w].url] > 0
  BY ResultsGrow
<1>6. a \notin Open'
  <2>1. results'[task[w].url] # 0
    BY <1>5
  <2> QED
    BY <2>1 DEF Open
<1>7. CalmNext
  BY DEF CalmNext, RunningNext, SafeNext, SafeWorkerStep
<1>8. Open' \subseteq Open
  BY <1>7, StepOnlyMoves, OpenShrinks
<1> QED
  BY <1>4, <1>6, <1>8

(* ... and so does Retry.                                                  *)
LEMMA RetryCloses ==
  ASSUME Faultless, QueueTypeOK, NEW w \in Workers, Alone(w), RetryRemove(w)
  PROVE  \E a \in Open : Open' \subseteq Open \ {a}
<1>1. w \in Working /\ task[w] \in Live /\ task[w].url \in Source
  BY DEF RetryRemove, Working, QueueTypeOK, Alone
<1>2. PICK u, r : u = task[w].url /\ r = task[w].retries
  OBVIOUS
<1>3. u \in Source /\ r \in 0..MaxRetries /\ r <= r
  BY <1>1, <1>2 DEF Live
<1>4. <<u, r>> \in Open
  BY <1>1, <1>2, <1>3 DEF Alone, Open, Waiting
<1>5. /\ UNCHANGED <<pending, retry, dead, results, accepted>>
      /\ processing' = processing \ {task[w]}
      /\ phase[w] = "taken" /\ phase' = [phase EXCEPT ![w] = "removed"]
      /\ task' = [task EXCEPT ![w] = [task[w] EXCEPT !.retries = @ + 1]]
  BY DEF RetryRemove, Hold, Marshal, ghosts
<1>6. task'[w].retries = r + 1 /\ Working' = Working
      /\ \A v \in Working : v # w => task'[v] = task[v]
  BY <1>1, <1>2, <1>5 DEF Live, QueueTypeOK, Working
<1>7. \A t \in Entries' : t.url # u
  BY <1>2, <1>5 DEF Alone, Entries
<1>8. \A v \in Working' : task'[v].url = u => task'[v].retries = r + 1
  BY <1>2, <1>6 DEF Alone
<1>9. u \in accepted'
  BY <1>2, <1>5 DEF Alone
<1>10. ~Waiting(u, r)'
  BY <1>3, <1>7, <1>8, <1>9 DEF Waiting
<1>11. <<u, r>> \notin Open'
  BY <1>10 DEF Open
<1>12. CalmNext
  BY DEF CalmNext, RunningNext, SafeNext, SafeWorkerStep
<1>13. Open' \subseteq Open
  BY <1>12, StepOnlyMoves, OpenShrinks
<1> QED
  BY <1>4, <1>11, <1>13

-----------------------------------------------------------------------------
(* The steps of a job without faults and requests.                         *)
FaultlessNext ==
  \/ StartCrawling
  \/ IngestionNext /\ \A line \in Lines : PushTask(line) => Enqueue(line[1])
  \/ ParseFails
  \/ \E w \in Workers : WorkerNext(w) /\ UNCHANGED <<ingestVars, req>>
  \/ RecoveryNext /\ UNCHANGED <<ingestVars, req>>

LEMMA FaultlessStep ==
  ASSUME Faultless, QueueTypeOK, FreshOnce, JobNext
  PROVE  FaultlessNext
<1>1. \A kind : ~Disturb(kind)
  BY NoFault
<1>2. ASSUME NEW w \in Workers
      PROVE  ~WorkerFault(w)
  BY <1>1 DEF WorkerFault, TakeTaskReplyLost, DequeueReplyLost, PutBackReplyLost,
              RequeueReplyLost,
              AddToRetryReplyLost, RetryAddReplyLost, WorkerCallFails, CallFails, Fails,
              TaskCallFails, LastCallFails, Restart, Crash
<1>3. /\ ~ScanFails /\ ~LimiterFails /\ ~IngestionCallFails /\ ~IngestionDies
      /\ \A u \in Source : ~PushTaskAgain(u)
  BY <1>1 DEF ScanFails, LimiterFails, PushTaskAgain, EnqueueResent, IngestionCallFails,
              IngestionDies,
              CallFails, Fails
<1>4. \A line \in Lines : PushTask(line) => Enqueue(line[1])
  BY DEF FreshOnce, PushTask, EnqueueRepeated, EnqueueAgain
<1> QED
  BY <1>2, <1>3, <1>4 DEF Faultless, FaultlessNext, JobNext, IngestionFault, PoolNext

(* What such a step does to the queue.                                     *)
LEMMA FaultlessQueueStep ==
  ASSUME FaultlessNext
  PROVE  UNCHANGED queueVars \/ RunningNext \/ \E w \in Workers : PutBack(w)
<1>1. ASSUME NEW w \in Workers, WorkerNext(w), ~PutBack(w)
      PROVE  UNCHANGED queueVars \/ RunningNext
  BY <1>1
     DEF WorkerNext, Poll, GetState, Acquire, TakeTask, FindNoTask, Recheck, Fetch, StoreResult,
         Acknowledge, RemoveForRetry, AddToRetry, CountAttempt, MeasureQueue, MeasureApart,
         Confirm,
         Complete, Deactivate, Record, RunningNext, SafeNext, SafeWorkerStep
<1>2. ASSUME NEW due \in SUBSET processing, NEW batch \in Batches(due), RequeueStale(due, batch)
      PROVE  RunningNext
  <2>1. CASE \E member \in due : Held(member)
    BY <1>2, <2>1 DEF RunningNext
  <2>2. CASE ~\E member \in due : Held(member)
    <3>1. due \in SUBSET {t \in processing : ~Held(t)}
      BY <2>2
    <3> QED
      BY <1>2, <3>1 DEF RunningNext, SafeNext
  <2> QED
    BY <2>1, <2>2
<1>3. CASE RecoveryNext
  BY <1>2, <1>3 DEF RecoveryNext, Tick, ScanStale, ScanRetries, RunningNext, SafeNext
<1>4. ASSUME NEW line \in Lines, PushTask(line), Enqueue(line[1])
      PROVE  RunningNext
  <2>1. line[1] \in Source
    BY DEF Lines
  <2> QED
    BY <1>4, <2>1 DEF RunningNext, SafeNext
<1>5. CASE StartCrawling \/ ParseFails
  BY <1>5 DEF StartCrawling, ParseFails
<1>6. CASE IngestionNext /\ \A line \in Lines : PushTask(line) => Enqueue(line[1])
  BY <1>4, <1>6 DEF IngestionNext, Parse, SetTotal, InitLimiter, MarkSeen, EndBatch, NextBatch,
                    MarkRunning, SetRunning, AddActive, MarkFailed
<1> QED
  BY <1>1, <1>3, <1>5, <1>6 DEF FaultlessNext

(* A worker's step leaves what the others hold as it is ...                *)
LEMMA WorkerKeepsOthers ==
  ASSUME QueueTypeOK, NEW w \in Workers, WorkerNext(w), NEW v \in Workers \ {w}
  PROVE  task'[v] = task[v] /\ phase'[v] = phase[v]
<1> USE DEF QueueTypeOK, hold, queueVars, Hold, Release
<1>1. CASE TakeTask(w) \/ PutBack(w) \/ StoreResult(w) \/ Acknowledge(w) \/ RemoveForRetry(w) \/ AddToRetry(w)
  BY <1>1 DEF TakeTask, PutBack, StoreResult, Acknowledge, RemoveForRetry, AddToRetry, Dequeue,
              Requeue, PushBack, Store, StoreFails, Ack, RetryRemove, RetryRemoveFails,
              RetryAdd, SendOn
<1>2. CASE ~(TakeTask(w) \/ PutBack(w) \/ StoreResult(w) \/ Acknowledge(w) \/ RemoveForRetry(w) \/ AddToRetry(w))
  BY <1>2 DEF WorkerNext, Poll, GetState, Acquire, FindNoTask, Recheck, Fetch, CountAttempt,
              MeasureQueue, MeasureApart, Confirm, Complete, Deactivate, Record
<1> QED
  BY <1>1, <1>2

(* ... and the others' steps, what any worker holds.                       *)
LEMMA OthersKeepHolds ==
  ASSUME StartCrawling \/ IngestionNext \/ ParseFails \/ RecoveryNext
  PROVE  UNCHANGED <<task, phase, pc, results>>
<1> USE DEF queueVars, hold, control
<1>1. CASE RecoveryNext
  BY <1>1 DEF RecoveryNext, Tick, ScanStale, ScanRetries, Scans, RequeueStale, RequeueRetries
<1>2. CASE StartCrawling \/ IngestionNext \/ ParseFails
  BY <1>2 DEF StartCrawling, IngestionNext, Ingests, Parse, SetTotal, InitLimiter, MarkSeen,
              PushTask, Enqueue, EnqueueRepeated, EnqueueAgain, EndBatch, NextBatch,
              MarkRunning, SetRunning, AddActive, MarkFailed, ParseFails
<1> QED
  BY <1>1, <1>2

-----------------------------------------------------------------------------
LEMMA CalmJobInit == JobInit => CalmJob
<1> SUFFICES ASSUME JobInit PROVE CalmJob
  OBVIOUS
<1>1. Undisturbed
  BY OnceInit DEF JobInit, Undisturbed, QueueInit, InitStore
<1> QED
  BY <1>1 DEF JobInit, PoolInit, QueueInit, CalmJob, FreshOnce

(* The state of a job without requests: "", running, completed.            *)
StateFirst ==
  /\ state \in {"", "running", "completed"}
  /\ ing = "addActive" => state # ""
  /\ active \/ (\E w \in Workers : pc[w] # "poll") => state # ""

LEMMA StateFirstStep ==
  ASSUME QueueTypeOK, ControlOK, StateFirst, Quiet, FaultlessNext
  PROVE  /\ StateFirst'
         /\ state = "completed" => state' = "completed"
<1>1. CASE StartCrawling \/ IngestionNext \/ ParseFails
  <2>1. ing # "ended" /\ pc' = pc
    BY <1>1, OthersKeepHolds DEF StartCrawling, IngestionNext, Ingests, Parse, SetTotal,
    InitLimiter,
              MarkSeen, PushTask, EndBatch, NextBatch, MarkRunning, SetRunning, AddActive,
              MarkFailed, ParseFails
  <2>2. /\ state' = state \/ state' = "running"
        /\ ing' = "addActive" => state' = "running"
        /\ active' => active \/ ing = "addActive"
    <3>1. CASE StartCrawling \/ ParseFails
      <4>1. state' = state /\ active' = active /\ ing' # "addActive"
        BY <3>1 DEF StartCrawling, ParseFails, Ingests, jobState
      <4> QED
        BY <4>1
    <3>3. CASE Parse \/ SetTotal \/ InitLimiter \/ EndBatch
      BY <3>3 DEF Parse, SetTotal, InitLimiter, EndBatch, Ingests, jobState
    <3>4. CASE NextBatch
      BY <3>4 DEF NextBatch, Ingests, jobState
    <3>2. CASE \/ MarkRunning \/ SetRunning \/ AddActive \/ MarkFailed
               \/ \E line \in Lines : MarkSeen(line) \/ PushTask(line)
      BY <3>2 DEF MarkRunning, SetRunning, AddActive, MarkFailed, MarkSeen, PushTask, Ingests,
                  jobState
    <3> QED
      BY <1>1, <3>1, <3>2, <3>3, <3>4 DEF IngestionNext
  <2> QED
    BY <2>1, <2>2 DEF StateFirst, Quiet
<1>3. CASE RecoveryNext /\ UNCHANGED ingestVars
  <2>1. UNCHANGED <<state, active, pc, ing>>
    BY <1>3 DEF RecoveryNext, Tick, ScanStale, ScanRetries, Scans, jobState, ingestVars
  <2> QED
    BY <2>1 DEF StateFirst
<1>2. ASSUME NEW w \in Workers, WorkerNext(w), UNCHANGED ingestVars
      PROVE  StateFirst' /\ (state = "completed" => state' = "completed")
  <2>1. active \/ pc[w] # "poll"
    BY <1>2 DEF WorkerNext, Reads, Poll, GetState, Acquire, TakeTask, FindNoTask, Recheck,
                PutBack, Fetch,
           StoreResult, Acknowledge, RemoveForRetry, AddToRetry, CountAttempt, MeasureQueue,
           MeasureApart,
           Confirm, Complete, Deactivate, Record
  <2>2. state # ""
    BY <2>1 DEF StateFirst
  <2>3. state' = state \/ state' = "completed"
    BY <1>2 DEF WorkerNext, Reads, Poll, GetState, Acquire, TakeTask, FindNoTask, Recheck,
                PutBack, Fetch,
           StoreResult, Acknowledge, RemoveForRetry, AddToRetry, CountAttempt, MeasureQueue,
           MeasureApart,
           Confirm, Complete, Deactivate, Record, jobState
  <2> QED
    BY <1>2, <2>2, <2>3 DEF StateFirst, ingestVars
<1> QED
  BY <1>1, <1>2, <1>3 DEF FaultlessNext, ingestVars

(* Before it is completed no step disturbs the queue.                      *)
LEMMA UndisturbedStep ==
  ASSUME Faultless, QueueTypeOK, Undisturbed, JobNext, FaultlessNext,
         \A w \in Workers : pc[w] # "requeue"
  PROVE  Undisturbed'
<1>1. disturbed = 0 /\ disturbed' = 0
  <2>1. QueueTypeOK'
    BY JobStepIsQueueStep, QueueTypeStep, QueueTypeStutter
  <2> QED
    BY <2>1, NoFault DEF Faultless, QueueTypeOK
<1>2. UNCHANGED queueVars \/ RunningNext
  BY FaultlessQueueStep DEF PutBack, Reads
<1>3. Calm
  BY DEF Calm
<1>4. Calm'
  BY <1>2, <1>3, CalmStep, CalmStutter DEF Faultless
<1> QED
  BY <1>1, <1>4 DEF Calm

LEMMA WorkerMovesAlone ==
  ASSUME ControlOK, NEW w \in Workers, WorkerNext(w), NEW v \in Workers \ {w}
  PROVE  pc'[v] = pc[v]
BY DEF ControlOK, WorkerNext, Reads, Goto, Poll, GetState, Acquire, TakeTask, FindNoTask,
       Recheck,
       PutBack, Fetch, StoreResult, Acknowledge, RemoveForRetry, AddToRetry, CountAttempt,
       MeasureQueue, MeasureApart, Confirm, Complete, Deactivate, Record

(* The queue's share of such a step.                                       *)
LEMMA FaultlessIsCalm ==
  ASSUME FaultlessNext
  PROVE  UNCHANGED queueVars \/ CalmNext
BY FaultlessQueueStep DEF CalmNext, PutBack

(* No URL is let through twice, however often the source lists it: the     *)
(* seen set is emptied by a stop only.                                     *)
LEMMA FreshOnceStep ==
  ASSUME QueueTypeOK, IngestOK, Quiet, FreshOnce, JobNext, FaultlessNext
  PROVE  FreshOnce'
<1>1. ASSUME UNCHANGED <<fresh, seen, accepted>>
      PROVE  FreshOnce'
  BY <1>1 DEF FreshOnce
<1>2. CASE StartCrawling \/ ParseFails
  BY <1>1, <1>2 DEF StartCrawling, ParseFails, queueVars, ghosts
<1>3. CASE \/ Parse \/ SetTotal \/ InitLimiter \/ EndBatch \/ NextBatch \/ MarkRunning
           \/ SetRunning \/ AddActive \/ MarkFailed
  BY <1>1, <1>3 DEF Parse, SetTotal, InitLimiter, EndBatch, NextBatch, MarkRunning, SetRunning,
                    AddActive, MarkFailed, queueVars, ghosts
<1>4. ASSUME NEW line \in Lines, MarkSeen(line)
      PROVE  FreshOnce'
  <2>1. /\ accepted' = accepted /\ seen' = seen \union {line[1]}
        /\ fresh' = IF line[1] \in seen THEN fresh ELSE fresh \union {line}
    BY <1>4 DEF MarkSeen, queueVars, ghosts
  <2> QED
    BY <2>1 DEF FreshOnce
<1>5. ASSUME NEW line \in Lines, PushTask(line), Enqueue(line[1])
      PROVE  FreshOnce'
  <2>1. /\ accepted' = accepted \union {line[1]} /\ seen' = seen
        /\ line \in fresh /\ fresh' = fresh \ {line}
    BY <1>5 DEF PushTask, Enqueue
  <2> QED
    BY <2>1 DEF FreshOnce
<1>6. ASSUME NEW w \in Workers, WorkerNext(w), UNCHANGED ingestVars
      PROVE  FreshOnce'
  <2>1. NothingEnqueued
    BY <1>6, WorkersWait, AcceptedStays
  <2> QED
    BY <1>1, <1>6, <2>1 DEF NothingEnqueued, ingestVars
<1>7. CASE RecoveryNext /\ UNCHANGED ingestVars
  BY <1>1, <1>7 DEF RecoveryNext, Tick, ScanStale, ScanRetries, RequeueStale, RequeueRetries,
                    queueVars, ghosts, ingestVars
<1> QED
  BY <1>2, <1>3, <1>4, <1>5, <1>6, <1>7 DEF FaultlessNext, IngestionNext, ingestVars

LEMMA CalmJobStep ==
  ASSUME Faultless, JobInv, Quiet, CalmJob, JobNext
  PROVE  CalmJob'
<1> USE DEF JobInv
<1>1. FaultlessNext
  BY FaultlessStep DEF CalmJob
<1>7. FreshOnce'
  BY <1>1, FreshOnceStep DEF CalmJob
<1>2. StateFirst' /\ (state = "completed" => state' = "completed")
  BY <1>1, StateFirstStep DEF CalmJob, StateFirst
<1>3. QueueTypeOK'
  BY JobStepIsQueueStep, QueueTypeStep, QueueTypeStutter
<1>4. state # "completed" => Undisturbed'
  BY <1>1, UndisturbedStep DEF CalmJob
<1>5. ASSUME state # "completed", state' # "completed", NEW w \in Workers
      PROVE  pc'[w] # "requeue"
  <2>1. pc[w] # "requeue" /\ (pc[w] # "poll" => state = "running")
    BY <1>5 DEF CalmJob
  <2>2. CASE StartCrawling \/ IngestionNext \/ ParseFails \/ RecoveryNext
    BY <2>1, <2>2, OthersKeepHolds
  <2>3. ASSUME NEW v \in Workers, WorkerNext(v)
        PROVE  pc'[w] # "requeue"
    <3>1. CASE v # w
      BY <2>1, <2>3, <3>1, WorkerMovesAlone
    <3>2. CASE v = w
      BY <2>1, <2>3, <3>2
         DEF WorkerNext, Reads, Goto, ControlOK, Steps, Poll, GetState, Acquire, TakeTask,
             FindNoTask, Recheck,
             PutBack, Fetch, StoreResult, Acknowledge, RemoveForRetry, AddToRetry, CountAttempt,
             MeasureQueue, MeasureApart, Confirm, Complete, Deactivate, Record
    <3> QED
      BY <3>1, <3>2
  <2> QED
    BY <1>1, <2>2, <2>3 DEF FaultlessNext
<1>6. ASSUME NEW w \in Workers, pc'[w] \in {"fetch", "store", "retryRemove"}
      PROVE  Alone(w)'
  <2>1. ASSUME pc[w] \in {"fetch", "store", "retryRemove"}, task'[w] = task[w], phase'[w] = phase[w]
        PROVE  Alone(w)'
    <3>1. Alone(w)
      BY <2>1 DEF CalmJob
    <3>2. CASE UNCHANGED queueVars
      BY <3>1, <3>2 DEF Alone, Working, Entries, queueVars, store, hold, ghosts
    <3>3. CASE CalmNext
      BY <2>1, <3>1, <3>3, AloneStep
    <3> QED
      BY <1>1, <3>2, <3>3, FaultlessIsCalm
  <2>2. CASE StartCrawling \/ IngestionNext \/ ParseFails \/ RecoveryNext
    BY <1>6, <2>1, <2>2, OthersKeepHolds
  <2>3. ASSUME NEW v \in Workers, WorkerNext(v)
        PROVE  Alone(w)'
    <3>1. CASE v # w
      BY <1>6, <2>1, <2>3, <3>1, WorkerMovesAlone, WorkerKeepsOthers
    <3>2. CASE v = w
      <4>1. \/ pc[w] = "recheck" /\ state = "running" /\ UNCHANGED queueVars
            \/ pc[w] = "fetch" /\ UNCHANGED queueVars
        BY <1>6, <2>3, <3>2
           DEF WorkerNext, Reads, Goto, ControlOK, Steps, Poll, GetState, Acquire, TakeTask,
               FindNoTask,
               Recheck, PutBack, Fetch, StoreResult, Acknowledge, RemoveForRetry, AddToRetry,
               CountAttempt, MeasureQueue, MeasureApart, Confirm, Complete, Deactivate, Record
      <4>2. CASE pc[w] = "fetch"
        BY <2>1, <4>1, <4>2 DEF queueVars, hold
      <4>3. CASE pc[w] = "recheck" /\ state = "running" /\ UNCHANGED queueVars
        <5>1. Undisturbed' /\ phase'[w] = "taken"
          BY <1>4, <4>3 DEF ControlOK, PhaseAt, queueVars, hold
        <5>2. Undisturbed /\ phase[w] = "taken"
          BY <4>3 DEF CalmJob, ControlOK, PhaseAt
        <5>3. Alone(w)
          BY <5>2, UndisturbedAlone
        <5> QED
          BY <4>3, <5>3 DEF Alone, Working, Entries, queueVars, store, hold, ghosts
      <4> QED
        BY <4>1, <4>2, <4>3
    <3> QED
      BY <3>1, <3>2
  <2> QED
    BY <1>1, <2>2, <2>3 DEF FaultlessNext
<1> QED
  BY <1>2, <1>4, <1>5, <1>6, <1>7 DEF CalmJob, StateFirst

-----------------------------------------------------------------------------
(* Counting.                                                               *)

Answering == {w \in Workers : pc[w] \in {"ack", "succeeded"}}
Resulted == {u \in Urls : results[u] > 0}

CountInv == CrawledCountsResults /\ AttemptsLeft /\ TotalFirst

Countable == IsFiniteSet(Workers) /\ CountCap >= Cardinality(Source)

(* One worker more, or less, in a set of workers.                          *)
LEMMA OneMore ==
  ASSUME NEW S, NEW T, IsFiniteSet(T), S \subseteq T, NEW x \in T, x \notin S
  PROVE  /\ IsFiniteSet(S) /\ Cardinality(S) \in Nat
         /\ Cardinality(S \union {x}) = Cardinality(S) + 1
BY FS_Subset, FS_AddElement, FS_CardinalityType

LEMMA CountFinite ==
  ASSUME Faultless, Countable, JobInv, LedgerInv
  PROVE  /\ IsFiniteSet(Answering) /\ Cardinality(Answering) \in Nat
         /\ IsFiniteSet(Busy) /\ Cardinality(Busy) \in Nat
         /\ IsFiniteSet(Open) /\ Cardinality(Open) \in Nat
         /\ Resulted \subseteq Source /\ Cardinality(Resulted) \in Nat
         /\ IsFiniteSet(Source) /\ Cardinality(Source) \in Nat
         /\ Cardinality(Resulted) <= Cardinality(Source)
         /\ crawled \in 0..CountCap /\ failed \in 0..CountCap
         /\ CountCap \in Nat
<1>1. IsFiniteSet(Answering) /\ IsFiniteSet(Busy)
  BY FS_Subset DEF Answering, Busy, Countable
<1>2. IsFiniteSet(0..MaxRetries) /\ IsFiniteSet(Source)
  BY FS_Interval, QueueAssumption, JobAssumption
<1>3. IsFiniteSet(Open)
  BY <1>2, FS_Product, FS_Subset DEF Open
<1>4. Resulted \subseteq Source
  BY QueueAssumption DEF Resulted, LedgerInv, KeysOf, Faultless, CleanUrls, JobInv, QueueTypeOK
<1>5. IsFiniteSet(Resulted) /\ Cardinality(Resulted) <= Cardinality(Source)
  BY <1>2, <1>4, FS_Subset
<1> QED
  BY <1>1, <1>2, <1>3, <1>4, <1>5, FS_CardinalityType, PoolAssumption DEF JobInv, StateOK

LEMMA CountInit ==
  ASSUME Faultless, Countable, JobInit
  PROVE  CountInv
<1>1. Answering = {} /\ Busy = {}
  BY DEF JobInit, PoolInit, Answering, Busy
<1>2. Resulted = {}
  BY DEF JobInit, QueueInit, Resulted
<1>3. crawled = 0 /\ failed = 0
  BY DEF JobInit, PoolInit
<1>4. CrawledCountsResults
  BY <1>1, <1>2, <1>3, FS_EmptySet DEF CrawledCountsResults, Answering, Resulted
<1>5. /\ Cardinality(Source) \in Nat /\ IsFiniteSet(Source)
      /\ IsFiniteSet(0..MaxRetries) /\ Cardinality(0..MaxRetries) = MaxRetries + 1
  <2>1. 0 \in Int /\ MaxRetries \in Int /\ ~(0 > MaxRetries)
    BY QueueAssumption
  <2>2. IsFiniteSet(0..MaxRetries) /\ Cardinality(0..MaxRetries) = MaxRetries - 0 + 1
    BY <2>1, FS_Interval, Zenon
  <2>3. Cardinality(0..MaxRetries) = MaxRetries + 1
    BY <2>1, <2>2
  <2>4. IsFiniteSet(Source) /\ Cardinality(Source) \in Nat
    BY FS_CardinalityType, JobAssumption
  <2> QED
    BY <2>2, <2>3, <2>4
<1>6. /\ IsFiniteSet(Source \X (0..MaxRetries))
      /\ Cardinality(Source \X (0..MaxRetries)) = Cardinality(Source) * (MaxRetries + 1)
  BY <1>5, FS_Product
<1>7. Cardinality(Open) <= Cardinality(Source \X (0..MaxRetries)) /\ Cardinality(Open) \in Nat
  BY <1>6, FS_Subset, FS_CardinalityType DEF Open
<1>8. AttemptsLeft
  <2>1. Cardinality(Busy) = 0
    BY <1>1, FS_EmptySet
  <2>2. Cardinality(Source) * (MaxRetries + 1) = (MaxRetries + 1) * Cardinality(Source)
    BY <1>5, QueueAssumption
  <2> QED
    BY <1>3, <1>6, <1>7, <2>1, <2>2 DEF AttemptsLeft
<1>9. TotalFirst
  BY <1>3 DEF JobInit, PoolInit, TotalFirst
<1> QED
  BY <1>4, <1>8, <1>9 DEF CountInv

(* A step that counts nothing and ends no attempt.                         *)
LEMMA CountQuietly ==
  ASSUME Faultless, Countable, JobInv, LedgerInv, CountInv,
         Open' \subseteq Open, Busy' = Busy, Answering' = Answering, Resulted' = Resulted,
         UNCHANGED progress
  PROVE  CrawledCountsResults' /\ AttemptsLeft'
<1>1. Cardinality(Open') <= Cardinality(Open) /\ Cardinality(Open') \in Nat
  BY CountFinite, FS_Subset, FS_CardinalityType
<1>2. crawled' = crawled /\ failed' = failed
  BY DEF progress
<1>3. CrawledCountsResults'
  BY <1>2 DEF CountInv, CrawledCountsResults, Answering, Resulted
<1>4. AttemptsLeft'
  <2> DEFINE m == (MaxRetries + 1) * Cardinality(Source)
  <2>1. m \in Int
    BY CountFinite, QueueAssumption
  <2>2. crawled + failed + Cardinality(Busy) + Cardinality(Open) <= m
    BY DEF CountInv, AttemptsLeft
  <2> HIDE DEF m
  <2>3. crawled + failed + Cardinality(Busy) + Cardinality(Open') <= m
    BY <1>1, <2>1, <2>2, CountFinite
  <2> QED
    BY <1>2, <2>3 DEF AttemptsLeft, m
<1> QED
  BY <1>3, <1>4

LEMMA StillLeft ==
  ASSUME Faultless, Countable, JobInv, LedgerInv, CountInv, JobInv',
         Cardinality(Busy') \in Nat, Cardinality(Open') \in Nat,
         crawled' + failed' + Cardinality(Busy') + Cardinality(Open')
           <= crawled + failed + Cardinality(Busy) + Cardinality(Open)
  PROVE  AttemptsLeft'
<1>1. PICK m \in Int : m = (MaxRetries + 1) * Cardinality(Source)
  BY CountFinite, QueueAssumption
<1>2. crawled + failed + Cardinality(Busy) + Cardinality(Open) <= m
  BY <1>1 DEF CountInv, AttemptsLeft
<1>3. crawled' \in Nat /\ failed' \in Nat
  <2>1. crawled' \in 0..CountCap /\ failed' \in 0..CountCap
    BY DEF JobInv, StateOK
  <2> QED
    BY <2>1, PoolAssumption
<1>4. crawled' + failed' + Cardinality(Busy') + Cardinality(Open') <= m
  BY <1>2, <1>3, CountFinite
<1> QED
  BY <1>1, <1>4 DEF AttemptsLeft

LEMMA TotalFirstStep ==
  ASSUME JobInv, TotalFirst, FaultlessNext
  PROVE  TotalFirst'
<1> USE DEF TotalFirst
<1>1. CASE StartCrawling \/ ParseFails
  BY <1>1 DEF StartCrawling, ParseFails, Ingests, control, progress, jobState
<1>2. CASE Parse \/ SetTotal
  BY <1>2 DEF Parse, SetTotal, Ingests, control, progress, jobState, JobInv, IngestOK
<1>6. CASE MarkFailed
  BY <1>6 DEF MarkFailed, Ingests, control, progress
<1>3. CASE InitLimiter \/ EndBatch \/ NextBatch \/ MarkRunning \/ SetRunning \/ AddActive
           \/ \E line \in Lines : MarkSeen(line) \/ PushTask(line)
  <2>1. total' = total /\ ing \notin {"none", "parse", "total", "fail", "ended"}
    BY <1>3 DEF InitLimiter, EndBatch, NextBatch, MarkRunning, SetRunning, AddActive, MarkSeen,
                PushTask, Ingests
  <2> QED
    BY <2>1
<1>4. CASE RecoveryNext /\ UNCHANGED ingestVars
  BY <1>4 DEF RecoveryNext, Tick, ScanStale, ScanRetries, Scans, jobState, progress, ingestVars
<1>5. ASSUME NEW w \in Workers, WorkerNext(w), UNCHANGED ingestVars
      PROVE  TotalFirst'
  <2>1. active \/ pc[w] # "poll"
    BY <1>5 DEF WorkerNext, Reads, Poll, GetState, Acquire, TakeTask, FindNoTask, Recheck,
                PutBack, Fetch,
           StoreResult, Acknowledge, RemoveForRetry, AddToRetry, CountAttempt, MeasureQueue,
           MeasureApart,
           Confirm, Complete, Deactivate, Record
  <2> QED
    BY <1>5, <2>1 DEF ingestVars
<1> QED
  BY <1>1, <1>2, <1>3, <1>4, <1>5, <1>6 DEF FaultlessNext, IngestionNext, ingestVars

(* StoreResult: a result and an attempt more, both not counted yet.        *)
LEMMA CountStored ==
  ASSUME Faultless, Countable, JobInv, LedgerInv, CalmJob, CountInv, JobInv',
         NEW w \in Workers, StoreResult(w)
  PROVE  CrawledCountsResults' /\ AttemptsLeft'
<1>1. /\ pc[w] = "store" /\ pc' = [pc EXCEPT ![w] = "ack"] /\ Store(w) /\ Alone(w)
      /\ UNCHANGED <<crawled, failed>>
  BY NoFault DEF StoreResult, Reads, Goto, StoreFails, CalmJob, JobInv, progress
<1>2. /\ Busy' = Busy \union {w} /\ w \notin Busy /\ Busy \subseteq Workers
      /\ Answering' = Answering \union {w} /\ w \notin Answering /\ Answering \subseteq Workers
  BY <1>1 DEF Busy, Answering, JobInv, ControlOK
<1>3. Cardinality(Busy') = Cardinality(Busy) + 1 /\ Cardinality(Answering') = Cardinality(Answering) + 1
  BY <1>2, OneMore DEF Countable
<1>4. PICK u \in Source : u = task[w].url /\ results[u] = 0 /\ u \in Urls
  BY <1>1, QueueAssumption DEF Alone, JobInv, QueueTypeOK
<1>5. results' = [results EXCEPT ![u] = 1]
  <2>1. results[u] < ResultCap /\ results[u] + 1 = 1
    BY <1>4, QueueAssumption
  <2> QED
    BY <1>1, <1>4, <2>1 DEF Store
<1>6. Resulted' = Resulted \union {u} /\ u \notin Resulted
  BY <1>4, <1>5 DEF Resulted, JobInv, QueueTypeOK
<1>7. Cardinality(Resulted') = Cardinality(Resulted) + 1
  BY <1>6, CountFinite, OneMore
<1>8. PICK a \in Open : Open' \subseteq Open \ {a}
  BY <1>1, StoreCloses DEF JobInv
<1>9. Cardinality(Open') <= Cardinality(Open) - 1 /\ Cardinality(Open') \in Nat
  BY <1>8, CountFinite, FS_RemoveElement, FS_Subset, FS_CardinalityType
<1>10. CrawledCountsResults'
  <2>1. crawled + Cardinality(Answering) = Cardinality(Resulted)
    BY DEF CountInv, CrawledCountsResults, Answering, Resulted
  <2>2. crawled' + Cardinality(Answering') = Cardinality(Resulted')
    BY <1>1, <1>3, <1>7, <2>1, CountFinite
  <2> QED
    BY <2>2 DEF CrawledCountsResults, Answering, Resulted
<1>11. AttemptsLeft'
  BY <1>1, <1>3, <1>9, CountFinite, StillLeft
<1> QED
  BY <1>10, <1>11

(* RemoveForRetry: an attempt more that is not counted yet.                *)
LEMMA CountRemoved ==
  ASSUME Faultless, Countable, JobInv, LedgerInv, CalmJob, CountInv, JobInv',
         NEW w \in Workers, RemoveForRetry(w)
  PROVE  CrawledCountsResults' /\ AttemptsLeft'
<1>1. /\ pc[w] = "retryRemove" /\ pc' = [pc EXCEPT ![w] = "retryAdd"] /\ RetryRemove(w) /\ Alone(w)
      /\ UNCHANGED <<crawled, failed, results>>
  BY NoFault DEF RemoveForRetry, RetryRemove, Reads, Goto, RetryRemoveFails, CalmJob, JobInv,
                 progress
<1>2. /\ Busy' = Busy \union {w} /\ w \notin Busy /\ Busy \subseteq Workers
      /\ Answering' = Answering /\ Resulted' = Resulted
  BY <1>1 DEF Busy, Answering, Resulted, JobInv, ControlOK
<1>3. Cardinality(Busy') = Cardinality(Busy) + 1
  BY <1>2, OneMore DEF Countable
<1>4. PICK a \in Open : Open' \subseteq Open \ {a}
  BY <1>1, RetryCloses DEF JobInv
<1>5. Cardinality(Open') <= Cardinality(Open) - 1 /\ Cardinality(Open') \in Nat
  BY <1>4, CountFinite, FS_RemoveElement, FS_Subset, FS_CardinalityType
<1>6. CrawledCountsResults'
  BY <1>1, <1>2 DEF CountInv, CrawledCountsResults, Answering, Resulted
<1>7. AttemptsLeft'
  BY <1>1, <1>3, <1>5, CountFinite, StillLeft
<1> QED
  BY <1>6, <1>7

(* CountAttempt: one worker less whose attempt is not counted.             *)
LEMMA CountCounted ==
  ASSUME Faultless, Countable, JobInv, LedgerInv, CountInv, JobInv',
         NEW w \in Workers, CountAttempt(w)
  PROVE  CrawledCountsResults' /\ AttemptsLeft'
<1>1. /\ pc[w] \in {"succeeded", "failed"} /\ pc' = [pc EXCEPT ![w] = "poll"] /\ UNCHANGED queueVars
  BY DEF CountAttempt, Goto
<1>2. /\ Busy = Busy' \union {w} /\ w \notin Busy' /\ Busy' \subseteq Workers
      /\ Resulted' = Resulted /\ Open' = Open
  BY <1>1 DEF Busy, Resulted, Open, Waiting, Entries, Working, queueVars, store, hold, ghosts,
              JobInv, ControlOK
<1>3. Cardinality(Busy) = Cardinality(Busy') + 1 /\ Cardinality(Busy') \in Nat
  BY <1>2, OneMore DEF Countable
<1>4. crawled + Cardinality(Answering) = Cardinality(Resulted)
  BY DEF CountInv, CrawledCountsResults, Answering, Resulted
<1>5. CASE pc[w] = "succeeded"
  <2>1. Answering = Answering' \union {w} /\ w \notin Answering' /\ Answering' \subseteq Workers
    BY <1>1, <1>5 DEF Answering, JobInv, ControlOK
  <2>2. Cardinality(Answering) = Cardinality(Answering') + 1 /\ Cardinality(Answering') \in Nat
    BY <2>1, OneMore DEF Countable
  <2>3. crawled < CountCap
    BY <1>4, <2>2, CountFinite DEF Countable
  <2>4. crawled' = crawled + 1 /\ failed' = failed
    BY <1>5, <2>3 DEF CountAttempt, Counted
  <2>5. crawled' + Cardinality(Answering') = Cardinality(Resulted')
    BY <1>2, <1>4, <2>2, <2>4, CountFinite
  <2>6. AttemptsLeft'
    BY <1>2, <1>3, <2>4, CountFinite, StillLeft
  <2> QED
    BY <2>5, <2>6 DEF CrawledCountsResults, Answering, Resulted
<1>6. CASE pc[w] = "failed"
  <2>1. Answering' = Answering
    BY <1>1, <1>6 DEF Answering, JobInv, ControlOK
  <2>2. crawled' = crawled /\ failed' \in {failed, failed + 1}
    BY <1>6 DEF CountAttempt, Counted
  <2>3. crawled' + Cardinality(Answering') = Cardinality(Resulted')
    BY <1>2, <1>4, <2>1, <2>2
  <2>4. AttemptsLeft'
    BY <1>2, <1>3, <2>2, CountFinite, StillLeft
  <2> QED
    BY <2>3, <2>4 DEF CrawledCountsResults, Answering, Resulted
<1> QED
  BY <1>1, <1>5, <1>6

LEMMA CountStep ==
  ASSUME Faultless, Countable, JobInv, LedgerInv, CalmJob, CountInv, JobNext, JobInv'
  PROVE  CountInv'
<1>1. FaultlessNext
  BY FaultlessStep DEF JobInv, CalmJob
<1>2. TotalFirst'
  BY <1>1, TotalFirstStep DEF CountInv
<1>3. Open' \subseteq Open
  <2>1. CASE CalmNext
    BY <2>1, StepOnlyMoves, OpenShrinks DEF JobInv
  <2>2. CASE UNCHANGED queueVars
    BY <2>2 DEF Open, Waiting, Entries, Working, queueVars, store, hold, ghosts
  <2> QED
    BY <1>1, <2>1, <2>2, FaultlessIsCalm
<1>4. CASE StartCrawling \/ IngestionNext \/ ParseFails \/ RecoveryNext
  <2>1. UNCHANGED <<pc, results>>
    BY <1>4, OthersKeepHolds
  <2>2. UNCHANGED progress
    BY <1>4 DEF StartCrawling, IngestionNext, Ingests, Parse, SetTotal, InitLimiter, MarkSeen,
                PushTask,
                EndBatch, NextBatch, MarkRunning, SetRunning, AddActive, MarkFailed,
                ParseFails, RecoveryNext, Tick,
                ScanStale, ScanRetries, Scans
  <2>3. Busy' = Busy /\ Answering' = Answering /\ Resulted' = Resulted
    BY <2>1 DEF Busy, Answering, Resulted
  <2> QED
    BY <1>2, <1>3, <2>2, <2>3, CountQuietly DEF CountInv
<1>5. ASSUME NEW w \in Workers, WorkerNext(w)
      PROVE  CountInv'
  <2>1. CASE StoreResult(w) \/ RemoveForRetry(w) \/ CountAttempt(w)
    BY <1>2, <2>1, CountStored, CountRemoved, CountCounted DEF CountInv
  <2>2. CASE ~(StoreResult(w) \/ RemoveForRetry(w) \/ CountAttempt(w))
    <3>1. \A v \in Workers \ {w} : pc'[v] = pc[v]
      BY <1>5, WorkerMovesAlone DEF JobInv
    <3>2. /\ UNCHANGED <<results, progress>>
          /\ pc'[w] \in {"ack", "succeeded"} <=> pc[w] \in {"ack", "succeeded"}
          /\ pc'[w] \in {"retryAdd", "failed"} <=> pc[w] \in {"retryAdd", "failed"}
      BY <1>5, <2>2
         DEF WorkerNext, Reads, Goto, Poll, GetState, Acquire, TakeTask, FindNoTask, Recheck,
             PutBack,
             Fetch, Acknowledge, AddToRetry, MeasureQueue, MeasureApart, Confirm, Complete,
             Deactivate,
             Record, Dequeue, MoveToProcessing, Requeue, PushBack, Ack, RetryAdd, SendOn,
             queueVars, JobInv, ControlOK
    <3>3. Busy' = Busy /\ Answering' = Answering /\ Resulted' = Resulted
      BY <3>1, <3>2 DEF Busy, Answering, Resulted
    <3> QED
      BY <1>2, <1>3, <3>2, <3>3, CountQuietly DEF CountInv
  <2> QED
    BY <2>1, <2>2
<1> QED
  BY <1>1, <1>4, <1>5 DEF FaultlessNext

(* What the proofs about a faultless job stand on.                         *)
LEMMA FaultlessJobsAreCalm ==
  ASSUME Faultless
  PROVE  JobSpec => [](JobInv /\ LedgerInv /\ Quiet /\ CalmJob)
<1> DEFINE Inv == Quiet /\ CalmJob
<1>1. JobInit => Inv
  BY CalmJobInit DEF JobInit, PoolInit, Quiet
<1>2. JobInv /\ Inv /\ [JobNext]_jobVars => Inv'
  <2> SUFFICES ASSUME JobInv, Inv, [JobNext]_jobVars
               PROVE  Inv'
    OBVIOUS
  <2>1. Quiet'
    BY QuietStep
  <2>2. CASE JobNext
    BY <2>1, <2>2, CalmJobStep
  <2>3. CASE UNCHANGED jobVars
    <3>1. /\ UNCHANGED <<pending, processing, retry, dead, deadAgain, task, phase, results, accepted,
                         disturbed>>
          /\ UNCHANGED <<pc, state, active, ing, fresh, seen>>
      BY <2>3 DEF jobVars, queueVars, store, hold, ghosts, poolVars, control, jobState,
                  ingestVars
    <3> QED
      BY <2>1, <3>1 DEF CalmJob, FreshOnce, Undisturbed, Once, ListsApart, EntriesOnce,
                        HoldersOnce, HolderOwns,
                        OnlyAccepted, Answered, Alone, Entries, Working, Held
  <2> QED
    BY <2>2, <2>3
<1>3. JobSpec => [](JobInv /\ LedgerInv)
  BY JobInvariant, JobImplementsQueue, LedgerInvariant, PTL
<1> QED
  BY <1>1, <1>2, <1>3, PTL DEF JobSpec

(* Results, counters and attempts of a job without faults and requests.    *)
LEMMA FaultlessCounting ==
  ASSUME Faultless, Countable
  PROVE  JobSpec => [](JobInv /\ LedgerInv /\ CountInv)
<1>1. JobInit => CountInv
  BY CountInit
<1>2. /\ JobInv /\ LedgerInv /\ Quiet /\ CalmJob
      /\ (JobInv /\ LedgerInv /\ Quiet /\ CalmJob)'
      /\ CountInv
      /\ [JobNext]_jobVars
      => CountInv'
  <2> SUFFICES ASSUME JobInv, LedgerInv, Quiet, CalmJob, JobInv', CountInv, [JobNext]_jobVars
               PROVE  CountInv'
    OBVIOUS
  <2>1. CASE JobNext
    BY <2>1, CountStep
  <2>2. CASE UNCHANGED jobVars
    <3>1. /\ UNCHANGED <<pending, processing, retry, dead, task, phase, results, accepted>>
          /\ UNCHANGED <<pc, active, ing, crawled, failed, total>>
      BY <2>2 DEF jobVars, queueVars, store, hold, ghosts, poolVars, control, jobState,
                  progress, ingestVars
    <3> QED
      BY <3>1 DEF CountInv, CrawledCountsResults, AttemptsLeft, TotalFirst, Busy, Open,
                  Waiting, Entries, Working
  <2> QED
    BY <2>1, <2>2
<1> QED
  BY <1>1, <1>2, FaultlessJobsAreCalm, PTL DEF JobSpec

LEMMA CountedIsBounded ==
  ASSUME Faultless, Countable, JobInv, LedgerInv, CountInv
  PROVE  ProgressBounded
<1>0. total \in Nat /\ Cardinality(Source) <= Cardinality(Lines)
  <2>1. Cardinality(Lines) = Cardinality(Source) * Times /\ IsFiniteSet(Lines)
    <3>1. /\ IsFiniteSet(Source) /\ IsFiniteSet(1..Times) /\ Cardinality(1..Times) = Times
      BY FS_Interval, JobAssumption
    <3> QED
      BY <3>1, FS_Product DEF Lines
  <2>2. Cardinality(Source) <= Cardinality(Source) * Times
    BY CountFinite, JobAssumption
  <2>3. Cardinality(Lines) \in Nat
    BY <2>1, FS_CardinalityType
  <2> QED
    BY <2>1, <2>2, <2>3 DEF JobInv, IngestOK
<1>1. CASE total = Cardinality(Lines)
  <2>1. PICK m \in Int : m = (MaxRetries + 1) * Cardinality(Source)
    BY CountFinite, QueueAssumption
  <2>2. crawled + failed + Cardinality(Busy) + Cardinality(Open) <= m
    BY <2>1 DEF CountInv, AttemptsLeft
  <2>3. crawled + failed <= m
    BY <2>2, CountFinite
  <2>4. m <= (MaxRetries + 1) * total
    BY <1>0, <1>1, <2>1, CountFinite, QueueAssumption
  <2>5. PICK n \in Int : n = (MaxRetries + 1) * total
    BY <1>0, QueueAssumption
  <2> QED
    BY <2>3, <2>4, <2>5, CountFinite DEF ProgressBounded
<1>2. CASE crawled = 0 /\ failed = 0
  <2>2. (MaxRetries + 1) * total >= 0
    BY <1>0, QueueAssumption
  <2> QED
    BY <1>2, <2>2 DEF ProgressBounded
<1> QED
  BY <1>1, <1>2 DEF CountInv, TotalFirst

(* In a job without faults and requests crawled_urls is the number of       *)
(* stored results, but for those whose worker has not counted them yet, by  *)
(* whichever workers the URLs are tried (pool.go:228-257).                  *)
THEOREM FaultlessJobsCountRight ==
  ASSUME Faultless, Countable
  PROVE  JobSpec => []CrawledCountsResults
<1>1. CountInv => CrawledCountsResults
  BY DEF CountInv
<1> QED
  BY <1>1, FaultlessCounting, PTL

(* And no URL is counted more than MaxRetries + 1 times, as a result or as  *)
(* a failure, however late the job is found complete (pool.go:200-285).     *)
THEOREM FaultlessProgressIsBounded ==
  ASSUME Faultless, Countable
  PROVE  JobSpec => []ProgressBounded
<1>1. JobInv /\ LedgerInv /\ CountInv => ProgressBounded
  BY CountedIsBounded
<1> QED
  BY <1>1, FaultlessCounting, PTL

-----------------------------------------------------------------------------
(* A recovery script that finds more than BatchLimit entries due.          *)
OverflowingStep ==
  \/ \E due \in SUBSET retry : \E batch \in Batches(due) :
       Range(batch) # due /\ RequeueRetries(due, batch)
  \/ \E due \in SUBSET processing : \E batch \in Batches(due) :
       Range(batch) # due /\ RequeueStale(due, batch)

(* Until it is completed nothing is put back into a faultless job's queue. *)
LEMMA FaultlessReturnsNothing ==
  ASSUME Faultless, JobInv, CalmJob, FaultlessNext, state # "completed"
  PROVE  ~ReturningStep
<1>1. QueueTypeOK /\ ControlOK /\ Undisturbed /\ (\A w \in Workers : pc[w] # "requeue")
      /\ \A kind : ~Disturb(kind)
  BY NoFault DEF JobInv, CalmJob
<1>4. \A w \in Workers : ~RequeueReplyLost(w)
  BY <1>1 DEF RequeueReplyLost
<1>2. ASSUME NEW w \in Workers, Requeue(w)
      PROVE  FALSE
  <2>1. phase[w] = "taken" /\ phase'[w] = "free"
    BY <1>1, <1>2 DEF Requeue, PushBack, Release, Hold, QueueTypeOK
  <2>2. PICK v \in Workers : WorkerNext(v)
    BY <2>1, OthersKeepHolds DEF FaultlessNext
  <2>3. v = w
    BY <1>1, <2>1, <2>2, WorkerKeepsOthers
  <2>4. phase' = phase \/ Dequeue(w) \/ Store(w) \/ StoreFails(w) \/ Ack(w) \/ RetryRemove(w)
          \/ RetryRemoveFails(w) \/ RetryAdd(w)
    BY <1>1, <2>2, <2>3
       DEF WorkerNext, Reads, Poll, GetState, Acquire, TakeTask, FindNoTask, Recheck, PutBack,
           Fetch,
           StoreResult, Acknowledge, RemoveForRetry, AddToRetry, CountAttempt, MeasureQueue,
           MeasureApart, Confirm, Complete, Deactivate, Record, queueVars, hold
  <2> QED
    BY <1>1, <2>1, <2>4
       DEF Dequeue, Store, StoreFails, Ack, RetryRemove, RetryRemoveFails, RetryAdd, SendOn,
           Hold, Release,
           QueueTypeOK
<1>3. ASSUME NEW due \in SUBSET processing, NEW batch \in Batches(due), RequeueStale(due, batch)
      PROVE  FALSE
  <2>1. batch \in Seq(due) /\ batch # <<>>
    BY <1>3, BatchProperties DEF RequeueStale
  <2>2. PICK t : t \in due
    BY <2>1
  <2>3. Held(t)
    BY <1>1, <2>2 DEF Undisturbed
  <2> QED
    BY <1>1, <1>3, <2>2, <2>3 DEF RequeueStale
<1> QED
  BY <1>2, <1>3, <1>4 DEF ReturningStep

LEMMA FaultlessIsSteady ==
  ASSUME Faultless, JobInv, LedgerInv, CalmJob, FaultlessNext, ~OverflowingStep
  PROVE  Steady
<1>1. disturbed = 0 /\ \A kind : ~Disturb(kind)
  BY NoFault DEF JobInv
<1>2. \A w \in Workers : ~Crash(w) /\ ~LastCallFails(w) /\ phase[w] # "unsaved"
  BY <1>1 DEF Crash, LastCallFails, LedgerInv
<1> QED
  BY <1>2, FaultlessReturnsNothing DEF Steady, LosingStep, OverflowingStep

(* However the workers race for the last tasks and whichever lengths        *)
(* checkJobCompletion reads apart, a job without faults and requests is     *)
(* completed only when every URL has been tried, unless more than           *)
(* BatchLimit retries are due at once (pool.go:264-285, queue.go:208-213).  *)
THEOREM FaultlessJobsHaveTried ==
  ASSUME Faultless
  PROVE  JobSpec /\ [][~OverflowingStep]_queueVars => []CompletedMeansTried
<1>1. /\ JobInv /\ LedgerInv /\ Quiet /\ CalmJob
      /\ [JobNext]_jobVars
      /\ [~OverflowingStep]_queueVars
      => [Steady]_queueVars
  <2> SUFFICES ASSUME JobInv, LedgerInv, CalmJob, [JobNext]_jobVars, ~OverflowingStep,
                      ~UNCHANGED queueVars
               PROVE  Steady
    OBVIOUS
  <2>1. JobNext
    BY DEF jobVars
  <2> QED
    BY <2>1, FaultlessStep, FaultlessIsSteady DEF JobInv, CalmJob
<1> QED
  BY <1>1, FaultlessJobsAreCalm, CompletedJobsHaveTried, PTL DEF JobSpec

(* What queue.go promises (module Ledger) holds for a whole job, whichever  *)
(* requests come and whichever calls fail or processes die.                 *)
THEOREM JobKeepsItsPromise == JobSpec => KeepsItsPromise
BY JobImplementsQueue, QueueKeepsItsPromise, PTL
=============================================================================
