----------------------------- MODULE TimedQueue -----------------------------
(***************************************************************************)
(* The queue of module CrawlQueue in real time.  CrawlQueue lets a         *)
(* recovery script find anything due; here every entry has an age, and     *)
(* what is due follows from processingTimeout, the backoff and the clocks  *)
(* (internal/queue/queue.go), from the period of the recovery loop         *)
(* (internal/worker/pool.go) and from how long a worker handles a task:    *)
(* the goroutines of one process wait for a slot of the per-domain limiter *)
(* first (internal/crawler/fetcher.go), first come first served, all of    *)
(* them for one domain as in the usual crawl of one site.                  *)
(*                                                                         *)
(* A tick is the unit of all durations.  Ages are relative, so that there  *)
(* is no clock to bound; two clocks differ by Skew at most, truncation to  *)
(* seconds included.  Processes die; the calls that fail or are sent       *)
(* again, and the pause, are left to CrawlQueue and CrawlJob.              *)
(***************************************************************************)
EXTENDS CrawlQueue

CONSTANTS
  Timeout,      \* processingTimeout (5 minutes)
  Period,       \* of the recovery loop (30 seconds)
  Skew,         \* bound on the difference of two clocks
  Slots,        \* concurrent requests for a domain (10)
  RequestTime,  \* a request and the calls after it (CRAWLER_TIMEOUT, 30 seconds)
  Second,       \* time.Second in units of time.Duration
  Width,        \* bits of a time.Duration (64)
  Cap           \* the longest backoff (300 seconds)

ASSUME TimedAssumption ==
  /\ {Timeout, Period, Slots, RequestTime, Second, Width, Cap} \subseteq Nat \ {0}
  /\ Skew \in Nat
  /\ IsFiniteSet(Workers)

VARIABLES
  age,    \* age[t]: ticks since the dequeue that scored t in processing
  wait,   \* wait[t]: ticks left of the backoff of t in retry, negative once over
  line,   \* the workers that wait for a slot, in the order they came
  spent,  \* spent[w]: ticks since worker w got its slot
  since,  \* ticks since the last scan of the retry set
  scan    \* the recovery loop's next call

entryTimes == <<age, wait>>
workerTimes == <<line, spent>>
scanTimes == <<since, scan>>
timedVars == <<queueVars, entryTimes, workerTimes, scanTimes>>

-----------------------------------------------------------------------------
(* time.Duration(1<<uint(retries)) * time.Second, in two's complement.     *)
Signed(n) ==
  LET low == n % 2^Width IN IF low >= 2^(Width - 1) THEN low - 2^Width ELSE low

(* Mutant: the score is the present second.                                *)
DelayForgotten(retries) == 0

(* The backoff in ticks, after the cap.                                    *)
Delay(retries) ==
  LET backoff == Signed(2^retries * Second)
  IN IF backoff > Cap * Second THEN Cap ELSE backoff \div Second

(* queue.go:171 "2^retries seconds, max 300s".                             *)
DocumentedDelay(retries) == IF 2^retries > Cap THEN Cap ELSE 2^retries

Waits(w) == w \in Range(line)
Requests(w) == phase[w] = "taken" /\ ~Waits(w)
Busy(w) == phase[w] # "free" /\ ~Waits(w)

FreeSlot == Cardinality({w \in Workers : Requests(w)}) < Slots

TimedInit ==
  /\ QueueInit
  /\ age = [t \in {} |-> 0]
  /\ wait = [t \in {} |-> 0]
  /\ line = <<>>
  /\ spent = [w \in Workers |-> 0]
  /\ since = 0
  /\ scan = "stale"

(* Entries that leave a set lose their score.                              *)
Kept == age' = Restrict(age, processing') /\ wait' = Restrict(wait, retry')

(* Mutant: a goroutine that is gone keeps its place.                       *)
LeavesLine(w) ==
  /\ spent' = [spent EXCEPT ![w] = IF phase'[w] = "free" THEN 0 ELSE @]
  /\ UNCHANGED line

(* Worker w ends its wait for a slot, or its handling of a task.           *)
Leaves(w) ==
  /\ IF Waits(w)
     THEN LET place == CHOOSE i \in DOMAIN line : line[i] = w
          IN  line' = [i \in 1..(Len(line) - 1) |-> IF i < place THEN line[i] ELSE line[i + 1]]
     ELSE UNCHANGED line
  /\ spent' = [spent EXCEPT ![w] = IF phase'[w] = "free" THEN 0 ELSE @]

(* Dequeue scores its entry with the present second.                       *)
TakesTask(w) ==
  /\ Dequeue(w)
  /\ age' = [t \in processing' |-> IF t = Head(pending) THEN 0 ELSE age[t]]
  /\ line' = Append(line, w)
  /\ UNCHANGED <<wait, spent, scanTimes>>

(* The limiter's channel has room for the goroutine that came first.       *)
GetsSlot ==
  /\ line # <<>> /\ FreeSlot
  /\ line' = Tail(line)
  /\ UNCHANGED <<queueVars, entryTimes, spent, scanTimes>>

(* What a worker does with its task once the fetch is over ...             *)
EndsRequest(w) ==
  /\ ~Waits(w)
  /\ Store(w) \/ Ack(w) \/ RetryRemove(w)
  /\ Kept
  /\ Leaves(w)
  /\ UNCHANGED scanTimes

(* ... up to the ZADD, scored by the end of the backoff ...                *)
AddsRetry(w) ==
  /\ RetryAdd(w)
  /\ wait' = [t \in retry' |-> IF t = Marshal(task[w]) THEN Delay(t.retries) ELSE wait[t]]
  /\ Leaves(w)
  /\ UNCHANGED <<age, scanTimes>>

(* ... or the end of its process, one goroutine at a time.                 *)
Dies(w) ==
  /\ Crash(w)
  /\ Leaves(w)
  /\ UNCHANGED <<entryTimes, scanTimes>>

(* Sets that hold everything surely due and nothing surely not: the clocks *)
(* of the host that scored an entry and of the one that scans differ.      *)
Between(sure, possible) == {sure \union some : some \in SUBSET (possible \ sure)}

(* Mutant: the timeout counts twice.                                       *)
StaleLate ==
  Between({t \in processing : age[t] >= 2 * Timeout + Skew},
          {t \in processing : age[t] >= 2 * Timeout - Skew})

(* Mutant: compared with the present second itself.                        *)
StaleNow == Between({t \in processing : age[t] >= Skew}, processing)

Stale ==
  Between({t \in processing : age[t] >= Timeout + Skew}, {t \in processing : age[t] >= Timeout - Skew})

Ready == Between({t \in retry : wait[t] <= -Skew}, {t \in retry : wait[t] <= Skew})

(* One tick of the recovery loop; there may be several loops, which scan    *)
(* at other times.                                                         *)
ScanStale ==
  /\ scan = "stale" /\ scan' = "retries"
  /\ \E due \in Stale :
       IF due = {} THEN UNCHANGED queueVars ELSE \E batch \in Batches(due) : RequeueStale(due, batch)
  /\ Kept
  /\ UNCHANGED <<workerTimes, since>>

ScanRetries ==
  /\ scan = "retries" /\ scan' = "stale"
  /\ \E due \in Ready :
       IF due = {} THEN UNCHANGED queueVars ELSE \E batch \in Batches(due) : RequeueRetries(due, batch)
  /\ Kept
  /\ since' = 0
  /\ UNCHANGED workerTimes

(* The ingestion's pushes, and the DELs of a stop.                         *)
Elsewhere ==
  /\ (\E u \in Source : Enqueue(u)) \/ DeleteQueue
  /\ Kept
  /\ UNCHANGED <<workerTimes, scanTimes>>

(* Time passes while no request has lasted its longest, the next scan is   *)
(* not due, and no free slot is waited for.                                *)
Tick ==
  /\ \A w \in Workers : Busy(w) => spent[w] < RequestTime
  /\ since < Period /\ scan = "stale"
  /\ line = <<>> \/ ~FreeSlot
  /\ age' = [t \in processing |-> age[t] + 1]
  /\ wait' = [t \in retry |-> IF wait[t] > -Skew THEN wait[t] - 1 ELSE wait[t]]
  /\ spent' = [w \in Workers |-> IF Busy(w) THEN spent[w] + 1 ELSE spent[w]]
  /\ since' = since + 1
  /\ UNCHANGED <<queueVars, line, scan>>

TimedNext ==
  \/ \E w \in Workers : TakesTask(w) \/ EndsRequest(w) \/ AddsRetry(w) \/ Dies(w)
  \/ GetsSlot
  \/ ScanStale
  \/ ScanRetries
  \/ Elsewhere
  \/ Tick

TimedSpec == TimedInit /\ [][TimedNext]_timedVars
-----------------------------------------------------------------------------
(* Properties.                                                             *)

(* Type invariant: scores are kept for exactly the entries, and the worker *)
(* that waits longest holds a task.                                        *)
TimedTypeOK ==
  /\ DOMAIN age = processing /\ \A t \in processing : age[t] \in Nat
  /\ DOMAIN wait = retry /\ \A t \in retry : wait[t] \in Int
  /\ IsInjective(line) /\ \A w \in Range(line) : phase[w] = "taken"
  /\ spent \in [Workers -> 0..RequestTime]
  /\ since \in 0..Period
  /\ scan \in {"stale", "retries"}

(* ARCHITECTURE.md "Worker Crash Recovery": whatever happens to the worker, *)
(* a task is not in processing for longer than the timeout and the time to *)
(* the next scan.                                                          *)
AbandonedFound == \A t \in processing : age[t] <= Timeout + Skew + Period

(* queue.go:171 "2^retries seconds, max 300s": a failed task is not back in *)
(* pending before its backoff is over, as far as the clocks agree, however  *)
(* its retries meet with scans, crashes and copies of it.                  *)
BackoffRespected ==
  [][~DeleteQueue => \A t \in retry \ retry' : Delay(t.retries) - wait[t] >= DocumentedDelay(t.retries) - Skew]_timedVars
=============================================================================
