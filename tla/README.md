# A verification development of crawler-backend

crawler-backend crawls lists of URLs: an API server turns a site's CSV or XML
file into tasks in Redis, and worker processes take tasks, fetch them at a
limited rate, and store what they got in MongoDB. Nothing but Redis and MongoDB
is shared, and almost nothing is a transaction, so the questions worth asking
are about orders of calls: a worker that dies between two commands, a stop that
meets an ingestion, a retry that a scan finds twice. The modules here model the
code under `src/internal`; TLC checks small instances of them and TLAPS proves
the theorems listed below for all instances.

## 1. The system

| Component | Source | State | Operations |
|---|---|---|---|
| Distributed queue | `queue/queue.go` | per job: `pending` (list), `processing` and `retry` (sorted sets by time), `dead` (list) | EnqueueBatch, Dequeue, Ack, Retry, SendToDead, RequeueRetries, RequeueStale, GetStats, QueueLength, DeleteQueue; DequeueBatch has no caller |
| Job state | `queue/jobstate.go` | `crawl:{id}:state`, the set `active:crawlings` | SetState, GetState, Add-/RemoveActiveCrawling, GetActiveCrawlings |
| Worker pool | `worker/pool.go` | the task each goroutine has in hand | workerLoop, processTask, checkJobCompletion, recoveryLoop (every 30 s), Stop |
| Job control | `api/handler.go` | the ingestion goroutine's batch; the status a request has read | StartCrawling, ingestURLs, Pause-, Resume-, StopCrawling, GetCrawlingProgress |
| Site API, listings | `api/handler.go`, `repository/mongodb.go` | the collections of sites and crawlings | Create-, Update-, Delete-, GetSite, ListSites, ListCrawlings, GetCrawling |
| Dedup | `dedup/dedup.go` | `crawl:{id}:seen` | MarkSeen, Cleanup |
| Rate limiter | `ratelimiter/ratelimiter.go` | `speed`, `tokens`, `tokens:refill` | Init, Acquire (a Lua script), Cleanup |
| Fetcher | `crawler/fetcher.go` | per process: a map from domain to a channel of ten slots | Fetch, DomainLimiter.Acquire, Release, Close |
| Source parser | `source/parser.go` | the reader, the URLs so far | ParseURLs, parseCSV, parseXML |
| Processes | `cmd/api/main.go`, `cmd/worker/main.go` | the context of the goroutines | start, graceful shutdown |
| Repository | `repository/mongodb.go` | crawlings (status, counters), results, sites | one command per write, two per listing |
| Webhook sender (no caller), config, metrics, middleware, deployment | | | not modelled, section 8 |

How they interact. `StartCrawling` inserts a document as `pending` and starts
`ingestURLs`, which parses the source, sets `total_urls`, initialises the rate
limiter, lets each URL through the dedup set, pushes batches to `pending`, and
at last writes `running` to MongoDB, `running` to Redis, and the job into
`active:crawlings`. A worker reads the active jobs, the state, asks for a token,
dequeues (one script: RPOP and ZADD), reads the state again, fetches, and then
either inserts the result and removes the task from `processing`, or hands the
task to Retry. A worker that finds nothing to dequeue measures the queue and,
at 0, completes the job. The recovery loop moves what is stale or due back to
`pending`. Pause, resume and stop read the status once, then write state, status
and, for stop, delete keys; every error is dropped.

What is hard: every two calls can be separated by calls of other goroutines,
replicas, the recovery loop and the API; processes die and calls fail between
them; timeouts are compared across hosts' clocks; tasks are found by the bytes
they encode to; scans have limits.

What makes each part correct:

- queue: no accepted URL is forgotten, none is handled twice at a time, recovery
  neither multiplies nor drops, attempts are bounded;
- worker pool: a job is completed when and only when its URLs are settled, what
  crashed is worked off, workers come to rest when a job does;
- job control: no worker starts before the ingestion is over; a stop is final, a
  pause effective, a running job active;
- rate limiter: time is paid for once and a window is bounded, in any order of
  timestamps, at the configured speed;
- worker process: slots are taken exactly by their holders and come free, a
  shutdown ends with no request under way;
- ingestion: the first `url_limit` URLs of the file, each once, whatever the
  batches and the faults; an end to `pending`;
- catalog: a job uses one version of its site, a client that pages through a
  listing misses nothing.

## 2. The modules

| Module | Models |
|---|---|
| `CrawlQueue` | the four keys of a job, the task every worker holds, and the queue's operations, one action per Redis command or script |
| `WorkerPool` | extends `CrawlQueue` with the control of every worker (`pc`), of the recovery loop (`scan`), the job state and the counters |
| `CrawlJob` | extends `WorkerPool` with the ingestion and the API's requests: the whole system for one job |
| `RateLimiter` | the token bucket with its numbers |
| `TimedQueue` | extends `CrawlQueue` with ages, backoffs, the line for the slots and the period of the recovery loop: what a scan finds due is computed, not chosen |
| `Ledger` | the abstract specification of the queue: what becomes of a URL that was handed over |
| `DomainLimiter` | Fetch and the channels of one worker process, as actions |
| `WorkerProcess` | extends `DomainLimiter` with the goroutines' loops, the recovery goroutine and main: start and shutdown |
| `SourceParser` | the two parsing loops, as actions |
| `Ingestion` | extends `SourceParser` with `ingestURLs`: from the rows of a file to the order of the pending list |
| `SiteCatalog` | sites, crawlings, and clients that page through them |
| `CrawlQueueProofs`, `LedgerProofs`, `TimedQueueProofs`, `CrawlJobProofs`, `RateLimiterProofs`, `WorkerProcessProofs`, `IngestionProofs`, `CatalogProofs` | theorems, section 6 |
| `MC*` | instances for TLC |

Three chains of implementation, each checked and proved:

- `CrawlJob` implements `CrawlQueue`. `QueueSpec` says what may ever happen to the
  keys and to a task in hand, without saying when; `CrawlJob` says when. It extends
  the variables of `CrawlQueue`, so that the refinement mapping is the identity and
  the implementation is the formula `QueueSpec`.
- `TimedQueue` implements `CrawlQueue` in the same way: it is the queue with less
  freedom in what is due.
- `CrawlQueue` implements `Ledger`, under the mapping of `Promise == INSTANCE Ledger
  WITH ...`: a URL is `new` until it is enqueued, `answered` once a result of it is
  stored, `kept` while an entry of a key or the memory of a worker stands for it,
  else `gone`. The ledger knows no keys, workers or attempts. It lets a URL be given
  up after a stop, after a fault, or when more waits than a script takes at a time,
  and never otherwise; nobody answers a URL that is gone, and nothing is revived.

### How they correspond to the code

`CrawlQueue`. `pending` is the list read from its right end: `Append` is LPUSH,
`Head` is RPOP. A task is its URL and its number of attempts; the other fields
of `CrawlTask` never change. `phase[w]` says what the worker's task has been
through: `taken`, `stored` or `unsaved` (the insert failed, which pool.go:247
logs and forgets), `removed` (between the ZREM and the ZADD or LPUSH of Retry).
`Marshal` and `Unmarshal` keep the one fact about encoding/json that matters to
ZREM, which finds members by their bytes: a URL with bytes that are no UTF-8
decodes to another string than it was made from (`Clean`). There is no clock:
which entries a scan finds due is chosen. A task found stale while its worker
still handles it is the disturbance `timeout`. `dead` is never read back and is
kept as the set of its members, with `deadAgain` for those that are in it more than
once. `accepted`, `discarded` and `disturbed` are history; a URL that is pushed again
after a stop is owed again.

Faults are counted: `Allowed` says which may happen in an instance and `MaxDisturbances`
how often. `crash` clears a worker's memory. `error` is a call without effect, or one with
effect whose reply is lost. After a lost reply go-redis sends a command or a pipeline
again (`Options.MaxRetries` is left at its default), which the model has wherever it makes
a difference, as an action `...ReplyLost` or `...Resent` after which the call may be made
again: the dequeue script, the pipelines of the ingestion and of a requeue, the LPUSH or
ZADD at the end of Retry. A recovery script that is sent again is another scan. The other
commands (ZREM, SET, SADD, SREM, DEL) do the same twice, which changes nothing unless a
command of another party comes between (section 8). Where nothing is sent again a lost
reply leads where success leads, because the code drops the error. `ingestion` ends the
ingestion goroutine. `pause` (the job stops running while a worker has a task, which it
then puts back) and `split` (other clients' commands run inside the reading pipeline of
GetStats) are permissions and not counted. `Repeats` are the URLs that may come to the
queue again because the source lists them again and a stop has emptied the seen set in
between (`EnqueueRepeated`).

`WorkerPool`. `pc[w]` names the next call of worker w: `poll`, `getState`,
`acquire`, `dequeue`, `recheck` ... One action per call, and the tables `OnError`
and `OnTaskError` for where the code goes when it fails. The rate limiter
appears as `bucket`, whether its keys exist, and as an arbitrary answer;
`RateLimiter` has the rest. The results are counted in `results`, the two
counters of the document in `crawled` and `failed`.

`CrawlJob`. `ing` is the next call of `ingestURLs`; a batch may end after any URL
(the code ends it after 1000). The parser returns lines `<<u, n>>`, the n-th mention of
URL u, in any order. `req[r]` is the next call of one request. A client that goes away
cancels the context of its request: all later calls of the handler fail
(`RequestDies`). A request that is refused changes nothing and is left out.

`RateLimiter`. Tokens are counted in units of 1/3 600 000 token, so that
milliseconds times URLs per hour are units and nothing is rounded (the script
computes with doubles). `now` is any value of `Times` at any call. Init is a
pipeline of three SETs with anything in between. `start`, `granted`, `spilled`
and `window` are history, for the properties.

`TimedQueue`. A tick is the unit of all durations. `age[t]` is how long ago t was
scored in `processing`, `wait[t]` what is left of its backoff; an entry is due for
certain, or perhaps, depending on `Skew`, by which two clocks differ at most.
`line` are the goroutines that wait for a slot of the domain limiter, in their order
(one domain, as in the crawl of one site); a goroutine at its head gets a slot as
soon as one is free, and time cannot pass before. A task may be found stale while it
waits there, since its age counts from the dequeue. Time cannot pass beyond the
longest request or the next scan, which is how upper bounds on durations are stated.
`Delay` is `time.Duration(1<<uint(retries)) * time.Second` in `Width` bits.

`DomainLimiter`, `WorkerProcess`. A section under the mutex is a step, a channel
operation another. Channels are numbered in the order they were made, `filled[c]` is
what is in the buffer. Only the domain extractDomain returns for a task's URL is
modelled; redirects are counted (`hops`) and go past the limiter. Time matters in the
delay only; `recent` is history: the requests of the last ticks. `loop[g]` says how
far goroutine g is with a task, `main` how far the process is with its end. After the
signal every new call fails at once, the calls under way end, and the limiter's send
and sleep go on, as they do not look at the context. `left` counts the tasks a
goroutine had when its calls began to fail.

`SourceParser`, `Ingestion`. A file is a list of rows or elements (a page's URL,
anything else, malformed) and ends or breaks off; pages repeat. `columns` is what
encoding/csv remembers of the first row. `ingestURLs` then goes through the list of
URLs in batches of `BatchSize`. A failing pipeline may have run a part of its
commands; a pipeline whose reply is lost is sent again by the client library
(`PushResent`; an SADD that is sent again answers 0 and its URL is dropped, which is
`MarkFails`). The deadline of ten minutes breaks the connection of a source that is
being read, and fails every later call. A stop that meets the loop over the list
deletes the pending list and then the seen set (`StopDeletes`, `StopCleans`), and the
loop goes on; before and after the loop these two calls have nothing of the ingestion's
to meet. `CrawlJob` has the same goroutine against workers and whole requests, with lines
in any order for a source.

`SiteCatalog`. Documents by identifier; `created` are their stamps, taken from any clock
before the insert. A listing is two commands, a count and a find; a find sorts by
`created_at` alone, so that documents of one stamp come in any order, each time anew. A
page (at most 100 documents) is within the first batch of a MongoDB cursor (101) and taken
as read at one moment. `walk` is a client that asks for a page after the other by the
`limit` of the answers until it has skipped the `total` it was last told. `start[j]` is
what StartCrawling has read and not yet inserted. `published` is history: every version of
a site that a create or a PUT has answered with.

## 3. Hazards

`PROJECT.json` lists each hazard with its line and the properties that catch it.
The properties, by the hazard they are for:

| Hazard | Properties |
|---|---|
| a task is lost between two commands, by a pause, by a scan, by a failed insert | `LostOnlyByLosingStep`, `KeepsItsPromise` |
| a task is handled twice, or multiplies | `NoDoubleProcessing` (also violated, see below), `SingleCopy`, `OneOutcome` |
| clocks of several hosts and periodic scans | `AbandonedFound`, `BackoffRespected` |
| attempts beyond the limit | `QueueTypeOK`, `ProgressBounded` |
| completion races with retries and recovery | `CompletedMeansTried` |
| ingestion races with workers and requests | `WorkAfterIngestion`, `StopIsFinal` (violated) |
| workers race with a stop or a pause, or with half a stop | `QueueSpec`, `JobTypeOK`, `InactiveWorkersIdle`, `PausedWorkersIdle`, `StoppedWorkersIdle` |
| nothing is left behind | `EventuallyFinishes`, `Drains`, `LeavesPending` |
| counters and results are separate writes | `CrawledCountsResults` |
| timestamps out of order; keys that come back | `RateTypeOK`, `PaidOnce`, `WindowBound` |
| slots leak, starve, or limit the wrong thing | `DomainTypeOK`, `SlotsMatchHolders`, `SlotsPaceRequests`, `SlotsComeFree` |
| a shutdown meets goroutines that do not see it | `StopReturns`, `ClosedMeansIdle`, `OneTaskEach` |
| reading errors, limits, duplicates, batches that fail | `ReturnsFirstUrls`, `WholeSourceQueued`, `EnqueuedOnce`, `FaultsCostTheirBatch`, `BrokenSourcesEnd` (violated) |
| documents change between two commands or two pages | `JobsUseOneVersion`, `WalksMissNothing`, `WalksRepeatNothing` |

## 4. The runs

Runs that pass:

| Run | Instance | Shows |
|---|---|---|
| `queue_core` | two workers, two URLs, one of them re-encoded (and the one it becomes), one that comes again after a stop, scans of at most one entry, one fault of any kind, lost replies among them | attempts; only `LosingStep` loses a URL; the queue implements the ledger |
| `queue_timed` | two goroutines, one slot, a timeout longer than two requests, clocks one tick apart, two crashes | one worker per task, one copy, one outcome; abandoned tasks found in time; no retry early |
| `job_core` | two workers, one request, a source that lists its URL twice, every fault once, split pipelines | the job implements `QueueSpec`; control and hold agree; workers wait for the ingestion |
| `job_calm` | two workers, two URLs, no faults, split pipelines, fair | the job ends; a completed job has tried every URL; its counters agree with the results and are bounded |
| `job_live` | one worker, a crash, a failed call, a lost reply or a request that dies, a pause or a stop, fair | the queue drains; workers come to rest, also after a stop of which one call or all the rest failed |
| `rate_core` | six instants, in any order | the accounts of the bucket, and windows |
| `process_core` | two goroutines, two domains of one slot, a signal at any time, fair | slots and holders, pace; slots come free; the shutdown ends, idle, and leaves one task per goroutine; no deadlock before it |
| `ingest_core` | files of up to three rows over three pages, limits up to two, batches of two, two faults, a stop in the loop, fair | what is parsed, enqueued and lost; the end of `pending` |
| `catalog_core` | two sites, three crawlings, a change, three instants, pages of one or two | one version per job; what a walk through pages sees |

Runs that find what the code does against a statement of the repository (each is
a finding in `PROJECT.json`, with the lines):

| Run | Statement | What happens |
|---|---|---|
| `queue_slow` | `NoDoubleProcessing`: "no double-processing" (ARCHITECTURE.md:556) | 200 goroutines, 10 slots and requests of 30 s make a line of ten minutes; the timeout of five minutes finds the tasks of those who still wait |
| `job_stop_ingestion` | `StopIsFinal`: "irreversible" (HOW-TO-USE.md:410) | the ingestion marks the stopped job running |
| `parser_broken` | `BrokenSourcesEnd`: "move to `failed` status" (HOW-TO-USE.md:600) | a broken CSV connection is read for ever |

### What else the models show

The following are behaviours of the models, found while they were written, that
disagree with a document or a comment. No run states them. The models have the
steps of them, unless said otherwise, and the properties that pass are conditioned
accordingly.

- A worker that dies, or whose second call fails, between the two commands of Retry
  (queue.go:163 and 183) leaves its URL in no key, where ARCHITECTURE.md:588 and :608
  say no URL is lost. This is the first of the steps of `LosingStep`; that there is no
  further one is `LostOnlyByLosingStep`.
- A worker that finds `pending` empty while another is between these two commands
  measures a length of 0 and completes the job (pool.go:265 against the comment at
  263); the URL then goes to the retry set of a job nobody scans. What remains true
  is `CompletedMeansTried`.
- When more is due than LIMIT, the scripts push LIMIT entries and remove all
  (queue.go:213 and 242 against the comments at 201 and 230). This is a
  `LosingStep`, and the reason for the ledger's `Limit`.
- A backoff is 2 to the retries in seconds up to 300, reached at the ninth; the table
  at ARCHITECTURE.md:259 has 300 seconds from the fourth on. From 34 attempts on the
  duration overflows and the task is due at once (queue.go:172); the default is 3.
- In a shutdown, tasks in flight are not requeued (ARCHITECTURE.md:372): every call of
  their goroutines fails, they stay in `processing` until a scan of another process
  finds them after five minutes, or are lost when the signal comes between the two
  commands of Retry. `OneTaskEach` bounds how many.
- A failed batch of the ingestion is dropped and stays marked as seen (handler.go:357);
  a command that the client library sends again pushes twice or drops a URL as a
  duplicate. `FaultsCostTheirBatch` and `EnqueuedOnce` say how far that goes.
- `total_urls` counts duplicates (handler.go:309) and `failed_urls` attempts
  (pool.go:217), so that a job ends at less, or at more, than 100 percent.
- Two documents with one `created_at` (milliseconds, of any host's clock) have no
  order, so that pages may skip one or show it twice; so may documents that come or go
  meanwhile. A listing's total and its page are of two moments (mongodb.go:137, 253).
- Ack of a task whose URL was re-encoded removes nothing (queue.go:150), so that it
  is recovered and handled again.
- A pipeline of GetStats with a recovery script between its commands may count a
  task that moves nowhere (queue.go:270 against the comment at 299).
- A worker with a task in hand when the job is stopped puts it back into `pending`
  after the stop has deleted the keys (pool.go:196 against HOW-TO-USE.md:410).
- A pause that is admitted between MarkRunning and SetRunning is overwritten by
  SetRunning (handler.go:369 against HOW-TO-USE.md:384).
- A pause that overwrites a completion, then a resume, leave a job `running` that is
  in `active:crawlings` no longer (handler.go:421 against jobstate.go:48).
- An ingestion that reaches its deadline leaves the job `pending` with URLs enqueued
  (handler.go:284 against HOW-TO-USE.md:346).
- The burst of the limiter is two seconds or ten tokens (ratelimiter.go:69), the
  comment above it says one second; after a Cleanup, Acquire runs at the default
  speed (ratelimiter.go:59 against HOW-TO-USE.md:326).
- Each holder of a slot sleeps on its own (fetcher.go:171), so that ten requests of a
  domain may start together where ARCHITECTURE.md:223 has a minimum delay between
  requests; what holds is `SlotsPaceRequests`. extractDomain (fetcher.go:133) takes
  `http://a?q` for another domain than `http://a/` (the parsing of URLs is not
  modelled), and redirects leave the domain without asking (ARCHITECTURE.md:222).

### Bounds, and why they are enough

- `Workers`, `Urls`: two of one of them, or of both, except in `job_live`, where the
  abandoned task of one worker is the question and a second worker could only take
  it earlier, and in `queue_slow`, where two wait for the slot of a third. Every race
  in the list is between two parties; the theorems cover any number.
- `MaxRetries` 1: first attempt, a retry, exhaustion; 2 in `queue_timed`, where a
  second backoff is longer and capped.
- `MaxPending`: what is put back, or pushed again, is so only while `pending` is
  shorter; a URL handed over for the first time always fits. In the job and in
  real time it is at least one more than the URLs, so that a task and its copy fit. In
  `queue_core`, with two URLs, it is 1: a copy comes only to an empty `pending`, and
  meets the other copies in the other keys and in the workers' hands.
- `MaxDisturbances`, `MaxFaults` 1 or 2 where faults are on. A bound on how often a
  fault comes, not on when; the safety theorems are for any number.
- `BatchLimit` 1 in `queue_core`, where both URLs may be due at once in `retry`, or in
  `processing`, so that the scripts drop one of them; else more than can be due.
- `Times` of `CrawlJob`: 2 in `job_core`, where the second mention comes in the same
  batch, in a later one, or in a later one with a stop between; else 1. `Repeats`: that
  URL in `job_core`, the re-encoded one in `queue_core`; else none.
- `ResultCap`: one, or more than one. `CountCap`: where counters matter (`job_calm`) it
  is above anything that is reached; elsewhere it is 0 or 2, as no step of the code
  reads them.
- `Timeout`, `Period`, `RequestTime`, `Slots`, `Skew` of `queue_timed`: a timeout of four
  ticks, two requests one after the other fit in with room for the clocks; in
  `queue_slow` the line of two waits four ticks for its end, as 200 goroutines over 10
  slots wait ten minutes. `Width` 5 and `Cap` 3: the second backoff is cut by the cap;
  the overflow needs more attempts than `MaxRetries` allows, as in the code.
- `Times` of `RateLimiter` (`Instants`): steps below a token, of exactly one and beyond
  the burst, in both directions. `MaxGranted` 3: a few tokens in a row, with refills and
  stamps that go back between them; the theorems are for any number.
- `MaxConc` 1 slot and two domains for two goroutines: one waits, or both have a
  domain of their own; `Delay` 2 ticks, so that a request can be of the last tick, of
  the one before, or too old to count; `MaxHops` 1: a redirect occurs. The theorems
  cover any number of goroutines, slots, domains and redirects.
- `MaxRows` 3, `MaxLimit` 2, `BatchSize` 2: a row before, at and after the limit, of
  either width; duplicates within a batch and across two; a last batch that is full or
  not. `LineCap` counts lines modulo a small number; the counter is only logged.
- `MaxDocs` 4, `MaxChanges` 1, `Times` 1..3, `DefaultLimit` 1, `MaxLimit` 2: three
  documents in one listing, pages of one, of two, and of a limit the server refuses;
  an arrival, a departure or a change of status between any two commands. A PUT sets
  both fields of a site; `Whole` keeps the initial documents to one per value.

CHECK_DEADLOCK is FALSE for `queue_core`, the job, ingestion and catalog runs: with
bounded faults, requests and documents a finished job, ingestion or client has nothing
left to do. It is on in `queue_timed`, `process_core` and `rate_core`: time goes on.

## 5. Fairness

`FairJobSpec`: every goroutine keeps making calls (WF of the ingestion, of each
request, of each worker, of the recovery loop): goroutines are scheduled
preemptively and each call ends, with a timeout if need be. Strong fairness for
three outcomes time brings about: a worker that keeps asking is granted a token
(they accrue), a scan finds the entries nobody handles (they get older than five
minutes, `AbandonedFound`) and the retries (their backoff ends). No fairness of faults,
of requests coming, or of what a fetch returns. That the parsing ends is assumed here
by the fairness of `Parse`; `LeavesPending` and `BrokenSourcesEnd` say when it does.

`ProcessSpec`: WF of the clock, of each goroutine (`http.Client` has a timeout, so a
request ends), of the recovery goroutine and of main; SF of the send on a channel,
since Go serves blocked senders in order. No fairness of the signal.

`IngestSpec`: WF of the goroutine's own steps, none of its faults.

## 6. What is proved

Every invariant and action property of a passing run is stated by a theorem, and so
are the implementations, for every value of the constants under the ASSUMEs of the
modules (`QueueAssumption`, `PoolAssumption`, `JobAssumption`, `RateAssumption`,
`TimedAssumption`, `DomainAssumption`, `ParserAssumption`, `IngestionAssumption`,
`CatalogAssumption`). The inductive invariants were checked by TLC, on the instance of
the run, before they were proved. Where a theorem needs more than these assumptions
its hypotheses have names, which the tables below repeat:

| Hypothesis | Says | Is it so for this code? |
|---|---|---|
| `CleanUrls` | no URL is changed by encoding/json | for URLs of valid UTF-8 |
| `Patient` | `Slots * (Timeout - Skew - RequestTime) > RequestTime * (n - 1)` for n goroutines on one domain | with 10 slots, 5 minutes and 30 seconds up to n = 90; not with the default 200 (config.go:67), which `queue_slow` shows |
| `NoOverflow` | no backoff is more nanoseconds than an int64 holds | for `MaxRetries` up to 33; the default is 3 |
| `Steady` | no step of the behaviour is a `LosingStep`, and where GetStats is split nothing is put back before the job is completed | as long as nothing fails at the wrong moment |
| `Faultless` | `CleanUrls`, and an instance without faults and requests | an undisturbed job, whether or not its source repeats URLs |
| `Countable` | finitely many workers, and a bound of the counters above what is counted | always: the counters are ints |
| `~OverflowingStep` | no script finds more than `BatchLimit` entries due | for jobs with fewer retries than LIMIT at a time |

### The queue

- `QueueTypeCorrect`: `QueueSpec => []QueueTypeOK`. The invariant is inductive as
  it stands: that `pending`, `processing` and `retry` hold only tasks with at most
  MaxRetries attempts is what makes the dead list exactly the exhausted ones.
- `QueueInvariant`: `QueueSpec => [](QueueTypeOK /\ HeldOK)`. `HeldOK` (what is in
  hand was decoded once, and a `stored` task has a result) is needed for the next
  one: an Ack of a stored task forgets nothing since a result of the very URL is
  there.
- `QueueLosesOnlyByLosingStep`: by cases over the actions, a step that is none of
  `LosingStep` and no stop leaves every accounted URL accounted: where it takes an
  entry out of a key it puts one that decodes to the same URL into another, or
  there is a worker in the gap, or a result (`StaysAccounted`). A stop discards
  what was accepted, and a URL just enqueued is in `pending`.
- `QueueKeepsItsPromise`: `QueueSpec => KeepsItsPromise`, the refinement of the
  ledger. Each step is an enqueue, which maps to Accept, an insert of a result, which
  maps to Answer, or another, which maps to Forget of what is remembered no longer
  (`StepKinds`). The invariant it needs beyond `HeldOK` is `LedgerInvariant`: nothing
  is remembered or answered that was not enqueued (so that a `new` URL never becomes
  anything but by Accept), and an `unsaved` result means that something has failed
  (so that its Ack is excused). The sets of Redis are finite because each step adds at
  most one entry, which makes a `backlog` of more than `Limit` follow from a batch
  that is not all of what is due.
- `OnlyMultiplyingStepsMultiply` (`CleanUrls`): a behaviour without a
  `MultiplyingStep` has `NoDoubleProcessing` and `SingleCopy`. These steps are a push of
  the ingestion that is sent again or comes again after a stop, the requeue of a paused
  job, a ZREM of Retry that fails, an LPUSH or ZADD of it that is sent again, and a scan
  that finds a held task stale; crashes, dequeues without a reply, failed inserts, calls
  that are given up, retries and the other scans are none of them. The invariant
  `Once` says that a URL has one entry, in one of the keys, and one worker who works on
  it, and that if it has both, the entry is the very task, in `processing`, and the
  worker is not between the two commands of Retry. `CrashesNeverMultiply`: hence where
  only crashes (and a dying ingestion, and split pipelines) are allowed and no URL comes
  again.
- `CalmQueueHasOneOutcome` (`CleanUrls`, no pause and no `Repeats`): `OneOutcome`. Until the
  first fault `Once` holds, every entry of `processing` is some worker's task, and a URL
  with a result is nowhere else than with the worker who will Ack it (`Calm`).

### The queue in real time

- `TimedQueueIsQueue`: `TimedSpec => QueueSpec`, by one step per action;
  `TimedQueueKeepsItsPromise` follows, as does everything above.
- `AbandonedTasksAreFound`: `TimedSpec => []AbandonedFound`. The invariant is that an
  entry is at most `Timeout + Skew` old at the last scan, hence at most that and
  `since` now, while a scan is between its two halves too: what is older is in every
  set `Stale` allows, and the script removes all that is due, pushed or not.
- `PatientQueueNeverDoubles` (`CleanUrls`, `Patient`): no two workers handle one URL and
  no task has two copies, with crashes, failed fetches and scans at any time. A held
  task is never found stale, as its age is bounded by its worker's place:
  `TimedInvariant` has `Paced`, by which an entry ages in the line no more than all
  slots need to serve the goroutines that were before it. The hypothesis is sharp in
  the sense that run `queue_slow` violates the property without it.
- `TimedQueueHasOneOutcome` (`CleanUrls`); `TimedTypeCorrect` and
  `RetriesWaitTheirBackoff` (`NoOverflow`), from `WaitOK`: exactly the
  entries of `retry` have a time left to wait, and the backoff they were given is not
  less than the documented one, which is where an overflow would come in.

### The job

- `JobImplementsQueue`: `JobSpec => QueueSpec`, with one lemma per party: its steps
  are steps of `QueueNext` or leave the queue alone. `JobLosesOnlyByLosingStep` and
  `JobKeepsItsPromise` follow.
- `WorkersWaitForIngestion`: `JobSpec => []WorkAfterIngestion`. The invariant needed
  is `Quiet`: until the ingestion has ended the job is not active, every worker is
  at its poll and the state is not `completed`. Only `AddActive`, the last call,
  activates a job, and resume does not.
- `JobTypeCorrect`: `JobSpec => []JobTypeOK`, from `JobInvariant`, which adds to
  `JobTypeOK` what each program counter says of the task in hand (`PhaseAt`), of the
  state and of the batch.
- `CompletedJobsHaveTried` (`[][Steady]_queueVars`): `CompletedMeansTried`. The
  invariant `Measured` follows checkJobCompletion from call to call: until every URL
  owed is tried no worker is past its measure, and one that has seen `pending` empty
  and reads the other lengths apart finds the rest in `processing`.
  `FaultlessJobsHaveTried` (`Faultless`, no `OverflowingStep`) has no hypothesis on
  what is put back: before such a job is completed nothing is.
- `FaultlessJobsCountRight`, `FaultlessProgressIsBounded` (`Faultless`, `Countable`):
  `CrawledCountsResults` and `ProgressBounded`. They need that the dedup set lets a URL
  through once (`FreshOnce`), that a worker has its URL to itself (`CalmJob`), and a sum:
  what is counted, what workers are about to count and the attempts that all open URLs
  have left are together at most `(MaxRetries + 1) * total`.

### Limits, processes, ingestion, catalog

- `MillisecondsPaidOnce`, `WindowNeverExceeded`, `BucketKeepsBounds`: from the invariant
  `Books`, which has the equation of `PaidOnce`, the bound of the window with the tokens
  left, the cap, and how far below zero the tokens may be: when a stamp goes back the
  script takes the time between back too, so that they are negative by the rate times what
  the stamp lies behind the latest one, and no more. The equation alone is not enough for
  the window: one needs that the bucket never held more than the burst when the window was
  opened.
- `LimiterTypes`, `SlotsAreHolders`, `RequestsPaced`, `ClosedIsIdle`, `LeavesOneTaskEach`,
  from `ProcessInvariant`. A channel has one domain, whoever made it, and as many elements
  as goroutines hold a slot of it. For the pace one counts, for every domain and every age
  below the delay, the holders that have slept for longer than that, who may ask at any
  time now, and the goroutines that have asked within it: together at most `MaxConc`,
  since the others got their slots later and sleep. At the end, goroutines that still have
  a task when calls begin to fail and those that had one are together no more than all.
- `ParserReturnsFirst`, `UrlsEnqueuedOnce`, `IngestionQueuesAll`, `FaultsCostABatch`,
  `IngestionTypes`, from `IngestionInvariant`: the parser has collected exactly the
  valid rows up to its position; whatever was pushed or is in the batch was marked as
  seen, so it is there once, unless a pipeline was sent again or a stop has cleaned the
  marks; the pages looked at that
  are not in the queue are at most a batch for each fault, and without a fault none,
  in the order of the file. A malformed row, a limit and a batch that ends early need
  no case of their own.
- `CrawlingsUseOneVersion`: with the invariant that every site in the collection is
  published as it is. `CatalogTypes`.
- `WalksAreComplete`, `WalksNeverRepeat`, from `CatalogWalks`. The rank of a document
  is the number of newer ones in its listing. Where no stamps are equal, every sort puts
  a document at its rank (`PositionIsRank`), so a page holds the ranks from the skip on
  (`PageHoldsItsRanks`), and what joins a listing only raises ranks (`RankGrows`). Hence
  of the first documents those ranked before the skip have been seen, and at the end,
  when the skip has reached the size of the listing, all have.

### What is only model-checked

- Liveness: `SlotsComeFree`, `StopReturns`, `EventuallyFinishes`, `Drains`,
  `InactiveWorkersIdle`, `PausedWorkersIdle`, `StoppedWorkersIdle`, `LeavesPending`.
  Fairness and ENABLED are out of the prover's reach.
- The three statements that the code violates: their runs are the counterexamples.

No definition recurses over a sequence, so that induction over data is nowhere needed:
the properties of the parser and the ingestion say by order and membership what a
selection from the file would compute.

## 7. Plan

Done: every component of section 1 that has behaviour of its own, the three chains of
implementation, and the theorems above. What is left, in this order:

1. Hypotheses to weaken: `CompletedMeansTried` of a job with a pause and a resume but
   no fault, without `Steady`; `PatientQueueNeverDoubles` with its hypothesis for each
   domain; `CleanUrls` for the URLs that are never recovered.
2. The state, status and active set after a half stop, a crash in the middle of the
   completion, or a pause over a completion and a resume (two requests, which need a
   smaller liveness instance): what of their agreement can be stated at all.
3. Two jobs and two recovery loops over one pool of workers: that the round robin of
   workerLoop starves no job.

The list of runs stays one that can be read: new properties go into the runs above
where their instance shows them.

## 8. What is not modelled, and why

- The loop over several active jobs: the jobs share no key but `active:crawlings`,
  each of whose members is added and removed on its own. The workers' time is shared,
  which the fairness assumptions cover.
- Several recovery loops: one is modelled; the scripts are atomic, so two add no
  interleaving inside a script, only scans at more moments.
- A crash takes one worker goroutine, not all of its process: the others' crashes
  are further disturbances.
- A ZREM, SET, SADD, SREM or DEL that the client library sends again with another party's
  command in between: the model has the first effect or the second, not both.
- Two requests that race with each other: the runs have one at a time, the safety
  theorems any number.
- Floating point in the Lua script; the size of 1000 of a batch.
- In `TimedQueue` one domain, and the 100 ms delay as a part of a request; failing calls
  and pauses are in `CrawlQueue` and `CrawlJob` only.
- The parsing of URLs: extractDomain (fetcher.go:133) takes `http://a?q` for another
  domain than `http://a/`. The transport's MaxConnsPerHost of 50, which limits
  redirects too.
- Filters and identifiers that do not parse (handler.go:514 ignores such a `site_id` and
  lists everything); a start without the unique index, whose failure is a warning
  (mongodb.go:44); request bodies and their validation.
- Middleware, configuration, metrics, the connections and routes that the mains set up:
  no state the job depends on.
- Code without a caller: DequeueBatch, IsSeen, MarkSeenBatch, Count, UpdateSpeed,
  DeleteState, the bulk operations of the repository, and the webhook sender with its
  retries: nothing in the repository says which events it is to send when. So is
  InsertCrawlFailure, so that `GET /crawlings/:id/failures` (handler.go:555) always
  answers an empty list, where HOW-TO-USE.md:446 documents entries.
- Redis losing its last second after a restart, and evicting keys at its memory
  limit (docker-compose.yml:75): an eviction would delete any one key at any time, and
  no property of the queue survives it.
