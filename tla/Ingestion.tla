----------------------------- MODULE Ingestion -----------------------------
(***************************************************************************)
(* The ingestion goroutine of one crawling (ingestURLs of                  *)
(* internal/api/handler.go) over the parser of module SourceParser: from   *)
(* the rows of the source to the tasks in the pending list, batch by       *)
(* batch.  Module CrawlJob runs the same calls against workers and         *)
(* requests, with a source that is a set of lines; here the source is a    *)
(* file with repeated URLs, batches are counted, and the order of tasks is *)
(* kept.  Of a stop that comes meanwhile, the calls that delete what the   *)
(* ingestion writes to Redis are here, and the others in CrawlJob.         *)
(***************************************************************************)
EXTENDS SourceParser, FiniteSets, Functions

CONSTANTS
  BatchSize,  \* batchSize (1000 in the code)
  MaxFaults   \* bound: how many calls fail

ASSUME IngestionAssumption == BatchSize \in Nat \ {0} /\ MaxFaults \in Nat

VARIABLES
  step,     \* what the goroutine does next
  at,       \* how many of the parsed URLs it has looked at
  tasks,    \* the tasks of the current batch
  seen,     \* crawl:{id}:seen
  pending,  \* crawl:{id}:pending, in the order of the pushes
  total,    \* total_urls of the document
  status,   \* status of the document
  active,   \* the crawling is in active:crawlings
  expired,  \* the ten minutes of the context are over
  stop,     \* how far a stop has come: "none", "deleted" or "cleaned"
  resent,   \* history: a pipeline was sent again after its reply was lost
  faults    \* how many calls failed

progressVars == <<at, tasks, seen, pending>>
jobVars == <<total, status, active>>
ingestVars == <<step, progressVars, jobVars, expired, stop, resent, faults>>

IngestInit ==
  /\ ParserInit
  /\ step = "parse"
  /\ at = 0
  /\ tasks = <<>>
  /\ seen = {}
  /\ pending = <<>>
  /\ total = 0
  /\ status = "pending"
  /\ active = FALSE
  /\ expired = FALSE
  /\ stop = "none"
  /\ resent = FALSE
  /\ faults = 0

(* ParseURLs' answer: duplicates are still in it.                          *)
Listed == [i \in DOMAIN urls |-> file[urls[i]].kind]

Goes(from, to) ==
  /\ step = from
  /\ step' = to
  /\ UNCHANGED <<parserVars, expired, stop>>

Calls(from, to) == Goes(from, to) /\ UNCHANGED <<resent, faults>>

Fault == faults < MaxFaults /\ faults' = faults + 1

-----------------------------------------------------------------------------
Parse ==
  /\ step = "parse"
  /\ ParserNext
  /\ UNCHANGED ingestVars

(* No URL: SetCrawlingError, and no more.                                  *)
NoUrls ==
  /\ outcome = "returned" /\ ~expired /\ urls = <<>>
  /\ Calls("parse", "ended")
  /\ status' = "failed"
  /\ UNCHANGED <<progressVars, total, active>>

SetTotal ==
  /\ outcome = "returned" /\ ~expired /\ urls # <<>>
  /\ Calls("parse", "limiter")
  /\ total' = Len(urls)
  /\ UNCHANGED <<progressVars, status, active>>

InitLimiter ==
  /\ Calls("limiter", "mark")
  /\ UNCHANGED <<progressVars, jobVars>>

LimiterFails ==
  /\ Goes("limiter", "ended")
  /\ Fault
  /\ status' = "failed"
  /\ UNCHANGED <<progressVars, total, active, resent>>

(* The batch ends at a multiple of BatchSize, and with the list.           *)
AfterMark(n) == IF n % BatchSize = 0 \/ n = Len(urls) THEN "push" ELSE "mark"

(* Mutant: SISMEMBER in place of SADD.                                     *)
MarkForgets ==
  /\ Calls("mark", AfterMark(at + 1))
  /\ at' = at + 1
  /\ tasks' = IF Listed[at'] \in seen THEN tasks ELSE Append(tasks, Listed[at'])
  /\ UNCHANGED <<seen, pending, jobVars>>

MarkSeen ==
  /\ Calls("mark", AfterMark(at + 1))
  /\ at' = at + 1
  /\ seen' = seen \union {Listed[at']}
  /\ tasks' = IF Listed[at'] \in seen THEN tasks ELSE Append(tasks, Listed[at'])
  /\ UNCHANGED <<pending, jobVars>>

(* The call fails, with or without effect, and the URL is skipped.  So it  *)
(* is when the reply is lost and the client sends SADD again: the second   *)
(* one answers 0, which reads as a duplicate.                              *)
MarkFails ==
  /\ Goes("mark", AfterMark(at + 1))
  /\ Fault
  /\ at' = at + 1
  /\ seen' \in {seen, seen \union {Listed[at']}}
  /\ UNCHANGED <<tasks, pending, jobVars, resent>>

(* Mutant: a last batch that is not full is forgotten.                     *)
AfterPushWhole == IF at + BatchSize <= Len(urls) THEN "mark" ELSE "setStatus"

(* The next batch starts with an empty list of tasks.                      *)
AfterPush == IF at < Len(urls) THEN "mark" ELSE "setStatus"

(* Mutant: the list of tasks is declared outside the loop.                 *)
PushKeepsTasks ==
  /\ Calls("push", AfterPush)
  /\ pending' = pending \o tasks
  /\ UNCHANGED <<at, tasks, seen, jobVars>>

(* EnqueueBatch, one pipeline.  No worker looks at the list yet.           *)
Push ==
  /\ Calls("push", AfterPush)
  /\ pending' = pending \o tasks
  /\ tasks' = <<>>
  /\ UNCHANGED <<at, seen, jobVars>>

(* Mutant: the goroutine gives up.                                         *)
PushFailsStops ==
  /\ tasks # <<>>
  /\ Goes("push", "setStatus")
  /\ Fault
  /\ at' = Len(urls)
  /\ tasks' = <<>>
  /\ UNCHANGED <<seen, pending, jobVars, resent>>

(* The pipeline breaks: some of its first commands have run, the rest of   *)
(* the batch is dropped and stays marked as seen.                          *)
PushFails ==
  /\ tasks # <<>>
  /\ Goes("push", AfterPush)
  /\ Fault
  /\ \E pushed \in Prefixes(tasks) : pending' = pending \o pushed
  /\ tasks' = <<>>
  /\ UNCHANGED <<at, seen, jobVars, resent>>

(* It breaks, and go-redis sends all of it again (Options.MaxRetries is    *)
(* left at its default): what had run, runs twice.                         *)
PushResent ==
  /\ tasks # <<>>
  /\ Goes("push", AfterPush)
  /\ Fault
  /\ \E pushed \in Prefixes(tasks) : pending' = pending \o pushed \o tasks
  /\ tasks' = <<>>
  /\ resent' = TRUE
  /\ UNCHANGED <<at, seen, jobVars>>

(* UpdateCrawlingStatus, SetState (whose key only workers read) and        *)
(* AddActiveCrawling.                                                      *)
Activate ==
  \/ /\ Calls("setStatus", "addActive")
     /\ status' = "running"
     /\ UNCHANGED <<progressVars, total, active>>
  \/ /\ Calls("addActive", "ended")
     /\ active' = TRUE
     /\ UNCHANGED <<progressVars, total, status>>

(* Errors of the other calls are dropped.                                  *)
CallFails ==
  /\ \/ outcome = "returned" /\ ~expired /\ urls # <<>> /\ Goes("parse", "limiter")
     \/ Goes("setStatus", "addActive")
     \/ Goes("addActive", "ended")
  /\ Fault
  /\ UNCHANGED <<progressVars, jobVars, resent>>

(* The context ends.  While the source is read its connection breaks; all  *)
(* later calls fail, the one that would mark the crawling as failed too.   *)
Deadline ==
  /\ Fault
  /\ IF step = "parse" /\ outcome = "reading"
     THEN /\ ~expired
          /\ expired' = TRUE
          /\ file' = SubSeq(file, 1, pos)
          /\ ending' = "broken"
          /\ UNCHANGED <<format, limit, pos, columns, lineNum, urls, outcome, step>>
     ELSE /\ step # "ended"
          /\ step' = "ended"
          /\ expired' = TRUE
          /\ UNCHANGED parserVars
  /\ UNCHANGED <<progressVars, jobVars, stop, resent>>

(* What a late parser returns is not used: SetCrawlingTotalURLs and the    *)
(* limiter's Init fail.                                                    *)
TooLate ==
  /\ expired /\ outcome = "returned"
  /\ Calls("parse", "ended")
  /\ UNCHANGED <<progressVars, jobVars>>

(* The API process ends (main.go waits for requests, not for goroutines).  *)
ProcessEnds ==
  /\ step # "ended"
  /\ Fault
  /\ step' = "ended"
  /\ UNCHANGED <<parserVars, progressVars, jobVars, expired, stop, resent>>

(* The loop over the URLs: before it both keys are empty, and after it the *)
(* ingestion writes to neither, so a stop's calls matter only in it.       *)
InLoop == step \in {"mark", "push"}

(* A stop: DeleteQueue ...                                                 *)
StopDeletes ==
  /\ InLoop
  /\ stop = "none"
  /\ stop' = "deleted"
  /\ pending' = <<>>
  /\ UNCHANGED <<parserVars, step, at, tasks, seen, jobVars, expired, resent, faults>>

(* ... and Cleanup of the dedup set.                                       *)
StopCleans ==
  /\ InLoop
  /\ stop = "deleted"
  /\ stop' = "cleaned"
  /\ seen' = {}
  /\ UNCHANGED <<parserVars, step, at, tasks, pending, jobVars, expired, resent, faults>>

IngestStep ==
  \/ Parse
  \/ NoUrls
  \/ SetTotal
  \/ InitLimiter
  \/ MarkSeen
  \/ Push
  \/ Activate
  \/ TooLate

IngestFault ==
  \/ LimiterFails
  \/ MarkFails
  \/ PushFails
  \/ PushResent
  \/ CallFails
  \/ Deadline
  \/ ProcessEnds

IngestSpec ==
  /\ IngestInit
  /\ [][IngestStep \/ IngestFault \/ StopDeletes \/ StopCleans]_<<parserVars, ingestVars>>
  /\ WF_<<parserVars, ingestVars>>(IngestStep)
-----------------------------------------------------------------------------
(* Properties.                                                             *)

(* Type invariant: the goroutine's place in the list agrees with its step,  *)
(* and what it holds or has pushed is marked as seen, until a stop cleans.  *)
IngestTypeOK ==
  /\ step \in {"parse", "limiter", "mark", "push", "setStatus", "addActive", "ended"}
  /\ at \in 0..Len(urls)
  /\ step = "mark" => at < Len(urls)
  /\ step \in {"setStatus", "addActive"} => at = Len(urls) /\ tasks = <<>>
  /\ seen \subseteq Pages
  /\ stop \in {"none", "deleted", "cleaned"}
  /\ stop # "cleaned" => Range(tasks) \union Range(pending) \subseteq seen
  /\ total \in {0, Len(urls)}
  /\ status \in {"pending", "running", "failed"}
  /\ faults \in 0..MaxFaults

(* ARCHITECTURE.md:139: a URL enters the queue once, however often it is    *)
(* in the source, wherever the batches are cut and whichever calls fail;    *)
(* unless the client library has sent a pipeline again, or a stop during    *)
(* the ingestion has emptied the seen set, after which URLs that come again *)
(* in the source are enqueued again (handler.go:322-363, 450).              *)
EnqueuedOnce == ~resent /\ stop # "cleaned" => IsInjective(pending \o tasks)

(* The list has u at a place before its first v.                            *)
Before(u, v) == \E i \in DOMAIN Listed : Listed[i] = u /\ \A k \in 1..i : Listed[k] # v

(* A job that is activated without a fault or a stop has all that the       *)
(* parser returned queued: every page of it, in the order of the first      *)
(* places, and total_urls counts its rows (duplicates too, so that the      *)
(* progress of such a job ends below 100 percent).                          *)
WholeSourceQueued ==
  faults = 0 /\ active /\ stop = "none" =>
    /\ Range(pending) = Range(Listed)
    /\ \A i, j \in DOMAIN pending : i < j => Before(pending[i], pending[j])
    /\ total = Len(Listed)

(* A failed call costs a job at most the batch it belongs to                *)
(* (handler.go:332-360, both `continue`): the others are still queued.      *)
FaultsCostTheirBatch ==
  active /\ stop = "none" =>
    Cardinality(Range(Listed) \ Range(pending)) <= faults * BatchSize

(* HOW-TO-USE.md:600: while no call fails, a crawling does not stay         *)
(* pending: it starts running with its URLs, or fails; unless its CSV       *)
(* source breaks, which is read for ever.                                   *)
LeavesPending ==
  (ending = "eof" \/ format = "xml") ~> (faults > 0 \/ active \/ status = "failed")
=============================================================================
