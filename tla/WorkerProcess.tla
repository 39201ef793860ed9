--------------------------- MODULE WorkerProcess ---------------------------
(***************************************************************************)
(* One worker process from its start to its graceful end                   *)
(* (internal/worker/pool.go, cmd/worker/main.go): goroutines that take     *)
(* tasks and fetch them through the limiter of module DomainLimiter, the   *)
(* recovery goroutine, and main, which on a signal cancels their context,  *)
(* waits for them and closes the fetcher.                                  *)
(*                                                                         *)
(* Once the context is cancelled every call that is not under way yet      *)
(* fails at once; the limiter knows nothing of it, neither its send nor    *)
(* its sleep.                                                              *)
(***************************************************************************)
EXTENDS DomainLimiter

VARIABLES
  main,      \* running, waiting (in Pool.Stop) or closed
  loop,      \* loop[g]: how far goroutine g has come with a task
  recovery,  \* whether the recovery goroutine runs
  left       \* tasks the process gives up: in processing, or lost

processVars == <<domainVars, main, loop, recovery, left>>

(* loop[g] is top: without a task; held: has one; fetch: in Fetch; settle: *)
(* before Retry or the result; gap: between Retry's commands; done:        *)
(* returned.                                                               *)
Cancelled == main # "running"

ProcessInit ==
  /\ DomainInit
  /\ main = "running"
  /\ loop = [g \in Goroutines |-> "top"]
  /\ recovery = TRUE
  /\ left = 0

Moves(g, from, to) == loop[g] = from /\ loop' = [loop EXCEPT ![g] = to]

-----------------------------------------------------------------------------
(* At the head of its loop, and between two jobs: return if the context is *)
(* done; else some of the calls for a task find nothing, which changes     *)
(* nothing here, ...                                                       *)
Quits(g) ==
  /\ Cancelled
  /\ Moves(g, "top", "done")
  /\ UNCHANGED <<domainVars, main, recovery, left>>

(* Mutant: calls that do not heed the context, and no look at it.          *)
TakesTaskAlways(g) ==
  /\ Moves(g, "top", "held")
  /\ UNCHANGED <<domainVars, main, recovery, left>>

(* ... or the last of them, Dequeue, returns a task.                       *)
TakesTask(g) ==
  /\ ~Cancelled
  /\ Moves(g, "top", "held")
  /\ UNCHANGED <<domainVars, main, recovery, left>>

(* processTask reads the state of the job: it does not run, and the task   *)
(* goes back to pending; once cancelled both calls fail.                   *)
GivesBack(g) ==
  /\ Moves(g, "held", "top")
  /\ left' = IF Cancelled THEN left + 1 ELSE left
  /\ UNCHANGED <<domainVars, main, recovery>>

(* It runs: Fetch.                                                         *)
BeginsFetch(g, d) ==
  /\ Moves(g, "held", "fetch")
  /\ Lookup(g, d)
  /\ UNCHANGED <<main, recovery, left>>

(* A step of Fetch while the context lasts, and what goes on without it:   *)
(* the limiter, and the end of a request that is under way.                *)
Fetches(g) ==
  /\ \/ Send(g) \/ BadUrl(g) \/ Respond(g)
     \/ ~Cancelled /\ (Request(g) \/ Redirect(g))
  /\ UNCHANGED <<main, loop, recovery, left>>

(* client.Do returns the error of the context.                             *)
Refused(g) ==
  /\ Cancelled
  /\ Goes(g, "sleep", "release")
  /\ asleep[g] = 0
  /\ UNCHANGED <<channels, fetches, chan, asleep, recent, main, loop, recovery, left>>

(* The deferred Release, then Fetch returns.                               *)
Releases(g) ==
  /\ Find(g) \/ Receive(g)
  /\ loop' = [loop EXCEPT ![g] = IF pc'[g] = "idle" THEN "settle" ELSE @]
  /\ UNCHANGED <<main, recovery, left>>

(* Insert and Ack, or the first command of Retry; once cancelled these     *)
(* fail, and the task stays in processing.                                 *)
Settles(g) ==
  /\ \/ Moves(g, "settle", "top") /\ left' = (IF Cancelled THEN left + 1 ELSE left)
     \/ ~Cancelled /\ Moves(g, "settle", "gap") /\ UNCHANGED left
  /\ UNCHANGED <<domainVars, main, recovery>>

(* The second command of Retry, which fails when the context was cancelled *)
(* after the first.                                                        *)
AddsRetry(g) ==
  /\ Moves(g, "gap", "top")
  /\ left' = IF Cancelled THEN left + 1 ELSE left
  /\ UNCHANGED <<domainVars, main, recovery>>

(* Mutant: the recovery goroutine waits for its ticker only.               *)
RecoveryTicks == recovery /\ UNCHANGED processVars

(* recoveryLoop returns.                                                   *)
RecoveryReturns ==
  /\ Cancelled
  /\ recovery /\ recovery' = FALSE
  /\ UNCHANGED <<domainVars, main, loop, left>>

(* SIGTERM: main cancels the context and waits for the goroutines.         *)
Signal ==
  /\ main = "running" /\ main' = "waiting"
  /\ UNCHANGED <<domainVars, loop, recovery, left>>

(* Mutant: only the recovery goroutine is waited for.                      *)
WaitsForNone == ~recovery

(* wg.Wait: every goroutine that was added is done.                        *)
AllDone == ~recovery /\ \A g \in Goroutines : loop[g] = "done"

(* fetcher.Close, and the process exits.                                   *)
Closes ==
  /\ main = "waiting" /\ AllDone
  /\ main' = "closed"
  /\ UNCHANGED <<domainVars, loop, recovery, left>>

Time == Tick /\ UNCHANGED <<main, loop, recovery, left>>

GoroutineNext(g) ==
  \/ Quits(g)
  \/ TakesTask(g)
  \/ GivesBack(g)
  \/ \E d \in Domains : BeginsFetch(g, d)
  \/ Fetches(g)
  \/ Refused(g)
  \/ Releases(g)
  \/ Settles(g)
  \/ AddsRetry(g)

ProcessNext ==
  \/ \E g \in Goroutines : GoroutineNext(g)
  \/ RecoveryReturns
  \/ Signal
  \/ Closes
  \/ Time

(* Goroutines run, requests end by the client's timeout, and a channel     *)
(* serves its blocked senders in turn (SF).                                *)
ProcessSpec ==
  /\ ProcessInit /\ [][ProcessNext]_processVars
  /\ WF_processVars(Time) /\ WF_processVars(RecoveryReturns) /\ WF_processVars(Closes)
  /\ \A g \in Goroutines :
       /\ WF_processVars(GoroutineNext(g))
       /\ SF_processVars(Send(g) /\ Fetches(g))
-----------------------------------------------------------------------------
(* Properties.                                                             *)

(* Pool.Stop returns, although the waiters of the limiter do not see the   *)
(* cancellation: each of them still gets its slot, sleeps and gives it up  *)
(* (pool.go:86-93, fetcher.go:160-184).                                    *)
StopReturns == (main = "waiting") ~> (main = "closed")

(* Close comes after the last request: no goroutine is inside Fetch then,   *)
(* and every slot is free (pool.go:91-92).                                  *)
ClosedMeansIdle ==
  main = "closed" =>
    /\ \A g \in Goroutines : pc[g] = "idle"
    /\ \A c \in DOMAIN filled : filled[c] = 0

(* ARCHITECTURE.md:372 has it that tasks in flight are requeued.  They are  *)
(* not: each goroutine leaves its last task, and no more than that, to the  *)
(* stale scan of another process or to nobody (pool.go:110-198).            *)
OneTaskEach == left <= Cardinality(Goroutines)
=============================================================================
