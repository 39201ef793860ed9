---------------------------- MODULE RateLimiter ----------------------------
(***************************************************************************)
(* The distributed token bucket of one crawling job                        *)
(* (internal/ratelimiter/ratelimiter.go): three Redis keys, set up by the  *)
(* ingestion, deleted by a stop, and read and written by the Lua script    *)
(* every worker of every replica runs before it dequeues.                  *)
(*                                                                         *)
(* A timestamp is taken on the caller's host before the call is sent, so   *)
(* the script may see timestamps in any order: `now` is any of Times.      *)
(***************************************************************************)
EXTENDS Integers

CONSTANTS
  Speed,       \* crawling.Speed, in URLs per hour
  Count,       \* tokens asked for by one Acquire (the workers ask for 1)
  Times,       \* the milliseconds a host's clock may show
  MaxGranted,  \* bound: tokens granted while the keys live
  Gone         \* the value of a key that does not exist

ASSUME RateAssumption ==
  /\ Speed \in Nat
  /\ Count \in Nat \ {0}
  /\ Times \subseteq Int
  /\ MaxGranted \in Nat
  /\ Gone \notin Int

VARIABLES
  speed,    \* crawl:{id}:speed
  tokens,   \* crawl:{id}:tokens, in units of a token (Unit of them each)
  refill,   \* crawl:{id}:tokens:refill
  setup,    \* the next command of Init's pipeline
  start,    \* history: the first value of refill
  latest,   \* history: the highest one since then
  granted,  \* history: tokens granted since then
  spilled,  \* history: units cut off by the cap since then
  window    \* history: an observer's window, since it was opened

keys == <<speed, tokens, refill>>
ledger == <<start, latest, granted, spilled>>
rateVars == <<keys, setup, ledger, window>>

SecondsPerHour == 3600

(* Units in one token: elapsed milliseconds times URLs per hour are units, *)
(* without fractions (the script's numbers are doubles).                   *)
Unit == SecondsPerHour * 1000

DefaultSpeed == SecondsPerHour

Get(key, default) == IF key = Gone THEN default ELSE key

Rate == Get(speed, DefaultSpeed)

(* max(ceil(speed / 3600) * 2, 10) tokens.                                 *)
Burst == LET seconds == (Rate + SecondsPerHour - 1) \div SecondsPerHour
         IN  IF seconds * 2 > 10 THEN seconds * 2 ELSE 10

(* A window knows the stamp and the count it was opened with, and the      *)
(* latest stamp since.                                                     *)
Opened(stamp, count) == [from |-> stamp, granted |-> count, last |-> stamp]

RateInit ==
  /\ speed = Gone /\ tokens = Gone /\ refill = Gone
  /\ setup = "speed"
  /\ start = 0 /\ latest = 0 /\ granted = 0 /\ spilled = 0
  /\ window = Opened(0, 0)

-----------------------------------------------------------------------------
(* Init: a pipeline of three SETs.  Other clients' commands may run        *)
(* between two of them.                                                    *)
SetSpeed ==
  /\ setup = "speed"
  /\ speed' = Speed
  /\ setup' = "tokens"
  /\ UNCHANGED <<tokens, refill, ledger, window>>

SetTokens ==
  /\ setup = "tokens"
  /\ tokens' = 0
  /\ setup' = "refill"
  /\ UNCHANGED <<speed, refill, ledger, window>>

SetRefill(now) ==
  /\ setup = "refill"
  /\ refill' = now
  /\ setup' = "done"
  /\ start' = now /\ latest' = now
  /\ window' = Opened(now, 0)
  /\ UNCHANGED <<speed, tokens, granted, spilled>>

(* A command of the pipeline fails: the ingestion gives the job up.        *)
InitFails ==
  /\ setup \in {"speed", "tokens", "refill"}
  /\ setup' = "failed"
  /\ UNCHANGED <<keys, ledger, window>>

(* Mutant: the time since the first refill is counted again.               *)
ElapsedSinceStart(now) == IF refill = Gone THEN 0 ELSE now - start

Elapsed(now) == IF refill = Gone THEN 0 ELSE now - refill

(* Mutant: no cap.                                                         *)
Uncapped(amount) == amount

Capped(amount) == IF amount > Burst * Unit THEN Burst * Unit ELSE amount

(* The tokens granted out of `amount`: all that are asked for, or the      *)
(* whole ones there are.                                                   *)
Grant(amount) ==
  IF amount >= Count * Unit THEN Count
  ELSE IF amount >= Unit THEN amount \div Unit
  ELSE 0

(* Mutant: what is left is rounded down to whole tokens.                   *)
LeftWhole(amount) == ((amount - Grant(amount) * Unit) \div Unit) * Unit

Left(amount) == amount - Grant(amount) * Unit

(* The Lua script.                                                         *)
Acquire(now) ==
  LET filled == Get(tokens, 0) + Elapsed(now) * Rate
      amount == Capped(filled)
      first  == refill = Gone
  IN  /\ setup = "done"
      /\ granted + Grant(amount) <= MaxGranted
      /\ tokens' = Left(amount)
      /\ refill' = now
      /\ granted' = granted + Grant(amount)
      /\ spilled' = spilled + (filled - amount)
      /\ start' = IF first THEN now ELSE start
      /\ latest' = IF first \/ now > latest THEN now ELSE latest
      /\ window' = IF first THEN Opened(now, 0)
                   ELSE [window EXCEPT !.last = IF now > @ THEN now ELSE @]
      /\ UNCHANGED <<speed, setup>>

(* One DEL of the three keys, whatever the job is doing.                   *)
Cleanup ==
  /\ speed' = Gone /\ tokens' = Gone /\ refill' = Gone
  /\ start' = 0 /\ latest' = 0 /\ granted' = 0 /\ spilled' = 0
  /\ window' = Opened(0, 0)
  /\ UNCHANGED setup

(* History only: the observer opens a new window.                          *)
Observe ==
  /\ refill # Gone
  /\ window' = Opened(refill, granted)
  /\ UNCHANGED <<keys, setup, ledger>>

RateNext ==
  \/ SetSpeed
  \/ SetTokens
  \/ \E now \in Times : SetRefill(now) \/ Acquire(now)
  \/ InitFails
  \/ Cleanup
  \/ Observe

RateSpec == RateInit /\ [][RateNext]_rateVars
-----------------------------------------------------------------------------
(* Properties.                                                             *)

(* Type invariant: the bucket never holds more than the burst, it owes no  *)
(* more than the time its stamp lies behind the latest one (a stamp that   *)
(* goes back makes it negative), and nothing is granted before Init has    *)
(* set the refill stamp.                                                   *)
RateTypeOK ==
  /\ speed \in {Gone, Speed}
  /\ tokens \in Int \union {Gone}
  /\ refill \in Int \union {Gone}
  /\ Get(tokens, 0) <= Burst * Unit
  /\ setup \in {"speed", "tokens", "refill", "done", "failed"}
  /\ start \in Int /\ latest \in Int
  /\ granted \in 0..MaxGranted
  /\ spilled \in Nat
  /\ window \in [from : Int, granted : 0..granted, last : Int]
  /\ refill = Gone \/ setup # "done" => granted = 0 /\ spilled = 0 /\ Get(tokens, 0) = 0
  /\ setup # "done" => refill = Gone
  /\ refill # Gone => refill <= window.last /\ window.from <= window.last
  /\ refill # Gone => refill <= latest /\ Rate * (refill - latest) <= Get(tokens, 0)

(* However many workers poll, and in whatever order their timestamps come   *)
(* in, a millisecond is paid for once and none is lost: what was granted,   *)
(* what is in the bucket and what the cap cut off are the time from the     *)
(* first to the last stamp at the job's rate (ratelimiter.go:63-86).        *)
PaidOnce ==
  refill # Gone => granted * Unit + Get(tokens, 0) + spilled = Rate * (refill - start)

(* In any window all workers together are granted no more than the burst    *)
(* and the rate allow by the fastest of their clocks; what was granted and  *)
(* what is left keep to the clock of the last call (ARCHITECTURE.md:160     *)
(* "Rate limits are global across all worker containers").                  *)
WindowBound ==
  refill # Gone =>
    /\ (granted - window.granted) * Unit
         <= Burst * Unit + Rate * (window.last - window.from)
    /\ (granted - window.granted) * Unit + Get(tokens, 0)
         <= Burst * Unit + Rate * (refill - window.from)
=============================================================================
