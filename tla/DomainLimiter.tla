--------------------------- MODULE DomainLimiter ---------------------------
(***************************************************************************)
(* Fetch and the per-domain limiter of one worker process, as actions for  *)
(* module WorkerProcess to compose                                         *)
(* (internal/crawler/fetcher.go): a mutex-guarded map from domain to a     *)
(* buffered channel; a goroutine sends to the channel, sleeps, makes its   *)
(* request and receives from the channel.                                  *)
(*                                                                         *)
(* A Lock ... Unlock section is one step, a channel operation another.     *)
(* Time passes in ticks; only the delay after Acquire is measured.         *)
(***************************************************************************)
EXTENDS Integers, Sequences, FiniteSets

CONSTANTS
  Goroutines,  \* the worker goroutines of the process
  Domains,     \* what extractDomain returns for the URLs of tasks
  MaxConc,     \* slots of a domain (10 in the code)
  Delay,       \* ticks a goroutine sleeps with its slot (100 ms in the code)
  MaxHops,     \* redirects followed (5 in the code)
  NoChannel,   \* the domain has no channel yet
  NoDomain     \* the goroutine is not in Fetch

ASSUME DomainAssumption ==
  /\ MaxConc \in Nat \ {0}
  /\ Delay \in Nat \ {0}
  /\ MaxHops \in Nat
  /\ NoChannel \notin Nat
  /\ NoDomain \notin Domains
  /\ IsFiniteSet(Goroutines)

VARIABLES
  limiters,  \* the map: limiters[d] is a channel, or NoChannel
  filled,    \* filled[c]: elements in the buffer of the c-th channel made
  pc,        \* pc[g]: what goroutine g does next
  domain,    \* domain[g]: the domain of the URL it fetches
  hops,      \* hops[g]: redirects followed
  chan,      \* chan[g]: the channel it took from the map
  asleep,    \* asleep[g]: ticks of its delay left
  recent     \* history: the requests started in the last Delay ticks

channels == <<limiters, filled>>
fetches == <<domain, hops>>
domainVars == <<channels, pc, fetches, chan, asleep, recent>>

DomainInit ==
  /\ limiters = [d \in Domains |-> NoChannel]
  /\ filled = <<>>
  /\ pc = [g \in Goroutines |-> "idle"]
  /\ domain = [g \in Goroutines |-> NoDomain]
  /\ hops = [g \in Goroutines |-> 0]
  /\ chan = [g \in Goroutines |-> NoChannel]
  /\ asleep = [g \in Goroutines |-> 0]
  /\ recent = {}

Goes(g, from, to) == pc[g] = from /\ pc' = [pc EXCEPT ![g] = to]

(* Fetch returns.                                                          *)
Returns(g) ==
  /\ domain' = [domain EXCEPT ![g] = NoDomain]
  /\ chan' = [chan EXCEPT ![g] = NoChannel]

-----------------------------------------------------------------------------
(* Mutant: another goroutine's channel is replaced.                        *)
IsNewAlways(d) == TRUE

IsNew(d) == limiters[d] = NoChannel

(* Fetch begins; Acquire gets or makes the domain's channel.               *)
Lookup(g, d) ==
  /\ Goes(g, "idle", "send")
  /\ domain' = [domain EXCEPT ![g] = d]
  /\ IF IsNew(d)
     THEN /\ filled' = Append(filled, 0)
          /\ limiters' = [limiters EXCEPT ![d] = Len(filled')]
     ELSE UNCHANGED channels
  /\ chan' = [chan EXCEPT ![g] = limiters'[d]]
  /\ UNCHANGED <<hops, asleep, recent>>

(* Mutant: no delay.                                                       *)
SendNoSleep(g) ==
  /\ Goes(g, "send", "sleep")
  /\ filled[chan[g]] < MaxConc
  /\ filled' = [filled EXCEPT ![chan[g]] = @ + 1]
  /\ UNCHANGED <<limiters, fetches, chan, asleep, recent>>

(* ch <- struct{}{} blocks while the buffer is full.                       *)
Send(g) ==
  /\ Goes(g, "send", "sleep")
  /\ filled[chan[g]] < MaxConc
  /\ filled' = [filled EXCEPT ![chan[g]] = @ + 1]
  /\ asleep' = [asleep EXCEPT ![g] = Delay]
  /\ UNCHANGED <<limiters, fetches, chan, recent>>

(* The delay is over: client.Do.                                           *)
Request(g) ==
  /\ Goes(g, "sleep", "request")
  /\ asleep[g] = 0
  /\ recent' = recent \union {[by |-> g, of |-> domain[g], age |-> 0]}
  /\ UNCHANGED <<channels, fetches, chan, asleep>>

(* Mutant: a return that leaves the slot taken.                            *)
BadUrlKeepsSlot(g) ==
  /\ Goes(g, "sleep", "idle")
  /\ asleep[g] = 0
  /\ Returns(g)
  /\ UNCHANGED <<channels, hops, asleep, recent>>

(* http.NewRequestWithContext rejects the URL.                             *)
BadUrl(g) ==
  /\ Goes(g, "sleep", "release")
  /\ asleep[g] = 0
  /\ UNCHANGED <<channels, fetches, chan, asleep, recent>>

(* The client follows a redirect, to any host, without asking the limiter. *)
Redirect(g) ==
  /\ Goes(g, "request", "request")
  /\ hops[g] < MaxHops
  /\ hops' = [hops EXCEPT ![g] = @ + 1]
  /\ UNCHANGED <<channels, domain, chan, asleep, recent>>

(* A response or an error; the deferred Release follows.                   *)
Respond(g) ==
  /\ Goes(g, "request", "release")
  /\ hops' = [hops EXCEPT ![g] = 0]
  /\ UNCHANGED <<channels, domain, chan, asleep, recent>>

(* Release looks the channel up again; without one it does nothing ...     *)
Find(g) ==
  /\ Goes(g, "release", IF IsNew(domain[g]) THEN "idle" ELSE "receive")
  /\ chan' = [chan EXCEPT ![g] = limiters[domain[g]]]
  /\ domain' = [domain EXCEPT ![g] = IF IsNew(@) THEN NoDomain ELSE @]
  /\ UNCHANGED <<channels, hops, asleep, recent>>

(* Mutant: nothing is taken out of the buffer.                             *)
ReceiveNothing(g) ==
  /\ Goes(g, "receive", "idle")
  /\ Returns(g)
  /\ UNCHANGED <<channels, hops, asleep, recent>>

(* ... and <-ch blocks while its buffer is empty.                          *)
Receive(g) ==
  /\ Goes(g, "receive", "idle")
  /\ filled[chan[g]] > 0
  /\ filled' = [filled EXCEPT ![chan[g]] = @ - 1]
  /\ Returns(g)
  /\ UNCHANGED <<limiters, hops, asleep, recent>>

Tick ==
  /\ asleep' = [g \in Goroutines |-> IF asleep[g] > 0 THEN asleep[g] - 1 ELSE 0]
  /\ recent' = {[r EXCEPT !.age = @ + 1] : r \in {q \in recent : q.age + 1 < Delay}}
  /\ UNCHANGED <<channels, pc, fetches, chan>>

-----------------------------------------------------------------------------
(* Properties.                                                             *)

(* Type invariant: a goroutine past its lookup has its domain's channel,   *)
(* and every domain has one of its own (fetcher.go:160-184).               *)
DomainTypeOK ==
  /\ filled \in Seq(0..MaxConc)
  /\ limiters \in [Domains -> DOMAIN filled \union {NoChannel}]
  /\ \A c, d \in Domains : limiters[c] = limiters[d] => c = d \/ limiters[c] = NoChannel
  /\ pc \in [Goroutines -> {"idle", "send", "sleep", "request", "release", "receive"}]
  /\ domain \in [Goroutines -> Domains \union {NoDomain}]
  /\ hops \in [Goroutines -> 0..MaxHops]
  /\ chan \in [Goroutines -> DOMAIN filled \union {NoChannel}]
  /\ asleep \in [Goroutines -> 0..Delay]
  /\ \A g \in Goroutines :
       /\ pc[g] = "idle" <=> domain[g] = NoDomain
       /\ pc[g] # "idle" => chan[g] = limiters[domain[g]] /\ chan[g] # NoChannel
       /\ asleep[g] > 0 => pc[g] = "sleep"
  /\ recent \subseteq [by : Goroutines, of : Domains, age : 0..(Delay - 1)]

Holding(d) ==
  {g \in Goroutines : pc[g] \in {"sleep", "request", "release", "receive"} /\ domain[g] = d}

(* A slot of a domain is taken exactly while a goroutine is between its     *)
(* Acquire and the end of its Release, whatever way Fetch returns: none     *)
(* leaks, no Release blocks on an empty channel (fetcher.go:77), and with   *)
(* the buffer as its bound "Max 10 concurrent requests per domain" holds    *)
(* (ARCHITECTURE.md:222), of what extractDomain takes for the domain.       *)
SlotsMatchHolders ==
  \A d \in Domains :
    Cardinality(Holding(d)) = IF IsNew(d) THEN 0 ELSE filled[limiters[d]]

(* Since a slot is held through the delay, no more than MaxConc requests of *)
(* a domain start within any Delay ticks (fetcher.go:169-173).              *)
SlotsPaceRequests ==
  \A d \in Domains : Cardinality({r \in recent : r.of = d}) <= MaxConc

(* A domain that is full has a free slot again and again, so that the       *)
(* goroutines that wait for one are not blocked for ever: however Fetch     *)
(* returns, and whatever the others do (fetcher.go:77-78, 176-184).         *)
SlotsComeFree ==
  \A d \in Domains : []<>(IsNew(d) \/ filled[limiters[d]] < MaxConc)
=============================================================================
