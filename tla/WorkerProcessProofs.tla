------------------------ MODULE WorkerProcessProofs ------------------------
(* The limiter and the end of a worker process are right for every number  *)
(* of goroutines, domains and slots, and for every delay.                  *)
EXTENDS WorkerProcess, FiniteSetTheorems, TLAPS

-----------------------------------------------------------------------------
(* The limiter by itself: what a step of the process does to its variables.*)

GoroutineStep(g) ==
  \/ \E d \in Domains : Lookup(g, d)
  \/ Send(g)
  \/ Request(g)
  \/ BadUrl(g)
  \/ Redirect(g)
  \/ Respond(g)
  \/ Find(g)
  \/ Receive(g)

DomainStep ==
  \/ \E g \in Goroutines : GoroutineStep(g)
  \/ Tick
  \/ UNCHANGED domainVars

(* Every step of the process is one of these for the limiter; the refusal  *)
(* of a cancelled client is for it what a URL is that cannot be requested. *)
LEMMA ProcessStepIsDomainStep ==
  ASSUME [ProcessNext]_processVars
  PROVE  DomainStep
<1>1. ASSUME NEW g \in Goroutines, GoroutineNext(g)
      PROVE  DomainStep
  <2>1. CASE Quits(g) \/ TakesTask(g) \/ GivesBack(g) \/ Settles(g) \/ AddsRetry(g)
    BY <2>1 DEF Quits, TakesTask, GivesBack, Settles, AddsRetry, DomainStep
  <2>2. CASE \E d \in Domains : BeginsFetch(g, d)
    BY <2>2 DEF BeginsFetch, DomainStep, GoroutineStep
  <2>3. CASE Fetches(g)
    BY <2>3 DEF Fetches, DomainStep, GoroutineStep
  <2>4. CASE Refused(g)
    BY <2>4 DEF Refused, BadUrl, DomainStep, GoroutineStep
  <2>5. CASE Releases(g)
    BY <2>5 DEF Releases, DomainStep, GoroutineStep
  <2> QED
    BY <1>1, <2>1, <2>2, <2>3, <2>4, <2>5 DEF GoroutineNext
<1>2. CASE RecoveryReturns \/ Signal \/ Closes
  BY <1>2 DEF RecoveryReturns, Signal, Closes, DomainStep
<1>3. CASE Time
  BY <1>3 DEF Time, DomainStep
<1>4. CASE UNCHANGED processVars
  BY <1>4 DEF processVars, DomainStep
<1> QED
  BY <1>1, <1>2, <1>3, <1>4 DEF ProcessNext

-----------------------------------------------------------------------------
(* The channels.                                                           *)

(* No channel of the list is anybody's but a domain's.                     *)
ChannelsOwned == \A c \in DOMAIN filled : \E d \in Domains : limiters[d] = c

ChannelInv == DomainTypeOK /\ ChannelsOwned

LEMMA ChannelInit ==
  ASSUME DomainInit
  PROVE  ChannelInv
BY DomainAssumption DEF DomainInit, ChannelInv, DomainTypeOK, ChannelsOwned, fetches

(* A new domain's channel is unlike every other.                           *)
LEMMA LookupChannels ==
  ASSUME ChannelInv, NEW g \in Goroutines, NEW d \in Domains, Lookup(g, d)
  PROVE  ChannelInv'
<1> USE DomainAssumption DEF ChannelInv, ChannelsOwned, DomainTypeOK
<1>1. CASE IsNew(d)
  <2>1. /\ filled' = Append(filled, 0)
        /\ limiters' = [limiters EXCEPT ![d] = Len(filled) + 1]
    BY <1>1 DEF Lookup
  <2>2. filled' \in Seq(0..MaxConc) /\ DOMAIN filled' = DOMAIN filled \union {Len(filled) + 1}
    BY <2>1
  <2>3. limiters' \in [Domains -> DOMAIN filled' \union {NoChannel}]
    BY <2>1, <2>2
  <2>4. \A e \in Domains : limiters[e] # Len(filled) + 1
    <3>1. Len(filled) + 1 \in Nat /\ Len(filled) + 1 \notin DOMAIN filled
      OBVIOUS
    <3> QED
      BY <3>1
  <2>5. \A c, e \in Domains : limiters'[c] = limiters'[e] => c = e \/ limiters'[c] = NoChannel
    BY <2>1, <2>4
  <2>6. ChannelsOwned'
    BY <1>1, <2>1, <2>2 DEF IsNew
  <2>7. \A h \in Goroutines :
          /\ pc'[h] = "idle" <=> domain'[h] = NoDomain
          /\ pc'[h] # "idle" => chan'[h] = limiters'[domain'[h]] /\ chan'[h] # NoChannel
          /\ asleep'[h] > 0 => pc'[h] = "sleep"
    <3> SUFFICES ASSUME NEW h \in Goroutines
                 PROVE  /\ pc'[h] = "idle" <=> domain'[h] = NoDomain
                        /\ pc'[h] # "idle" => chan'[h] = limiters'[domain'[h]] /\ chan'[h] # NoChannel
                        /\ asleep'[h] > 0 => pc'[h] = "sleep"
      OBVIOUS
    <3>1. CASE h = g
      BY <3>1, <1>1, <2>1 DEF Lookup, Goes
    <3>2. CASE h # g
      <4>1. pc'[h] = pc[h] /\ domain'[h] = domain[h] /\ chan'[h] = chan[h] /\ asleep' = asleep
        BY <3>2 DEF Lookup, Goes
      <4>2. pc[h] # "idle" => domain[h] \in Domains \ {d}
        BY <1>1 DEF IsNew
      <4>3. \A e \in Domains \ {d} : limiters'[e] = limiters[e]
        BY <2>1
      <4> QED
        BY <4>1, <4>2, <4>3
    <3> QED
      BY <3>1, <3>2
  <2> QED
    BY <2>2, <2>3, <2>5, <2>6, <2>7 DEF Lookup, Goes, fetches
<1>2. CASE ~IsNew(d)
  BY <1>2 DEF Lookup, Goes, IsNew, fetches, channels
<1> QED
  BY <1>1, <1>2, Zenon

LEMMA RequestGrowsOlder ==
  ASSUME NEW r \in [by : Goroutines, of : Domains, age : 0..(Delay - 1)], r.age + 1 < Delay
  PROVE  [r EXCEPT !.age = @ + 1] \in [by : Goroutines, of : Domains, age : 0..(Delay - 1)]
<1>1. r.age \in Nat /\ r.age + 1 \in 0..(Delay - 1)
  BY DomainAssumption
<1> QED
  BY <1>1

LEMMA SameRequest ==
  ASSUME NEW r \in [by : Goroutines, of : Domains, age : 0..(Delay - 1)],
         NEW q \in [by : Goroutines, of : Domains, age : 0..(Delay - 1)],
         r.by = q.by, r.of = q.of, r.age = q.age
  PROVE  r = q
OBVIOUS

LEMMA ChannelStep ==
  ASSUME ChannelInv, DomainStep
  PROVE  ChannelInv'
<1> USE DomainAssumption DEF ChannelInv, ChannelsOwned, DomainTypeOK, fetches, channels
<1>1. ASSUME NEW g \in Goroutines, GoroutineStep(g)
      PROVE  ChannelInv'
  <2>1. CASE \E d \in Domains : Lookup(g, d)
    BY <2>1, LookupChannels
  <2>2. CASE Send(g)
    <3>1. chan[g] \in DOMAIN filled /\ filled[chan[g]] < MaxConc
      BY <2>2 DEF Send, Goes
    <3>2. filled' \in Seq(0..MaxConc) /\ DOMAIN filled' = DOMAIN filled
      BY <2>2, <3>1 DEF Send
    <3>3. asleep' \in [Goroutines -> 0..Delay]
      BY <2>2 DEF Send
    <3>4. pc' \in [Goroutines -> {"idle", "send", "sleep", "request", "release", "receive"}]
      BY <2>2 DEF Send, Goes
    <3>5. /\ UNCHANGED <<limiters, domain, hops, chan, recent>>
          /\ pc[g] = "send" /\ pc'[g] = "sleep"
          /\ \A h \in Goroutines \ {g} : pc'[h] = pc[h] /\ asleep'[h] = asleep[h]
      BY <2>2 DEF Send, Goes
    <3> QED
      BY <3>2, <3>3, <3>4, <3>5
  <2>3. CASE Request(g)
    BY <2>3 DEF Request, Goes
  <2>4. CASE BadUrl(g)
    BY <2>4 DEF BadUrl, Goes
  <2>5. CASE Redirect(g)
    BY <2>5 DEF Redirect, Goes
  <2>6. CASE Respond(g)
    BY <2>6 DEF Respond, Goes
  <2>7. CASE Find(g)
    BY <2>7 DEF Find, Goes, IsNew
  <2>8. CASE Receive(g)
    BY <2>8 DEF Receive, Goes, Returns
  <2> QED
    BY <1>1, <2>1, <2>2, <2>3, <2>4, <2>5, <2>6, <2>7, <2>8 DEF GoroutineStep
<1>2. CASE Tick
  <2>1. recent' \subseteq [by : Goroutines, of : Domains, age : 0..(Delay - 1)]
    <3> SUFFICES ASSUME NEW r \in recent, r.age + 1 < Delay
                 PROVE  [r EXCEPT !.age = @ + 1] \in [by : Goroutines, of : Domains, age : 0..(Delay - 1)]
      BY <1>2 DEF Tick
    <3> QED
      BY RequestGrowsOlder
  <2>2. asleep' \in [Goroutines -> 0..Delay] /\ \A g \in Goroutines : asleep'[g] > 0 => asleep[g] > 0
    BY <1>2 DEF Tick
  <2> QED
    BY <1>2, <2>1, <2>2 DEF Tick
<1>3. CASE UNCHANGED domainVars
  BY <1>3 DEF domainVars
<1> QED
  BY <1>1, <1>2, <1>3 DEF DomainStep

-----------------------------------------------------------------------------
(* The slots: a channel holds as many elements as its domain has holders.  *)

LEMMA HoldingFinite ==
  ASSUME NEW d
  PROVE  IsFiniteSet(Holding(d)) /\ Cardinality(Holding(d)) \in Nat
BY DomainAssumption, FS_Subset, FS_CardinalityType DEF Holding

LEMMA SlotsInit ==
  ASSUME DomainInit
  PROVE  SlotsMatchHolders
<1>1. \A d \in Domains : Holding(d) = {}
  BY DEF DomainInit, Holding
<1> QED
  BY <1>1, FS_EmptySet DEF DomainInit, SlotsMatchHolders, IsNew

(* A step that changes neither the holders nor what is in the channels.    *)
LEMMA SlotsUnchanged ==
  ASSUME SlotsMatchHolders, UNCHANGED channels,
         \A d \in Domains : Holding(d)' = Holding(d)
  PROVE  SlotsMatchHolders'
BY DEF SlotsMatchHolders, IsNew, channels

LEMMA SlotsLookup ==
  ASSUME ChannelInv, SlotsMatchHolders, NEW g \in Goroutines, NEW d \in Domains, Lookup(g, d)
  PROVE  SlotsMatchHolders'
<1> USE DomainAssumption DEF ChannelInv, DomainTypeOK
<1>1. \A e \in Domains : Holding(e)' = Holding(e)
  BY DEF Lookup, Goes, Holding
<1>2. CASE IsNew(d)
  <2>1. /\ filled' = Append(filled, 0)
        /\ limiters' = [limiters EXCEPT ![d] = Len(filled) + 1]
    BY <1>2 DEF Lookup
  <2>2. /\ limiters'[d] = Len(filled) + 1
        /\ limiters'[d] # NoChannel
        /\ filled'[limiters'[d]] = 0
    BY <2>1
  <2>3. ASSUME NEW e \in Domains \ {d}
        PROVE  /\ limiters'[e] = limiters[e]
               /\ limiters[e] # NoChannel => filled'[limiters'[e]] = filled[limiters[e]]
    BY <2>1
  <2> QED
    <3> SUFFICES ASSUME NEW e \in Domains
                 PROVE  Cardinality(Holding(e)') =
                          IF limiters'[e] = NoChannel THEN 0 ELSE filled'[limiters'[e]]
      BY DEF SlotsMatchHolders, IsNew
    <3>1. CASE e = d
      BY <3>1, <1>1, <1>2, <2>2 DEF SlotsMatchHolders, IsNew
    <3>2. CASE e # d
      BY <3>2, <1>1, <2>3 DEF SlotsMatchHolders, IsNew
    <3> QED
      BY <3>1, <3>2
<1>3. CASE ~IsNew(d)
  BY <1>1, <1>3, SlotsUnchanged DEF Lookup
<1> QED
  BY <1>2, <1>3

(* A goroutine joins the holders of its domain and fills its channel by    *)
(* one, or leaves them and empties it by one; the others are not affected, *)
(* since no two domains share a channel.                                   *)
LEMMA SlotsSend ==
  ASSUME ChannelInv, SlotsMatchHolders, NEW g \in Goroutines, Send(g)
  PROVE  SlotsMatchHolders'
<1> USE DomainAssumption DEF ChannelInv, DomainTypeOK
<1>0. PICK d \in Domains : d = domain[g]
  BY DEF Send, Goes
<1>1. /\ d \in Domains /\ limiters[d] = chan[g] /\ chan[g] # NoChannel /\ chan[g] \in DOMAIN filled
      /\ g \notin Holding(d)
  BY <1>0 DEF Send, Goes, Holding
<1>2. Holding(d)' = Holding(d) \union {g}
  BY <1>0 DEF Send, Goes, Holding, fetches
<1>3. Cardinality(Holding(d) \union {g}) = Cardinality(Holding(d)) + 1
  BY <1>1, HoldingFinite, FS_AddElement
<1>4. filled'[chan[g]] = filled[chan[g]] + 1 /\ limiters' = limiters
  BY <1>1 DEF Send
<1>5. ASSUME NEW e \in Domains \ {d}
      PROVE  /\ Holding(e)' = Holding(e)
             /\ limiters[e] # NoChannel => filled'[limiters[e]] = filled[limiters[e]]
  <2>1. Holding(e)' = Holding(e)
    BY <1>0 DEF Send, Goes, Holding, fetches
  <2>2. limiters[e] # NoChannel => limiters[e] # chan[g] /\ limiters[e] \in DOMAIN filled
    BY <1>1
  <2> QED
    BY <2>1, <2>2 DEF Send
<1> QED
  <2> SUFFICES ASSUME NEW e \in Domains
               PROVE  Cardinality(Holding(e)') =
                        IF limiters'[e] = NoChannel THEN 0 ELSE filled'[limiters'[e]]
    BY DEF SlotsMatchHolders, IsNew
  <2>1. CASE e = d
    BY <2>1, <1>1, <1>2, <1>3, <1>4 DEF SlotsMatchHolders, IsNew
  <2>2. CASE e # d
    BY <2>2, <1>4, <1>5 DEF SlotsMatchHolders, IsNew
  <2> QED
    BY <2>1, <2>2

LEMMA SlotsReceive ==
  ASSUME ChannelInv, SlotsMatchHolders, NEW g \in Goroutines, Receive(g)
  PROVE  SlotsMatchHolders'
<1> USE DomainAssumption DEF ChannelInv, DomainTypeOK
<1>0. PICK d \in Domains : d = domain[g]
  BY DEF Receive, Goes
<1>1. /\ d \in Domains /\ limiters[d] = chan[g] /\ chan[g] # NoChannel /\ chan[g] \in DOMAIN filled
      /\ g \in Holding(d)
  BY <1>0 DEF Receive, Goes, Holding
<1>2. ASSUME NEW e \in Domains
      PROVE  Holding(e)' = Holding(e) \ {g}
  BY <1>1 DEF Receive, Goes, Returns, Holding
<1>3. Cardinality(Holding(d) \ {g}) = Cardinality(Holding(d)) - 1
  BY <1>1, HoldingFinite, FS_RemoveElement
<1>4. filled'[chan[g]] = filled[chan[g]] - 1 /\ limiters' = limiters
  BY <1>1 DEF Receive
<1>5. ASSUME NEW e \in Domains \ {d}
      PROVE  /\ Holding(e) \ {g} = Holding(e)
             /\ limiters[e] # NoChannel => filled'[limiters[e]] = filled[limiters[e]]
  <2>1. Holding(e) \ {g} = Holding(e)
    BY <1>0 DEF Holding
  <2>2. limiters[e] # NoChannel => limiters[e] # chan[g] /\ limiters[e] \in DOMAIN filled
    BY <1>1
  <2> QED
    BY <2>1, <2>2 DEF Receive
<1> QED
  <2> SUFFICES ASSUME NEW e \in Domains
               PROVE  Cardinality(Holding(e)') =
                        IF limiters'[e] = NoChannel THEN 0 ELSE filled'[limiters'[e]]
    BY DEF SlotsMatchHolders, IsNew
  <2>1. CASE e = d
    BY <2>1, <1>1, <1>2, <1>3, <1>4 DEF SlotsMatchHolders, IsNew
  <2>2. CASE e # d
    <3>1. Holding(e)' = Holding(e)
      BY <2>2, <1>2, <1>5
    <3> QED
      BY <2>2, <3>1, <1>4, <1>5 DEF SlotsMatchHolders, IsNew
  <2> QED
    BY <2>1, <2>2

LEMMA SlotsStep ==
  ASSUME ChannelInv, SlotsMatchHolders, DomainStep
  PROVE  SlotsMatchHolders'
<1> USE DEF ChannelInv, DomainTypeOK, fetches
<1>1. ASSUME NEW g \in Goroutines, GoroutineStep(g)
      PROVE  SlotsMatchHolders'
  <2>1. CASE \E d \in Domains : Lookup(g, d)
    BY <2>1, SlotsLookup
  <2>2. CASE Send(g)
    BY <2>2, SlotsSend
  <2>3. CASE Request(g) \/ BadUrl(g) \/ Redirect(g) \/ Respond(g)
    <3>1. /\ UNCHANGED <<channels, domain>>
          /\ pc[g] \in {"sleep", "request"} /\ pc' = [pc EXCEPT ![g] = pc'[g]]
          /\ pc'[g] \in {"request", "release"}
      BY <2>3 DEF Request, BadUrl, Redirect, Respond, Goes
    <3>2. \A d \in Domains : Holding(d)' = Holding(d)
      BY <3>1 DEF Holding
    <3> QED
      BY <3>1, <3>2, SlotsUnchanged
  <2>4. CASE Find(g)
    <3>1. /\ UNCHANGED <<channels, domain>>
          /\ pc[g] = "release" /\ pc' = [pc EXCEPT ![g] = "receive"]
      BY <2>4 DEF Find, Goes, IsNew
    <3>2. \A d \in Domains : Holding(d)' = Holding(d)
      BY <3>1 DEF Holding
    <3> QED
      BY <3>1, <3>2, SlotsUnchanged
  <2>5. CASE Receive(g)
    BY <2>5, SlotsReceive
  <2> QED
    BY <1>1, <2>1, <2>2, <2>3, <2>4, <2>5 DEF GoroutineStep
<1>2. CASE Tick
  BY <1>2, SlotsUnchanged DEF Tick, Holding
<1>3. CASE UNCHANGED domainVars
  BY <1>3, SlotsUnchanged DEF domainVars, Holding
<1> QED
  BY <1>1, <1>2, <1>3 DEF DomainStep

(* The buffer of a channel is its bound: never more holders than slots.    *)
LEMMA HoldersBounded ==
  ASSUME ChannelInv, SlotsMatchHolders, NEW d \in Domains
  PROVE  Cardinality(Holding(d)) <= MaxConc
<1>1. CASE limiters[d] = NoChannel
  BY <1>1, DomainAssumption DEF SlotsMatchHolders, IsNew
<1>2. CASE limiters[d] # NoChannel
  <2>1. limiters[d] \in DOMAIN filled /\ filled \in Seq(0..MaxConc)
    BY <1>2 DEF ChannelInv, DomainTypeOK
  <2>2. filled[limiters[d]] \in 0..MaxConc
    BY <2>1, DomainAssumption
  <2> QED
    BY <1>2, <2>2, DomainAssumption DEF SlotsMatchHolders, IsNew
<1> QED
  BY <1>1, <1>2

-----------------------------------------------------------------------------
(* The pace.  Whoever has slept through the last a + 1 ticks with a slot of *)
(* d, or has made its request to d after the a + 1 last ticks began, had a  *)
(* slot of d at the first of these ticks: there are no more than MaxConc.   *)

Old(d, a) == {g \in Holding(d) : pc[g] = "sleep" /\ Delay - asleep[g] > a}
By(d, a) == {g \in Goroutines : \E r \in recent : r.by = g /\ r.of = d /\ r.age <= a}

Paced ==
  \A d \in Domains : \A a \in 0..(Delay - 1) :
    Cardinality(Old(d, a) \union By(d, a)) <= MaxConc

(* A goroutine that sleeps again has asked before it fell asleep, and it    *)
(* asks once in the time the delay takes.                                   *)
AsksOnce ==
  /\ \A r \in recent : pc[r.by] = "sleep" => Delay - asleep[r.by] <= r.age
  /\ \A r, q \in recent : r.by = q.by => r = q

PaceInv == Paced /\ AsksOnce

LEMMA PacedFinite ==
  ASSUME NEW d, NEW a
  PROVE  /\ IsFiniteSet(Old(d, a) \union By(d, a))
         /\ Cardinality(Old(d, a) \union By(d, a)) \in Nat
<1>1. Old(d, a) \union By(d, a) \subseteq Goroutines
  BY DEF Old, By, Holding
<1> QED
  BY <1>1, DomainAssumption, FS_Subset, FS_CardinalityType

(* A step after which no more are counted.                                  *)
LEMMA PacedShrinks ==
  ASSUME Paced,
         \A d \in Domains : \A a \in 0..(Delay - 1) :
           (Old(d, a) \union By(d, a))' \subseteq Old(d, a) \union By(d, a)
  PROVE  Paced'
<1> SUFFICES ASSUME NEW d \in Domains, NEW a \in 0..(Delay - 1)
             PROVE  Cardinality((Old(d, a) \union By(d, a))') <= MaxConc
  BY DEF Paced
<1> DEFINE S == Old(d, a) \union By(d, a)
           T == (Old(d, a) \union By(d, a))'
<1>1. IsFiniteSet(S) /\ Cardinality(S) \in Nat /\ T \subseteq S /\ Cardinality(S) <= MaxConc
  BY PacedFinite DEF Paced
<1> HIDE DEF S, T
<1>2. IsFiniteSet(T) /\ Cardinality(T) \in Nat /\ Cardinality(T) <= Cardinality(S)
  BY <1>1, FS_Subset, FS_CardinalityType
<1>3. Cardinality(T) <= MaxConc
  BY <1>1, <1>2, DomainAssumption
<1> QED
  BY <1>3 DEF T

LEMMA PaceInit ==
  ASSUME DomainInit
  PROVE  PaceInv
<1>1. \A d \in Domains : \A a \in 0..(Delay - 1) : Old(d, a) \union By(d, a) = {}
  BY DEF DomainInit, Old, By, Holding
<1> QED
  <2>1. Paced
    BY <1>1, FS_EmptySet, DomainAssumption DEF Paced
  <2>2. AsksOnce
    BY DEF DomainInit, AsksOnce
  <2> QED
    BY <2>1, <2>2 DEF PaceInv

(* What a request counts was counted as a sleeper before.                   *)
LEMMA PaceRequest ==
  ASSUME ChannelInv, PaceInv, NEW g \in Goroutines, Request(g)
  PROVE  PaceInv'
<1> USE DomainAssumption DEF ChannelInv, DomainTypeOK, PaceInv
<1>1. PICK e \in Domains : e = domain[g]
  BY DEF Request, Goes
<1>2. /\ recent' = recent \union {[by |-> g, of |-> e, age |-> 0]}
      /\ pc[g] = "sleep" /\ pc' = [pc EXCEPT ![g] = "request"]
      /\ asleep[g] = 0 /\ UNCHANGED <<domain, asleep>>
  BY <1>1 DEF Request, Goes, fetches
<1>3. ASSUME NEW d \in Domains, NEW a \in 0..(Delay - 1)
      PROVE  (Old(d, a) \union By(d, a))' \subseteq Old(d, a) \union By(d, a)
  <2>1. g \in Old(e, a)
    BY <1>1, <1>2 DEF Old, Holding
  <2>2. Old(d, a)' \subseteq Old(d, a)
    BY <1>2 DEF Old, Holding
  <2>3. By(d, a)' \subseteq By(d, a) \union IF d = e THEN {g} ELSE {}
    BY <1>2 DEF By
  <2> QED
    BY <2>1, <2>2, <2>3
<1>4. \A r \in recent : r.by # g
  BY <1>2 DEF AsksOnce
<1>5. AsksOnce'
  BY <1>2, <1>4 DEF AsksOnce
<1> QED
  BY <1>3, <1>5, PacedShrinks

(* A tick makes everyone counted at a counted at a + 1; counted at 0 are    *)
(* sleepers with a slot.                                                    *)
LEMMA PaceTick ==
  ASSUME ChannelInv, SlotsMatchHolders, PaceInv, Tick
  PROVE  PaceInv'
<1> USE DomainAssumption DEF ChannelInv, DomainTypeOK, PaceInv
<1>1. /\ UNCHANGED <<pc, domain>>
      /\ \A g \in Goroutines : asleep'[g] = IF asleep[g] > 0 THEN asleep[g] - 1 ELSE 0
  BY DEF Tick, fetches
<1>2. \A q \in recent' : \E r \in recent :
        /\ q \in [by : Goroutines, of : Domains, age : 0..(Delay - 1)]
        /\ q.by = r.by /\ q.of = r.of /\ q.age = r.age + 1
  <2> TAKE q \in recent'
  <2>1. PICK r \in {x \in recent : x.age + 1 < Delay} : q = [r EXCEPT !.age = @ + 1]
    BY DEF Tick
  <2>2. r \in recent /\ r \in [by : Goroutines, of : Domains, age : 0..(Delay - 1)]
    BY <2>1
  <2> QED
    BY <2>1, <2>2, RequestGrowsOlder
<1>3. ASSUME NEW d \in Domains, NEW a \in 0..(Delay - 1)
      PROVE  Cardinality((Old(d, a) \union By(d, a))') <= MaxConc
  <2> DEFINE T == (Old(d, a) \union By(d, a))'
  <2>1. CASE a = 0
    <3>1. T \subseteq Holding(d)
      BY <2>1, <1>1, <1>2 DEF Old, By, Holding
    <3> HIDE DEF T
    <3>2. Cardinality(T) <= Cardinality(Holding(d)) /\ Cardinality(T) \in Nat
      BY <3>1, HoldingFinite, FS_Subset, FS_CardinalityType
    <3>3. Cardinality(T) <= MaxConc
      BY <3>2, HoldersBounded, HoldingFinite
    <3> QED
      BY <3>3 DEF T
  <2>2. CASE a > 0
    <3> DEFINE S == Old(d, a - 1) \union By(d, a - 1)
    <3>1. Old(d, a)' \subseteq Old(d, a - 1)
      BY <2>2, <1>1 DEF Old, Holding
    <3>2. By(d, a)' \subseteq By(d, a - 1)
      BY <2>2, <1>2 DEF By
    <3>3. T \subseteq S /\ Cardinality(S) <= MaxConc /\ IsFiniteSet(S) /\ Cardinality(S) \in Nat
      <4>1. a - 1 \in 0..(Delay - 1)
        BY <2>2
      <4> QED
        BY <4>1, <3>1, <3>2, PacedFinite DEF Paced
    <3> HIDE DEF S, T
    <3>4. Cardinality(T) <= Cardinality(S) /\ Cardinality(T) \in Nat
      BY <3>3, FS_Subset, FS_CardinalityType
    <3>5. Cardinality(T) <= MaxConc
      BY <3>3, <3>4
    <3> QED
      BY <3>5 DEF T
  <2> QED
    BY <2>1, <2>2
<1>4. \A q \in recent' : pc'[q.by] = "sleep" => Delay - asleep'[q.by] <= q.age
  BY <1>1, <1>2 DEF AsksOnce
<1>5. \A q, p \in recent' : q.by = p.by => q = p
  <2> SUFFICES ASSUME NEW q \in recent', NEW p \in recent', q.by = p.by
               PROVE  q = p
    OBVIOUS
  <2>1. PICK r \in recent : q.by = r.by /\ q.of = r.of /\ q.age = r.age + 1
    BY <1>2
  <2>2. PICK s \in recent : p.by = s.by /\ p.of = s.of /\ p.age = s.age + 1
    BY <1>2
  <2>3. \A x, y \in recent : x.by = y.by => x = y
    BY DEF AsksOnce
  <2>4. r.by = s.by
    BY <2>1, <2>2
  <2>5. r = s
    BY <2>3, <2>4, Zenon
  <2>6. q.of = p.of /\ q.age = p.age
    BY <2>1, <2>2, <2>5
  <2> QED
    BY <1>2, <2>6, SameRequest
<1> QED
  BY <1>3, <1>4, <1>5 DEF Paced, AsksOnce

LEMMA PaceStep ==
  ASSUME ChannelInv, SlotsMatchHolders, PaceInv, DomainStep
  PROVE  PaceInv'
<1> USE DomainAssumption DEF ChannelInv, DomainTypeOK, PaceInv
<1>1. ASSUME NEW g \in Goroutines, GoroutineStep(g)
      PROVE  PaceInv'
  <2>1. CASE Request(g)
    BY <2>1, PaceRequest
  <2>2. CASE Send(g)
    <3>1. /\ pc[g] = "send" /\ pc' = [pc EXCEPT ![g] = "sleep"]
          /\ asleep' = [asleep EXCEPT ![g] = Delay] /\ UNCHANGED <<domain, recent>>
      BY <2>2 DEF Send, Goes, fetches
    <3>2. ASSUME NEW d \in Domains, NEW a \in 0..(Delay - 1)
          PROVE  (Old(d, a) \union By(d, a))' \subseteq Old(d, a) \union By(d, a)
      <4>1. Old(d, a)' \subseteq Old(d, a)
        BY <3>1 DEF Old, Holding
      <4>2. By(d, a)' = By(d, a)
        BY <3>1 DEF By
      <4> QED
        BY <4>1, <4>2
    <3>3. AsksOnce'
      BY <3>1 DEF AsksOnce
    <3> QED
      BY <3>2, <3>3, PacedShrinks
  <2>3. CASE \/ \E d \in Domains : Lookup(g, d)
             \/ BadUrl(g) \/ Redirect(g) \/ Respond(g) \/ Find(g) \/ Receive(g)
    <3>1. /\ UNCHANGED <<asleep, recent>>
          /\ \A h \in Goroutines : pc'[h] # pc[h] => pc'[h] # "sleep"
          /\ \A h \in Goroutines : pc'[h] = "sleep" => domain'[h] = domain[h]
      BY <2>3 DEF Lookup, BadUrl, Redirect, Respond, Find, Receive, Returns, Goes, fetches, IsNew
    <3>2. ASSUME NEW d \in Domains, NEW a \in 0..(Delay - 1)
          PROVE  (Old(d, a) \union By(d, a))' \subseteq Old(d, a) \union By(d, a)
      <4>1. Old(d, a)' \subseteq Old(d, a)
        BY <3>1 DEF Old, Holding
      <4>2. By(d, a)' = By(d, a)
        BY <3>1 DEF By
      <4> QED
        BY <4>1, <4>2
    <3>3. AsksOnce'
      BY <3>1 DEF AsksOnce
    <3> QED
      BY <3>2, <3>3, PacedShrinks
  <2> QED
    BY <1>1, <2>1, <2>2, <2>3 DEF GoroutineStep
<1>2. CASE Tick
  BY <1>2, PaceTick
<1>3. CASE UNCHANGED domainVars
  <2>1. UNCHANGED <<pc, domain, asleep, recent>>
    BY <1>3 DEF domainVars, fetches
  <2>2. \A d, a : (Old(d, a) \union By(d, a))' = Old(d, a) \union By(d, a)
    BY <2>1 DEF Old, By, Holding
  <2>3. AsksOnce'
    BY <2>1 DEF AsksOnce
  <2> QED
    BY <2>2, <2>3, PacedShrinks
<1> QED
  BY <1>1, <1>2, <1>3 DEF DomainStep

(* Each request of the last Delay ticks is one goroutine's.                 *)
LEMMA PaceImpliesProperty ==
  ASSUME ChannelInv, PaceInv
  PROVE  SlotsPaceRequests
<1> USE DomainAssumption DEF ChannelInv, DomainTypeOK, PaceInv
<1> SUFFICES ASSUME NEW d \in Domains
             PROVE  Cardinality({r \in recent : r.of = d}) <= MaxConc
  BY DEF SlotsPaceRequests
<1> DEFINE R == {r \in recent : r.of = d}
           T == Old(d, Delay - 1) \union By(d, Delay - 1)
           f == [r \in R |-> r.by]
<1>1. \A r \in R : r.by \in By(d, Delay - 1)
  BY DEF By
<1>2. f \in Injection(R, T)
  <2>1. f \in [R -> T]
    BY <1>1
  <2>2. \A r, q \in R : f[r] = f[q] => r = q
    BY DEF AsksOnce
  <2> HIDE DEF R, T, f
  <2> QED
    BY <2>1, <2>2, Zenon DEF Injection, IsInjective
<1>3. IsFiniteSet(T) /\ Cardinality(T) \in Nat /\ Cardinality(T) <= MaxConc
  <2>1. Delay - 1 \in 0..(Delay - 1)
    OBVIOUS
  <2> QED
    BY <2>1, PacedFinite DEF Paced
<1> HIDE DEF R, T, f
<1>4. IsFiniteSet(R) /\ Cardinality(R) <= Cardinality(T)
  BY <1>2, <1>3, FS_Injection
<1>5. Cardinality(R) \in Nat
  BY <1>4, FS_CardinalityType
<1>6. Cardinality(R) <= MaxConc
  BY <1>3, <1>4, <1>5
<1> QED
  BY <1>6 DEF R

-----------------------------------------------------------------------------
(* The end of the process.                                                 *)

Busy == {g \in Goroutines : loop[g] \notin {"top", "done"}}

ProcessTypeOK ==
  /\ main \in {"running", "waiting", "closed"}
  /\ loop \in [Goroutines -> {"top", "held", "fetch", "settle", "gap", "done"}]
  /\ left \in Nat

(* A goroutine is in Fetch when its loop says so; main is past wg.Wait only *)
(* when all are done; and whoever has a task when the context ends may lose *)
(* that one, and takes no other.                                            *)
EndInv ==
  /\ ProcessTypeOK
  /\ \A g \in Goroutines : loop[g] = "fetch" <=> pc[g] # "idle"
  /\ main = "closed" => \A g \in Goroutines : loop[g] = "done"
  /\ ~Cancelled => left = 0
  /\ left + Cardinality(Busy) <= Cardinality(Goroutines)

LEMMA BusyFinite ==
  /\ IsFiniteSet(Goroutines) /\ Cardinality(Goroutines) \in Nat
  /\ IsFiniteSet(Busy) /\ Cardinality(Busy) \in Nat /\ Cardinality(Busy) <= Cardinality(Goroutines)
BY DomainAssumption, FS_Subset, FS_CardinalityType DEF Busy

LEMMA BusyFiniteNext ==
  IsFiniteSet(Busy') /\ Cardinality(Busy') \in Nat /\ Cardinality(Busy') <= Cardinality(Goroutines)
BY DomainAssumption, FS_Subset, FS_CardinalityType DEF Busy

LEMMA EndInit ==
  ASSUME ProcessInit
  PROVE  EndInv
<1>1. Busy = {}
  BY DEF ProcessInit, Busy
<1> QED
  BY <1>1, FS_EmptySet, BusyFinite DEF ProcessInit, DomainInit, EndInv, ProcessTypeOK, Cancelled

(* A goroutine that had a task is without one and may have left it.         *)
LEMMA EndGivesUp ==
  ASSUME EndInv, NEW g \in Goroutines, loop[g] \in {"held", "settle", "gap"},
         loop' = [loop EXCEPT ![g] = "top"],
         left' = IF Cancelled THEN left + 1 ELSE left,
         UNCHANGED <<main, pc>>
  PROVE  EndInv'
<1> USE DEF EndInv, ProcessTypeOK
<1>1. g \in Busy /\ Busy' = Busy \ {g}
  BY DEF Busy
<1>2. Cardinality(Busy') = Cardinality(Busy) - 1
  BY <1>1, BusyFinite, FS_RemoveElement
<1>3. left' + Cardinality(Busy') <= Cardinality(Goroutines)
  BY <1>2, BusyFinite
<1>4. ProcessTypeOK' /\ (~Cancelled' => left' = 0)
  BY DEF Cancelled
<1>5. \A h \in Goroutines : loop'[h] = "fetch" <=> pc'[h] # "idle"
  OBVIOUS
<1> QED
  BY <1>3, <1>4, <1>5

(* A goroutine moves on with its task, or without one.                      *)
LEMMA EndMoves ==
  ASSUME EndInv, NEW g \in Goroutines, loop' = [loop EXCEPT ![g] = loop'[g]],
         loop'[g] \in {"top", "held", "fetch", "settle", "gap", "done"},
         g \in Busy' => g \in Busy,
         loop[g] # "done",
         \A h \in Goroutines : loop'[h] = "fetch" <=> pc'[h] # "idle",
         UNCHANGED <<main, left>>
  PROVE  EndInv'
<1> USE DEF EndInv, ProcessTypeOK
<1>1. Busy' \subseteq Busy
  BY DEF Busy
<1>2. Cardinality(Busy') <= Cardinality(Busy) /\ Cardinality(Busy') \in Nat
  BY <1>1, BusyFinite, BusyFiniteNext, FS_Subset
<1>3. left' + Cardinality(Busy') <= Cardinality(Goroutines)
  BY <1>2, BusyFinite
<1> QED
  BY <1>3 DEF Cancelled

LEMMA EndStep ==
  ASSUME ChannelInv, EndInv, [ProcessNext]_processVars
  PROVE  EndInv'
<1> USE DEF EndInv, ProcessTypeOK
<1>1. ASSUME NEW g \in Goroutines, GoroutineNext(g)
      PROVE  EndInv'
  <2>1. CASE Quits(g)
    BY <2>1, EndMoves DEF Quits, Moves, Busy, domainVars
  <2>2. CASE TakesTask(g)
    <3>1. left = 0 /\ left' = 0 /\ UNCHANGED <<main, pc>> /\ loop' = [loop EXCEPT ![g] = "held"]
          /\ loop[g] = "top"
      BY <2>2 DEF TakesTask, Moves, domainVars
    <3>2. left' + Cardinality(Busy') <= Cardinality(Goroutines)
      BY <3>1, BusyFiniteNext
    <3> QED
      BY <3>1, <3>2 DEF Cancelled
  <2>3. CASE GivesBack(g)
    BY <2>3, EndGivesUp DEF GivesBack, Moves, domainVars
  <2>4. CASE \E d \in Domains : BeginsFetch(g, d)
    <3>1. /\ loop[g] = "held" /\ loop' = [loop EXCEPT ![g] = "fetch"]
          /\ pc' = [pc EXCEPT ![g] = "send"] /\ UNCHANGED <<main, left>>
      BY <2>4 DEF BeginsFetch, Moves, Lookup, Goes
    <3>2. \A h \in Goroutines : loop'[h] = "fetch" <=> pc'[h] # "idle"
      BY <3>1 DEF ChannelInv, DomainTypeOK
    <3> QED
      BY <3>1, <3>2, EndMoves DEF Busy
  <2>5. CASE Fetches(g) \/ Refused(g)
    <3>1. /\ UNCHANGED <<main, left, loop>> /\ pc[g] # "idle" /\ pc'[g] # "idle"
          /\ pc' = [pc EXCEPT ![g] = pc'[g]]
      BY <2>5 DEF Fetches, Refused, Goes, Send, BadUrl, Respond, Request, Redirect, ChannelInv, DomainTypeOK
    <3>2. \A h \in Goroutines : loop'[h] = "fetch" <=> pc'[h] # "idle"
      BY <3>1 DEF ChannelInv, DomainTypeOK
    <3> QED
      BY <3>1, <3>2 DEF Busy, Cancelled
  <2>6. CASE Releases(g)
    <3>1. /\ UNCHANGED <<main, left>> /\ pc[g] # "idle" /\ pc' = [pc EXCEPT ![g] = pc'[g]]
          /\ loop' = [loop EXCEPT ![g] = IF pc'[g] = "idle" THEN "settle" ELSE @]
      BY <2>6 DEF Releases, Find, Receive, Goes, ChannelInv, DomainTypeOK
    <3>2. loop[g] = "fetch"
      BY <3>1
    <3>3. \A h \in Goroutines : loop'[h] = "fetch" <=> pc'[h] # "idle"
      BY <3>1, <3>2 DEF ChannelInv, DomainTypeOK
    <3> QED
      BY <3>1, <3>2, <3>3, EndMoves DEF Busy
  <2>7. CASE Settles(g)
    <3>1. CASE loop'[g] = "gap"
      BY <2>7, <3>1, EndMoves DEF Settles, Moves, Busy, domainVars
    <3>2. CASE loop'[g] # "gap"
      BY <2>7, <3>2, EndGivesUp DEF Settles, Moves, domainVars
    <3> QED
      BY <3>1, <3>2
  <2>8. CASE AddsRetry(g)
    BY <2>8, EndGivesUp DEF AddsRetry, Moves, domainVars
  <2> QED
    BY <1>1, <2>1, <2>2, <2>3, <2>4, <2>5, <2>6, <2>7, <2>8 DEF GoroutineNext
<1>2. CASE RecoveryReturns \/ Time \/ UNCHANGED processVars
  <2>1. UNCHANGED <<main, loop, left, pc>>
    BY <1>2 DEF RecoveryReturns, Time, Tick, processVars, domainVars
  <2> QED
    BY <2>1 DEF Busy, Cancelled
<1>3. CASE Signal
  BY <1>3 DEF Signal, Busy, Cancelled, domainVars
<1>4. CASE Closes
  BY <1>4 DEF Closes, AllDone, Busy, Cancelled, domainVars
<1> QED
  BY <1>1, <1>2, <1>3, <1>4 DEF ProcessNext

-----------------------------------------------------------------------------
(* The theorems.                                                           *)

ProcessInv == ChannelInv /\ SlotsMatchHolders /\ PaceInv /\ EndInv

(* The strengthening that the properties share is an invariant of every     *)
(* process (fetcher.go:68-184, pool.go:75-198).                             *)
THEOREM ProcessInvariant == ProcessSpec => []ProcessInv
<1>1. ProcessInit => ProcessInv
  BY ChannelInit, SlotsInit, PaceInit, EndInit DEF ProcessInit, ProcessInv
<1>2. ProcessInv /\ [ProcessNext]_processVars => ProcessInv'
  BY ProcessStepIsDomainStep, ChannelStep, SlotsStep, PaceStep, EndStep DEF ProcessInv
<1> QED
  BY <1>1, <1>2, PTL DEF ProcessSpec

(* Every goroutine in Fetch has the one channel of its domain               *)
(* (fetcher.go:160-184).                                                    *)
THEOREM LimiterTypes == ProcessSpec => []DomainTypeOK
<1>1. ProcessInv => DomainTypeOK
  BY DEF ProcessInv, ChannelInv
<1> QED
  BY <1>1, ProcessInvariant, PTL

(* A slot of a domain is taken exactly while a goroutine is between its     *)
(* Acquire and its Release (fetcher.go:77-78, 160-184).                     *)
THEOREM SlotsAreHolders == ProcessSpec => []SlotsMatchHolders
<1>1. ProcessInv => SlotsMatchHolders
  BY DEF ProcessInv
<1> QED
  BY <1>1, ProcessInvariant, PTL

(* No more than MaxConc requests of a domain start within Delay ticks, since *)
(* a slot is held through the delay and the request (fetcher.go:160-184).   *)
THEOREM RequestsPaced == ProcessSpec => []SlotsPaceRequests
<1>1. ProcessInv => SlotsPaceRequests
  BY PaceImpliesProperty DEF ProcessInv
<1> QED
  BY <1>1, ProcessInvariant, PTL

(* When the fetcher is closed no goroutine is in Fetch and every slot is    *)
(* free (pool.go:86-93).                                                    *)
THEOREM ClosedIsIdle == ProcessSpec => []ClosedMeansIdle
<1>1. ASSUME ProcessInv, main = "closed"
      PROVE  (\A g \in Goroutines : pc[g] = "idle") /\ (\A c \in DOMAIN filled : filled[c] = 0)
  <2>1. \A g \in Goroutines : pc[g] = "idle"
    BY <1>1 DEF ProcessInv, EndInv
  <2> SUFFICES ASSUME NEW c \in DOMAIN filled
               PROVE  filled[c] = 0
    BY <2>1
  <2>2. PICK d \in Domains : limiters[d] = c
    BY <1>1 DEF ProcessInv, ChannelInv, ChannelsOwned
  <2>3. Holding(d) = {}
    BY <2>1 DEF Holding
  <2>4. c # NoChannel
    BY <1>1, DomainAssumption DEF ProcessInv, ChannelInv, DomainTypeOK
  <2> QED
    BY <1>1, <2>2, <2>3, <2>4, FS_EmptySet DEF ProcessInv, SlotsMatchHolders, IsNew
<1>2. ProcessInv => ClosedMeansIdle
  BY <1>1 DEF ClosedMeansIdle
<1> QED
  BY <1>2, ProcessInvariant, PTL

(* A process that stops leaves at most one task per goroutine behind        *)
(* (pool.go:110-198).                                                       *)
THEOREM LeavesOneTaskEach == ProcessSpec => []OneTaskEach
<1>1. ProcessInv => OneTaskEach
  BY BusyFinite DEF ProcessInv, EndInv, ProcessTypeOK, OneTaskEach
<1> QED
  BY <1>1, ProcessInvariant, PTL
=============================================================================
