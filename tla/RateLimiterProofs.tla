------------------------- MODULE RateLimiterProofs -------------------------
(* The token bucket keeps its books for every speed, every order of        *)
(* timestamps and every number of workers.                                 *)
EXTENDS RateLimiter, TLAPS

(* The constants of the script are positive numbers.                       *)
LEMMA Constants ==
  /\ SecondsPerHour \in Nat \ {0}
  /\ Unit \in Nat \ {0}
  /\ DefaultSpeed \in Nat
<1>1. SecondsPerHour \in Nat \ {0}
  BY SMT DEF SecondsPerHour
<1>2. \A n \in Nat \ {0} : n * 1000 \in Nat \ {0}
  BY SMT
<1> QED
  BY <1>1, <1>2, SMT DEF Unit, DefaultSpeed

(* The burst of either rate is a number of tokens.                         *)
LEMMA RateFacts ==
  ASSUME speed \in {Gone, Speed}
  PROVE  Rate \in Nat /\ Burst \in Nat
<1>1. Rate \in Nat
  BY RateAssumption, Constants, SMT DEF Rate, Get
<1>2. \A n \in Nat : \A d \in Nat \ {0} : (n + d - 1) \div d \in Nat
  BY SMT
<1>3. (Rate + SecondsPerHour - 1) \div SecondsPerHour \in Nat
  BY <1>1, <1>2, Constants, SMT
<1> QED
  BY <1>1, <1>3, SMT DEF Burst

(* The same of the state after a step, as far as it is needed.             *)
LEMMA BurstNext ==
  ASSUME speed' \in {Gone, Speed}
  PROVE  Burst' * Unit' >= 0
<1>1. Rate' \in Nat
  BY RateAssumption, Constants, SMT DEF Rate, Get, DefaultSpeed
<1>2. \A n \in Nat : \A d \in Nat \ {0} : (n + d - 1) \div d \in Nat
  BY SMT
<1>3. SecondsPerHour' = SecondsPerHour
  BY DEF SecondsPerHour
<1>4. (Rate' + SecondsPerHour - 1) \div SecondsPerHour \in Nat
  BY <1>1, <1>2, Constants, Zenon
<1>5. Burst' \in Nat
  BY <1>1, <1>3, <1>4, SMT DEF Burst
<1>6. Unit' = Unit
  BY DEF Unit, SecondsPerHour
<1>7. \A b, u \in Nat : b * u >= 0
  BY SMT
<1>8. Unit \in Nat
  BY Constants, SMT
<1> QED
  BY <1>5, <1>6, <1>7, <1>8, Zenon

(* What is granted is a number of whole tokens that were there: if any are  *)
(* granted, no debt is left, and if there is a debt none are granted.      *)
LEMMA GrantFacts ==
  ASSUME NEW amount \in Int
  PROVE  /\ Grant(amount) \in Nat
         /\ Left(amount) \in Int
         /\ Left(amount) = amount - Grant(amount) * Unit
         /\ Left(amount) <= amount
         /\ Grant(amount) = 0 \/ Left(amount) >= 0
<1> USE RateAssumption, Constants DEF Grant, Left
<1>1. CASE amount >= Count * Unit
  BY <1>1, SMT
<1>2. CASE amount < Count * Unit /\ amount >= Unit
  BY <1>2, SMT
<1>3. CASE amount < Count * Unit /\ amount < Unit
  BY <1>3, SMT
<1> QED
  BY <1>1, <1>2, <1>3, SMT

(* A product with a sum of two spans of time.                              *)
LEMMA Spans ==
  ASSUME NEW r \in Nat, NEW a \in Int, NEW b \in Int, NEW c \in Int
  PROVE  r * (c - a) = r * (b - a) + (c - b) * r
  OBVIOUS

(* A longer span is worth no less.                                         *)
LEMMA SpansGrow ==
  ASSUME NEW r \in Nat, NEW a \in Int, NEW b \in Int, NEW c \in Int, b <= c
  PROVE  r * (b - a) <= r * (c - a)
<1>1. r * (c - a) = r * (b - a) + r * (c - b)
  OBVIOUS
<1>2. r * (c - b) >= 0
  OBVIOUS
<1> QED
  BY <1>1, <1>2

(* The later the latest stamp, the more may be owed.                       *)
LEMMA DebtShrinks ==
  ASSUME NEW r \in Nat, NEW a \in Int, NEW b \in Int, NEW c \in Int, b <= c, a <= c
  PROVE  r * (a - c) <= r * (a - b) /\ r * (a - c) <= 0
<1>1. r * (a - b) = r * (a - c) + r * (c - b) /\ r * (c - b) >= 0
  OBVIOUS
<1>2. r * (a - c) = -(r * (c - a)) /\ r * (c - a) >= 0
  OBVIOUS
<1>3. r * (a - b) \in Int /\ r * (a - c) \in Int /\ r * (c - b) \in Int /\ r * (c - a) \in Int
  OBVIOUS
<1> QED
  BY <1>1, <1>2, <1>3

(* What the three properties need of each other.                           *)
Books == RateTypeOK /\ PaidOnce /\ WindowBound

-----------------------------------------------------------------------------

(* The keys do not exist, and nothing has been granted.                    *)
LEMMA BooksInit == RateInit => Books
<1> SUFFICES ASSUME RateInit PROVE Books
  OBVIOUS
<1>1. Burst * Unit >= 0
  BY RateFacts, Constants, SMT DEF RateInit
<1>2. RateTypeOK
  BY <1>1, RateAssumption, SMT DEF RateInit, RateTypeOK, Get, Opened
<1> QED
  BY <1>2, Zenon DEF RateInit, Books, PaidOnce, WindowBound

(* The script pays for the time since the last stamp, or opens new books.  *)
LEMMA AcquireKeepsBooks ==
  ASSUME Books, NEW now \in Times, Acquire(now)
  PROVE  Books'
<1> DEFINE filled == Get(tokens, 0) + Elapsed(now) * Rate
           amount == Capped(filled)
           got    == Grant(amount)
<1>1. /\ RateTypeOK /\ PaidOnce /\ WindowBound
      /\ Unit \in Nat \ {0} /\ Rate \in Nat /\ Burst \in Nat
      /\ now \in Int
      /\ Get(tokens, 0) \in Int /\ Get(tokens, 0) <= Burst * Unit
  BY RateFacts, Constants, RateAssumption DEF Books, RateTypeOK, Get
<1>2. Rate' = Rate /\ Burst' = Burst /\ speed' = speed /\ setup' = setup /\ setup = "done"
  BY DEF Acquire, Rate, Burst
<1>3. /\ filled \in Int /\ amount \in Int
      /\ amount <= filled /\ amount <= Burst * Unit
  BY <1>1 DEF Elapsed, RateTypeOK, Capped
<1>4. /\ got \in Nat
      /\ Left(amount) \in Int
      /\ Left(amount) = amount - got * Unit
      /\ Left(amount) <= amount
      /\ got = 0 \/ Left(amount) >= 0
  BY <1>3, GrantFacts
<1>5. /\ tokens' = amount - got * Unit
      /\ refill' = now
      /\ granted' = granted + got
      /\ granted' <= MaxGranted
      /\ spilled' = spilled + (filled - amount)
      /\ start' = IF refill = Gone THEN now ELSE start
      /\ latest' = IF refill = Gone \/ now > latest THEN now ELSE latest
      /\ window' = IF refill = Gone THEN Opened(now, 0)
                   ELSE [window EXCEPT !.last = IF now > @ THEN now ELSE @]
  BY <1>4 DEF Acquire
<1>6. /\ refill' \in Int /\ refill' # Gone /\ tokens' \in Int
      /\ (Get(tokens, 0))' = tokens'
  BY <1>1, <1>3, <1>4, <1>5, RateAssumption DEF Get
<1>7. CASE refill = Gone
  <2>1. granted = 0 /\ spilled = 0 /\ filled = 0
    BY <1>1, <1>7 DEF RateTypeOK, Elapsed
  <2>2. amount = 0 /\ got = 0
    <3>1. Burst * Unit >= 0 /\ Count * Unit > 0 /\ Unit > 0
      BY <1>1, RateAssumption, SMT
    <3>2. amount = 0
      BY <1>1, <2>1, <3>1, SMT DEF Capped
    <3> HIDE DEF filled, amount
    <3>3. got = 0
      BY <1>1, <3>1, <3>2, RateAssumption, SMT DEF Grant
    <3> QED
      BY <3>2, <3>3
  <2>3. /\ tokens' = 0 /\ granted' = 0 /\ spilled' = 0 /\ start' = now /\ latest' = now
        /\ window' = [from |-> now, granted |-> 0, last |-> now]
    BY <1>1, <1>5, <1>7, <2>1, <2>2 DEF Opened
  <2>9. Rate * (now - now) = 0
    BY <1>1, SMT
  <2>4. RateTypeOK'
    BY <1>1, <1>2, <1>5, <1>6, <2>3, <2>9, RateAssumption DEF RateTypeOK
  <2>5. 0 * Unit = 0 /\ Rate * (now - now) = 0 /\ (0 - 0) * Unit = 0 /\ Burst * Unit >= 0
    BY <1>1, SMT
  <2>6. Unit' = Unit
    BY DEF Unit, SecondsPerHour
  <2>7. PaidOnce'
    BY <1>1, <1>2, <1>5, <1>6, <2>3, <2>5, <2>6, SMT DEF PaidOnce
  <2>8. WindowBound'
    <3>1. /\ granted' = 0 /\ window'.granted = 0 /\ window'.last = now
          /\ window'.from = now /\ refill' = now /\ (Get(tokens, 0))' = 0
      BY <1>5, <1>6, <2>3
    <3>2. (0 - 0) * Unit <= Burst * Unit + Rate * (now - now)
      BY <1>1, <2>5, SMT
    <3>3. (0 - 0) * Unit + 0 <= Burst * Unit + Rate * (now - now)
      BY <1>1, <2>5, SMT
    <3> QED
      BY <1>2, <2>6, <3>1, <3>2, <3>3, Zenon DEF WindowBound
  <2> QED
    BY <2>4, <2>7, <2>8 DEF Books
<1>8. CASE refill # Gone
  <2>1. /\ refill \in Int /\ start \in Int /\ latest \in Int /\ spilled \in Nat /\ granted \in Nat
        /\ window \in [from : Int, granted : 0..granted, last : Int]
        /\ refill <= window.last /\ window.from <= window.last
    BY <1>1, <1>8 DEF RateTypeOK
  <2>2. filled = Get(tokens, 0) + (now - refill) * Rate
    BY <1>8 DEF Elapsed
  <2>3. /\ start' = start
        /\ window' \in [from : Int, granted : 0..granted', last : Int]
        /\ window'.from = window.from /\ window'.granted = window.granted
        /\ window'.last >= now /\ window'.last >= window.last
    <3> HIDE DEF filled, amount, got
    <3>1. granted' >= granted /\ granted' \in Int
      BY <1>4, <1>5, <2>1, SMT
    <3>2. window' = [window EXCEPT !.last = IF now > @ THEN now ELSE @] /\ start' = start
      BY <1>5, <1>8
    <3> QED
      BY <1>1, <2>1, <3>1, <3>2, SMT
  <2>4. RateTypeOK'
    <3>1. spilled' \in Nat /\ granted' \in 0..MaxGranted /\ tokens' <= Burst * Unit
      <4>1. Burst * Unit \in Int
        BY <1>1, SMT
      <4> HIDE DEF filled, amount, got
      <4>2. tokens' = Left(amount)
        BY <1>4, <1>5
      <4> QED
        BY <1>3, <1>4, <1>5, <2>1, <4>1, <4>2, RateAssumption, SMT
    <3>2. Unit' = Unit
      BY DEF Unit, SecondsPerHour
    <3>3. /\ latest' \in Int /\ latest' >= latest /\ now <= latest'
      BY <1>1, <1>5, <1>8, <2>1
    <3>4. Rate * (now - latest') <= tokens'
      <4>1. Rate * (refill - latest) <= Get(tokens, 0)
        BY <1>1, <1>8 DEF RateTypeOK
      <4>2. /\ Rate * (now - latest) = Rate * (refill - latest) + (now - refill) * Rate
            /\ Rate * (now - latest') <= Rate * (now - latest)
            /\ Rate * (now - latest') <= 0
        <5>1. Rate * (now - latest) = Rate * (refill - latest) + (now - refill) * Rate
          BY <1>1, <2>1, Spans
        <5>2. PICK l \in Int : l = latest' /\ latest <= l /\ now <= l
          BY <3>3
        <5>3. Rate * (now - l) <= Rate * (now - latest) /\ Rate * (now - l) <= 0
          BY <1>1, <2>1, <5>2, DebtShrinks
        <5> QED
          BY <5>1, <5>2, <5>3, Zenon
      <4> DEFINE e == (now - refill) * Rate
                 d == Rate * (refill - latest)
                 c == Rate * (now - latest)
                 x == Rate * (now - latest')
      <4>9. now - refill \in Int /\ refill - latest \in Int /\ now - latest \in Int /\ now - latest' \in Int
        BY <1>1, <2>1, <3>3
      <4>10. \A i \in Int : i * Rate \in Int /\ Rate * i \in Int
        BY <1>1
      <4>3. e \in Int /\ d \in Int /\ c \in Int /\ x \in Int /\ Burst * Unit >= 0
        <5>1. Burst * Unit >= 0
          BY <1>1, SMT
        <5> QED
          BY <4>9, <4>10, <5>1
      <4>4. d <= Get(tokens, 0) /\ c = d + e /\ x <= c /\ x <= 0
        BY <4>1, <4>2
      <4>5. filled = Get(tokens, 0) + e /\ tokens' = Left(amount)
        BY <1>4, <1>5, <2>2
      <4> HIDE DEF e, d, c, x
      <4>6. amount = filled \/ amount >= 0
        BY <4>3 DEF Capped
      <4> HIDE DEF filled, amount, got
      <4>7. x <= amount
        BY <1>1, <1>3, <4>3, <4>4, <4>5, <4>6
      <4>8. x <= tokens'
        <5>1. CASE got = 0
          <6>1. got * Unit = 0
            BY <1>1, <5>1
          <6> QED
            BY <1>3, <1>4, <4>5, <4>7, <6>1
        <5>2. CASE Left(amount) >= 0
          BY <1>4, <4>3, <4>4, <4>5, <5>2
        <5> QED
          BY <1>4, <5>1, <5>2
      <4> QED
        BY <4>8 DEF x
    <3> QED
      BY <1>1, <1>2, <1>5, <1>6, <2>1, <2>3, <3>1, <3>2, <3>3, <3>4, SMT DEF RateTypeOK
  <2>5. PaidOnce'
    <3>1. granted * Unit + Get(tokens, 0) + spilled = Rate * (refill - start)
      BY <1>1, <1>8 DEF PaidOnce
    <3>2. Rate * (now - start) = Rate * (refill - start) + (now - refill) * Rate
      BY <1>1, <2>1, Spans
    <3>3. granted' * Unit = granted * Unit + got * Unit
      BY <1>1, <1>4, <1>5, <2>1
    <3> DEFINE g == granted * Unit
               h == got * Unit
               r == Rate * (refill - start)
               e == (now - refill) * Rate
    <3>4. g \in Int /\ h \in Int /\ r \in Int /\ e \in Int
      BY <1>1, <1>4, <2>1, SMT
    <3> HIDE DEF filled, amount, got, g, h, r, e
    <3>5. g + Get(tokens, 0) + spilled = r
      BY <3>1 DEF g, r
    <3>6. (g + h) + (amount - h) + (spilled + ((Get(tokens, 0) + e) - amount)) = r + e
      <4>1. amount \in Int /\ Get(tokens, 0) \in Int /\ spilled \in Int
        BY <1>1, <1>3, <2>1
      <4>2. PICK t \in Int : t = Get(tokens, 0)
        BY <4>1
      <4>3. g + t + spilled = r
        BY <3>5, <4>2, Zenon
      <4>4. (g + h) + (amount - h) + (spilled + ((t + e) - amount)) = r + e
        BY <3>4, <4>1, <4>3, SMT
      <4> QED
        BY <4>2, <4>4, Zenon
    <3>8. granted' * Unit + tokens' + spilled' = Rate * (now - start)
      BY <1>5, <2>2, <3>2, <3>3, <3>6 DEF g, h, r, e
    <3>7. Unit' = Unit
      BY DEF Unit, SecondsPerHour
    <3> QED
      BY <1>2, <1>5, <1>6, <2>3, <3>7, <3>8, SMT DEF PaidOnce
  <2>6. WindowBound'
    <3> DEFINE u == (granted - window.granted) * Unit
               h == got * Unit
               b == Burst * Unit
               r == Rate * (refill - window.from)
               e == (now - refill) * Rate
    <3>1. u \in Int /\ h \in Nat /\ b \in Nat /\ r \in Int /\ e \in Int
      BY <1>1, <1>4, <2>1
    <3>2. (granted' - window.granted) * Unit = u + h
      BY <1>1, <1>4, <1>5, <2>1
    <3>3. /\ u <= b + Rate * (window.last - window.from)
          /\ u + Get(tokens, 0) <= b + r
      BY <1>1, <1>8 DEF WindowBound
    <3>4. Rate * (now - window.from) = r + e
      BY <1>1, <2>1, Spans
    <3>5. /\ Rate * (now - window.from) <= Rate * (window'.last - window.from)
          /\ Rate * (window.last - window.from) <= Rate * (window'.last - window.from)
      BY <1>1, <2>1, <2>3, SpansGrow
    <3>6. /\ Rate * (now - window.from) \in Int
          /\ Rate * (window.last - window.from) \in Int
          /\ Rate * (window'.last - window.from) \in Int
      BY <1>1, <2>1, <2>3
    <3>7. filled = Get(tokens, 0) + e /\ tokens' = amount - h
      BY <1>5, <2>2
    <3> HIDE DEF u, h, b, r, e, filled, amount, got
    <3>8. u + h + tokens' <= b + Rate * (now - window.from)
      BY <1>1, <1>3, <3>1, <3>3, <3>4, <3>7
    <3>9. u + h <= b + Rate * (window'.last - window.from)
      <4>1. CASE got = 0
        <5>1. h = 0
          BY <1>1, <4>1 DEF h
        <5> QED
          BY <3>1, <3>3, <3>5, <3>6, <5>1
      <4>2. CASE tokens' >= 0
        BY <1>6, <3>1, <3>5, <3>6, <3>8, <4>2
      <4> QED
        BY <1>4, <1>5, <4>1, <4>2
    <3>10. Unit' = Unit
      BY DEF Unit, SecondsPerHour
    <3> QED
      BY <1>2, <1>5, <1>6, <2>3, <3>2, <3>8, <3>9, <3>10, SMT DEF WindowBound, b
  <2> QED
    BY <2>4, <2>5, <2>6 DEF Books
<1> QED
  BY <1>7, <1>8

(* The pipeline of Init, Cleanup and the observer.                         *)
LEMMA SetupKeepsBooks ==
  ASSUME Books, SetSpeed \/ SetTokens \/ InitFails \/ Cleanup \/ Observe
  PROVE  Books'
<1>1. /\ RateTypeOK /\ PaidOnce /\ WindowBound
      /\ Unit \in Nat \ {0} /\ Rate \in Nat /\ Burst \in Nat
      /\ Burst * Unit \in Nat
  BY RateFacts, Constants, SMT DEF Books, RateTypeOK
<1>2. CASE SetSpeed
  <2>1. refill = Gone /\ refill' = Gone /\ speed' = Speed
    BY <1>1, <1>2 DEF SetSpeed, RateTypeOK
  <2>2. Burst' * Unit' >= 0
    BY <2>1, BurstNext
  <2> QED
    BY <1>1, <1>2, <2>1, <2>2, RateAssumption
       DEF SetSpeed, Books, RateTypeOK, PaidOnce, WindowBound, ledger, Get
<1>3. CASE SetTokens
  BY <1>1, <1>3, RateAssumption
     DEF SetTokens, Books, RateTypeOK, PaidOnce, WindowBound, ledger, Get, Rate, Burst
<1>4. CASE InitFails
  BY <1>1, <1>4
     DEF InitFails, Books, RateTypeOK, PaidOnce, WindowBound, keys, ledger, Get, Rate, Burst
<1>5. CASE Cleanup
  <2>1. Burst' * Unit' >= 0
    BY <1>5, BurstNext DEF Cleanup
  <2> QED
    BY <1>1, <1>5, <2>1, RateAssumption
       DEF Cleanup, Books, RateTypeOK, PaidOnce, WindowBound, Opened, Get
<1>6. CASE Observe
  <2>1. /\ window' = [from |-> refill, granted |-> granted, last |-> refill]
        /\ refill \in Int /\ granted \in Nat
        /\ speed' = speed /\ tokens' = tokens /\ refill' = refill /\ setup' = setup
        /\ start' = start /\ latest' = latest /\ granted' = granted /\ spilled' = spilled
        /\ Rate' = Rate /\ Burst' = Burst /\ (Get(tokens, 0))' = Get(tokens, 0)
    BY <1>1, <1>6 DEF Observe, Opened, keys, ledger, RateTypeOK, Rate, Burst, Get
  <2>2. RateTypeOK'
    BY <1>1, <2>1 DEF RateTypeOK
  <2>3. PaidOnce'
    BY <1>1, <2>1 DEF PaidOnce
  <2>4. WindowBound'
    <3>1. Get(tokens, 0) \in Int /\ Get(tokens, 0) <= Burst * Unit
      BY <1>1, RateAssumption DEF RateTypeOK, Get
    <3>2. (granted - granted) * Unit = 0 /\ Rate * (refill - refill) = 0
      BY <1>1, <2>1
    <3> QED
      BY <1>1, <2>1, <3>1, <3>2 DEF WindowBound
  <2> QED
    BY <2>2, <2>3, <2>4 DEF Books
<1> QED
  BY <1>2, <1>3, <1>4, <1>5, <1>6

(* Init's last command opens the books: nothing granted, nothing there.    *)
LEMMA RefillKeepsBooks ==
  ASSUME Books, NEW now \in Times, SetRefill(now)
  PROVE  Books'
<1>1. /\ RateTypeOK
      /\ Unit \in Nat \ {0} /\ Rate \in Nat /\ Burst \in Nat /\ now \in Int
      /\ granted = 0 /\ spilled = 0 /\ Get(tokens, 0) = 0
      /\ tokens \in Int \union {Gone} /\ speed \in {Gone, Speed}
  BY RateFacts, Constants, RateAssumption DEF Books, RateTypeOK, SetRefill
<1>2. /\ speed' = speed /\ tokens' = tokens /\ refill' = now /\ setup' = "done"
      /\ start' = now /\ latest' = now /\ granted' = 0 /\ spilled' = 0
      /\ window' = [from |-> now, granted |-> 0, last |-> now]
      /\ Rate' = Rate /\ Burst' = Burst /\ (Get(tokens, 0))' = 0
  BY <1>1 DEF SetRefill, Opened, Rate, Burst, Get
<1>5. Rate * (now - now) = 0 /\ Burst * Unit >= 0
  BY <1>1, SMT
<1>3. RateTypeOK'
  BY <1>1, <1>2, <1>5, RateAssumption DEF RateTypeOK
<1>4. PaidOnce' /\ WindowBound'
  BY <1>1, <1>2 DEF PaidOnce, WindowBound
<1> QED
  BY <1>3, <1>4 DEF Books

(* The invariant holds initially and every step keeps it.                  *)
LEMMA BooksInvariant == RateSpec => []Books
<1>1. Books /\ [RateNext]_rateVars => Books'
  <2> SUFFICES ASSUME Books, [RateNext]_rateVars PROVE Books'
    OBVIOUS
  <2>1. CASE RateNext
    BY <2>1, SetupKeepsBooks, AcquireKeepsBooks, RefillKeepsBooks DEF RateNext
  <2>2. CASE UNCHANGED rateVars
    BY <2>2
       DEF rateVars, keys, ledger, Books, RateTypeOK, PaidOnce, WindowBound, Get, Rate, Burst
  <2> QED
    BY <2>1, <2>2
<1> QED
  BY <1>1, BooksInit, PTL DEF RateSpec

(* For every speed and any timestamps: the bucket never holds more than the *)
(* burst of the job's rate, also when a job polls without its keys or when  *)
(* they are set up under its workers, and when stamps that go back have     *)
(* made it negative it owes at most the time by which the last one lies     *)
(* behind the latest (ratelimiter.go:38-92).                                *)
THEOREM BucketKeepsBounds == RateSpec => []RateTypeOK
<1>1. Books => RateTypeOK
  BY DEF Books
<1> QED
  BY <1>1, BooksInvariant, PTL

(* For every speed and any timestamps: no millisecond between the first     *)
(* and the last stamp is paid for twice, and none is lost                  *)
(* (ratelimiter.go:63-86).                                                 *)
THEOREM MillisecondsPaidOnce == RateSpec => []PaidOnce
<1>1. Books => PaidOnce
  BY DEF Books
<1> QED
  BY <1>1, BooksInvariant, PTL

(* For every speed and any timestamps: in any window the workers together  *)
(* are granted at most the burst and the rate (ratelimiter.go:63-86).      *)
THEOREM WindowNeverExceeded == RateSpec => []WindowBound
<1>1. Books => WindowBound
  BY DEF Books
<1> QED
  BY <1>1, BooksInvariant, PTL
=============================================================================
