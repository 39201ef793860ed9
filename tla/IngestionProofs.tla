-------------------------- MODULE IngestionProofs --------------------------
(* Theorems about the parser and the ingestion goroutine, for every file,  *)
(* limit and batch size, and for any number of failing calls.              *)
EXTENDS Ingestion, SequenceTheorems, FiniteSetTheorems, TLAPS

-----------------------------------------------------------------------------
(* The parser's loop invariant: what it has collected is what the rows it  *)
(* has read hold, and it returns when it has read enough or all there is.  *)
ParserInv ==
  /\ format \in {"csv", "xml"} /\ limit \in Nat
  /\ file \in Seq(Row)
  /\ pos \in 0..Len(file)
  /\ urls \in Seq(1..pos)
  /\ \A i, j \in DOMAIN urls : i < j => urls[i] < urls[j]
  /\ Range(urls) = {p \in Valid : p <= pos}
  /\ limit > 0 => Len(urls) <= limit
  /\ format = "csv" => columns = IF pos = 0 THEN 0 ELSE file[1].columns
  /\ format = "xml" => \A q \in 1..pos : file[q].kind # "malformed"
  /\ outcome = "returned" =>
       (limit > 0 /\ Len(urls) = limit) \/ \A p \in Valid : p <= pos

(* The pages the goroutine has looked at, those it has queued or is about  *)
(* to, and those it has looked at in vain.                                 *)
Looked == {Listed[i] : i \in 1..at}
Queue == pending \o tasks
Missing == Looked \ Range(Queue)

(* The goroutine's place in the list; a batch is no longer than what has   *)
(* been looked at since the last one ended.                                *)
PlaceInv ==
  /\ step \in {"parse", "limiter", "mark", "push", "setStatus", "addActive", "ended"}
  /\ at \in 0..Len(urls)
  /\ tasks \in Seq(Pages) /\ pending \in Seq(Pages)
  /\ active \in BOOLEAN
  /\ step \in {"parse", "limiter"} => at = 0 /\ tasks = <<>> /\ pending = <<>>
  /\ step = "parse" => total = 0
  /\ step \notin {"parse", "ended"} => outcome = "returned" /\ urls # <<>>
  /\ step = "mark" => at < Len(urls) /\ Len(tasks) <= at % BatchSize
  /\ step = "push" => Len(tasks) <= BatchSize
  /\ step \in {"setStatus", "addActive"} \/ active => at = Len(urls) /\ tasks = <<>>
  /\ active => step = "ended"
  /\ total \in {0, Len(urls)}
  /\ status \in {"pending", "running", "failed"}
  /\ stop \in {"none", "deleted", "cleaned"}
  /\ faults \in 0..MaxFaults

SeenInv ==
  /\ seen \subseteq Looked /\ Range(Queue) \subseteq Looked
  /\ stop # "cleaned" => Range(Queue) \subseteq seen

CostInv ==
  stop = "none" => IsFiniteSet(Missing) /\ Cardinality(Missing) <= faults * BatchSize

OrderInv ==
  faults = 0 /\ stop = "none" =>
    /\ Looked \subseteq Range(Queue)
    /\ \A i, j \in DOMAIN Queue : i < j => Before(Queue[i], Queue[j])

TotalInv == faults = 0 /\ (step \notin {"parse", "ended"} \/ active) => total = Len(urls)

IngestInv ==
  /\ ParserInv
  /\ PlaceInv
  /\ SeenInv
  /\ EnqueuedOnce
  /\ CostInv
  /\ OrderInv
  /\ TotalInv

-----------------------------------------------------------------------------
(* Lists.                                                                  *)

LEMMA AppendRange ==
  ASSUME NEW S, NEW s \in Seq(S), NEW e \in S
  PROVE  /\ Append(s, e) \in Seq(S)
         /\ Len(Append(s, e)) = Len(s) + 1
         /\ \A i \in 1..Len(s) : Append(s, e)[i] = s[i]
         /\ Append(s, e)[Len(s) + 1] = e
         /\ Range(Append(s, e)) = Range(s) \union {e}
<1>1. /\ Append(s, e) \in Seq(S)
      /\ Len(Append(s, e)) = Len(s) + 1
      /\ \A i \in 1..Len(s) : Append(s, e)[i] = s[i]
      /\ Append(s, e)[Len(s) + 1] = e
  BY AppendProperties
<1>2. Range(Append(s, e)) = {Append(s, e)[i] : i \in 1..(Len(s) + 1)}
  BY <1>1, RangeEquality
<1>3. Range(s) = {s[i] : i \in 1..Len(s)}
  BY RangeEquality
<1>4. Len(s) \in Nat
  OBVIOUS
<1>5. Range(Append(s, e)) \subseteq Range(s) \union {e}
  <2> SUFFICES ASSUME NEW i \in 1..(Len(s) + 1)
               PROVE  Append(s, e)[i] \in Range(s) \union {e}
    BY <1>2
  <2> QED
    BY <1>1, <1>3, <1>4
<1>6. Range(s) \union {e} \subseteq Range(Append(s, e))
  <2>1. ASSUME NEW i \in 1..Len(s)
        PROVE  s[i] \in Range(Append(s, e))
    BY <1>1, <1>2, <1>4
  <2>2. e \in Range(Append(s, e))
    BY <1>1, <1>2, <1>4
  <2> QED
    BY <1>3, <2>1, <2>2
<1> QED
  BY <1>1, <1>5, <1>6

(* What a broken pipeline has pushed.                                      *)
LEMMA PrefixProperties ==
  ASSUME NEW S, NEW s \in Seq(S), NEW t \in Prefixes(s)
  PROVE  /\ t \in Seq(S) /\ Len(t) <= Len(s)
         /\ \A i \in 1..Len(t) : t[i] = s[i]
         /\ Range(t) \subseteq Range(s)
<1>1. PICK n \in 0..Len(s) : t = SubSeq(s, 1, n)
  BY DEF Prefixes
<1>2. Len(s) \in Nat /\ \A i \in 1..n : s[i] \in S
  OBVIOUS
<1>3. t \in Seq(S) /\ Len(t) = n /\ \A i \in 1..n : t[i] = s[i]
  BY <1>1, <1>2, SubSeqProperties
<1>4. Range(t) = {t[i] : i \in 1..Len(t)} /\ Range(s) = {s[i] : i \in 1..Len(s)}
  BY <1>3, RangeEquality
<1> QED
  BY <1>2, <1>3, <1>4

LEMMA EmptyRange == Range(<<>>) = {}
BY EmptySeq DEF Range

(* A list has at most as many members as places.                           *)
LEMMA RangeCardinality ==
  ASSUME NEW S, NEW s \in Seq(S)
  PROVE  IsFiniteSet(Range(s)) /\ Cardinality(Range(s)) <= Len(s)
<1>1. Len(s) \in Nat /\ s \in [1..Len(s) -> S]
  BY LenProperties
<1>2. Range(s) = {s[i] : i \in 1..Len(s)}
  BY RangeEquality
<1>3. s \in [1..Len(s) -> Range(s)] /\ \A x \in Range(s) : \E i \in 1..Len(s) : s[i] = x
  BY <1>1, <1>2
<1>4. s \in Surjection(1..Len(s), Range(s))
  BY <1>3 DEF Surjection
<1>5. 1 \in Int /\ Len(s) \in Int
  BY <1>1
<1>6. IsFiniteSet(1..Len(s)) /\ Cardinality(1..Len(s)) = IF 1 > Len(s) THEN 0 ELSE Len(s) - 1 + 1
  BY <1>5, FS_Interval
<1>7. IsFiniteSet(Range(s)) /\ Cardinality(Range(s)) <= Cardinality(1..Len(s))
  BY <1>4, <1>6, FS_Surjection
<1>8. Cardinality(1..Len(s)) = Len(s)
  BY <1>1, <1>6
<1> QED
  BY <1>7, <1>8

(* Within a batch the remainder grows by one.                              *)
LEMMA RemainderGrows ==
  ASSUME NEW n \in Nat, NEW b \in Nat \ {0}
  PROVE  /\ n % b \in 0..(b - 1)
         /\ (n + 1) % b # 0 => (n + 1) % b = (n % b) + 1
<1>1. n % b \in 0..(b - 1) /\ (n + 1) % b \in 0..(b - 1)
  OBVIOUS
<1>2. n = b * (n \div b) + (n % b) /\ n + 1 = b * ((n + 1) \div b) + ((n + 1) % b)
  OBVIOUS
<1>3. PICK d \in Int : d = ((n + 1) \div b) - (n \div b)
  OBVIOUS
<1>4. b * d = (n % b) + 1 - ((n + 1) % b)
  BY <1>1, <1>2, <1>3
<1>5. CASE d = 0
  BY <1>1, <1>4, <1>5
<1>6. CASE d >= 1
  <2>1. b * d >= b
    BY <1>6
  <2> QED
    BY <1>1, <1>4, <2>1
<1>7. CASE d <= -1
  <2>1. b * d <= -b
    BY <1>7
  <2> QED
    BY <1>1, <1>4, <2>1
<1> QED
  BY <1>5, <1>6, <1>7

-----------------------------------------------------------------------------
(* The parser.                                                             *)

LEMMA ListedPages ==
  ASSUME ParserInv
  PROVE  /\ Len(urls) \in Nat /\ DOMAIN urls = 1..Len(urls)
         /\ Listed \in Seq(Pages) /\ Len(Listed) = Len(urls) /\ DOMAIN Listed = 1..Len(urls)
         /\ Range(Listed) = {Listed[i] : i \in 1..Len(urls)}
<1>1. Len(urls) \in Nat /\ DOMAIN urls = 1..Len(urls)
  BY LenProperties DEF ParserInv
<1>2. Range(urls) = {urls[i] : i \in 1..Len(urls)}
  BY RangeEquality DEF ParserInv
<1>3. Listed \in [1..Len(urls) -> Pages]
  BY <1>1, <1>2 DEF ParserInv, Valid, Listed
<1>4. Listed \in Seq(Pages) /\ Len(Listed) = Len(urls)
  BY <1>1, <1>3
<1> QED
  BY <1>1, <1>3, <1>4, RangeEquality

LEMMA ParserStarts == ParserInit => ParserInv
<1> SUFFICES ASSUME ParserInit PROVE ParserInv
  OBVIOUS
<1>1. PICK m \in 0..MaxRows : file \in [1..m -> Row]
  BY DEF ParserInit, BoundedSeq, SeqOf
<1>2. file \in Seq(Row) /\ Len(file) \in Nat /\ DOMAIN file = 1..Len(file)
  BY <1>1, ParserAssumption
<1>3. limit \in Nat
  BY ParserAssumption DEF ParserInit
<1>4. Range(urls) = {p \in Valid : p <= pos}
  BY <1>2, EmptyRange DEF ParserInit, Valid
<1>5. urls \in Seq(1..pos) /\ Len(urls) = 0 /\ DOMAIN urls = {}
  BY DEF ParserInit
<1> QED
  BY <1>2, <1>3, <1>4, <1>5 DEF ParserInit, ParserInv

(* A row is read, and its URL collected if it holds one.                   *)
LEMMA Collects ==
  ASSUME ParserInv, ~Full, pos < Len(file), pos' = pos + 1,
         urls' = IF pos' \in Valid THEN Append(urls, pos') ELSE urls
  PROVE  /\ pos' \in 0..Len(file)
         /\ urls' \in Seq(1..pos')
         /\ \A i, j \in DOMAIN urls' : i < j => urls'[i] < urls'[j]
         /\ Range(urls') = {p \in Valid : p <= pos'}
         /\ limit > 0 => Len(urls') <= limit
<1>1. /\ urls \in Seq(1..pos) /\ pos \in Nat /\ pos' \in Nat /\ Len(file) \in Nat
      /\ Range(urls) = {p \in Valid : p <= pos}
      /\ \A i, j \in DOMAIN urls : i < j => urls[i] < urls[j]
  BY DEF ParserInv
<1>2. urls \in Seq(1..pos') /\ Len(urls) \in Nat /\ DOMAIN urls = 1..Len(urls)
      /\ \A i \in 1..Len(urls) : urls[i] < pos'
  <2>1. (1..pos) \subseteq (1..pos')
    BY <1>1
  <2> QED
    BY <1>1, <2>1, SeqMonotonic
<1>3. pos' \in 0..Len(file)
  BY <1>1
<1>4. Valid \subseteq Nat
  BY <1>1 DEF Valid, ParserInv
<1>5. CASE pos' \notin Valid
  <2>1. \A p \in Valid : p <= pos' <=> p <= pos
    <3> SUFFICES ASSUME NEW p \in Valid, p # pos'
                 PROVE  p <= pos' <=> p <= pos
      BY <1>5
    <3>1. p \in Nat
      BY <1>4
    <3> QED
      BY <1>1, <3>1
  <2>2. urls' = urls /\ {p \in Valid : p <= pos'} = {p \in Valid : p <= pos}
    BY <1>5, <2>1
  <2> QED
    BY <1>1, <1>2, <1>3, <2>2 DEF ParserInv
<1>6. CASE pos' \in Valid
  <2>1. urls' = Append(urls, pos') /\ pos' \in 1..pos'
    BY <1>1, <1>6
  <2>2. /\ Append(urls, pos') \in Seq(1..pos')
        /\ Len(Append(urls, pos')) = Len(urls) + 1
        /\ \A i \in 1..Len(urls) : Append(urls, pos')[i] = urls[i]
        /\ Append(urls, pos')[Len(urls) + 1] = pos'
        /\ Range(Append(urls, pos')) = Range(urls) \union {pos'}
    BY <1>2, <2>1, AppendRange
  <2>3. /\ urls' \in Seq(1..pos')
        /\ Len(urls') = Len(urls) + 1
        /\ \A i \in 1..Len(urls) : urls'[i] = urls[i]
        /\ urls'[Len(urls) + 1] = pos'
        /\ Range(urls') = Range(urls) \union {pos'}
    BY <2>1, <2>2
  <2>4. DOMAIN urls' = 1..(Len(urls) + 1)
    BY <2>3
  <2>5. \A i, j \in DOMAIN urls' : i < j => urls'[i] < urls'[j]
    BY <1>1, <1>2, <2>3, <2>4
  <2>6. \A p \in Valid : p <= pos' <=> p <= pos \/ p = pos'
    <3> SUFFICES ASSUME NEW p \in Valid
                 PROVE  p <= pos' <=> p <= pos \/ p = pos'
      OBVIOUS
    <3>1. p \in Nat
      BY <1>4
    <3> QED
      BY <1>1, <3>1
  <2>7. {p \in Valid : p <= pos'} = {p \in Valid : p <= pos} \union {pos'}
    BY <1>6, <2>6
  <2>8. limit > 0 => Len(urls') <= limit
    <3>1. limit \in Nat /\ (limit > 0 => ~(Len(urls) >= limit))
      BY DEF Full, ParserInv
    <3> QED
      BY <1>2, <2>3, <3>1
  <2> QED
    BY <1>1, <1>3, <2>3, <2>5, <2>7, <2>8
<1> QED
  BY <1>5, <1>6

LEMMA ParserStep ==
  ASSUME ParserInv, ParserNext
  PROVE  ParserInv'
<1>1. ASSUME Returns, Full \/ \A p \in Valid : p <= pos
      PROVE  ParserInv'
  <2>1. /\ UNCHANGED <<format, limit, file, pos, columns, urls>> /\ Valid' = Valid
    BY <1>1 DEF Returns, source, Valid, Readable
  <2>2. Full => limit > 0 /\ Len(urls) = limit
    BY DEF Full, ParserInv
  <2> QED
    BY <1>1, <2>1, <2>2 DEF ParserInv
<1>2. CASE LimitReached
  BY <1>1, <1>2 DEF LimitReached
<1>3. ASSUME ~Full, outcome' = "reading", UNCHANGED source, pos < Len(file), pos' = pos + 1,
             urls' = IF pos' \in Valid THEN Append(urls, pos') ELSE urls,
             format = "csv" => columns' = file[1].columns,
             format = "xml" => file[pos'].kind # "malformed"
      PROVE  ParserInv'
  <2>1. /\ pos' \in 0..Len(file)
        /\ urls' \in Seq(1..pos')
        /\ \A i, j \in DOMAIN urls' : i < j => urls'[i] < urls'[j]
        /\ Range(urls') = {p \in Valid : p <= pos'}
        /\ limit > 0 => Len(urls') <= limit
    BY <1>3, Collects
  <2>2. UNCHANGED <<format, limit, file>> /\ Valid' = Valid
    BY <1>3 DEF source, Valid, Readable
  <2>3. pos \in Nat /\ pos' # 0 /\ \A q \in 1..pos' : q \in 1..pos \/ q = pos'
    BY <1>3 DEF ParserInv
  <2>4. format = "xml" => \A q \in 1..pos' : file[q].kind # "malformed"
    BY <1>3, <2>3 DEF ParserInv
  <2>5. outcome' # "returned"
    BY <1>3
  <2> QED
    BY <1>3, <2>1, <2>2, <2>3, <2>4, <2>5 DEF ParserInv
<1>4. ASSUME pos < Len(file)
      PROVE  pos \in Nat /\ pos + 1 \in DOMAIN file /\ file[pos + 1] \in Row /\ file[1] \in Row
  <2>1. file \in Seq(Row) /\ pos \in Nat /\ Len(file) \in Nat
    BY DEF ParserInv
  <2>2. pos + 1 \in 1..Len(file) /\ 1 \in 1..Len(file)
    BY <1>4, <2>1
  <2> QED
    BY <2>1, <2>2, LenProperties
<1>5. CASE ReadRow
  <2>1. /\ ~Full /\ outcome = "reading" /\ format = "csv" /\ pos < Len(file) /\ pos' = pos + 1
        /\ columns' = IF columns = 0 THEN file[pos + 1].columns ELSE columns
        /\ urls' = IF file[pos + 1].kind \in Pages /\ Fits(file[pos + 1]) THEN Append(urls, pos') ELSE urls
        /\ UNCHANGED source /\ outcome' = "reading"
    BY <1>5 DEF ReadRow, Reading
  <2>2. /\ pos \in Nat /\ pos + 1 \in DOMAIN file
        /\ file[1].columns \in 1..2
        /\ columns = IF pos = 0 THEN 0 ELSE file[1].columns
    BY <1>4, <2>1 DEF ParserInv, Row
  <2>3. columns' = file[1].columns
    BY <2>1, <2>2
  <2>4. Fits(file[pos + 1]) <=> file[pos + 1].columns = file[1].columns
    BY <2>2 DEF Fits
  <2>5. pos' \in Valid <=> file[pos + 1].kind \in Pages /\ Fits(file[pos + 1])
    BY <2>1, <2>2, <2>4 DEF Valid, Readable
  <2> QED
    BY <1>3, <2>1, <2>3, <2>5
<1>6. CASE ReadError
  <2>1. UNCHANGED <<format, limit, file, pos, columns, urls, outcome>> /\ Valid' = Valid
    BY <1>6 DEF ReadError, source, Valid, Readable
  <2> QED
    BY <2>1 DEF ParserInv
<1>7. CASE ReadEof
  <2>1. \A p \in Valid : p <= pos
    BY <1>7 DEF ReadEof, Valid, ParserInv
  <2> QED
    BY <1>1, <1>7, <2>1 DEF ReadEof
<1>8. CASE ReadElement
  <2>1. /\ ~Full /\ outcome = "reading" /\ format = "xml" /\ pos < Len(file) /\ pos' = pos + 1
        /\ file[pos + 1].kind # "malformed"
        /\ urls' = IF file[pos'].kind \in Pages THEN Append(urls, pos') ELSE urls
        /\ UNCHANGED source /\ outcome' = "reading"
    BY <1>8 DEF ReadElement, Reading
  <2>2. pos \in Nat /\ pos' \in DOMAIN file /\ \A q \in 1..pos' : q \in 1..pos \/ q = pos'
    BY <1>4, <2>1
  <2>3. pos' \in Valid <=> file[pos'].kind \in Pages
    BY <2>1, <2>2 DEF ParserInv, Valid, Readable
  <2> QED
    BY <1>3, <2>1, <2>3
<1>9. CASE StopReading
  <2>1. /\ format = "xml" /\ Returns
        /\ pos < Len(file) => file[pos + 1].kind = "malformed"
    BY <1>9 DEF StopReading, Reading
  <2>2. pos \in Nat /\ Len(file) \in Nat /\ DOMAIN file = 1..Len(file)
    BY DEF ParserInv
  <2>3. ASSUME NEW p \in Valid, p > pos
        PROVE  FALSE
    <3>1. p \in 1..Len(file) /\ \A q \in 1..p : file[q].kind # "malformed"
      BY <2>1, <2>2, <2>3 DEF Valid, Readable
    <3>2. pos < Len(file) /\ pos + 1 \in 1..p
      BY <2>2, <2>3, <3>1
    <3> QED
      BY <2>1, <3>1, <3>2
  <2>4. \A p \in Valid : p <= pos
    BY <2>2, <2>3 DEF Valid
  <2> QED
    BY <1>1, <2>1, <2>4
<1> QED
  BY <1>2, <1>5, <1>6, <1>7, <1>8, <1>9 DEF ParserNext

(* The connection breaks behind the last row that was read.                *)
LEMMA CutSource ==
  ASSUME ParserInv, outcome = "reading", file' = SubSeq(file, 1, pos),
         UNCHANGED <<format, limit, pos, columns, urls, outcome>>
  PROVE  ParserInv'
<1>1. file \in Seq(Row) /\ pos \in Nat /\ Len(file) \in Nat /\ pos <= Len(file)
      /\ DOMAIN file = 1..Len(file)
  BY DEF ParserInv
<1>2. \A i \in 1..pos : file[i] \in Row
  BY <1>1
<1>3. file' \in Seq(Row) /\ Len(file') = pos /\ \A i \in 1..pos : file'[i] = file[i]
  BY <1>1, <1>2, SubSeqProperties
<1>4. DOMAIN file' = 1..pos
  BY <1>3
<1>5. ASSUME NEW p \in 1..pos
      PROVE  Readable(p)' <=> Readable(p)
  <2>1. 1 \in 1..pos /\ (1..p) \subseteq (1..pos)
    BY <1>1
  <2>2. file'[p] = file[p] /\ file'[1] = file[1] /\ \A q \in 1..p : file'[q] = file[q]
    BY <1>3, <2>1
  <2> QED
    BY <2>2 DEF Readable
<1>6. \A p \in 1..pos : p \in Valid' <=> p \in Valid
  BY <1>1, <1>3, <1>4, <1>5 DEF Valid
<1>7. {p \in Valid' : p <= pos'} = {p \in Valid : p <= pos}
  BY <1>1, <1>4, <1>6 DEF Valid
<1>8. pos # 0 => file'[1] = file[1]
  BY <1>1, <1>3
<1> QED
  BY <1>1, <1>3, <1>7, <1>8 DEF ParserInv

LEMMA ParserAnswers == ParserInv => ReturnsFirstUrls
<1> SUFFICES ASSUME ParserInv, outcome = "returned"
             PROVE  ReturnsFirstUrls
  BY DEF ReturnsFirstUrls
<1>1. Valid \subseteq Nat /\ pos \in Nat
  BY DEF ParserInv, Valid
<1>2. ASSUME NEW p \in Valid \ Range(urls)
      PROVE  limit > 0 /\ Len(urls) = limit /\ \A q \in Range(urls) : q < p
  <2>1. Range(urls) = {q \in Valid : q <= pos}
    BY DEF ParserInv
  <2>2. p \in Nat /\ ~(p <= pos)
    BY <1>1, <2>1
  <2>3. ASSUME NEW q \in Range(urls)
        PROVE  q < p
    <3>1. q \in Nat /\ q <= pos
      BY <1>1, <2>1
    <3> QED
      BY <1>1, <2>2, <3>1
  <2> QED
    BY <2>2, <2>3 DEF ParserInv
<1> QED
  BY <1>2 DEF ParserInv, ReturnsFirstUrls

-----------------------------------------------------------------------------
(* The list does not change once the goroutine works on it.                *)

LEMMA SameParser ==
  ASSUME ParserInv, UNCHANGED parserVars
  PROVE  ParserInv' /\ Listed' = Listed /\ UNCHANGED <<urls, outcome>>
BY DEF ParserInv, parserVars, source, Valid, Readable, Listed

LEMMA LooksFurther ==
  ASSUME ParserInv, PlaceInv, at < Len(urls), at' = at + 1, Listed' = Listed
  PROVE  /\ Listed[at'] \in Pages
         /\ Looked' = Looked \union {Listed[at']}
         /\ at' \in 0..Len(urls)
<1>1. Len(urls) \in Nat /\ at \in Nat /\ at' \in 1..Len(urls)
  <2>1. Len(urls) \in Nat /\ at \in 0..Len(urls)
    BY ListedPages DEF PlaceInv
  <2> QED
    BY <2>1
<1>2. Listed[at'] \in Pages
  BY <1>1, ListedPages
<1>3. \A i : i \in 1..at' <=> i \in 1..at \/ i = at'
  BY <1>1
<1>4. Looked' = {Listed[i] : i \in 1..at'}
  BY DEF Looked
<1> QED
  BY <1>1, <1>2, <1>3, <1>4 DEF Looked

(* All that is looked at is a finite part of the list.                     *)
LEMMA LookedFinite ==
  ASSUME ParserInv, PlaceInv
  PROVE  /\ Looked \subseteq Range(Listed) /\ IsFiniteSet(Looked)
         /\ at = Len(urls) => Looked = Range(Listed)
<1>1. Len(urls) \in Nat /\ at \in 0..Len(urls) /\ (1..at) \subseteq (1..Len(urls))
  <2>1. Len(urls) \in Nat /\ at \in 0..Len(urls)
    BY ListedPages DEF PlaceInv
  <2> QED
    BY <2>1
<1>2. Looked \subseteq Range(Listed) /\ (at = Len(urls) => Looked = Range(Listed))
  BY <1>1, ListedPages DEF Looked
<1>3. IsFiniteSet(Range(Listed))
  BY ListedPages, RangeCardinality
<1> QED
  BY <1>2, <1>3, FS_Subset

LEMMA QueueLists ==
  ASSUME PlaceInv
  PROVE  /\ Queue \in Seq(Pages) /\ Len(Queue) = Len(pending) + Len(tasks)
         /\ DOMAIN Queue = 1..Len(Queue)
         /\ Range(Queue) = {Queue[i] : i \in 1..Len(Queue)}
         /\ Range(Queue) = Range(pending) \union Range(tasks)
<1>1. pending \in Seq(Pages) /\ tasks \in Seq(Pages)
  BY DEF PlaceInv
<1>2. Queue \in Seq(Pages) /\ Len(Queue) = Len(pending) + Len(tasks)
  BY <1>1, ConcatProperties DEF Queue
<1>3. DOMAIN Queue = 1..Len(Queue) /\ Range(Queue) = {Queue[i] : i \in 1..Len(Queue)}
  BY <1>2, LenProperties, RangeEquality
<1>4. Range(Queue) = Range(pending) \union Range(tasks)
  BY <1>1, RangeConcatenation DEF Queue
<1> QED
  BY <1>2, <1>3, <1>4

-----------------------------------------------------------------------------
(* What a step costs.                                                      *)


LEMMA CostsNothing ==
  ASSUME CostInv, Missing' \subseteq Missing, UNCHANGED <<faults, stop>>
  PROVE  CostInv'
<1> SUFFICES ASSUME stop = "none"
             PROVE  IsFiniteSet(Missing') /\ Cardinality(Missing') <= faults' * BatchSize
  BY DEF CostInv
<1>1. IsFiniteSet(Missing') /\ Cardinality(Missing') <= Cardinality(Missing)
      /\ Cardinality(Missing') \in Nat /\ Cardinality(Missing) \in Nat
  BY FS_Subset, FS_CardinalityType DEF CostInv
<1>2. PICK m : m = faults * BatchSize
  OBVIOUS
<1> QED
  BY <1>1, <1>2, IngestionAssumption DEF CostInv

(* A fault costs at most a batch.                                          *)
LEMMA CostsABatch ==
  ASSUME PlaceInv, CostInv, faults' = faults + 1, stop' = stop,
         NEW S, IsFiniteSet(S), Cardinality(S) <= BatchSize, Missing' \subseteq Missing \union S
  PROVE  CostInv'
<1> SUFFICES ASSUME stop = "none"
             PROVE  IsFiniteSet(Missing') /\ Cardinality(Missing') <= faults' * BatchSize
  BY DEF CostInv
<1>1. /\ faults \in Nat /\ BatchSize \in Nat \ {0}
      /\ (faults + 1) * BatchSize = faults * BatchSize + BatchSize
  BY IngestionAssumption DEF PlaceInv
<1>2. PICK m \in Nat : m = faults * BatchSize
  BY <1>1
<1>3. IsFiniteSet(Missing) /\ Cardinality(Missing) \in Nat /\ Cardinality(Missing) <= m
  BY <1>2, FS_CardinalityType DEF CostInv
<1>4. /\ IsFiniteSet(Missing \union S) /\ Cardinality(S) \in Nat
      /\ Cardinality(Missing \intersect S) \in Nat
      /\ Cardinality(Missing \union S)
           = Cardinality(Missing) + Cardinality(S) - Cardinality(Missing \intersect S)
  BY <1>3, FS_Union, FS_Intersection, FS_CardinalityType
<1>5. /\ IsFiniteSet(Missing') /\ Cardinality(Missing') <= Cardinality(Missing \union S)
      /\ Cardinality(Missing') \in Nat /\ Cardinality(Missing \union S) \in Nat
  BY <1>4, FS_Subset, FS_CardinalityType
<1>6. Cardinality(Missing') <= m + BatchSize
  BY <1>1, <1>2, <1>3, <1>4, <1>5
<1>7. faults' * BatchSize = m + BatchSize
  BY <1>1, <1>2
<1> QED
  BY <1>5, <1>6, <1>7 DEF CostInv

-----------------------------------------------------------------------------
(* The steps that leave the list, the place in it and the queue alone.     *)
LEMMA KeepsQueue ==
  ASSUME PlaceInv, SeenInv, EnqueuedOnce, CostInv, OrderInv,
         Listed' = Listed, at' = at, seen' = seen, Queue' = Queue,
         UNCHANGED <<resent, stop>>,
         faults' = faults \/ faults' = faults + 1
  PROVE  SeenInv' /\ EnqueuedOnce' /\ CostInv' /\ OrderInv'
<1>1. Looked' = Looked /\ Missing' = Missing
  <2>1. Looked' = Looked
    BY DEF Looked
  <2> QED
    BY <2>1 DEF Missing
<1>2. SeenInv' /\ EnqueuedOnce'
  BY <1>1 DEF SeenInv, EnqueuedOnce, Queue
<1>3. CASE faults' = faults
  <2>1. CostInv'
    BY <1>1, <1>3, CostsNothing
  <2>2. OrderInv'
    BY <1>1, <1>3 DEF OrderInv, Before
  <2> QED
    BY <1>2, <2>1, <2>2
<1>4. CASE faults' = faults + 1
  <2>1. IsFiniteSet({}) /\ Cardinality({}) <= BatchSize
    BY FS_EmptySet, IngestionAssumption
  <2>2. CostInv'
    BY <1>1, <1>4, <2>1, CostsABatch
  <2>3. OrderInv'
    BY <1>4 DEF OrderInv, PlaceInv
  <2> QED
    BY <1>2, <2>2, <2>3
<1> QED
  BY <1>3, <1>4

LEMMA ParseStep ==
  ASSUME IngestInv, Parse
  PROVE  IngestInv'
<1> USE DEF IngestInv
<1>1. ParserInv' /\ outcome = "reading"
  BY ParserStep DEF Parse, ParserNext, LimitReached, ReadRow, ReadError, ReadEof, ReadElement,
                    StopReading, Reading
<1>2. /\ step = "parse" /\ at = 0 /\ tasks = <<>> /\ pending = <<>> /\ total = 0 /\ active = FALSE
      /\ UNCHANGED <<step, at, tasks, seen, pending, total, status, active, resent, stop, faults>>
  BY DEF Parse, PlaceInv, ingestVars, progressVars, jobVars
<1>3. Looked = {} /\ Looked' = {} /\ Queue = <<>> /\ Queue' = <<>>
  BY <1>2 DEF Looked, Queue
<1>4. PlaceInv'
  <2>1. Len(urls)' \in Nat
    BY <1>1, LenProperties DEF ParserInv
  <2> QED
    BY <1>2, <2>1 DEF PlaceInv
<1>5. SeenInv' /\ EnqueuedOnce'
  BY <1>2, <1>3 DEF SeenInv, EnqueuedOnce, Queue
<1>6. CostInv' /\ OrderInv' /\ TotalInv'
  <2>1. Missing' = Missing
    BY <1>3 DEF Missing
  <2>2. CostInv'
    BY <1>2, <2>1, CostsNothing
  <2>3. OrderInv'
    BY <1>3, EmptySeq DEF OrderInv
  <2>4. TotalInv'
    BY <1>2 DEF TotalInv
  <2> QED
    BY <2>2, <2>3, <2>4
<1> QED
  BY <1>1, <1>4, <1>5, <1>6

(* The calls before and after the batches, whether they fail or not.       *)
LEMMA CallStep ==
  ASSUME IngestInv,
         NoUrls \/ SetTotal \/ InitLimiter \/ LimiterFails \/ Activate \/ CallFails \/ TooLate \/ ProcessEnds
  PROVE  IngestInv'
<1> USE DEF IngestInv
<1>1. /\ UNCHANGED <<parserVars, at, tasks, seen, pending, resent, stop>>
      /\ faults' = faults \/ (faults < MaxFaults /\ faults' = faults + 1)
  BY DEF NoUrls, SetTotal, InitLimiter, LimiterFails, Activate, CallFails, TooLate, ProcessEnds,
         Calls, Goes, Fault, progressVars
<1>2. ParserInv' /\ Listed' = Listed /\ urls' = urls /\ outcome' = outcome /\ Len(urls) \in Nat
  BY <1>1, SameParser, ListedPages
<1>3. Queue' = Queue
  BY <1>1 DEF Queue
<1>4. SeenInv' /\ EnqueuedOnce' /\ CostInv' /\ OrderInv'
  BY <1>1, <1>2, <1>3, KeepsQueue
<1>5. faults' \in 0..MaxFaults /\ faults \in Nat
  BY <1>1, IngestionAssumption DEF PlaceInv
<1>6. at \in 0..Len(urls) /\ (urls # <<>> => 0 < Len(urls)) /\ 0 <= 0 % BatchSize
  <2>1. 0 % BatchSize \in 0..(BatchSize - 1)
    BY RemainderGrows, IngestionAssumption
  <2>2. urls # <<>> => Len(urls) \in Nat \ {0}
    BY EmptySeq DEF ParserInv
  <2> QED
    BY <2>1, <2>2 DEF PlaceInv
<1>7. PlaceInv' /\ TotalInv'
  <2>1. CASE NoUrls \/ SetTotal
    BY <1>1, <1>2, <1>5, <1>6, <2>1 DEF NoUrls, SetTotal, Calls, Goes, PlaceInv, TotalInv
  <2>2. CASE InitLimiter
    <3>1. /\ at = 0 /\ tasks = <<>> /\ urls # <<>> /\ outcome = "returned"
          /\ step = "limiter" /\ step' = "mark" /\ UNCHANGED <<total, status, active, faults>>
      BY <2>2 DEF InitLimiter, Calls, Goes, PlaceInv, jobVars
    <3>2. at' < Len(urls') /\ Len(tasks') <= at' % BatchSize
      <4>1. Len(tasks') = 0 /\ at' % BatchSize = 0 % BatchSize
        BY <1>1, <3>1
      <4> QED
        BY <1>1, <1>2, <1>6, <3>1, <4>1
    <3> QED
      BY <1>1, <1>2, <1>5, <3>1, <3>2 DEF PlaceInv, TotalInv
  <2>3. CASE LimiterFails
    BY <1>1, <1>2, <1>5, <2>3 DEF LimiterFails, Goes, Fault, PlaceInv, TotalInv
  <2>4. CASE Activate
    <3>1. /\ at = Len(urls) /\ tasks = <<>> /\ outcome = "returned" /\ urls # <<>>
          /\ step \in {"setStatus", "addActive"} /\ UNCHANGED <<total, faults>>
          /\ \/ step' = "addActive" /\ status' = "running" /\ active' = active
             \/ step' = "ended" /\ active' = TRUE /\ status' = status
          /\ active = FALSE
      BY <2>4 DEF Activate, Calls, Goes, PlaceInv
    <3>2. /\ step' \in {"addActive", "ended"} /\ active' \in BOOLEAN
          /\ (active' => step' = "ended") /\ status' \in {"pending", "running", "failed"}
      BY <3>1 DEF PlaceInv
    <3>3. at' \in 0..Len(urls') /\ at' = Len(urls') /\ tasks' = <<>> /\ total' \in {0, Len(urls')}
      BY <1>1, <1>2, <1>6, <3>1 DEF PlaceInv
    <3>4. PlaceInv'
      BY <1>1, <1>2, <1>5, <3>1, <3>2, <3>3 DEF PlaceInv
    <3>5. TotalInv'
      BY <1>2, <3>1 DEF TotalInv
    <3> QED
      BY <3>4, <3>5
  <2>5. CASE CallFails
    BY <1>1, <1>2, <1>5, <1>6, <2>5 DEF CallFails, Goes, Fault, PlaceInv, TotalInv, jobVars
  <2>6. CASE TooLate \/ ProcessEnds
    BY <1>1, <1>2, <1>5, <1>6, <2>6 DEF TooLate, ProcessEnds, Calls, Goes, Fault, PlaceInv, TotalInv, jobVars
  <2> QED
    BY <2>1, <2>2, <2>3, <2>4, <2>5, <2>6
<1> QED
  BY <1>2, <1>4, <1>7

LEMMA DeadlineStep ==
  ASSUME IngestInv, Deadline
  PROVE  IngestInv'
<1> USE DEF IngestInv
<1>1. /\ UNCHANGED <<at, tasks, seen, pending, total, status, active, resent, stop>>
      /\ faults < MaxFaults /\ faults' = faults + 1
  BY DEF Deadline, Fault, progressVars, jobVars
<1>2. faults' \in 0..MaxFaults /\ faults \in Nat
  BY <1>1, IngestionAssumption DEF PlaceInv
<1>3. OrderInv' /\ TotalInv'
  BY <1>1, <1>2 DEF OrderInv, TotalInv
<1>4. CASE step = "parse" /\ outcome = "reading"
  <2>1. /\ file' = SubSeq(file, 1, pos)
        /\ UNCHANGED <<format, limit, pos, columns, urls, outcome, step>>
    BY <1>4 DEF Deadline
  <2>2. ParserInv'
    BY <1>4, <2>1, CutSource
  <2>3. at = 0 /\ Looked = {} /\ Looked' = {} /\ Queue' = Queue
    BY <1>1, <1>4 DEF PlaceInv, Looked, Queue
  <2>4. SeenInv' /\ EnqueuedOnce'
    BY <1>1, <2>3 DEF SeenInv, EnqueuedOnce, Queue
  <2>5. CostInv'
    <3>1. IsFiniteSet({}) /\ Cardinality({}) <= BatchSize /\ Missing' \subseteq Missing \union {}
      BY <2>3, FS_EmptySet, IngestionAssumption DEF Missing
    <3> QED
      BY <1>1, <3>1, CostsABatch
  <2>6. PlaceInv'
    BY <1>1, <1>2, <2>1 DEF PlaceInv
  <2> QED
    BY <1>3, <2>2, <2>4, <2>5, <2>6
<1>5. CASE ~(step = "parse" /\ outcome = "reading")
  <2>1. UNCHANGED parserVars /\ step # "ended" /\ step' = "ended"
    BY <1>5 DEF Deadline
  <2>2. ParserInv' /\ Listed' = Listed /\ urls' = urls /\ outcome' = outcome /\ Queue' = Queue
    BY <1>1, <2>1, SameParser DEF Queue
  <2>3. SeenInv' /\ EnqueuedOnce' /\ CostInv'
    BY <1>1, <2>2, KeepsQueue
  <2>4. PlaceInv'
    BY <1>1, <1>2, <2>1, <2>2 DEF PlaceInv
  <2> QED
    BY <1>3, <2>2, <2>3, <2>4
<1> QED
  BY <1>4, <1>5

-----------------------------------------------------------------------------
(* One URL is looked at.                                                   *)

LEMMA MarkPlace ==
  ASSUME ParserInv, PlaceInv, Listed' = Listed, UNCHANGED <<urls, outcome, pending, total, status, active, stop>>,
         step = "mark", at' = at + 1, step' = AfterMark(at + 1), faults' \in 0..MaxFaults,
         tasks' = tasks \/ \E x \in Pages : tasks' = Append(tasks, x)
  PROVE  PlaceInv'
<1>1. /\ at \in Nat /\ Len(urls) \in Nat /\ at < Len(urls) /\ at' \in 0..Len(urls)
      /\ tasks \in Seq(Pages) /\ Len(tasks) <= at % BatchSize /\ BatchSize \in Nat \ {0}
      /\ outcome = "returned" /\ urls # <<>> /\ ~active
  <2>1. Len(urls) \in Nat /\ at \in 0..Len(urls) /\ at < Len(urls)
    BY ListedPages DEF PlaceInv
  <2>2. at \in Nat /\ at' \in 0..Len(urls)
    BY <2>1
  <2> QED
    BY <2>1, <2>2, IngestionAssumption DEF PlaceInv
<1>2. tasks' \in Seq(Pages) /\ Len(tasks') <= Len(tasks) + 1 /\ Len(tasks) \in Nat
      /\ Len(tasks') \in Nat
  BY <1>1, AppendRange
<1>3. /\ at % BatchSize \in 0..(BatchSize - 1)
      /\ (at + 1) % BatchSize # 0 => (at + 1) % BatchSize = (at % BatchSize) + 1
  BY <1>1, RemainderGrows
<1>4. CASE step' = "push"
  <2>1. Len(tasks') <= BatchSize
    BY <1>1, <1>2, <1>3
  <2> QED
    BY <1>1, <1>2, <1>4, <2>1 DEF PlaceInv
<1>5. CASE step' = "mark"
  <2>1. (at + 1) % BatchSize # 0 /\ at + 1 # Len(urls)
    BY <1>5 DEF AfterMark
  <2>2. Len(tasks') <= at' % BatchSize /\ at' < Len(urls)
    BY <1>1, <1>2, <1>3, <2>1
  <2> QED
    BY <1>1, <1>2, <1>5, <2>2 DEF PlaceInv
<1> QED
  BY <1>4, <1>5 DEF AfterMark

LEMMA MarkSeenStep ==
  ASSUME IngestInv, MarkSeen
  PROVE  IngestInv'
<1> USE DEF IngestInv
<1>1. /\ UNCHANGED <<parserVars, pending, total, status, active, resent, stop, faults>>
      /\ step = "mark" /\ step' = AfterMark(at + 1) /\ at' = at + 1
      /\ seen' = seen \union {Listed[at']}
      /\ tasks' = IF Listed[at'] \in seen THEN tasks ELSE Append(tasks, Listed[at'])
  BY DEF MarkSeen, Calls, Goes, jobVars
<1>2. ParserInv' /\ Listed' = Listed /\ UNCHANGED <<urls, outcome>>
  BY <1>1, SameParser
<1>3. at < Len(urls)
  BY <1>1 DEF PlaceInv
<1>4. Listed[at'] \in Pages /\ Looked' = Looked \union {Listed[at']}
  BY <1>1, <1>2, <1>3, LooksFurther
<1>5. faults' \in 0..MaxFaults
  BY <1>1 DEF PlaceInv
<1>6. PlaceInv'
  BY <1>1, <1>2, <1>4, <1>5, MarkPlace
<1>7. TotalInv'
  BY <1>1, <1>2 DEF TotalInv, PlaceInv
<1>8. CASE Listed[at'] \in seen
  <2>1. Looked' = Looked /\ seen' = seen /\ Queue' = Queue /\ Listed[at'] \in Looked
    BY <1>1, <1>4, <1>8 DEF SeenInv, Queue
  <2>2. SeenInv' /\ EnqueuedOnce' /\ OrderInv'
    BY <1>1, <1>2, <2>1 DEF SeenInv, EnqueuedOnce, OrderInv, Before, Queue
  <2>3. Missing' = Missing
    BY <2>1 DEF Missing
  <2>4. CostInv'
    BY <1>1, <2>3, CostsNothing
  <2> QED
    BY <1>2, <1>6, <1>7, <2>2, <2>4
<1>9. CASE Listed[at'] \notin seen
  <2>1. /\ Queue \in Seq(Pages) /\ DOMAIN Queue = 1..Len(Queue) /\ Len(Queue) \in Nat
        /\ Range(Queue) = {Queue[i] : i \in 1..Len(Queue)}
    BY QueueLists, LenProperties
  <2>2. Queue' = Append(Queue, Listed[at'])
    <3>1. pending \in Seq(Pages) /\ tasks \in Seq(Pages)
      BY DEF PlaceInv
    <3>2. Queue' = pending \o Append(tasks, Listed[at'])
      BY <1>1, <1>9 DEF Queue
    <3> QED
      BY <1>4, <3>1, <3>2 DEF Queue
  <2>3. /\ Queue' \in Seq(Pages) /\ DOMAIN Queue' = 1..(Len(Queue) + 1)
        /\ \A i \in 1..Len(Queue) : Queue'[i] = Queue[i]
        /\ Queue'[Len(Queue) + 1] = Listed[at']
        /\ Range(Queue') = Range(Queue) \union {Listed[at']}
    <3>1. /\ Append(Queue, Listed[at']) \in Seq(Pages)
          /\ Len(Append(Queue, Listed[at'])) = Len(Queue) + 1
          /\ \A i \in 1..Len(Queue) : Append(Queue, Listed[at'])[i] = Queue[i]
          /\ Append(Queue, Listed[at'])[Len(Queue) + 1] = Listed[at']
          /\ Range(Append(Queue, Listed[at'])) = Range(Queue) \union {Listed[at']}
      BY <1>4, <2>1, AppendRange
    <3> QED
      BY <2>2, <3>1, LenProperties
  <2>4. stop # "cleaned" => \A i \in 1..Len(Queue) : Queue[i] # Listed[at']
    BY <1>9, <2>1 DEF SeenInv
  <2>5. SeenInv'
    BY <1>1, <1>4, <2>3 DEF SeenInv
  <2>6. EnqueuedOnce'
    <3> SUFFICES ASSUME ~resent, stop # "cleaned", NEW i \in DOMAIN Queue', NEW j \in DOMAIN Queue', Queue'[i] = Queue'[j]
                 PROVE  i = j
      BY <1>1 DEF EnqueuedOnce, IsInjective, Queue
    <3>1. IsInjective(Queue)
      BY DEF EnqueuedOnce, Queue
    <3>2. /\ i \in 1..Len(Queue) \/ i = Len(Queue) + 1
          /\ j \in 1..Len(Queue) \/ j = Len(Queue) + 1
      BY <2>1, <2>3
    <3> QED
      BY <2>1, <2>3, <2>4, <3>1, <3>2 DEF IsInjective
  <2>7. CostInv'
    <3>1. Missing' \subseteq Missing
      BY <1>4, <2>3 DEF Missing
    <3> QED
      BY <1>1, <3>1, CostsNothing
  <2>8. OrderInv'
    <3> SUFFICES ASSUME faults = 0, stop = "none"
                 PROVE  /\ Looked' \subseteq Range(Queue')
                        /\ \A i, j \in DOMAIN Queue' : i < j => Before(Queue'[i], Queue'[j])
      BY <1>1, <1>2 DEF OrderInv, Before
    <3>1. Looked \subseteq Range(Queue) /\ \A i, j \in DOMAIN Queue : i < j => Before(Queue[i], Queue[j])
      BY DEF OrderInv
    <3>2. Looked' \subseteq Range(Queue')
      BY <1>4, <2>3, <3>1
    <3>3. ASSUME NEW u \in Range(Queue)
          PROVE  Before(u, Listed[at'])
      <4>1. Listed[at'] \notin Looked
        BY <1>9, <3>1 DEF SeenInv
      <4>2. PICK k \in 1..at : Listed[k] = u
        BY <3>3 DEF SeenInv, Looked
      <4>3. k \in DOMAIN Listed /\ (1..k) \subseteq (1..at)
        <5>1. Len(urls) \in Nat /\ at \in 0..Len(urls) /\ DOMAIN Listed = 1..Len(urls)
          BY ListedPages DEF PlaceInv
        <5> QED
          BY <5>1
      <4>4. \A i \in 1..k : Listed[i] # Listed[at']
        BY <4>1, <4>3 DEF Looked
      <4> QED
        BY <4>2, <4>3, <4>4 DEF Before
    <3>4. ASSUME NEW i \in DOMAIN Queue', NEW j \in DOMAIN Queue', i < j
          PROVE  Before(Queue'[i], Queue'[j])
      <4>1. i \in 1..Len(Queue) /\ (j \in 1..Len(Queue) \/ j = Len(Queue) + 1)
        BY <2>1, <2>3, <3>4
      <4>2. Queue'[i] = Queue[i] /\ Queue[i] \in Range(Queue)
        BY <2>1, <2>3, <4>1
      <4>3. CASE j \in 1..Len(Queue)
        BY <2>1, <2>3, <3>1, <3>4, <4>1, <4>2, <4>3
      <4>4. CASE j = Len(Queue) + 1
        BY <2>3, <3>3, <4>2, <4>4
      <4> QED
        BY <4>1, <4>3, <4>4
    <3> QED
      BY <3>2, <3>4
  <2> QED
    BY <1>2, <1>6, <1>7, <2>5, <2>6, <2>7, <2>8
<1> QED
  BY <1>8, <1>9

LEMMA MarkFailsStep ==
  ASSUME IngestInv, MarkFails
  PROVE  IngestInv'
<1> USE DEF IngestInv
<1>1. /\ UNCHANGED <<parserVars, tasks, pending, total, status, active, resent, stop>>
      /\ step = "mark" /\ step' = AfterMark(at + 1) /\ at' = at + 1
      /\ seen' \in {seen, seen \union {Listed[at']}}
      /\ faults < MaxFaults /\ faults' = faults + 1
  BY DEF MarkFails, Goes, Fault, jobVars
<1>2. ParserInv' /\ Listed' = Listed /\ UNCHANGED <<urls, outcome>>
  BY <1>1, SameParser
<1>3. at < Len(urls)
  BY <1>1 DEF PlaceInv
<1>4. Listed[at'] \in Pages /\ Looked' = Looked \union {Listed[at']}
  BY <1>1, <1>2, <1>3, LooksFurther
<1>5. faults' \in 0..MaxFaults /\ faults' # 0
  BY <1>1, IngestionAssumption DEF PlaceInv
<1>6. PlaceInv'
  BY <1>1, <1>2, <1>5, MarkPlace
<1>7. OrderInv' /\ TotalInv'
  BY <1>5 DEF OrderInv, TotalInv
<1>8. Queue' = Queue
  BY <1>1 DEF Queue
<1>9. SeenInv' /\ EnqueuedOnce'
  BY <1>1, <1>4, <1>8 DEF SeenInv, EnqueuedOnce, Queue
<1>10. CostInv'
  <2>1. Missing' \subseteq Missing \union {Listed[at']}
    BY <1>4, <1>8 DEF Missing
  <2>2. IsFiniteSet({Listed[at']}) /\ Cardinality({Listed[at']}) <= BatchSize
    <3>1. IsFiniteSet({Listed[at']}) /\ Cardinality({Listed[at']}) = 1
      BY FS_Singleton
    <3> QED
      BY <3>1, IngestionAssumption
  <2> QED
    BY <1>1, <2>1, <2>2, CostsABatch
<1> QED
  BY <1>2, <1>6, <1>7, <1>9, <1>10

-----------------------------------------------------------------------------
(* A batch is pushed.                                                      *)

LEMMA PushPlace ==
  ASSUME ParserInv, PlaceInv, Listed' = Listed,
         UNCHANGED <<urls, outcome, at, total, status, active, stop>>,
         step = "push", step' = AfterPush, tasks' = <<>>, pending' \in Seq(Pages),
         faults' \in 0..MaxFaults
  PROVE  PlaceInv'
<1>1. /\ at \in 0..Len(urls) /\ Len(urls) \in Nat /\ outcome = "returned" /\ urls # <<>> /\ ~active
      /\ BatchSize \in Nat \ {0}
  BY ListedPages, IngestionAssumption DEF PlaceInv
<1>2. tasks' \in Seq(Pages) /\ Len(tasks') = 0
  OBVIOUS
<1>3. Len(tasks') <= at' % BatchSize
  <2>1. at' \in Nat
    BY <1>1
  <2>2. at' % BatchSize \in 0..(BatchSize - 1)
    BY <1>1, <2>1, RemainderGrows
  <2> QED
    BY <1>2, <2>2
<1>4. CASE at < Len(urls)
  <2>1. step' = "mark"
    BY <1>4 DEF AfterPush
  <2> QED
    BY <1>1, <1>2, <1>3, <1>4, <2>1 DEF PlaceInv
<1>5. CASE ~(at < Len(urls))
  <2>1. step' = "setStatus" /\ at = Len(urls)
    BY <1>1, <1>5 DEF AfterPush
  <2> QED
    BY <1>1, <1>2, <2>1 DEF PlaceInv
<1> QED
  BY <1>4, <1>5

LEMMA PushStep ==
  ASSUME IngestInv, Push
  PROVE  IngestInv'
<1> USE DEF IngestInv
<1>1. /\ UNCHANGED <<parserVars, at, seen, total, status, active, resent, stop, faults>>
      /\ step = "push" /\ step' = AfterPush
      /\ pending' = pending \o tasks /\ tasks' = <<>>
  BY DEF Push, Calls, Goes, jobVars
<1>2. ParserInv' /\ Listed' = Listed /\ UNCHANGED <<urls, outcome>>
  BY <1>1, SameParser
<1>3. pending' \in Seq(Pages) /\ pending' = Queue
  BY <1>1, QueueLists DEF Queue
<1>4. Queue' = Queue
  BY <1>1, <1>3 DEF Queue
<1>5. SeenInv' /\ EnqueuedOnce' /\ CostInv' /\ OrderInv'
  BY <1>1, <1>2, <1>4, KeepsQueue
<1>6. PlaceInv'
  <2>1. faults' \in 0..MaxFaults
    BY <1>1 DEF PlaceInv
  <2> QED
    BY <1>1, <1>2, <1>3, <2>1, PushPlace
<1>7. TotalInv'
  BY <1>1, <1>2 DEF TotalInv, PlaceInv
<1> QED
  BY <1>2, <1>5, <1>6, <1>7

LEMMA PushFaultStep ==
  ASSUME IngestInv, PushFails \/ PushResent
  PROVE  IngestInv'
<1> USE DEF IngestInv
<1>1. /\ UNCHANGED <<parserVars, at, seen, total, status, active, stop>>
      /\ step = "push" /\ step' = AfterPush /\ tasks' = <<>>
      /\ faults < MaxFaults /\ faults' = faults + 1
  BY DEF PushFails, PushResent, Goes, Fault, jobVars
<1>2. ParserInv' /\ Listed' = Listed /\ UNCHANGED <<urls, outcome>>
  BY <1>1, SameParser
<1>3. faults' \in 0..MaxFaults /\ faults' # 0
  BY <1>1, IngestionAssumption DEF PlaceInv
<1>4. OrderInv' /\ TotalInv'
  BY <1>3 DEF OrderInv, TotalInv
<1>5. pending \in Seq(Pages) /\ tasks \in Seq(Pages)
  BY DEF PlaceInv
<1>6. PICK pushed \in Prefixes(tasks) :
        \/ pending' = pending \o pushed /\ resent' = resent
        \/ pending' = pending \o pushed \o tasks /\ resent' = TRUE
  BY DEF PushFails, PushResent
<1>7. /\ pushed \in Seq(Pages) /\ Len(pushed) <= Len(tasks) /\ Range(pushed) \subseteq Range(tasks)
      /\ \A i \in 1..Len(pushed) : pushed[i] = tasks[i]
  BY <1>5, PrefixProperties
<1>8. pending' \in Seq(Pages)
      /\ Range(pending) \subseteq Range(pending') /\ Range(pending') \subseteq Range(Queue)
  <2>1. pending \o pushed \in Seq(Pages) /\ Range(pending \o pushed) = Range(pending) \union Range(pushed)
    BY <1>5, <1>7, ConcatProperties, RangeConcatenation
  <2>2. /\ pending \o pushed \o tasks \in Seq(Pages)
        /\ Range(pending \o pushed \o tasks) = Range(pending \o pushed) \union Range(tasks)
    <3>1. PICK list \in Seq(Pages) : list = pending \o pushed
      BY <2>1
    <3>2. list \o tasks \in Seq(Pages) /\ Range(list \o tasks) = Range(list) \union Range(tasks)
      BY <1>5, ConcatProperties, RangeConcatenation
    <3> QED
      BY <3>1, <3>2
  <2> QED
    BY <1>6, <1>7, <2>1, <2>2, QueueLists
<1>9. Queue' = pending'
  BY <1>1, <1>8 DEF Queue
<1>10. PlaceInv'
  BY <1>1, <1>2, <1>3, <1>8, PushPlace
<1>11. Looked' = Looked
  BY <1>1, <1>2 DEF Looked
<1>12. SeenInv'
  BY <1>1, <1>8, <1>9, <1>11 DEF SeenInv
<1>13. CostInv'
  <2>1. Range(Queue) = Range(pending) \union Range(tasks)
    BY QueueLists
  <2>2. Missing' \subseteq Missing \union Range(tasks)
    BY <1>8, <1>9, <1>11, <2>1 DEF Missing
  <2>3. IsFiniteSet(Range(tasks)) /\ Cardinality(Range(tasks)) <= BatchSize
    <3>1. Len(tasks) <= BatchSize /\ Len(tasks) \in Nat
      BY <1>1, <1>5 DEF PlaceInv
    <3>2. IsFiniteSet(Range(tasks)) /\ Cardinality(Range(tasks)) <= Len(tasks)
      BY <1>5, RangeCardinality
    <3>3. Cardinality(Range(tasks)) \in Nat
      BY <3>2, FS_CardinalityType
    <3> QED
      BY <3>1, <3>2, <3>3, IngestionAssumption
  <2> QED
    BY <1>1, <2>2, <2>3, CostsABatch
<1>14. EnqueuedOnce'
  <2> SUFFICES ASSUME ~resent', stop' # "cleaned" PROVE IsInjective(Queue')
    BY DEF EnqueuedOnce, Queue
  <2>1. pending' = pending \o pushed /\ IsInjective(pending \o tasks)
    BY <1>1, <1>6 DEF EnqueuedOnce
  <2>2. /\ Len(pending \o pushed) = Len(pending) + Len(pushed)
        /\ Len(pending \o tasks) = Len(pending) + Len(tasks)
        /\ Len(pending) \in Nat /\ Len(pushed) \in Nat /\ Len(tasks) \in Nat
    BY <1>5, <1>7, ConcatProperties
  <2>3. /\ DOMAIN (pending \o pushed) = 1..(Len(pending) + Len(pushed))
        /\ DOMAIN (pending \o tasks) = 1..(Len(pending) + Len(tasks))
    BY <1>5, <1>7, <2>2
  <2>4. \A i \in DOMAIN (pending \o pushed) :
          i \in DOMAIN (pending \o tasks) /\ (pending \o pushed)[i] = (pending \o tasks)[i]
    BY <1>5, <1>7, <2>2, <2>3
  <2> QED
    BY <1>9, <2>1, <2>4 DEF IsInjective
<1> QED
  BY <1>2, <1>4, <1>10, <1>12, <1>13, <1>14

-----------------------------------------------------------------------------
(* A stop deletes the list, then the set.                                  *)

LEMMA StopDeletesStep ==
  ASSUME IngestInv, StopDeletes
  PROVE  IngestInv'
<1> USE DEF IngestInv
<1>1. /\ UNCHANGED <<parserVars, step, at, tasks, seen, total, status, active, resent, faults>>
      /\ step \in {"mark", "push"} /\ stop = "none" /\ stop' = "deleted" /\ pending' = <<>>
  BY DEF StopDeletes, InLoop, jobVars
<1>2. ParserInv' /\ Listed' = Listed /\ UNCHANGED <<urls, outcome>>
  BY <1>1, SameParser
<1>3. pending \in Seq(Pages) /\ tasks \in Seq(Pages) /\ pending' \in Seq(Pages)
  BY <1>1 DEF PlaceInv
<1>4. Queue' = tasks /\ Looked' = Looked /\ Range(tasks) \subseteq Range(Queue)
  BY <1>1, <1>2, <1>3, QueueLists DEF Queue, Looked
<1>5. PlaceInv'
  BY <1>1, <1>2, <1>3 DEF PlaceInv
<1>6. SeenInv'
  BY <1>1, <1>4 DEF SeenInv
<1>7. EnqueuedOnce'
  <2> SUFFICES ASSUME ~resent, NEW i \in DOMAIN tasks, NEW j \in DOMAIN tasks, tasks[i] = tasks[j]
               PROVE  i = j
    BY <1>1, <1>4 DEF EnqueuedOnce, IsInjective, Queue
  <2>1. IsInjective(pending \o tasks)
    BY <1>1 DEF EnqueuedOnce
  <2>2. /\ Len(pending) \in Nat /\ Len(tasks) \in Nat /\ DOMAIN tasks = 1..Len(tasks)
        /\ DOMAIN (pending \o tasks) = 1..(Len(pending) + Len(tasks))
        /\ \A k \in 1..Len(tasks) : (pending \o tasks)[Len(pending) + k] = tasks[k]
    BY <1>3
  <2>3. Len(pending) + i \in DOMAIN (pending \o tasks) /\ Len(pending) + j \in DOMAIN (pending \o tasks)
    BY <2>2
  <2>4. Len(pending) + i = Len(pending) + j
    BY <2>1, <2>2, <2>3 DEF IsInjective
  <2> QED
    BY <2>2, <2>4
<1>8. CostInv' /\ OrderInv' /\ TotalInv'
  BY <1>1, <1>2 DEF CostInv, OrderInv, TotalInv
<1> QED
  BY <1>2, <1>5, <1>6, <1>7, <1>8

LEMMA StopCleansStep ==
  ASSUME IngestInv, StopCleans
  PROVE  IngestInv'
<1> USE DEF IngestInv
<1>1. /\ UNCHANGED <<parserVars, step, at, tasks, pending, total, status, active, resent, faults>>
      /\ stop' = "cleaned" /\ seen' = {}
  BY DEF StopCleans, jobVars
<1>2. ParserInv' /\ Listed' = Listed /\ UNCHANGED <<urls, outcome>>
  BY <1>1, SameParser
<1>3. Queue' = Queue /\ Looked' = Looked
  BY <1>1, <1>2 DEF Queue, Looked
<1>4. PlaceInv' /\ TotalInv'
  BY <1>1, <1>2 DEF PlaceInv, TotalInv
<1>5. SeenInv' /\ EnqueuedOnce' /\ CostInv' /\ OrderInv'
  BY <1>1, <1>3 DEF SeenInv, EnqueuedOnce, CostInv, OrderInv
<1> QED
  BY <1>2, <1>4, <1>5

-----------------------------------------------------------------------------
LEMMA IngestStarts == IngestInit => IngestInv
<1> SUFFICES ASSUME IngestInit PROVE IngestInv
  OBVIOUS
<1>1. ParserInv
  BY ParserStarts DEF IngestInit
<1>2. Len(urls) = 0
  BY DEF IngestInit, ParserInit
<1>3. Looked = {} /\ Queue = <<>> /\ Missing = {}
  BY DEF IngestInit, Looked, Queue, Missing
<1>4. PlaceInv
  <2>1. 0 \in 0..Len(urls) /\ 0 \in 0..MaxFaults /\ <<>> \in Seq(Pages)
    BY <1>2, IngestionAssumption
  <2> QED
    BY <2>1 DEF IngestInit, PlaceInv
<1>5. SeenInv /\ EnqueuedOnce
  BY <1>3, EmptyRange, EmptySeq DEF IngestInit, SeenInv, EnqueuedOnce, IsInjective, Queue
<1>6. CostInv
  BY <1>3, FS_EmptySet, IngestionAssumption DEF IngestInit, CostInv
<1>7. OrderInv /\ TotalInv
  BY <1>3, EmptySeq DEF IngestInit, OrderInv, TotalInv
<1> QED
  BY <1>1, <1>4, <1>5, <1>6, <1>7 DEF IngestInv

LEMMA IngestStepsKeep ==
  ASSUME IngestInv,
         [IngestStep \/ IngestFault \/ StopDeletes \/ StopCleans]_<<parserVars, ingestVars>>
  PROVE  IngestInv'
<1>1. CASE UNCHANGED <<parserVars, ingestVars>>
  <2>1. /\ ParserInv' /\ Listed' = Listed /\ UNCHANGED <<urls, outcome>>
        /\ UNCHANGED <<step, at, tasks, seen, pending, total, status, active, resent, stop, faults>>
    BY <1>1, SameParser DEF IngestInv, ingestVars, progressVars, jobVars
  <2>2. Queue' = Queue
    BY <2>1 DEF Queue
  <2>3. SeenInv' /\ EnqueuedOnce' /\ CostInv' /\ OrderInv'
    BY <2>1, <2>2, KeepsQueue DEF IngestInv
  <2> QED
    BY <2>1, <2>3 DEF IngestInv, PlaceInv, TotalInv
<1>2. CASE IngestStep \/ IngestFault
  BY <1>2, ParseStep, CallStep, DeadlineStep, MarkSeenStep, MarkFailsStep, PushStep, PushFaultStep
     DEF IngestStep, IngestFault
<1>3. CASE StopDeletes \/ StopCleans
  BY <1>3, StopDeletesStep, StopCleansStep
<1> QED
  BY <1>1, <1>2, <1>3

(* The parser's loop, the place in its list, what each fault has cost: all  *)
(* of it holds between any two calls (parser.go:60-151, handler.go:284-370). *)
THEOREM IngestionInvariant == IngestSpec => []IngestInv
<1>1. IngestInit => IngestInv
  BY IngestStarts
<1>2. /\ IngestInv
      /\ [IngestStep \/ IngestFault \/ StopDeletes \/ StopCleans]_<<parserVars, ingestVars>>
      => IngestInv'
  BY IngestStepsKeep
<1> QED
  BY <1>1, <1>2, PTL DEF IngestSpec

(* The goroutine's place in the list always agrees with its step, and what  *)
(* it holds or has pushed is marked as seen until a stop cleans the marks   *)
(* (handler.go:284-370, 450-451).                                           *)
THEOREM IngestionTypes == IngestSpec => []IngestTypeOK
<1>1. IngestInv => IngestTypeOK
  <2> SUFFICES ASSUME IngestInv PROVE IngestTypeOK
    OBVIOUS
  <2>1. Range(Listed) \subseteq Pages
    BY ListedPages DEF IngestInv
  <2>2. seen \subseteq Pages
    BY <2>1, LookedFinite DEF IngestInv, SeenInv
  <2>3. stop # "cleaned" => Range(tasks) \union Range(pending) \subseteq seen
    BY QueueLists DEF IngestInv, SeenInv
  <2> QED
    BY <2>2, <2>3 DEF IngestInv, PlaceInv, IngestTypeOK
<1> QED
  BY <1>1, IngestionInvariant, PTL

(* For every file and limit, and wherever the connection breaks, the parser *)
(* returns the first url_limit valid URLs, in order and without a gap       *)
(* (parser.go:60-151).                                                      *)
THEOREM ParserReturnsFirst == IngestSpec => []ReturnsFirstUrls
<1>1. IngestInv => ReturnsFirstUrls
  BY ParserAnswers DEF IngestInv
<1> QED
  BY <1>1, IngestionInvariant, PTL

(* However often a URL is in the source, wherever the batches are cut and   *)
(* whichever calls fail, it is enqueued once, unless the client library     *)
(* sends a pipeline again or a stop empties the seen set meanwhile          *)
(* (handler.go:318-362, 450-451).                                           *)
THEOREM UrlsEnqueuedOnce == IngestSpec => []EnqueuedOnce
<1>1. IngestInv => EnqueuedOnce
  BY DEF IngestInv
<1> QED
  BY <1>1, IngestionInvariant, PTL

(* A job activated without a fault or a stop has all that the parser        *)
(* returned in the queue, in the order of the file, and announces as many   *)
(* URLs as the parser returned (handler.go:300-370).                        *)
THEOREM IngestionQueuesAll == IngestSpec => []WholeSourceQueued
<1>1. IngestInv => WholeSourceQueued
  <2> SUFFICES ASSUME IngestInv, faults = 0, active, stop = "none"
               PROVE  WholeSourceQueued
    BY DEF WholeSourceQueued
  <2>1. at = Len(urls) /\ tasks = <<>> /\ pending \in Seq(Pages)
    BY DEF IngestInv, PlaceInv
  <2>2. Queue = pending
    BY <2>1 DEF Queue
  <2>3. Looked = Range(Listed)
    BY <2>1, LookedFinite DEF IngestInv
  <2>4. Range(pending) = Range(Listed)
    BY <2>2, <2>3 DEF IngestInv, SeenInv, OrderInv
  <2>5. total = Len(Listed)
    BY ListedPages DEF IngestInv, TotalInv
  <2> QED
    BY <2>2, <2>4, <2>5 DEF IngestInv, OrderInv, WholeSourceQueued
<1> QED
  BY <1>1, IngestionInvariant, PTL

(* Each call that fails, with whatever effect, costs an activated job that  *)
(* is not stopped at most one batch of its URLs (handler.go:332-362).       *)
THEOREM FaultsCostABatch == IngestSpec => []FaultsCostTheirBatch
<1>1. IngestInv => FaultsCostTheirBatch
  <2> SUFFICES ASSUME IngestInv, active, stop = "none"
               PROVE  Cardinality(Range(Listed) \ Range(pending)) <= faults * BatchSize
    BY DEF FaultsCostTheirBatch
  <2>1. at = Len(urls) /\ tasks = <<>> /\ pending \in Seq(Pages)
    BY DEF IngestInv, PlaceInv
  <2>2. Missing = Range(Listed) \ Range(pending)
    BY <2>1, LookedFinite DEF IngestInv, Queue, Missing
  <2> QED
    BY <2>2 DEF IngestInv, CostInv
<1> QED
  BY <1>1, IngestionInvariant, PTL
=============================================================================
