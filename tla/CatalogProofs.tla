--------------------------- MODULE CatalogProofs ---------------------------
(* Whatever happens to the documents, a job works with one version of its  *)
(* site, and a client that pages through a listing misses and repeats none. *)
EXTENDS SiteCatalog, SequenceTheorems, FiniteSetTheorems, TLAPS

(* What a start may read has been published, as a create or a PUT answered *)
(* it, and what it has read still counts as published.                     *)
Published == \A s \in DOMAIN sites : <<s, sites[s]>> \in published

OneVersion == Published /\ JobsUseOneVersion

-----------------------------------------------------------------------------
LEMMA CatalogStarts ==
  ASSUME CatalogInit
  PROVE  OneVersion
BY DEF CatalogInit, OneVersion, Published, JobsUseOneVersion, Nothing

(* Steps that change neither sites, nor reads, nor what was published.     *)
LEMMA OtherDocumentsKeepVersions ==
  ASSUME OneVersion, UNCHANGED <<sites, start, published>>
  PROVE  OneVersion'
BY DEF OneVersion, Published, JobsUseOneVersion

(* A new site is published as it is inserted (handler.go:57-101).          *)
LEMMA CreateKeepsVersions ==
  ASSUME OneVersion, NEW s \in Sites, NEW doc \in Bodies, NEW now \in Times, CreateSite(s, doc, now)
  PROVE  OneVersion'
<1>1. Published'
  BY DEF OneVersion, Published, CreateSite, Put
<1>2. JobsUseOneVersion'
  BY DEF OneVersion, JobsUseOneVersion, CreateSite
<1> QED
  BY <1>1, <1>2 DEF OneVersion

(* One command writes all fields of a PUT (mongodb.go:156-169).            *)
LEMMA UpdateKeepsVersions ==
  ASSUME OneVersion, NEW s \in Sites, NEW update \in Puts, UpdateSite(s, update)
  PROVE  OneVersion'
<1>1. Published'
  BY DEF OneVersion, Published, UpdateSite
<1>2. JobsUseOneVersion'
  BY DEF OneVersion, JobsUseOneVersion, UpdateSite
<1> QED
  BY <1>1, <1>2 DEF OneVersion

(* A deletion takes the site, not what a start has read of it.             *)
LEMMA DeleteKeepsVersions ==
  ASSUME OneVersion, NEW s \in Sites, DeleteSite(s)
  PROVE  OneVersion'
<1>1. Published'
  BY DEF OneVersion, Published, DeleteSite, Restrict
<1>2. JobsUseOneVersion'
  BY DEF OneVersion, JobsUseOneVersion, DeleteSite
<1> QED
  BY <1>1, <1>2 DEF OneVersion

(* The whole document is read at once (mongodb.go:127-134).                *)
LEMMA ReadTakesOneVersion ==
  ASSUME OneVersion, NEW j \in Crawlings, NEW s \in Sites, ReadSite(j, s)
  PROVE  OneVersion'
<1>1. Published'
  BY DEF OneVersion, Published, ReadSite, docs
<1>2. JobsUseOneVersion'
  <2> SUFFICES ASSUME NEW i \in Crawlings, start'[i] # NoSite
               PROVE  <<start'[i].id, start'[i].doc>> \in published'
    BY DEF JobsUseOneVersion
  <2>1. published' = published /\ s \in DOMAIN sites
    BY DEF ReadSite
  <2>2. CASE start'[i] = start[i]
    BY <2>1, <2>2 DEF OneVersion, JobsUseOneVersion
  <2>3. CASE start'[i] = [id |-> s, doc |-> sites[s]]
    BY <2>1, <2>3 DEF OneVersion, Published
  <2> QED
    BY <2>2, <2>3 DEF ReadSite
<1> QED
  BY <1>1, <1>2 DEF OneVersion

LEMMA CatalogStep ==
  ASSUME OneVersion, CatalogNext
  PROVE  OneVersion'
<1>1. CASE \E s \in Sites, now \in Times : \E doc \in Bodies : CreateSite(s, doc, now)
  BY <1>1, CreateKeepsVersions
<1>2. CASE \E s \in Sites : \E update \in Puts : UpdateSite(s, update)
  BY <1>2, UpdateKeepsVersions
<1>3. CASE \E s \in Sites : DeleteSite(s)
  BY <1>3, DeleteKeepsVersions
<1>4. CASE \E j \in Crawlings, s \in Sites : ReadSite(j, s)
  BY <1>4, ReadTakesOneVersion
<1>5. CASE \E j \in Crawlings, now \in Times : CreateCrawling(j, now)
  BY <1>5, OtherDocumentsKeepVersions DEF CreateCrawling
<1>6. CASE \E j \in Crawlings, status \in Statuses : UpdateCrawlingStatus(j, status)
  BY <1>6, OtherDocumentsKeepVersions DEF UpdateCrawlingStatus
<1>7. CASE \/ \E list \in Listings, request \in Requested : StartWalk(list, request)
           \/ Count
           \/ Find
  BY <1>7, OtherDocumentsKeepVersions DEF StartWalk, Count, Find, docs
<1> QED
  BY <1>1, <1>2, <1>3, <1>4, <1>5, <1>6, <1>7 DEF CatalogNext

(* A crawling works with its site as one create or one PUT left it,        *)
(* whatever is updated or deleted before, between or after the commands of *)
(* StartCrawling (handler.go:234-273).                                     *)
THEOREM CrawlingsUseOneVersion == CatalogSpec => []JobsUseOneVersion
<1>1. OneVersion /\ [CatalogNext]_catalogVars => OneVersion'
  BY CatalogStep, OtherDocumentsKeepVersions DEF catalogVars, docs
<1>2. OneVersion => JobsUseOneVersion
  BY DEF OneVersion
<1> QED
  BY CatalogStarts, <1>1, <1>2, PTL DEF CatalogSpec

-----------------------------------------------------------------------------
(* Types.                                                                  *)

DocumentsOK ==
  /\ DOMAIN sites \subseteq Sites /\ \A s \in DOMAIN sites : sites[s] \in Site
  /\ DOMAIN crawlings \subseteq Crawlings /\ \A j \in DOMAIN crawlings : crawlings[j] \in Crawling
  /\ DOMAIN sites \union DOMAIN crawlings \subseteq DOMAIN created
  /\ DOMAIN created \subseteq Sites \union Crawlings /\ \A x \in DOMAIN created : created[x] \in Times
  /\ changes \in 0..MaxChanges

StartsOK ==
  /\ DOMAIN start = Crawlings
  /\ \A j \in Crawlings : start[j] = NoSite \/ (start[j].id \in Sites /\ start[j].doc \in Site)

WalkOK == "at" \in DOMAIN walk /\ walk.at \in Paces

(* What a PUT leaves is a whole site again (mongodb.go:156-169).           *)
LEMMA ApplyIsSite ==
  ASSUME NEW doc \in Site, NEW update \in Updates
  PROVE  Apply(doc, update) \in Site
<1>1. PICK F \in SUBSET Fields : update \in [F -> Values]
  BY DEF Updates
<1> QED
  BY <1>1 DEF Apply, Site

LEMMA DocumentsStep ==
  ASSUME DocumentsOK, StartsOK, CatalogNext
  PROVE  DocumentsOK'
<1> USE CatalogAssumption DEF DocumentsOK
<1>1. ASSUME NEW s \in Sites, NEW now \in Times, NEW doc \in Bodies, CreateSite(s, doc, now)
      PROVE  DocumentsOK'
  BY <1>1 DEF CreateSite, Put
<1>2. ASSUME NEW s \in Sites, NEW update \in Puts, UpdateSite(s, update)
      PROVE  DocumentsOK'
  <2>1. s \in DOMAIN sites /\ Apply(sites[s], update) \in Site
    BY <1>2, ApplyIsSite DEF UpdateSite
  <2>2. sites' = [sites EXCEPT ![s] = Apply(sites[s], update)]
        /\ UNCHANGED <<crawlings, created>> /\ changes' \in 0..MaxChanges
    BY <1>2 DEF UpdateSite, Change
  <2> QED
    BY <2>1, <2>2
<1>3. ASSUME NEW s \in Sites, DeleteSite(s)
      PROVE  DocumentsOK'
  BY <1>3 DEF DeleteSite, Change, Restrict
<1>4. ASSUME NEW j \in Crawlings, NEW now \in Times, CreateCrawling(j, now)
      PROVE  DocumentsOK'
  <2>1. [site |-> start[j].id, status |-> "pending"] \in Crawling
    BY <1>4 DEF CreateCrawling, Crawling, StartsOK
  <2> QED
    BY <1>4, <2>1 DEF CreateCrawling, Put
<1>5. ASSUME NEW j \in Crawlings, NEW status \in Statuses, UpdateCrawlingStatus(j, status)
      PROVE  DocumentsOK'
  <2>1. j \in DOMAIN crawlings /\ crawlings[j] \in Crawling
    BY <1>5 DEF UpdateCrawlingStatus
  <2>2. [crawlings[j] EXCEPT !.status = status] \in Crawling
    BY <2>1 DEF Crawling
  <2>3. crawlings' = [crawlings EXCEPT ![j] = [crawlings[j] EXCEPT !.status = status]]
        /\ UNCHANGED <<sites, created>> /\ changes' \in 0..MaxChanges
    BY <1>5 DEF UpdateCrawlingStatus, Change
  <2> HIDE DEF Crawling
  <2> QED
    BY <2>1, <2>2, <2>3
<1>6. CASE UNCHANGED <<docs, changes>>
  BY <1>6 DEF docs
<1> QED
  BY <1>1, <1>2, <1>3, <1>4, <1>5, <1>6 DEF CatalogNext, ReadSite, StartWalk, Count, Find

LEMMA StartsStep ==
  ASSUME DocumentsOK, StartsOK, CatalogNext
  PROVE  StartsOK'
<1>1. ASSUME NEW j \in Crawlings, NEW s \in Sites, ReadSite(j, s)
      PROVE  StartsOK'
  <2>1. start' = [start EXCEPT ![j] = [id |-> s, doc |-> sites[s]]] /\ sites[s] \in Site
    BY <1>1 DEF ReadSite, DocumentsOK
  <2> QED
    BY <2>1 DEF StartsOK
<1>2. CASE UNCHANGED start
  BY <1>2 DEF StartsOK
<1> QED
  BY <1>1, <1>2
     DEF CatalogNext, CreateSite, UpdateSite, DeleteSite, CreateCrawling, UpdateCrawlingStatus,
         StartWalk, Count, Find

LEMMA WalkStep ==
  ASSUME WalkOK, CatalogNext
  PROVE  WalkOK'
<1>1. CASE Observe
  BY <1>1, Zenon DEF Observe, WalkOK
<1>2. ASSUME NEW list \in Listings, NEW request \in Requested, StartWalk(list, request)
      PROVE  WalkOK'
  BY <1>2 DEF StartWalk, NewWalk, WalkOK, Paces
<1>3. CASE Count
  BY <1>3 DEF Count, WalkOK, Paces
<1>4. CASE Find
  <2>1. PICK order \in NewestFirst(Matching(walk.list)) :
          LET next == walk.skip + Limit(walk.request)
          IN walk' = [walk EXCEPT !.at = IF next < walk.total THEN "paging" ELSE "done",
                                  !.skip = next,
                                  !.seen = @ \o Page(order, walk.skip, Limit(walk.request))]
    BY <1>4 DEF Find
  <2> QED
    BY <2>1, Zenon DEF WalkOK, Paces
<1>5. CASE UNCHANGED walk
  BY <1>5 DEF WalkOK
<1> QED
  BY <1>1, <1>2, <1>3, <1>4, <1>5
     DEF CatalogNext, CreateSite, UpdateSite, DeleteSite, ReadSite, CreateCrawling, UpdateCrawlingStatus

(* The collections hold whole documents with a created_at, for any requests *)
(* in any order (handler.go:57-273, mongodb.go).                            *)
THEOREM CatalogTypes == CatalogSpec => []CatalogTypeOK
<1> DEFINE TypeInv == DocumentsOK /\ StartsOK /\ WalkOK
<1>1. CatalogInit => TypeInv
  BY CatalogAssumption DEF CatalogInit, DocumentsOK, StartsOK, WalkOK, Paces, Nothing
<1>2. TypeInv /\ [CatalogNext]_catalogVars => TypeInv'
  <2> SUFFICES ASSUME TypeInv, [CatalogNext]_catalogVars
               PROVE  TypeInv'
    OBVIOUS
  <2>1. CASE CatalogNext
    BY <2>1, DocumentsStep, StartsStep, WalkStep
  <2>2. CASE UNCHANGED catalogVars
    BY <2>2 DEF catalogVars, docs, DocumentsOK, StartsOK, WalkOK
  <2> QED
    BY <2>1, <2>2
<1>3. TypeInv => CatalogTypeOK
  BY DEF DocumentsOK, StartsOK, WalkOK, CatalogTypeOK
<1> QED
  BY <1>1, <1>2, <1>3, PTL DEF CatalogSpec

-----------------------------------------------------------------------------
(* Walks.  The rank of a document is how many documents of its listing are *)
(* newer: the position, from zero, at which every sort puts it, as long as *)
(* no two have the same created_at.                                        *)
Newer(c, x, S) == {y \in S : c[y] > c[x]}
Rank(c, x, S) == Cardinality(Newer(c, x, S))

LEMMA RankBound ==
  ASSUME NEW S, IsFiniteSet(S), NEW c, \A y \in S : c[y] \in Int, NEW x \in S
  PROVE  Rank(c, x, S) \in Nat /\ Rank(c, x, S) < Cardinality(S)
<1>1. Newer(c, x, S) \in SUBSET (S \ {x})
  BY DEF Newer
<1>2. IsFiniteSet(S \ {x}) /\ Cardinality(S \ {x}) = Cardinality(S) - 1
  BY FS_RemoveElement
<1>3. IsFiniteSet(Newer(c, x, S)) /\ Cardinality(Newer(c, x, S)) <= Cardinality(S \ {x})
  BY <1>1, <1>2, FS_Subset
<1>4. Cardinality(Newer(c, x, S)) \in Nat /\ Cardinality(S) \in Nat
  BY <1>3, FS_CardinalityType
<1> QED
  BY <1>2, <1>3, <1>4 DEF Rank

(* What joins a listing can only push a document back.                     *)
LEMMA RankGrows ==
  ASSUME NEW T, IsFiniteSet(T), NEW S \in SUBSET T, NEW c, NEW d, \A y \in S : c[y] = d[y],
         \A y \in T : d[y] \in Int, NEW x \in S
  PROVE  Rank(c, x, S) \in Nat /\ Rank(d, x, T) \in Nat /\ Rank(c, x, S) <= Rank(d, x, T)
<1>1. Newer(c, x, S) \in SUBSET Newer(d, x, T)
  BY DEF Newer
<1>2. Newer(d, x, T) \in SUBSET T
  BY DEF Newer
<1>3. IsFiniteSet(Newer(d, x, T))
  BY <1>2, FS_Subset
<1>4. IsFiniteSet(Newer(c, x, S)) /\ Cardinality(Newer(c, x, S)) <= Cardinality(Newer(d, x, T))
  BY <1>1, <1>3, FS_Subset
<1> QED
  BY <1>3, <1>4, FS_CardinalityType DEF Rank

(* An order in which a sort by created_at, newest first, may give S.       *)
Sorts(c, order, S) ==
  /\ order \in Bijection(1..Cardinality(S), S)
  /\ \A i, k \in 1..Cardinality(S) : i < k => c[order[i]] >= c[order[k]]

LEMMA PositionIsRank ==
  ASSUME NEW S, IsFiniteSet(S), NEW c, \A y \in S : c[y] \in Int,
         \A x, y \in S : c[x] = c[y] => x = y,
         NEW order, Sorts(c, order, S), NEW i \in 1..Cardinality(S)
  PROVE  Rank(c, order[i], S) = i - 1
<1> DEFINE n == Cardinality(S)
           f == [k \in 1..(i - 1) |-> order[k]]
<1>1. n \in Nat
  BY FS_CardinalityType
<1>2. order \in [1..n -> S] /\ (\A a, b \in 1..n : order[a] = order[b] => a = b)
      /\ \A x \in S : \E k \in 1..n : order[k] = x
  BY DEF Sorts, Bijection, Injection, Surjection, IsInjective
<1>3. \A k \in 1..n : c[order[k]] > c[order[i]] <=> k < i
  <2>1. \A k \in 1..n : c[order[k]] \in Int
    BY <1>2
  <2>2. \A k \in 1..n : k # i => c[order[k]] # c[order[i]]
    BY <1>2
  <2>3. \A k \in 1..n : k < i => c[order[k]] >= c[order[i]]
    BY DEF Sorts
  <2>4. \A k \in 1..n : i < k => c[order[i]] >= c[order[k]]
    BY DEF Sorts
  <2> QED
    BY <1>1, <2>1, <2>2, <2>3, <2>4
<1>4. f \in [1..(i - 1) -> Newer(c, order[i], S)]
  BY <1>1, <1>2, <1>3 DEF Newer
<1>5. \A a, b \in 1..(i - 1) : f[a] = f[b] => a = b
  BY <1>1, <1>2
<1>6. ASSUME NEW y \in Newer(c, order[i], S)
      PROVE  \E k \in 1..(i - 1) : f[k] = y
  <2>1. PICK k \in 1..n : order[k] = y
    BY <1>2, <1>6 DEF Newer
  <2>2. k < i
    BY <1>3, <1>6, <2>1 DEF Newer
  <2> QED
    BY <1>1, <2>1, <2>2
<1>7. f \in Bijection(1..(i - 1), Newer(c, order[i], S))
  BY <1>4, <1>5, <1>6 DEF Bijection, Injection, Surjection, IsInjective
<1>8. 1 \in Int /\ i - 1 \in Int /\ i - 1 >= 0
  BY <1>1
<1>9. IsFiniteSet(1..(i - 1)) /\ Cardinality(1..(i - 1)) = IF 1 > i - 1 THEN 0 ELSE (i - 1) - 1 + 1
  BY <1>8, FS_Interval
<1>10. Cardinality(Newer(c, order[i], S)) = Cardinality(1..(i - 1))
  BY <1>7, <1>9, FS_Bijection DEF ExistsBijection
<1>11. Cardinality(1..(i - 1)) = i - 1
  BY <1>8, <1>9
<1> QED
  BY <1>10, <1>11 DEF Rank

(* The page that Find answers with: the documents at the positions after   *)
(* skip, as far as there are some (mongodb.go:136-149, 252-269).           *)
LEMMA PageElements ==
  ASSUME NEW S, NEW n \in Nat, NEW order \in [1..n -> S], NEW skip \in Nat, NEW limit \in Nat
  PROVE  /\ Page(order, skip, limit) \in Seq(S)
         /\ \A i \in 1..Len(Page(order, skip, limit)) :
              /\ i <= limit /\ skip + i \in 1..n
              /\ Page(order, skip, limit)[i] = order[skip + i]
         /\ \A k \in 1..n : skip < k /\ k <= skip + limit => k - skip \in 1..Len(Page(order, skip, limit))
<1>1. order \in Seq(S) /\ Len(order) = n
  OBVIOUS
<1>2. PICK to \in Int : /\ to = IF skip + limit < n THEN skip + limit ELSE n
                        /\ Page(order, skip, limit) = SubSeq(order, skip + 1, to)
  BY <1>1 DEF Page, Slice
<1>3. skip + 1 \in Int /\ \A i \in (skip + 1)..to : order[i] \in S
  BY <1>2
<1>4. /\ SubSeq(order, skip + 1, to) \in Seq(S)
      /\ Len(SubSeq(order, skip + 1, to)) = IF skip + 1 <= to THEN to - (skip + 1) + 1 ELSE 0
      /\ \A i \in 1..(to - (skip + 1) + 1) : SubSeq(order, skip + 1, to)[i] = order[(skip + 1) + i - 1]
  BY <1>3, SubSeqProperties
<1>5. \A i \in 1..Len(SubSeq(order, skip + 1, to)) :
        i \in 1..(to - (skip + 1) + 1) /\ (skip + 1) + i - 1 = skip + i /\ i <= limit /\ skip + i \in 1..n
  BY <1>2, <1>4
<1>6. \A k \in 1..n : skip < k /\ k <= skip + limit => k - skip \in 1..Len(SubSeq(order, skip + 1, to))
  BY <1>2, <1>4
<1> QED
  BY <1>2, <1>4, <1>5, <1>6

(* What one page adds to what a client has seen: each document whose rank  *)
(* lies on the page, once, and no other.                                   *)
LEMMA PageHoldsItsRanks ==
  ASSUME NEW S, IsFiniteSet(S), NEW c, \A y \in S : c[y] \in Int,
         \A x, y \in S : c[x] = c[y] => x = y,
         NEW order, Sorts(c, order, S), NEW skip \in Nat, NEW limit \in Nat
  PROVE  LET page == Page(order, skip, limit)
         IN  /\ page \in Seq(S)
             /\ IsInjective(page)
             /\ \A x \in S : skip <= Rank(c, x, S) /\ Rank(c, x, S) < skip + limit => x \in Range(page)
             /\ \A x \in Range(page) : x \in S /\ skip <= Rank(c, x, S) /\ Rank(c, x, S) < skip + limit
<1>1. PICK n \in Nat : n = Cardinality(S)
  BY FS_CardinalityType
<1>2. order \in [1..n -> S] /\ (\A a, b \in 1..n : order[a] = order[b] => a = b)
      /\ \A x \in S : \E k \in 1..n : order[k] = x
  BY <1>1 DEF Sorts, Bijection, Injection, Surjection, IsInjective
<1>3. PICK page : page = Page(order, skip, limit)
  OBVIOUS
<1>4. /\ page \in Seq(S)
      /\ \A i \in 1..Len(page) : i <= limit /\ skip + i \in 1..n /\ page[i] = order[skip + i]
      /\ \A k \in 1..n : skip < k /\ k <= skip + limit => k - skip \in 1..Len(page)
  <2>1. order \in [1..n -> S]
    BY <1>2
  <2>2. /\ Page(order, skip, limit) \in Seq(S)
        /\ \A i \in 1..Len(Page(order, skip, limit)) :
             /\ i <= limit /\ skip + i \in 1..n
             /\ Page(order, skip, limit)[i] = order[skip + i]
        /\ \A k \in 1..n : skip < k /\ k <= skip + limit => k - skip \in 1..Len(Page(order, skip, limit))
    BY <2>1, PageElements
  <2> QED
    BY <1>3, <2>2
<1>5. \A k \in 1..n : Rank(c, order[k], S) = k - 1
  BY <1>1, PositionIsRank
<1>6. Len(page) \in Nat /\ DOMAIN page = 1..Len(page) /\ Range(page) = {page[i] : i \in 1..Len(page)}
  BY <1>4, LenProperties, RangeEquality
<1>7. IsInjective(page)
  BY <1>2, <1>4, <1>6 DEF IsInjective
<1>8. ASSUME NEW x \in S, skip <= Rank(c, x, S), Rank(c, x, S) < skip + limit
      PROVE  x \in Range(page)
  <2>1. PICK k \in 1..n : order[k] = x
    BY <1>2
  <2>2. skip < k /\ k <= skip + limit
    BY <1>5, <1>8, <2>1
  <2>3. k - skip \in 1..Len(page) /\ skip + (k - skip) = k
    BY <1>4, <2>2
  <2> QED
    BY <1>4, <1>6, <2>1, <2>3
<1>9. ASSUME NEW x \in Range(page)
      PROVE  x \in S /\ skip <= Rank(c, x, S) /\ Rank(c, x, S) < skip + limit
  <2>1. PICK i \in 1..Len(page) : page[i] = x
    BY <1>6
  <2>2. i <= limit /\ skip + i \in 1..n /\ x = order[skip + i]
    BY <1>4, <2>1
  <2>3. Rank(c, x, S) = skip + i - 1
    BY <1>5, <2>2
  <2> QED
    BY <1>2, <1>6, <2>2, <2>3
<1> QED
  BY <1>3, <1>4, <1>7, <1>8, <1>9

LEMMA ConcatenationKeepsApart ==
  ASSUME NEW D, NEW s \in Seq(D), NEW t \in Seq(D)
  PROVE  /\ Range(s \o t) = Range(s) \union Range(t)
         /\ IsInjective(s) /\ IsInjective(t) /\ Range(s) \intersect Range(t) = {} => IsInjective(s \o t)
<1>1. Range(s \o t) = Range(s) \union Range(t)
  BY RangeConcatenation
<1>2. /\ s \o t \in Seq(D) /\ Len(s \o t) = Len(s) + Len(t)
      /\ \A i \in 1..Len(s) + Len(t) : (s \o t)[i] = IF i <= Len(s) THEN s[i] ELSE t[i - Len(s)]
  BY ConcatProperties
<1>3. /\ Len(s) \in Nat /\ DOMAIN s = 1..Len(s) /\ Range(s) = {s[i] : i \in 1..Len(s)}
      /\ Len(t) \in Nat /\ DOMAIN t = 1..Len(t) /\ Range(t) = {t[i] : i \in 1..Len(t)}
      /\ DOMAIN (s \o t) = 1..Len(s) + Len(t)
  BY <1>2, LenProperties, RangeEquality
<1>4. ASSUME IsInjective(s), IsInjective(t), Range(s) \intersect Range(t) = {}
      PROVE  IsInjective(s \o t)
  <2> SUFFICES ASSUME NEW a \in 1..Len(s) + Len(t), NEW b \in 1..Len(s) + Len(t),
                      (s \o t)[a] = (s \o t)[b]
               PROVE  a = b
    BY <1>3 DEF IsInjective
  <2>1. CASE a <= Len(s) /\ b <= Len(s)
    <3>1. s[a] = s[b] /\ a \in DOMAIN s /\ b \in DOMAIN s
      BY <1>2, <1>3, <2>1
    <3> QED
      BY <1>4, <3>1 DEF IsInjective
  <2>2. CASE a > Len(s) /\ b > Len(s)
    <3>1. t[a - Len(s)] = t[b - Len(s)] /\ a - Len(s) \in DOMAIN t /\ b - Len(s) \in DOMAIN t
      BY <1>2, <1>3, <2>2
    <3>2. a - Len(s) = b - Len(s)
      BY <1>4, <3>1 DEF IsInjective
    <3> QED
      BY <1>3, <3>2
  <2>3. CASE a <= Len(s) /\ b > Len(s)
    <3>1. a \in 1..Len(s) /\ b - Len(s) \in 1..Len(t)
      BY <1>3, <2>3
    <3>2. s[a] = t[b - Len(s)]
      BY <1>2, <1>3, <2>3
    <3> QED
      BY <1>3, <1>4, <3>1, <3>2
  <2>4. CASE a > Len(s) /\ b <= Len(s)
    <3>1. b \in 1..Len(s) /\ a - Len(s) \in 1..Len(t)
      BY <1>3, <2>4
    <3>2. s[b] = t[a - Len(s)]
      BY <1>2, <1>3, <2>4
    <3> QED
      BY <1>3, <1>4, <3>1, <3>2
  <2> QED
    BY <1>3, <2>1, <2>2, <2>3, <2>4
<1> QED
  BY <1>1, <1>4

-----------------------------------------------------------------------------
Documents == Sites \union Crawlings

Walks ==
  [at : {"paging", "counted", "done"}, list : Listings, request : Requested, skip : Nat, total : Nat,
   first : SUBSET Documents, seen : Seq(Documents), left : BOOLEAN, came : BOOLEAN, late : BOOLEAN]

WalkTyped == walk = [at |-> "none"] \/ walk \in Walks

Walked == Matching(walk.list)
Walking == walk.at \in {"paging", "counted"}

(* Until something joins or leaves, the total is the size of the listing.  *)
TotalIsCurrent == walk.at = "counted" /\ ~walk.left /\ ~walk.late => walk.total = Cardinality(Walked)

FirstRemain == Walking /\ ~walk.left => walk.first \subseteq Walked

NothingCame == Walking /\ ~walk.left /\ ~walk.came => walk.first = Walked

(* Of the first documents, those ranked before the skip have been seen: a  *)
(* document that joins pushes the others back, never forward.              *)
NewestSeen ==
  Walking /\ ~walk.left /\ Untied =>
    \A x \in walk.first : Rank(created, x, Walked) < walk.skip => x \in Range(walk.seen)

(* While none joins, nothing else has been seen.                           *)
OnlyNewestSeen ==
  Walking /\ ~walk.left /\ ~walk.came /\ Untied =>
    \A x \in Range(walk.seen) : x \in Walked /\ Rank(created, x, Walked) < walk.skip

Stamped == IsFiniteSet(DOMAIN created)

WalkInv ==
  /\ Stamped /\ WalkTyped
  /\ TotalIsCurrent /\ FirstRemain /\ NothingCame
  /\ NewestSeen /\ OnlyNewestSeen
  /\ WalksMissNothing /\ WalksRepeatNothing

(* A listing matches documents of one kind, each with its created_at.      *)
LEMMA MatchedDocuments ==
  ASSUME NEW list, NEW ss, NEW cs, NEW c, DOMAIN ss \subseteq Sites, DOMAIN cs \subseteq Crawlings,
         DOMAIN ss \union DOMAIN cs \subseteq DOMAIN c, \A x \in DOMAIN c : c[x] \in Times,
         IsFiniteSet(DOMAIN c)
  PROVE  /\ MatchingIn(list, ss, cs) \subseteq DOMAIN c
         /\ MatchingIn(list, ss, cs) \subseteq Sites \/ MatchingIn(list, ss, cs) \subseteq Crawlings
         /\ IsFiniteSet(MatchingIn(list, ss, cs))
         /\ \A x \in MatchingIn(list, ss, cs) : c[x] \in Int
<1>1. (MatchingIn(list, ss, cs) \subseteq DOMAIN ss) \/ (MatchingIn(list, ss, cs) \subseteq DOMAIN cs)
  BY DEF MatchingIn
<1>2. MatchingIn(list, ss, cs) \subseteq DOMAIN c
  BY <1>1
<1>3. IsFiniteSet(MatchingIn(list, ss, cs))
  BY <1>2, FS_Subset
<1> QED
  BY <1>1, <1>2, <1>3, CatalogAssumption

LEMMA MatchedApart ==
  ASSUME DocumentsOK, Stamped, Untied, NEW list,
         NEW x \in Matching(list), NEW y \in Matching(list), created[x] = created[y]
  PROVE  x = y
<1>1. /\ Matching(list) \subseteq DOMAIN created
      /\ Matching(list) \subseteq Sites \/ Matching(list) \subseteq Crawlings
  BY MatchedDocuments DEF Matching, DocumentsOK, Stamped
<1>2. PICK kind \in {Sites, Crawlings} : Matching(list) \subseteq kind
  BY <1>1
<1>3. IsInjective(Restrict(created, DOMAIN created \intersect kind))
  BY DEF Untied
<1> QED
  BY <1>1, <1>2, <1>3 DEF IsInjective, Restrict

(* An identifier is stamped once; documents of different stamps had        *)
(* different stamps before.                                                *)
Extends == DOMAIN created \subseteq DOMAIN created' /\ \A x \in DOMAIN created : created'[x] = created[x]

LEMMA UntiedBefore ==
  ASSUME Extends, Untied'
  PROVE  Untied
<1> SUFFICES ASSUME NEW kind \in {Sites, Crawlings},
                    NEW x \in DOMAIN created \intersect kind, NEW y \in DOMAIN created \intersect kind,
                    created[x] = created[y]
             PROVE  x = y
  BY DEF Untied, IsInjective, Restrict
<1>1. IsInjective(Restrict(created', DOMAIN created' \intersect kind))
  BY DEF Untied
<1> QED
  BY <1>1 DEF Extends, IsInjective, Restrict

(* Steps that change documents and leave the client where it is.           *)
LEMMA ObserveKeepsWalks ==
  ASSUME DocumentsOK, DocumentsOK', WalkInv, Stamped', Extends, Observe
  PROVE  WalkInv'
<1>1. WalkTyped /\ (Untied' => Untied)
  BY UntiedBefore DEF WalkInv
<1>2. CASE ~Walking
  <2>1. walk' = walk
    BY <1>2 DEF Observe, Walking
  <2>2. WalkTyped' /\ WalksMissNothing' /\ WalksRepeatNothing'
    BY <1>1, <2>1 DEF WalkInv, WalkTyped, WalksMissNothing, WalksRepeatNothing
  <2>3. ~Walking' /\ walk'.at # "counted"
    BY <1>2, <2>1 DEF Walking
  <2> QED
    BY <2>2, <2>3 DEF WalkInv, TotalIsCurrent, FirstRemain, NothingCame, NewestSeen, OnlyNewestSeen
<1>3. CASE Walking
  <2>1. walk \in Walks
    BY <1>1, <1>3 DEF WalkTyped, Walking
  <2>2. PICK M, N : M = Walked /\ N = MatchingIn(walk.list, sites', crawlings')
    OBVIOUS
  <2>3. walk' = [walk EXCEPT !.left = @ \/ ~(M \subseteq N),
                             !.came = @ \/ ~(N \subseteq M),
                             !.late = @ \/ (walk.at = "counted" /\ ~(N \subseteq M))]
    BY <1>3, <2>2 DEF Observe, Walking, Walked
  <2>4. /\ walk' \in Walks
        /\ walk'.at = walk.at /\ walk'.list = walk.list /\ walk'.skip = walk.skip /\ walk'.total = walk.total
        /\ walk'.first = walk.first /\ walk'.seen = walk.seen
    BY <2>1, <2>3 DEF Walks
  <2>5. /\ ~walk'.left => ~walk.left /\ M \subseteq N
        /\ ~walk'.came => ~walk.came /\ N \subseteq M
        /\ ~walk'.late /\ walk.at = "counted" => ~walk.late /\ N \subseteq M
        /\ ~walk'.late => ~walk.late
    BY <2>1, <2>3 DEF Walks
  <2>6. Walked' = N /\ (Walking' <=> Walking)
    BY <2>2, <2>4 DEF Walked, Walking, Matching
  <2>7. IsFiniteSet(M) /\ M \subseteq DOMAIN created /\ \A x \in M : created[x] \in Int
    BY <2>2, MatchedDocuments DEF Walked, Matching, WalkInv, Stamped, DocumentsOK
  <2>8. IsFiniteSet(N) /\ \A x \in N : created'[x] \in Int
    BY <2>2, MatchedDocuments DEF Stamped, DocumentsOK
  <2>9. ASSUME M \subseteq N, NEW x \in M
        PROVE  /\ Rank(created, x, M) \in Nat /\ Rank(created', x, N) \in Nat
               /\ Rank(created, x, M) <= Rank(created', x, N)
    <3>1. \A y \in M : created[y] = created'[y]
      BY <2>7 DEF Extends
    <3> QED
      BY <2>8, <2>9, <3>1, RankGrows
  <2>10. walk.skip \in Nat
    BY <2>1 DEF Walks
  <2>11. TotalIsCurrent'
    <3> SUFFICES ASSUME walk.at = "counted", ~walk'.left, ~walk'.late
                 PROVE  walk.total = Cardinality(N)
      BY <2>4, <2>6 DEF TotalIsCurrent
    <3>1. ~walk.left /\ ~walk.late /\ M \subseteq N /\ N \subseteq M
      BY <2>5
    <3>2. M = N
      BY <3>1
    <3> QED
      BY <2>2, <3>1, <3>2 DEF WalkInv, TotalIsCurrent
  <2>12. FirstRemain' /\ NothingCame'
    BY <1>3, <2>2, <2>4, <2>5, <2>6 DEF WalkInv, FirstRemain, NothingCame
  <2>13. NewestSeen'
    <3> SUFFICES ASSUME ~walk'.left, Untied', NEW x \in walk.first, Rank(created', x, N) < walk.skip
                 PROVE  x \in Range(walk.seen)
      BY <2>4, <2>6 DEF NewestSeen
    <3>1. ~walk.left /\ M \subseteq N /\ Untied
      BY <1>1, <2>5
    <3>2. x \in M
      BY <1>3, <2>2, <3>1 DEF WalkInv, FirstRemain
    <3>3. Rank(created, x, M) < walk.skip
      BY <2>9, <2>10, <3>1, <3>2
    <3> QED
      BY <1>3, <2>2, <3>1, <3>3 DEF WalkInv, NewestSeen
  <2>14. OnlyNewestSeen'
    <3> SUFFICES ASSUME ~walk'.left, ~walk'.came, Untied', NEW x \in Range(walk.seen)
                 PROVE  x \in N /\ Rank(created', x, N) < walk.skip
      BY <2>4, <2>6 DEF OnlyNewestSeen
    <3>1. ~walk.left /\ ~walk.came /\ M = N /\ Untied
      BY <1>1, <2>5
    <3>2. x \in M /\ Rank(created, x, M) < walk.skip
      BY <1>3, <2>2, <3>1 DEF WalkInv, OnlyNewestSeen
    <3>3. Newer(created', x, N) = Newer(created, x, M)
      BY <2>7, <3>1, <3>2 DEF Newer, Extends
    <3> QED
      BY <3>1, <3>2, <3>3 DEF Rank
  <2>15. WalksMissNothing' /\ WalksRepeatNothing'
    BY <1>1, <1>3, <2>4, <2>5 DEF WalkInv, WalksMissNothing, WalksRepeatNothing, Walking
  <2> QED
    BY <2>4, <2>11, <2>12, <2>13, <2>14, <2>15 DEF WalkInv, WalkTyped
<1> QED
  BY <1>2, <1>3

(* A walk begins with all there is, and nothing seen.                      *)
LEMMA StartKeepsWalks ==
  ASSUME DocumentsOK, WalkInv, NEW list \in Listings, NEW request \in Requested, StartWalk(list, request)
  PROVE  WalkInv'
<1>1. walk' = NewWalk(list, request) /\ UNCHANGED <<sites, crawlings, created>>
  BY DEF StartWalk, docs
<1>2. Matching(list) \subseteq Documents
  BY MatchedDocuments DEF WalkInv, Stamped, DocumentsOK, Matching, Documents
<1>3. <<>> \in Seq(Documents) /\ Range(<<>>) = {} /\ IsInjective(<<>>)
  BY DEF Range, IsInjective
<1>4. walk' \in Walks
  BY <1>1, <1>2, <1>3 DEF NewWalk, Walks
<1>5. /\ walk'.at = "paging" /\ walk'.skip = 0 /\ walk'.seen = <<>>
      /\ walk'.first = Matching(list) /\ Walked' = Matching(list)
  BY <1>1 DEF NewWalk, Walked, Matching
<1>6. Stamped' /\ WalkTyped'
  BY <1>1, <1>4 DEF WalkInv, Stamped, WalkTyped
<1>7. TotalIsCurrent' /\ FirstRemain' /\ NothingCame' /\ WalksMissNothing'
  BY <1>5 DEF TotalIsCurrent, FirstRemain, NothingCame, WalksMissNothing
<1>8. NewestSeen'
  <2>1. ASSUME NEW x \in Matching(list) PROVE Rank(created, x, Matching(list)) \in Nat
    BY MatchedDocuments, RankBound DEF WalkInv, Stamped, DocumentsOK, Matching
  <2>2. \A x \in Matching(list) : ~(Rank(created, x, Matching(list)) < 0)
    BY <2>1
  <2> QED
    BY <1>1, <1>5, <2>2 DEF NewestSeen
<1>9. OnlyNewestSeen' /\ WalksRepeatNothing'
  BY <1>3, <1>5 DEF OnlyNewestSeen, WalksRepeatNothing
<1> QED
  BY <1>6, <1>7, <1>8, <1>9 DEF WalkInv

LEMMA CountKeepsWalks ==
  ASSUME DocumentsOK, WalkInv, Count
  PROVE  WalkInv'
<1>1. walk.at = "paging" /\ UNCHANGED <<sites, crawlings, created>>
      /\ walk' = [walk EXCEPT !.at = "counted", !.total = Cardinality(Walked)]
  BY DEF Count, docs, Walked
<1>2. walk \in Walks
  BY <1>1 DEF WalkInv, WalkTyped
<1>3. /\ walk'.at = "counted" /\ walk'.total = Cardinality(Walked)
      /\ walk'.list = walk.list /\ walk'.skip = walk.skip /\ walk'.first = walk.first /\ walk'.seen = walk.seen
      /\ walk'.left = walk.left /\ walk'.came = walk.came /\ walk'.late = walk.late
  BY <1>1, <1>2 DEF Walks
<1>4. Walked' = Walked /\ (Untied' <=> Untied) /\ Walking /\ Walking'
  BY <1>1, <1>3 DEF Walked, Matching, Untied, Walking
<1>5. WalkTyped'
  <2>1. IsFiniteSet(Walked)
    BY MatchedDocuments DEF Walked, Matching, WalkInv, Stamped, DocumentsOK
  <2>2. Cardinality(Walked) \in Nat
    BY <2>1, FS_CardinalityType
  <2> QED
    BY <1>1, <1>2, <2>2 DEF WalkTyped, Walks
<1>6. TotalIsCurrent' /\ FirstRemain' /\ NothingCame' /\ WalksMissNothing' /\ WalksRepeatNothing'
  BY <1>1, <1>3, <1>4
     DEF WalkInv, TotalIsCurrent, FirstRemain, NothingCame, WalksMissNothing, WalksRepeatNothing
<1>7. NewestSeen' /\ OnlyNewestSeen'
  BY <1>1, <1>3, <1>4 DEF WalkInv, NewestSeen, OnlyNewestSeen
<1>8. Stamped'
  BY <1>1 DEF WalkInv, Stamped
<1> QED
  BY <1>5, <1>6, <1>7, <1>8 DEF WalkInv

(* The page adds the documents ranked from the skip on (mongodb.go:136,    *)
(* 252); when it was the last, the total was the size of the listing, so   *)
(* every rank is before the next skip.                                     *)
LEMMA FindKeepsWalks ==
  ASSUME DocumentsOK, WalkInv, Find
  PROVE  WalkInv'
<1>1. walk.at = "counted" /\ UNCHANGED <<sites, crawlings, created>>
  BY DEF Find, docs
<1>2. walk \in Walks
  BY <1>1 DEF WalkInv, WalkTyped
<1>3. PICK M, skip, limit, next : /\ M = Walked /\ skip = walk.skip
                                  /\ limit = Limit(walk.request) /\ next = skip + limit
  OBVIOUS
<1>4. skip \in Nat /\ limit \in Nat /\ next \in Nat
  BY <1>2, <1>3, CatalogAssumption DEF Walks, Limit
<1>5. PICK order \in NewestFirst(M) :
        walk' = [walk EXCEPT !.at = IF next < walk.total THEN "paging" ELSE "done",
                             !.skip = next, !.seen = @ \o Page(order, skip, limit)]
  BY <1>3 DEF Find, Walked
<1>6. /\ IsFiniteSet(M) /\ M \subseteq Documents /\ \A x \in M : created[x] \in Int
  BY <1>3, MatchedDocuments DEF Walked, Matching, WalkInv, Stamped, DocumentsOK, Documents
<1>7. PICK n \in Nat : n = Cardinality(M)
  BY <1>6, FS_CardinalityType
<1>8. Sorts(created, order, M)
  BY <1>5, <1>7 DEF NewestFirst, Sorts, Bijection, Injection
<1>9. PICK page : page = Page(order, skip, limit)
  OBVIOUS
<1>10. page \in Seq(M)
  BY <1>4, <1>5, <1>7, <1>8, <1>9, PageElements DEF Sorts, Bijection, Injection
<1>11. page \in Seq(Documents)
  BY <1>6, <1>10
<1>12. /\ walk' \in Walks
       /\ walk'.at = (IF next < walk.total THEN "paging" ELSE "done") /\ walk'.skip = next
       /\ walk'.list = walk.list /\ walk'.first = walk.first /\ walk'.seen = walk.seen \o page
       /\ walk'.left = walk.left /\ walk'.came = walk.came /\ walk'.late = walk.late
  <2>1. walk.seen \in Seq(Documents)
    BY <1>2 DEF Walks
  <2>2. walk.seen \o page \in Seq(Documents)
    BY <1>11, <2>1, ConcatProperties
  <2>3. walk' = [walk EXCEPT !.at = IF next < walk.total THEN "paging" ELSE "done",
                             !.skip = next, !.seen = walk.seen \o page]
    BY <1>5, <1>9
  <2> QED
    BY <1>2, <1>4, <2>2, <2>3 DEF Walks
<1>13. Walked' = M /\ (Untied' <=> Untied) /\ Walking
  BY <1>1, <1>3, <1>12 DEF Walked, Matching, Untied, Walking
<1>14. Range(walk'.seen) = Range(walk.seen) \union Range(page)
  BY <1>2, <1>11, <1>12, ConcatenationKeepsApart DEF Walks
<1>15. ASSUME Untied
       PROVE  /\ IsInjective(page)
              /\ \A x \in M : skip <= Rank(created, x, M) /\ Rank(created, x, M) < next => x \in Range(page)
              /\ \A x \in Range(page) : x \in M /\ skip <= Rank(created, x, M) /\ Rank(created, x, M) < next
  <2>1. \A x, y \in M : created[x] = created[y] => x = y
    BY <1>3, <1>15, MatchedApart DEF Walked, WalkInv
  <2>2. /\ IsInjective(Page(order, skip, limit))
        /\ \A x \in M : skip <= Rank(created, x, M) /\ Rank(created, x, M) < skip + limit
                          => x \in Range(Page(order, skip, limit))
        /\ \A x \in Range(Page(order, skip, limit)) :
             x \in M /\ skip <= Rank(created, x, M) /\ Rank(created, x, M) < skip + limit
    BY <1>4, <1>6, <1>8, <2>1, PageHoldsItsRanks
  <2> QED
    BY <1>3, <1>9, <2>2
<1>16. \A x \in M : Rank(created, x, M) \in Nat /\ Rank(created, x, M) < n
  BY <1>6, <1>7, RankBound
<1>17. ASSUME ~walk.left, Untied, NEW x \in walk.first, Rank(created, x, M) < next
       PROVE  x \in M /\ x \in Range(walk'.seen)
  <2>1. x \in M
    BY <1>3, <1>13, <1>17 DEF WalkInv, FirstRemain
  <2>2. CASE Rank(created, x, M) < skip
    BY <1>3, <1>13, <1>14, <1>17, <2>1, <2>2 DEF WalkInv, NewestSeen
  <2>3. CASE ~(Rank(created, x, M) < skip)
    BY <1>4, <1>14, <1>15, <1>16, <1>17, <2>1, <2>3
  <2> QED
    BY <2>1, <2>2, <2>3
<1>18. ASSUME ~walk.left, ~walk.came, Untied
       PROVE  /\ \A x \in Range(walk.seen) : x \in M /\ Rank(created, x, M) < skip
              /\ \A x \in Range(walk'.seen) : x \in M /\ Rank(created, x, M) < next
              /\ IsInjective(walk'.seen)
  <2>1. \A x \in Range(walk.seen) : x \in M /\ Rank(created, x, M) < skip
    BY <1>3, <1>13, <1>18 DEF WalkInv, OnlyNewestSeen
  <2>2. \A x \in Range(walk'.seen) : x \in M /\ Rank(created, x, M) < next
    BY <1>3, <1>4, <1>14, <1>15, <1>16, <1>18, <2>1
  <2>3. Range(walk.seen) \intersect Range(page) = {}
    BY <1>4, <1>15, <1>16, <1>18, <2>1
  <2>4. IsInjective(walk.seen)
    BY <1>1, <1>18 DEF WalkInv, WalksRepeatNothing
  <2>5. walk.seen \in Seq(Documents)
    BY <1>2 DEF Walks
  <2>6. IsInjective(walk.seen \o page)
    BY <1>11, <1>15, <1>18, <2>3, <2>4, <2>5, ConcatenationKeepsApart
  <2> QED
    BY <1>12, <2>1, <2>2, <2>6
<1>19. Stamped' /\ WalkTyped' /\ TotalIsCurrent'
  BY <1>1, <1>12 DEF WalkInv, Stamped, WalkTyped, TotalIsCurrent
<1>20. FirstRemain' /\ NothingCame'
  BY <1>3, <1>12, <1>13 DEF WalkInv, FirstRemain, NothingCame
<1>21. NewestSeen'
  BY <1>1, <1>12, <1>13, <1>17 DEF NewestSeen
<1>22. OnlyNewestSeen' /\ WalksRepeatNothing'
  BY <1>1, <1>12, <1>13, <1>18 DEF OnlyNewestSeen, WalksRepeatNothing
<1>23. WalksMissNothing'
  <2> SUFFICES ASSUME walk'.at = "done", ~walk.left, ~walk.late, Untied, NEW x \in walk.first
               PROVE  x \in Range(walk'.seen)
    BY <1>12, <1>13 DEF WalksMissNothing
  <2>1. walk.total = n
    BY <1>1, <1>3, <1>7 DEF WalkInv, TotalIsCurrent
  <2>2. ~(next < n)
    BY <1>12, <2>1
  <2>3. x \in M
    BY <1>3, <1>13 DEF WalkInv, FirstRemain
  <2>4. Rank(created, x, M) < next
    BY <1>4, <1>16, <2>2, <2>3
  <2> QED
    BY <1>17, <2>4
<1> QED
  BY <1>19, <1>20, <1>21, <1>22, <1>23 DEF WalkInv

LEMMA StampedStep ==
  ASSUME Stamped, CatalogNext
  PROVE  Stamped' /\ Extends
<1>1. ASSUME NEW x, NEW now, x \notin DOMAIN created, created' = Put(created, x, now)
      PROVE  Stamped' /\ Extends
  <2>1. DOMAIN created' = DOMAIN created \union {x}
    BY <1>1 DEF Put
  <2>2. IsFiniteSet(DOMAIN created \union {x})
    BY FS_AddElement DEF Stamped
  <2>3. Extends
    BY <1>1, <2>1 DEF Extends, Put
  <2> QED
    BY <2>1, <2>2, <2>3 DEF Stamped
<1>2. CASE UNCHANGED created
  BY <1>2 DEF Stamped, Extends
<1> QED
  BY <1>1, <1>2
     DEF CatalogNext, CreateSite, UpdateSite, DeleteSite, ReadSite, CreateCrawling, UpdateCrawlingStatus,
         StartWalk, Count, Find, docs

LEMMA WalkInvStep ==
  ASSUME DocumentsOK, DocumentsOK', WalkInv, CatalogNext
  PROVE  WalkInv'
<1>1. Stamped' /\ Extends
  BY StampedStep DEF WalkInv
<1>2. CASE Observe
  BY <1>1, <1>2, ObserveKeepsWalks
<1>3. CASE \E list \in Listings, request \in Requested : StartWalk(list, request)
  BY <1>3, StartKeepsWalks
<1>4. CASE Count
  BY <1>4, CountKeepsWalks
<1>5. CASE Find
  BY <1>5, FindKeepsWalks
<1>6. CASE UNCHANGED <<docs, walk>>
  BY <1>6
     DEF docs, WalkInv, Stamped, WalkTyped, TotalIsCurrent, FirstRemain, NothingCame, NewestSeen, OnlyNewestSeen,
         WalksMissNothing, WalksRepeatNothing, Walked, Walking, Matching, Untied
<1> QED
  BY <1>2, <1>3, <1>4, <1>5, <1>6
     DEF CatalogNext, CreateSite, UpdateSite, DeleteSite, ReadSite, CreateCrawling, UpdateCrawlingStatus

(* What a client has seen of a listing, between any two commands: the      *)
(* documents ranked before its skip (handler.go:104-118, 581-591,          *)
(* mongodb.go:136-154).                                                    *)
THEOREM CatalogWalks == CatalogSpec => []WalkInv
<1> DEFINE Inv == DocumentsOK /\ StartsOK /\ WalkInv
<1>1. CatalogInit => Inv
  <2> SUFFICES ASSUME CatalogInit
               PROVE  Inv
    OBVIOUS
  <2>1. DocumentsOK /\ StartsOK
    BY CatalogAssumption DEF CatalogInit, DocumentsOK, StartsOK, Nothing
  <2>2. walk.at = "none" /\ walk = [at |-> "none"] /\ DOMAIN created = {}
    BY DEF CatalogInit, Nothing
  <2>3. Stamped /\ WalkTyped
    BY <2>2, FS_EmptySet DEF Stamped, WalkTyped
  <2> QED
    BY <2>1, <2>2, <2>3
       DEF WalkInv, TotalIsCurrent, FirstRemain, NothingCame, NewestSeen, OnlyNewestSeen,
           WalksMissNothing, WalksRepeatNothing, Walking
<1>2. Inv /\ [CatalogNext]_catalogVars => Inv'
  <2> SUFFICES ASSUME Inv, [CatalogNext]_catalogVars
               PROVE  Inv'
    OBVIOUS
  <2>1. CASE CatalogNext
    BY <2>1, DocumentsStep, StartsStep, WalkInvStep
  <2>2. CASE UNCHANGED catalogVars
    <3>1. DocumentsOK' /\ StartsOK'
      BY <2>2 DEF catalogVars, docs, DocumentsOK, StartsOK
    <3>2. WalkInv'
      BY <2>2
         DEF catalogVars, docs, WalkInv, Stamped, WalkTyped, TotalIsCurrent, FirstRemain, NothingCame, NewestSeen,
             OnlyNewestSeen, WalksMissNothing, WalksRepeatNothing, Walked, Walking, Matching, Untied
    <3> QED
      BY <3>1, <3>2
  <2> QED
    BY <2>1, <2>2
<1>3. Inv => WalkInv
  OBVIOUS
<1> QED
  BY <1>1, <1>2, <1>3, PTL DEF CatalogSpec

(* A client that pages through a listing until it has skipped the total    *)
(* sees every document that was there when it began, for any number of     *)
(* documents and of requests, any limits, and whatever is created on the   *)
(* way; unless one leaves, one joins between a count and its find, or two  *)
(* have the same created_at (handler.go:581-591, mongodb.go:136-154).      *)
THEOREM WalksAreComplete == CatalogSpec => []WalksMissNothing
<1>1. WalkInv => WalksMissNothing
  BY DEF WalkInv
<1> QED
  BY <1>1, CatalogWalks, PTL

(* And it sees none twice, unless one joins or leaves (mongodb.go:136,     *)
(* 252: skip and limit on one sort).                                       *)
THEOREM WalksNeverRepeat == CatalogSpec => []WalksRepeatNothing
<1>1. WalkInv => WalksRepeatNothing
  BY DEF WalkInv
<1> QED
  BY <1>1, CatalogWalks, PTL
=============================================================================
