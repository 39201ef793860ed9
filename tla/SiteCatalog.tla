---------------------------- MODULE SiteCatalog ----------------------------
(***************************************************************************)
(* The documents the API manages, and the clients that page through them   *)
(* (internal/api/handler.go, internal/repository/mongodb.go): sites are    *)
(* created, updated and deleted, a crawling is started from a site, and a  *)
(* listing counts and then reads one page.                                 *)
(*                                                                         *)
(* One MongoDB command is one step, so a listing and a start take two.     *)
(* created_at is the clock of the API process, read before the insert:     *)
(* any stamp, in any order, possibly one that another document has.        *)
(***************************************************************************)
EXTENDS Integers, Sequences, FiniteSets, Functions

CONSTANTS
  Sites, Crawlings,   \* identifiers of documents, none used twice
  Fields, Values,     \* the fields of a site that a PUT may set, their values
  Statuses,           \* of a crawling; the first is "pending"
  Times,              \* bound: values of created_at
  DefaultLimit,       \* page length when the client asks for none, or for too many
  MaxLimit,           \* the longest page a client may ask for
  Requested,          \* bound: limits a client asks for
  Listings,           \* what clients list, see AllListings
  Bodies, Puts,       \* bound: bodies of POST /sites and of PUT /sites/:id
  MaxDocs,            \* bound: documents that are ever inserted
  MaxChanges,         \* bound: updates, deletions and changes of status
  NoFilter            \* a filter that is absent, or an identifier nobody has

(* GET /sites, and GET /crawlings with its two filters.                    *)
AllListings ==
  [of : {"sites"}] \union
  [of : {"crawlings"}, site : Sites \union {NoFilter}, status : Statuses \union {NoFilter}]

Site == [Fields -> Values]
Crawling == [site : Sites, status : Statuses]

(* A PUT names at least one field ("no fields to update" otherwise).       *)
Updates == UNION {[F -> Values] : F \in SUBSET Fields \ {{}}}

ASSUME CatalogAssumption ==
  /\ "base_url" \in Fields
  /\ "pending" \in Statuses
  /\ Times \subseteq Int
  /\ Requested \subseteq Int
  /\ Bodies \subseteq Site /\ Puts \subseteq Updates
  /\ MaxLimit \in Nat /\ DefaultLimit \in 1..MaxLimit
  /\ Listings \subseteq AllListings
  /\ MaxDocs \in Nat /\ MaxChanges \in Nat
  /\ NoFilter \notin Sites \union Statuses
  /\ Sites \intersect Crawlings = {}

VARIABLES
  sites,      \* the sites collection, by _id
  crawlings,  \* the crawlings collection, by _id
  created,    \* created_at of every document inserted so far, also of deleted ones
  start,      \* start[j]: the site that StartCrawling has read for crawling j
  walk,       \* a client that lists one page after the other
  published,  \* history: every document a create or a PUT has answered with
  changes     \* how many updates, deletions and changes of status

docs == <<sites, crawlings, created>>
catalogVars == <<docs, start, walk, published, changes>>

Nothing == [x \in {} |-> 0]
NoSite == [id |-> NoFilter, doc |-> Nothing]

Put(f, x, v) == [y \in DOMAIN f \union {x} |-> IF y = x THEN v ELSE f[y]]

(* The documents a listing matches.                                        *)
MatchingIn(list, ss, cs) ==
  IF list.of = "sites" THEN DOMAIN ss
  ELSE {j \in DOMAIN cs :
          /\ list.site \in {NoFilter, cs[j].site}
          /\ list.status \in {NoFilter, cs[j].status}}

Matching(list) == MatchingIn(list, sites, crawlings)

(* No client, a client between pages, a listing between its count and its  *)
(* find, a client that has seen everything it was told there is.           *)
Paces == {"none", "paging", "counted", "done"}

NewWalk(list, request) ==
  [at |-> "paging", list |-> list, request |-> request, skip |-> 0, total |-> 0,
   first |-> Matching(list), seen |-> <<>>, left |-> FALSE, came |-> FALSE, late |-> FALSE]

CatalogInit ==
  /\ sites = Nothing
  /\ crawlings = Nothing
  /\ created = Nothing
  /\ start = [j \in Crawlings |-> NoSite]
  /\ walk = [at |-> "none"]
  /\ published = {}
  /\ changes = 0

-----------------------------------------------------------------------------
(* What happens to a listing while a client walks it: a document leaves it *)
(* or joins it, the latter perhaps between a count and its find.           *)
Observe ==
  IF walk.at \in {"paging", "counted"}
  THEN LET now == Matching(walk.list)
           next == MatchingIn(walk.list, sites', crawlings')
       IN walk' = [walk EXCEPT !.left = @ \/ ~(now \subseteq next),
                               !.came = @ \/ ~(next \subseteq now),
                               !.late = @ \/ (walk.at = "counted" /\ ~(next \subseteq now))]
  ELSE UNCHANGED walk

(* The unique index on base_url refuses a second document.                 *)
Taken(id, doc) == \E s \in DOMAIN sites \ {id} : sites[s]["base_url"] = doc["base_url"]

Change == changes < MaxChanges /\ changes' = changes + 1

HasRoom == Cardinality(DOMAIN created) < MaxDocs

(* POST /sites.                                                            *)
CreateSite(s, doc, now) ==
  /\ HasRoom /\ s \notin DOMAIN created
  /\ ~Taken(s, doc)
  /\ sites' = Put(sites, s, doc)
  /\ created' = Put(created, s, now)
  /\ published' = published \union {<<s, doc>>}
  /\ UNCHANGED <<crawlings, start, changes>>
  /\ Observe

(* $set: the fields of the request, and no other.                          *)
Apply(doc, update) == [x \in Fields |-> IF x \in DOMAIN update THEN update[x] ELSE doc[x]]

(* Mutant: one UpdateOne for each field.                                   *)
UpdateOneField(s, update) ==
  /\ s \in DOMAIN sites
  /\ Change
  /\ ~Taken(s, Apply(sites[s], update))
  /\ \E x \in DOMAIN update : sites' = [sites EXCEPT ![s][x] = update[x]]
  /\ published' = published \union {<<s, Apply(sites[s], update)>>}
  /\ UNCHANGED <<crawlings, created, start>>
  /\ Observe

(* PUT /sites/:id.                                                         *)
UpdateSite(s, update) ==
  /\ s \in DOMAIN sites
  /\ Change
  /\ ~Taken(s, Apply(sites[s], update))
  /\ sites' = [sites EXCEPT ![s] = Apply(@, update)]
  /\ published' = published \union {<<s, Apply(sites[s], update)>>}
  /\ UNCHANGED <<crawlings, created, start>>
  /\ Observe

(* DELETE /sites/:id: crawlings of the site are not looked at.             *)
DeleteSite(s) ==
  /\ s \in DOMAIN sites
  /\ Change
  /\ sites' = Restrict(sites, DOMAIN sites \ {s})
  /\ UNCHANGED <<crawlings, created, start, published>>
  /\ Observe

(* Mutant: "site not found" is not answered.                               *)
ReadSiteUnchecked(j, s) ==
  /\ start[j] = NoSite
  /\ start' = [start EXCEPT ![j] = [id |-> s, doc |-> IF s \in DOMAIN sites THEN sites[s] ELSE Nothing]]
  /\ UNCHANGED <<docs, walk, published, changes>>

(* POST /crawlings/start reads the site ...                                *)
ReadSite(j, s) ==
  /\ start[j] = NoSite
  /\ s \in DOMAIN sites
  /\ start' = [start EXCEPT ![j] = [id |-> s, doc |-> sites[s]]]
  /\ UNCHANGED <<docs, walk, published, changes>>

(* ... and inserts the crawling; the ingestion uses what was read.         *)
CreateCrawling(j, now) ==
  /\ start[j] # NoSite
  /\ HasRoom /\ j \notin DOMAIN created
  /\ crawlings' = Put(crawlings, j, [site |-> start[j].id, status |-> "pending"])
  /\ created' = Put(created, j, now)
  /\ UNCHANGED <<sites, start, published, changes>>
  /\ Observe

(* The job or a request moves the crawling on.                             *)
UpdateCrawlingStatus(j, status) ==
  /\ j \in DOMAIN crawlings
  /\ crawlings[j].status # status
  /\ Change
  /\ crawlings' = [crawlings EXCEPT ![j].status = status]
  /\ UNCHANGED <<sites, created, start, published>>
  /\ Observe

-----------------------------------------------------------------------------
(* parsePagination.                                                        *)
Limit(request) == IF request <= 0 \/ request > MaxLimit THEN DefaultLimit ELSE request

(* Mutant: no sort.                                                        *)
AnyOrder(ids) == Bijection(1..Cardinality(ids), ids)

(* The orders a sort by created_at, newest first, may give: documents of   *)
(* one stamp come in any order.                                            *)
NewestFirst(ids) ==
  {order \in Bijection(1..Cardinality(ids), ids) : \A i, k \in DOMAIN order : i < k => created[order[i]] >= created[order[k]]}

Slice(order, from, to) == SubSeq(order, from, IF to < Len(order) THEN to ELSE Len(order))

(* Mutant: the skip is dropped.                                            *)
PageFromStart(order, skip, limit) == Slice(order, 1, limit)

(* A page is at most 100 documents, which a cursor has in its first batch   *)
(* of 101: it is taken as one command.                                     *)
Page(order, skip, limit) == Slice(order, skip + 1, skip + limit)

StartWalk(list, request) ==
  /\ walk.at = "none"
  /\ walk' = NewWalk(list, request)
  /\ UNCHANGED <<docs, start, published, changes>>

(* CountDocuments.                                                         *)
Count ==
  /\ walk.at = "paging"
  /\ walk' = [walk EXCEPT !.at = "counted", !.total = Cardinality(Matching(walk.list))]
  /\ UNCHANGED <<docs, start, published, changes>>

(* Find, and the answer: the page, the total, and the limit that was used, *)
(* from which the client goes on until it has skipped the total.           *)
Find ==
  /\ walk.at = "counted"
  /\ \E order \in NewestFirst(Matching(walk.list)) :
       LET next == walk.skip + Limit(walk.request)
       IN walk' = [walk EXCEPT !.at = IF next < walk.total THEN "paging" ELSE "done",
                               !.skip = next,
                               !.seen = @ \o Page(order, walk.skip, Limit(walk.request))]
  /\ UNCHANGED <<docs, start, published, changes>>

CatalogNext ==
  \/ \E s \in Sites, now \in Times : \E doc \in Bodies : CreateSite(s, doc, now)
  \/ \E s \in Sites : \E update \in Puts : UpdateSite(s, update)
  \/ \E s \in Sites : DeleteSite(s)
  \/ \E j \in Crawlings, s \in Sites : ReadSite(j, s)
  \/ \E j \in Crawlings, now \in Times : CreateCrawling(j, now)
  \/ \E j \in Crawlings, status \in Statuses : UpdateCrawlingStatus(j, status)
  \/ \E list \in Listings, request \in Requested : StartWalk(list, request)
  \/ Count
  \/ Find

CatalogSpec == CatalogInit /\ [][CatalogNext]_catalogVars
-----------------------------------------------------------------------------
(* Properties.                                                             *)

(* Type invariant: the documents and what is known of them.                 *)
CatalogTypeOK ==
  /\ DOMAIN sites \subseteq Sites /\ \A s \in DOMAIN sites : sites[s] \in Site
  /\ DOMAIN crawlings \subseteq Crawlings /\ \A j \in DOMAIN crawlings : crawlings[j] \in Crawling
  /\ DOMAIN sites \union DOMAIN crawlings \subseteq DOMAIN created
  /\ DOMAIN created \subseteq Sites \union Crawlings /\ \A x \in DOMAIN created : created[x] \in Times
  /\ \A j \in Crawlings : start[j] = NoSite \/ (start[j].id \in Sites /\ start[j].doc \in Site)
  /\ walk.at \in Paces
  /\ changes \in 0..MaxChanges

(* A job crawls with a site as one create or one PUT left it, also when the *)
(* site is updated or deleted between the two commands of StartCrawling and *)
(* while it is ingested (handler.go, site is read once): never with the     *)
(* url_source of one version and the url_source_type of another.            *)
JobsUseOneVersion ==
  \A j \in Crawlings : start[j] # NoSite => <<start[j].id, start[j].doc>> \in published

(* No two documents of one collection have the same created_at.             *)
Untied == \A kind \in {Sites, Crawlings} : IsInjective(Restrict(created, DOMAIN created \intersect kind))

(* ARCHITECTURE.md:818 "List all sites (paginated)": a client that goes on  *)
(* until it has skipped the total it was last told sees every document that *)
(* matched when it began, whatever limits it asks for and whatever is       *)
(* created meanwhile; unless a document left the listing, one joined it     *)
(* between a count and its find, or two were created at the same time.      *)
WalksMissNothing ==
  walk.at = "done" /\ ~walk.left /\ ~walk.late /\ Untied => walk.first \subseteq Range(walk.seen)

(* And it sees a document twice only when one joined or left meanwhile.     *)
WalksRepeatNothing ==
  walk.at # "none" /\ ~walk.left /\ ~walk.came /\ Untied => IsInjective(walk.seen)
=============================================================================
