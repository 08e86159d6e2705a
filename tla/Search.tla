-------------------------------- MODULE Search --------------------------------
(***************************************************************************)
(* The search box: a debounced query, one cached answer per query and page, *)
(* and GET /api/emails/search, which asks Elasticsearch and falls back to   *)
(* Postgres when that throws.  Without a query the page asks GET            *)
(* /api/emails, which only reads Postgres.                                  *)
(*                                                                         *)
(* One user's dashboard, on one tab (module Dashboard has the change of     *)
(* tabs, failing requests and submits).  The pipeline and the index workers *)
(* are an environment: a transition of a row is followed by an index job, a *)
(* re-park is not (module SearchIndex says what a job may do).              *)
(***************************************************************************)
EXTENDS Naturals, FiniteSets, SequencesExt, FiniteSetsExt

CONSTANTS
  Rows,        \* table emails, of all users
  Mail,        \* per row: its owner, its seq and its text fields, each a sequence of words
  Me,          \* the user
  Tab,         \* the tab that is open
  Within,      \* pairs of words: the first is a part of the second
  Queries,     \* what may be typed: sequences of words
  Times,       \* values of scheduledAt: a bound
  Start,       \* per row: what it may be at first, pairs of a place and a time
  PageSize,    \* PAGE_SIZE
  MaxPageSize, \* MAX_PAGE_SIZE
  MaxHits,     \* Elasticsearch: the hits it counts, and those it pages through
  MaxAsked,    \* bound: the user acts only while fewer queries are being fetched
  Budget       \* how many steps of each kind a behaviour may contain

(* A word typed or a page turned, a re-park, a change of Elasticsearch between *)
(* answering and not answering, a transition of a row.                          *)
BoundedKinds == {"user", "repark", "outage", "move"}

ASSUME SearchAssumption ==
  /\ IsFiniteSet(Rows) /\ IsFiniteSet(Times) /\ Times \subseteq Nat \ {0}
  /\ Tab \in {"scheduled", "sent"} /\ << >> \in Queries
  /\ MaxPageSize \in Nat /\ PageSize \in 1 .. MaxPageSize
  /\ MaxHits \in Nat \ {0} /\ MaxAsked \in Nat \ {0}
  /\ Budget \in [BoundedKinds -> Nat]

Tabs == {"scheduled", "sent"}
Mine == {e \in Rows : Mail[e].owner = Me}
PageCount(n) == Max({1, (n + PageSize - 1) \div PageSize})
Keys == Queries \X (1 .. PageCount(Cardinality(Mine)))

VARIABLES
  place,    \* per row: the tab its status belongs to, "none" before it exists
  at,       \* per row: scheduledAt
  docs,     \* per row: the place and time its document shows
  jobs,     \* rows with an index job under way
  esUp,     \* whether Elasticsearch answers
  typed,    \* the trimmed contents of the search box
  q, page,  \* the debounced query, the page
  cache,    \* per key: the last answer
  asked,    \* per key: the request under way
  lastKey,  \* the key of the placeholder
  fresh,    \* bookkeeping: keys answered from the rows and documents as they are
  left      \* steps still allowed

dbVars == <<place, at>>
uiVars == <<typed, q, page, lastKey>>
vars == <<dbVars, docs, jobs, esUp, uiVars, cache, asked, fresh, left>>

NoDoc  == [place |-> "none", at |-> 0]
NoData == [has |-> FALSE, rows |-> << >>, total |-> 0]
Idle   == [busy |-> FALSE, path |-> "none", got |-> {}, data |-> NoData, fresh |-> FALSE]

Key == <<q, page>>

Answers == [has : BOOLEAN, rows : Seq(Rows), total : 0 .. Cardinality(Rows)]
Fetches == [busy : BOOLEAN, path : {"none", "es", "pg"}, got : SUBSET {"rows", "total"},
            data : Answers, fresh : BOOLEAN]

TypeOK ==
  /\ place \in [Rows -> Tabs \cup {"none"}] /\ at \in [Rows -> Times]
  /\ docs \in [Rows -> [place : Tabs \cup {"none"}, at : Times \cup {0}]]
  /\ jobs \subseteq Rows /\ fresh \subseteq Keys
  /\ esUp \in BOOLEAN /\ typed \in Queries /\ Key \in Keys /\ lastKey \in Keys
  /\ cache \in [Keys -> Answers] /\ asked \in [Keys -> Fetches]
  /\ \A k \in Keys : Len(cache[k].rows) <= PageSize /\ Len(asked[k].data.rows) <= PageSize
  /\ left \in [BoundedKinds -> Nat]

\* useEmails: a query goes to the search route, no query to the plain list.
Ask(k) == [Idle EXCEPT !.busy = TRUE, !.path = IF k[1] = << >> THEN "pg" ELSE "es",
                       !.fresh = TRUE]

Init ==
  /\ place \in [Rows -> Tabs \cup {"none"}] /\ at \in [Rows -> Times]
  /\ \A e \in Rows : <<place[e], at[e]>> \in Start[e]
  /\ docs = [e \in Rows |-> IF place[e] = "none" THEN NoDoc
                            ELSE [place |-> place[e], at |-> at[e]]]
  /\ jobs = {} /\ esUp = TRUE
  /\ typed = << >> /\ q = << >> /\ page = 1
  /\ lastKey = Key
  /\ cache = [k \in Keys |-> NoData]
  /\ asked = [[k \in Keys |-> Idle] EXCEPT ![Key] = Ask(Key)]
  /\ fresh = {}
  /\ left = Budget

Once(k) == left[k] > 0 /\ left' = [left EXCEPT ![k] = @ - 1]

-----------------------------------------------------------------------------
(* Rows and documents *)

\* No answer read so far is one of the rows and documents as they are now.
Changed ==
  /\ fresh' = {}
  /\ asked' = [k \in Keys |-> [asked[k] EXCEPT !.fresh = FALSE]]

\* A row is created or finished, and its index job enqueued.
Transition(e) ==
  /\ \E m \in {<<"none", "scheduled">>, <<"scheduled", "sent">>} :
       place[e] = m[1] /\ place' = [place EXCEPT ![e] = m[2]]
  /\ Once("move")
  /\ jobs' = jobs \cup {e}
  /\ Changed
  /\ UNCHANGED <<at, docs, esUp, uiVars, cache>>

\* A re-park at the rate limit moves scheduledAt and is not indexed.
ReparkRow(e) ==
  /\ place[e] = "scheduled"
  /\ Once("repark")
  /\ \E t \in Times : t > at[e] /\ at' = [at EXCEPT ![e] = t]
  /\ Changed
  /\ UNCHANGED <<place, docs, jobs, esUp, uiVars, cache>>

\* toEmailDoc: the document becomes what the row is.
IndexRow(e) ==
  /\ e \in jobs
  /\ docs' = [docs EXCEPT ![e] = [place |-> place[e], at |-> at[e]]]
  /\ jobs' = jobs \ {e}
  /\ Changed
  /\ UNCHANGED <<dbVars, esUp, uiVars, cache, left>>

\* Elasticsearch, or its index, goes away or comes back.
Outage ==
  /\ Once("outage")
  /\ esUp' = ~esUp
  /\ UNCHANGED <<dbVars, docs, jobs, uiVars, cache, asked, fresh>>

-----------------------------------------------------------------------------
(* What the two paths match, and in which order *)

\* ILIKE '%q%' over subject, body and recipient: the words of the query stand one
\* after the other, and the first and the last may be parts of words.
PgMatches(query, e) ==
  \E f \in Mail[e].fields : \E j \in 0 .. Len(f) - Len(query) :
    \A i \in 1 .. Len(query) :
      \/ query[i] = f[j + i]
      \/ i \in {1, Len(query)} /\ <<query[i], f[j + i]>> \in Within

\* multi_match: some word of the query is a word of some field.
EsMatches(query, e) ==
  \E f \in Mail[e].fields : ToSet(query) \cap ToSet(f) # {}

\* Variant: the fallback without the user's condition.
PgRowsOfAll(query) ==
  {e \in Rows : place[e] = Tab /\ (query = << >> \/ PgMatches(query, e))}

\* The WHERE of listEmails and searchEmailsPg.
PgRows(query) ==
  {e \in Mine : place[e] = Tab /\ (query = << >> \/ PgMatches(query, e))}

\* buildSearchBody: user_id and status are filters, the query must match.
EsHits(query) == {e \in Mine : docs[e].place = Tab /\ EsMatches(query, e)}

Orders(S, Before(_, _)) ==
  {s \in SetToSeqs(S) : \A i, j \in 1 .. Len(s) : i < j => ~Before(s[j], s[i])}

Earlier(a, b) == at[a] < at[b] \/ (at[a] = at[b] /\ Mail[a].seq < Mail[b].seq)
Later(a, b)   == at[a] > at[b] \/ (at[a] = at[b] /\ Mail[a].seq < Mail[b].seq)

\* Variant: the fallback sorted like the list.
PgOrdersListed(query) == Orders(PgRows(query), Earlier)

\* The list is ordered by scheduled_at and seq, the fallback by scheduled_at
\* descending and seq.  What ties may come in any order.
PgOrders(query) == IF query = << >> THEN Orders(PgRows(query), Earlier)
                                    ELSE Orders(PgRows(query), Later)

\* The hits are sorted by scheduled_at, descending, and by nothing else.
EsOrders(query) ==
  Orders(EsHits(query), LAMBDA a, b : docs[a].at > docs[b].at)

\* Variant: the size asked for is not read.
ClampLargest(p, size) ==
  [offset |-> (Max({1, p}) - 1) * MaxPageSize, limit |-> MaxPageSize]

\* clampPagination, of the numbers a client can send.
Clamp(p, size) ==
  LET limit == Min({MaxPageSize, Max({1, size})}) IN
  [offset |-> (Max({1, p}) - 1) * limit, limit |-> limit]

PageOf(s, p) ==
  LET c == Clamp(p, PageSize) IN
  SubSeq(s, c.offset + 1, Min({c.offset + c.limit, Len(s)}))

InWindow(p) == Clamp(p, PageSize).offset + PageSize <= MaxHits

-----------------------------------------------------------------------------
(* The two routes *)

\* searchEmails: one search gives the rows and their number.
SearchEmails(k) ==
  /\ asked[k].path = "es" /\ asked[k].got = {} /\ esUp /\ InWindow(k[2])
  /\ \E s \in EsOrders(k[1]) :
       asked' = [asked EXCEPT ![k] =
                   [@ EXCEPT !.got = {"rows", "total"},
                             !.data = [asked[k].data EXCEPT !.rows = PageOf(s, k[2]),
                                                            !.total = Min({Len(s), MaxHits})]]]
  /\ UNCHANGED <<dbVars, docs, jobs, esUp, uiVars, cache, fresh, left>>

\* searchEmails throws, and the route turns to Postgres.
FallBack(k) ==
  /\ asked[k].path = "es" /\ asked[k].got = {} /\ ~(esUp /\ InWindow(k[2]))
  /\ asked' = [asked EXCEPT ![k].path = "pg"]
  /\ UNCHANGED <<dbVars, docs, jobs, esUp, uiVars, cache, fresh, left>>

\* searchEmailsPg and listEmails: two SELECTs at once, in no transaction.
SelectRows(k) ==
  /\ asked[k].path = "pg" /\ "rows" \notin asked[k].got
  /\ \E s \in PgOrders(k[1]) :
       asked' = [asked EXCEPT ![k] =
                   [@ EXCEPT !.got = asked[k].got \cup {"rows"},
                             !.data = [asked[k].data EXCEPT !.rows = PageOf(s, k[2])]]]
  /\ UNCHANGED <<dbVars, docs, jobs, esUp, uiVars, cache, fresh, left>>

SelectCount(k) ==
  /\ asked[k].path = "pg" /\ "total" \notin asked[k].got
  /\ asked' = [asked EXCEPT ![k] =
                  [@ EXCEPT !.got = asked[k].got \cup {"total"},
                            !.data = [asked[k].data EXCEPT !.total = Cardinality(PgRows(k[1]))]]]
  /\ UNCHANGED <<dbVars, docs, jobs, esUp, uiVars, cache, fresh, left>>

-----------------------------------------------------------------------------
(* The page *)

\* The answer is cached under the key it was asked for.
Receive(k) ==
  /\ asked[k].got = {"rows", "total"}
  /\ cache' = [cache EXCEPT ![k] = [asked[k].data EXCEPT !.has = TRUE]]
  /\ fresh' = IF asked[k].fresh THEN fresh \cup {k} ELSE fresh \ {k}
  /\ asked' = [asked EXCEPT ![k] = Idle]
  /\ lastKey' = IF k = Key THEN k ELSE lastKey
  /\ UNCHANGED <<dbVars, docs, jobs, esUp, typed, q, page, left>>

\* A fetch that is under way is not doubled.
Fetch(S) == asked' = [k \in Keys |-> IF k \in S /\ ~asked[k].busy THEN Ask(k) ELSE asked[k]]

\* Variant: no refetchInterval.
PollNever ==
  /\ ~asked[Key].busy /\ ~cache[Key].has
  /\ Fetch({Key})
  /\ UNCHANGED <<dbVars, docs, jobs, esUp, uiVars, cache, fresh, left>>

\* refetchInterval of the query that is shown.
Poll ==
  /\ ~asked[Key].busy
  /\ Fetch({Key})
  /\ UNCHANGED <<dbVars, docs, jobs, esUp, uiVars, cache, fresh, left>>

\* The keys via and key are mounted one after the other, and key stays: the last of them
\* with data is the new placeholder.  Those without data are fetched, the others if they
\* are older than staleTime.
Mount(via, key) ==
  /\ q' = key[1] /\ page' = key[2]
  /\ lastKey' = IF cache[key].has THEN key ELSE IF cache[via].has THEN via ELSE lastKey
  /\ \E old \in SUBSET {k \in {via, key} : cache[k].has} :
       Fetch({k \in {via, key} : ~cache[k].has} \cup old)
  /\ UNCHANGED <<dbVars, docs, jobs, esUp, cache, fresh>>

Idling == Once("user") /\ Cardinality({k \in Keys : asked[k].busy}) < MaxAsked

Type(text) ==
  /\ text # typed
  /\ Idling
  /\ typed' = text
  /\ UNCHANGED <<dbVars, docs, jobs, esUp, q, page, lastKey, cache, asked, fresh>>

\* useDebounced: the query follows what is typed; the page is rendered with the old
\* page number, and the effect resets it.
Debounce ==
  /\ q # typed
  /\ Mount(<<typed, page>>, <<typed, 1>>)
  /\ UNCHANGED <<typed, left>>

\* The answer of the key, or the one shown before while it has none.
Shown == IF cache[Key].has THEN cache[Key] ELSE cache[lastKey]

\* Prev and Next, drawn below a table that has rows; Next looks at its total.
TurnPage ==
  /\ Shown.has /\ Shown.rows # << >>
  /\ Idling
  /\ \/ page > 1 /\ Mount(<<q, page - 1>>, <<q, page - 1>>)
     \/ page < PageCount(Shown.total) /\ Mount(<<q, page + 1>>, <<q, page + 1>>)
  /\ UNCHANGED typed

-----------------------------------------------------------------------------

Pipeline(e) == Transition(e) \/ ReparkRow(e) \/ IndexRow(e)

Route(k) == SearchEmails(k) \/ FallBack(k) \/ SelectRows(k) \/ SelectCount(k)

User == TurnPage \/ \E text \in Queries : Type(text)

Next ==
  \/ \E e \in Rows : Pipeline(e)
  \/ \E k \in Keys : Route(k) \/ Receive(k)
  \/ Outage \/ Poll \/ Debounce \/ User

Spec == Init /\ [][Next]_vars

\* Servers answer, timers fire and index jobs are run; nobody else owes anything.
FairSpec ==
  /\ Spec
  /\ WF_vars(Poll) /\ WF_vars(Debounce)
  /\ \A k \in Keys : WF_vars(Route(k) \/ Receive(k))
  /\ \A e \in Rows : WF_vars(IndexRow(e))

-----------------------------------------------------------------------------
(* Properties *)

\* "Always filtered by the authenticated user's id": whichever path answers, from
\* whatever documents, nobody's rows but the user's are shown or counted.
OwnRowsOnly ==
  \A k \in Keys : ToSet(cache[k].rows) \subseteq Mine /\ cache[k].total <= Cardinality(Mine)

\* The documents show the rows, and the query has no word that is only a part of
\* one, nor words that Elasticsearch finds apart.
Agreed(query) ==
  \A e \in Mine :
    /\ docs[e] = (IF place[e] = "none" THEN NoDoc ELSE [place |-> place[e], at |-> at[e]])
    /\ EsMatches(query, e) = PgMatches(query, e)

\* The pages of a query, read one after the other while the rows and documents stay
\* as they are, show each match once and agree on their number.
Walked(query) ==
  LET matches == PgRows(query)
      pages == 1 .. PageCount(Cardinality(matches))
      shown == FlattenSeq([p \in pages |-> cache[<<query, p>>].rows]) IN
  (\A p \in pages : <<query, p>> \in fresh) =>
    /\ Len(shown) = Cardinality(matches) /\ ToSet(shown) = matches
    /\ \A p \in pages : cache[<<query, p>>].total = Len(shown)

\* "Same filters and paging as the ES path": a walk over the pages of a list or a
\* search shows each row once, although Elasticsearch goes away or comes back in its
\* middle, if the index is up to date and no two rows are due at the same time.
PagesPartition ==
  \A query \in Queries :
    LET matches == PgRows(query) IN
    (/\ query = << >> \/ (Agreed(query) /\ Cardinality(matches) <= MaxHits)
     /\ \A a, b \in matches : at[a] = at[b] => a = b)
    => Walked(query)

\* An answer the shown query could get at this moment.
Current(k) ==
  LET es == k[1] # << >> /\ esUp /\ InWindow(k[2])
      orders == IF es THEN EsOrders(k[1]) ELSE PgOrders(k[1]) IN
  /\ cache[k].has
  /\ \E s \in orders : /\ cache[k].rows = PageOf(s, k[2])
                       /\ cache[k].total = (IF es THEN Min({Len(s), MaxHits}) ELSE Len(s))

\* "Search results can lag the DB by the index-job latency": once the rows are at
\* rest and nothing more is typed, the page finally stands on what was typed last, and
\* shows what that query finds, whatever older answers were on their way.
SearchConverges == <>[](q = typed /\ Current(Key))

-----------------------------------------------------------------------------
(* What the code does not promise, or promises and does not keep *)

\* The same walk over the rows of one campaign, which differ in seq: "same filters
\* and paging as the ES path", which does not sort by seq.
TiedPagesPartition ==
  \A query \in Queries :
    LET matches == PgRows(query) IN
    (/\ query = << >> \/ (Agreed(query) /\ Cardinality(matches) <= MaxHits)
     /\ \A a, b \in matches : at[a] = at[b] /\ Mail[a].seq = Mail[b].seq => a = b)
    => Walked(query)

\* The fallback finds what the search finds.
PathsAgree ==
  \A query \in Queries \ {<< >>} :
    (\A e \in Rows : docs[e].place = place[e]) => PgRows(query) = EsHits(query)

===============================================================================
