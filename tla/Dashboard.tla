------------------------------- MODULE Dashboard -------------------------------
(***************************************************************************)
(* The dashboard's table of emails: tab and page, one cached query for each *)
(* combination of them, answers that arrive while the user has moved on,    *)
(* the poll, the invalidation after a submit, and GET /api/emails with its  *)
(* two SELECTs.                                                             *)
(*                                                                         *)
(* The pipeline is an environment that adds rows, moves them from the       *)
(* statuses of the first tab to those of the second, and re-parks them.     *)
(* The query client is @tanstack/react-query 5, used with refetchInterval,  *)
(* a staleTime and the previous rows as placeholder.  The search box is in  *)
(* module Search.                                                          *)
(***************************************************************************)
EXTENDS Naturals, FiniteSets, SequencesExt, FiniteSetsExt

CONSTANTS
  Rows,      \* emails of the user
  Times,     \* values of scheduledAt: a bound
  PageSize,  \* PAGE_SIZE
  MaxAsked,  \* bound: queries that are being fetched at once
  Budget     \* how many steps of each kind a behaviour may contain

(* A fetch that fails, a re-park at the rate limit, a campaign of this user, a *)
(* change of tab or page.                                                      *)
BoundedKinds == {"fetch", "repark", "submit", "navigate"}

ASSUME DashboardAssumption ==
  /\ IsFiniteSet(Rows) /\ IsFiniteSet(Times) /\ Times \subseteq Nat
  /\ PageSize \in Nat \ {0} /\ MaxAsked \in Nat \ {0}
  /\ Budget \in [BoundedKinds -> Nat]

(* TAB_STATUS: the rows in flight and the rows in a terminal status. *)
Tabs == {"scheduled", "sent"}
Pages == 1 .. Max({1, (Cardinality(Rows) + PageSize - 1) \div PageSize})
Keys == Tabs \X Pages

VARIABLES
  place,     \* per row: the tab its status belongs to, "none" before it exists
  at,        \* per row: scheduledAt
  announced, \* rows whose campaign the compose form has been told of
  tab, page, \* what the user looks at
  cache,     \* per key: the last answer
  failed,    \* keys whose last fetch failed
  stale,     \* keys invalidated since their last answer
  asked,     \* per key: the request under way
  lastKey,   \* the key of the placeholder: the last one shown with data
  owed,      \* per key: rows announced while its data were shown and not read since
  left       \* steps still allowed

dbVars == <<place, at>>
uiVars == <<tab, page, lastKey>>
vars == <<dbVars, announced, uiVars, cache, failed, stale, asked, owed, left>>

\* An answer: the rows of one page and the number of all.  A request also knows
\* (for the properties) the rows that existed when it read.
NoData == [has |-> FALSE, rows |-> << >>, total |-> 0]
Idle   == [busy |-> FALSE, got |-> {}, data |-> NoData, seen |-> {}]
Asked  == [Idle EXCEPT !.busy = TRUE]

Answers == [has : BOOLEAN, rows : Seq(Rows), total : 0 .. Cardinality(Rows)]
Fetches == [busy : BOOLEAN, got : SUBSET {"rows", "total"}, data : Answers, seen : SUBSET Rows]

TypeOK ==
  /\ place \in [Rows -> Tabs \cup {"none"}] /\ at \in [Rows -> Times]
  /\ announced \subseteq Rows
  /\ tab \in Tabs /\ page \in Pages /\ lastKey \in Keys
  /\ cache \in [Keys -> Answers] /\ asked \in [Keys -> Fetches]
  /\ \A k \in Keys : Len(cache[k].rows) <= PageSize /\ Len(asked[k].data.rows) <= PageSize
  /\ owed \in [Keys -> SUBSET announced]
  /\ failed \subseteq Keys /\ stale \subseteq Keys
  /\ left \in [BoundedKinds -> Nat]

Key == <<tab, page>>

Init ==
  /\ place \in [Rows -> Tabs \cup {"none"}] /\ at \in [Rows -> Times]
  /\ announced = {}
  /\ tab = "scheduled" /\ page = 1 /\ lastKey = <<"scheduled", 1>>
  /\ cache = [k \in Keys |-> NoData]
  /\ failed = {} /\ stale = {}
  /\ asked = [[k \in Keys |-> Idle] EXCEPT ![<<"scheduled", 1>>] = Asked]
  /\ owed = [k \in Keys |-> {}]
  /\ left = Budget

Once(k) == left[k] > 0 /\ left' = [left EXCEPT ![k] = @ - 1]

-----------------------------------------------------------------------------
(* The database *)

In(t) == {e \in Rows : place[e] = t}

\* A campaign's transaction commits.
AddRow(e) ==
  /\ place[e] = "none"
  /\ place' = [place EXCEPT ![e] = "scheduled"]
  /\ UNCHANGED <<at, announced, uiVars, cache, failed, stale, asked, owed, left>>

\* The worker sends a row or gives it up.
FinishRow(e) ==
  /\ place[e] = "scheduled"
  /\ place' = [place EXCEPT ![e] = "sent"]
  /\ UNCHANGED <<at, announced, uiVars, cache, failed, stale, asked, owed, left>>

\* A re-park at the rate limit moves scheduledAt.
ReparkRow(e) ==
  /\ place[e] = "scheduled"
  /\ Once("repark")
  /\ \E t \in Times : t > at[e] /\ at' = [at EXCEPT ![e] = t]
  /\ UNCHANGED <<place, announced, uiVars, cache, failed, stale, asked, owed>>

\* What ORDER BY scheduled_at, seq may return: rows of two campaigns can tie.
Listings(t) ==
  {s \in SetToSeqs(In(t)) : \A i, j \in 1 .. Len(s) : i < j => at[s[i]] <= at[s[j]]}

\* Variant: OFFSET without LIMIT.
PageOfUnlimited(s, p) == SubSeq(s, (p - 1) * PageSize + 1, Len(s))

\* OFFSET and LIMIT.
PageOf(s, p) == SubSeq(s, (p - 1) * PageSize + 1, Min({p * PageSize, Len(s)}))

-----------------------------------------------------------------------------
(* GET /api/emails: listEmails runs its two SELECTs at once, in no transaction *)

SelectRows(k) ==
  /\ asked[k].busy /\ "rows" \notin asked[k].got
  /\ \E s \in Listings(k[1]) :
       asked' = [asked EXCEPT ![k] =
                   [@ EXCEPT !.got = asked[k].got \cup {"rows"},
                             !.data = [asked[k].data EXCEPT !.rows = PageOf(s, k[2])],
                             !.seen = Rows \ In("none")]]
  /\ UNCHANGED <<dbVars, announced, uiVars, cache, failed, stale, owed, left>>

SelectCount(k) ==
  /\ asked[k].busy /\ "total" \notin asked[k].got
  /\ asked' = [asked EXCEPT ![k] =
                  [@ EXCEPT !.got = asked[k].got \cup {"total"},
                            !.data = [asked[k].data EXCEPT !.total = Cardinality(In(k[1]))]]]
  /\ UNCHANGED <<dbVars, announced, uiVars, cache, failed, stale, owed, left>>

-----------------------------------------------------------------------------
(* The query client *)

\* The fetches of the keys S start, those without data afresh; a fetch that is
\* under way is not doubled.
Fetch(S) ==
  /\ asked' = [k \in Keys |-> IF k \in S /\ ~asked[k].busy THEN Asked ELSE asked[k]]
  /\ Cardinality({k \in Keys : asked'[k].busy}) <= MaxAsked
  /\ failed' = failed \ {k \in S : ~cache[k].has}

\* The answer is cached under the key it was asked for.
Receive(k) ==
  /\ asked[k].got = {"rows", "total"}
  /\ cache' = [cache EXCEPT ![k] = [asked[k].data EXCEPT !.has = TRUE]]
  /\ asked' = [asked EXCEPT ![k] = Idle]
  /\ failed' = failed \ {k}
  /\ stale' = stale \ {k}
  /\ lastKey' = IF k = Key THEN k ELSE lastKey
  /\ owed' = [owed EXCEPT ![k] = @ \ asked[k].seen]
  /\ UNCHANGED <<dbVars, announced, tab, page, left>>

\* The request fails and so do its retries; cached data are kept.
FetchFails(k) ==
  /\ asked[k].busy
  /\ Once("fetch")
  /\ asked' = [asked EXCEPT ![k] = Idle]
  /\ failed' = failed \cup {k}
  /\ UNCHANGED <<dbVars, announced, uiVars, cache, stale, owed>>

\* Variant: no refetchInterval, so that a query is refetched only after an error.
PollNever ==
  /\ ~asked[Key].busy /\ ~cache[Key].has
  /\ Fetch({Key})
  /\ UNCHANGED <<dbVars, announced, uiVars, cache, stale, owed, left>>

\* refetchInterval of the query that is shown.
Poll ==
  /\ ~asked[Key].busy
  /\ Fetch({Key})
  /\ UNCHANGED <<dbVars, announced, uiVars, cache, stale, owed, left>>

\* Variant: a fetch that is under way is taken for the one asked for.
InvalidateUncancelled(S) ==
  /\ announced' = announced \cup S
  /\ owed' = [owed EXCEPT ![Key] = IF cache[Key].has THEN announced' ELSE @]
  /\ stale' = Keys
  /\ Fetch({Key})
  /\ UNCHANGED <<dbVars, uiVars, cache>>

\* onSuccess of useCreateCampaign: every query is stale, and the one that is
\* shown is fetched anew.  A fetch under way is dropped, unless it is the first.
Invalidate(S) ==
  /\ announced' = announced \cup S
  /\ owed' = [owed EXCEPT ![Key] = IF cache[Key].has THEN announced' ELSE @]
  /\ stale' = Keys
  /\ asked' = [asked EXCEPT ![Key] = IF @.busy /\ ~cache[Key].has THEN @ ELSE Asked]
  /\ failed' = IF cache[Key].has THEN failed ELSE failed \ {Key}
  /\ UNCHANGED <<dbVars, uiVars, cache>>

\* The campaign of rows S has been answered with a 201.
Announce(S) ==
  /\ S # {} /\ S \subseteq (Rows \ In("none")) \ announced
  /\ Once("submit")
  /\ Invalidate(S)

-----------------------------------------------------------------------------
(* The page *)

\* The rows of the key, or those shown before while it has none.
Shown == IF cache[Key].has \/ Key \in failed THEN cache[Key] ELSE cache[lastKey]

TotalPages == Max({1, (Shown.total + PageSize - 1) \div PageSize})

\* The pager is drawn with the table: not over an error and not without rows.
PagerShown == Shown.has /\ Key \notin failed /\ Shown.rows # << >>

\* The keys via and key are mounted one after the other, and key stays: the last of them
\* with data is the new placeholder.  Those without data or invalidated are fetched, the
\* others if they are older than staleTime.
Mount(via, key) ==
  /\ Once("navigate")
  /\ tab' = key[1] /\ page' = key[2]
  /\ lastKey' = IF cache[key].has THEN key ELSE IF cache[via].has THEN via ELSE lastKey
  /\ \E old \in SUBSET {k \in {via, key} : cache[k].has} :
       Fetch({k \in {via, key} : ~cache[k].has \/ k \in stale} \cup old)
  /\ UNCHANGED <<dbVars, announced, cache, stale, owed>>

\* setTab renders the new tab with the old page, and the effect resets the page.
SwitchTab(t) ==
  /\ t # tab
  /\ Mount(<<t, page>>, <<t, 1>>)

PrevPage == PagerShown /\ page > 1 /\ Mount(<<tab, page - 1>>, <<tab, page - 1>>)

NextPage ==
  /\ PagerShown /\ page < TotalPages
  /\ Mount(<<tab, page + 1>>, <<tab, page + 1>>)

-----------------------------------------------------------------------------

Database(e) == AddRow(e) \/ FinishRow(e) \/ ReparkRow(e)

Api(k) == SelectRows(k) \/ SelectCount(k) \/ Receive(k)

User == PrevPage \/ NextPage \/ \E t \in Tabs : SwitchTab(t)

Next ==
  \/ \E e \in Rows : Database(e)
  \/ \E k \in Keys : Api(k) \/ FetchFails(k)
  \/ \E S \in SUBSET Rows : Announce(S)
  \/ Poll \/ User

Spec == Init /\ [][Next]_vars

\* The server answers and the poll's timer fires; the user and the pipeline owe nothing.
FairSpec == Spec /\ WF_vars(Poll) /\ \A k \in Keys : WF_vars(Api(k))

-----------------------------------------------------------------------------
(* Properties *)

\* What a request for key k could return at this moment.
Current(k) ==
  /\ cache[k].has /\ cache[k].total = Cardinality(In(k[1]))
  /\ \E s \in Listings(k[1]) : cache[k].rows = PageOf(s, k[2])

\* "On success the caller invalidates the scheduled list so the new rows appear
\* immediately (before the 5s poll)": once the query whose data the user looked at
\* when the campaign was announced is not being fetched any more, its answer was
\* read with the campaign's rows in the table, whatever older answer was on its way.
NewRowsRead ==
  \A k \in Keys : k \notin failed /\ ~asked[k].busy => owed[k] = {}

\* The same of the query the user turns to later: the scheduled tab counts no fewer
\* rows than the announced ones that are still scheduled.
NewRowsCounted ==
  tab = "scheduled" /\ Key \notin failed /\ ~asked[Key].busy =>
    Shown.total >= Cardinality(announced \cap In("scheduled"))

\* "refetchInterval keeps rows migrating scheduled->sent live": once the rows are at
\* rest and the user stays on a tab and page, the page finally is what the database
\* holds, although answers came late and the two SELECTs saw different states.
ViewConverges == <>[]Current(Key)

\* "No scheduled emails" and "Nothing sent yet" are shown only of an empty tab, at
\* least when the answer they stand for is up to date.
EmptyMeansNone ==
  Current(Key) /\ Key \notin failed /\ Shown.rows = << >> => In(tab) = {}

===============================================================================
