------------------------------- MODULE Queries -------------------------------
(***************************************************************************)
(* What the API reads back of a host's history, while the pipeline adds to *)
(* it: api/forecasts.py pages through the forecasts table, api/explain.py  *)
(* rebuilds the context a forecast was made from out of state_vectors.     *)
(* In front of the tables are features, which saves a vector and then      *)
(* publishes it, inference, which forecasts from it, and the persister,    *)
(* which stores the forecast: each at its own pace, so either table may be *)
(* ahead.  Their faults are in their own modules.                          *)
(***************************************************************************)
EXTENDS Naturals, Sequences, FiniteSets

CONSTANTS
    HistoryHosts,   \* hosts, numbered in the order of their ids
    LastWindow,     \* windows of the axis are 1..LastWindow
    ContextL,       \* context_L
    PageLimit,      \* the page size the client asks for
    MaxUpsets,      \* bound: lists that expire and captures uploaded again
    MaxObserved     \* bound: vectors saved

ASSUME QueriesAssumption ==
    /\ HistoryHosts \subseteq Nat \ {0}
    /\ ContextL \in Nat \ {0} /\ PageLimit \in Nat \ {0}
    /\ {LastWindow, MaxUpsets, MaxObserved} \subseteq Nat

VARIABLES
    axis,        \* per host, the last window of the capture being replayed
    observed,    \* the vectors features made, in order: [host, ts, body, upload]
    published,   \* how many of them are on the bus: all, or all but the last
    pushed,      \* how many of these inference has taken
    vectorRows,  \* state_vectors: the vectors of `observed` that were new
    buffer,      \* seq:{tenant}:{host}: the last vectors pushed
    forecasts,   \* the forecasts published, in order: [host, ts, context]
    stored,      \* how many of them the persister has taken
    forecastRows,\* forecasts: those that were new
    upsets,      \* how many of either
    pager        \* a client paging through GET /forecasts

pipelineVars ==
    <<axis, observed, published, pushed, vectorRows, buffer, forecasts, stored, forecastRows, upsets>>
queryVars == <<pipelineVars, pager>>

NoPager == [order |-> "none"]

QueriesInit ==
    /\ axis = [h \in HistoryHosts |-> 0]
    /\ observed = <<>> /\ published = 0 /\ pushed = 0
    /\ vectorRows = {} /\ forecastRows = {}
    /\ buffer = [h \in HistoryHosts |-> <<>>]
    /\ forecasts = <<>> /\ stored = 0
    /\ upsets = [lapses |-> 0, uploads |-> 0]
    /\ pager = NoPager

-----------------------------------------------------------------------------
\* ON CONFLICT DO NOTHING: the first row of a host and window stays.
KeepFirst(table, row) ==
    IF \E r \in table : r.host = row.host /\ r.ts = row.ts THEN table ELSE table \cup {row}

LastOf(seq, n) == SubSeq(seq, IF Len(seq) > n THEN Len(seq) - n + 1 ELSE 1, Len(seq))

IsTailOf(seq, t) == seq # <<>> /\ seq[Len(seq)].ts = t

\* features, FeaturesWorker._publish: the vector is saved ...
SaveVector(h, t) ==
    LET vector == [host |-> h, ts |-> t, body |-> Len(observed) + 1, upload |-> upsets.uploads]
    IN  /\ t \in axis[h] + 1 .. LastWindow
        /\ published = Len(observed) /\ Len(observed) < MaxObserved
        /\ axis' = [axis EXCEPT ![h] = t]
        /\ observed' = Append(observed, vector)
        /\ vectorRows' = KeepFirst(vectorRows, vector)
        /\ UNCHANGED <<published, pushed, buffer, forecasts, stored, forecastRows, upsets, pager>>

\* ... and then published.
PublishVector ==
    /\ published < Len(observed)
    /\ published' = published + 1
    /\ UNCHANGED <<axis, observed, pushed, vectorRows, buffer, forecasts, stored, forecastRows,
                   upsets, pager>>

\* inference: pushed unless it is the tail of the list already, and forecast
\* from once the list is full.
PushWindow ==
    LET vector == observed[pushed + 1]
        h == vector.host
        list == LastOf(Append(buffer[h], vector), ContextL)
        forecast == [host |-> h, ts |-> vector.ts, context |-> list]
    IN  /\ pushed < published
        /\ pushed' = pushed + 1
        /\ IF IsTailOf(buffer[h], vector.ts)
           THEN UNCHANGED <<buffer, forecasts>>
           ELSE /\ buffer' = [buffer EXCEPT ![h] = list]
                /\ forecasts' = IF Len(list) < ContextL THEN forecasts
                                ELSE Append(forecasts, forecast)
        /\ UNCHANGED <<axis, observed, published, vectorRows, stored, forecastRows, upsets, pager>>

\* The persister inserts the forecast.
StoreForecast ==
    /\ stored < Len(forecasts)
    /\ stored' = stored + 1
    /\ forecastRows' = KeepFirst(forecastRows, forecasts[stored + 1])
    /\ UNCHANGED <<axis, observed, published, pushed, vectorRows, buffer, forecasts, upsets, pager>>

ListExpires(h) ==
    /\ upsets.lapses + upsets.uploads < MaxUpsets /\ buffer[h] # <<>>
    /\ upsets' = [upsets EXCEPT !.lapses = @ + 1]
    /\ buffer' = [buffer EXCEPT ![h] = <<>>]
    /\ UNCHANGED <<axis, observed, published, pushed, vectorRows, forecasts, stored, forecastRows,
                   pager>>

\* The watchdog has closed the last window, so an old timestamp opens anew.
UploadAgain ==
    /\ upsets.lapses + upsets.uploads < MaxUpsets
    /\ upsets' = [upsets EXCEPT !.uploads = @ + 1]
    /\ axis' = [h \in HistoryHosts |-> 0]
    /\ UNCHANGED <<observed, published, pushed, vectorRows, buffer, forecasts, stored, forecastRows,
                   pager>>

-----------------------------------------------------------------------------
(* GET /explain and POST /counterfactual. *)

\* The inner query: the last L rows up to `until`.
SELECT_CONTEXT(h, until) ==
    LET rows == {r \in vectorRows : r.host = h /\ r.ts <= until}
    IN  {r \in rows : Cardinality({s \in rows : s.ts > r.ts}) < ContextL}

\* The outer query's ORDER BY ts: the i-th row has i - 1 rows before it.
OldestFirst(rows) ==
    [i \in 1..Cardinality(rows) |->
        CHOOSE row \in rows : Cardinality({r \in rows : r.ts < row.ts}) = i - 1]

\* Mutant: the window asked about is left out.
load_contextBefore(h, until) == OldestFirst(SELECT_CONTEXT(h, until - 1))

\* The rows as vectors, oldest first, as the encoder reads them.
load_context(h, until) == OldestFirst(SELECT_CONTEXT(h, until))

NotFound == <<>>

\* 404 unless the last of them is the window asked about.
observed_context(h, origin) ==
    LET vectors == load_context(h, origin)
    IN  IF vectors = <<>> \/ vectors[Len(vectors)].ts # origin THEN NotFound ELSE vectors

-----------------------------------------------------------------------------
(* GET /hosts and GET /forecasts/{host}/{ts}. *)

\* DISTINCT ON (host_id), newest first; what it is sorted by is left out.
_select_hosts ==
    {row \in forecastRows : \A q \in forecastRows : q.host = row.host => q.ts <= row.ts}

\* The one row of that host and window, or 404.
get_forecast(h, t) ==
    IF \E row \in forecastRows : row.host = h /\ row.ts = t
    THEN CHOOSE row \in forecastRows : row.host = h /\ row.ts = t
    ELSE NotFound

-----------------------------------------------------------------------------
(* GET /forecasts, page by page. *)

Key(row) == [host |-> row.host, ts |-> row.ts]
Keys == {Key(row) : row \in forecastRows}

\* ORDER BY origin_ts DESC | ASC, host_id ASC
Precedes(order, a, b) ==
    \/ IF order = "desc" THEN a.ts > b.ts ELSE a.ts < b.ts
    \/ a.ts = b.ts /\ a.host < b.host

\* LIMIT and OFFSET over that order.
PageAt(order, offset) ==
    {row \in Keys :
        LET rank == Cardinality({q \in Keys : Precedes(order, q, row)})
        IN  offset <= rank /\ rank < offset + PageLimit}

\* A client stops at the first page that is not full, or sizes itself by the
\* total that came with the page (forecasts.py:116).
Stops == {"short page", "total"}

\* The client begins; in an empty table there is nothing it could miss.
OpenPager(order, until) ==
    /\ pager = NoPager /\ forecastRows # {}
    /\ pager' = [order |-> order, until |-> until, offset |-> 0, seen |-> {}, since |-> Keys,
                 total |-> 0, step |-> "count"]
    /\ UNCHANGED pipelineVars

\* list_forecasts runs two statements, each with a snapshot of its own.
CountForecasts ==
    /\ pager # NoPager /\ pager.step = "count"
    /\ pager' = [pager EXCEPT !.total = Cardinality(Keys), !.step = "select"]
    /\ UNCHANGED pipelineVars

IsLastPage(page) ==
    IF pager.until = "total" THEN pager.offset + PageLimit >= pager.total
    ELSE Cardinality(page) < PageLimit

SelectPage ==
    /\ pager # NoPager /\ pager.step = "select"
    /\ LET page == PageAt(pager.order, pager.offset)
       IN  pager' = [pager EXCEPT !.seen = @ \cup page, !.offset = @ + PageLimit,
                                  !.step = IF IsLastPage(page) THEN "done" ELSE "count"]
    /\ UNCHANGED pipelineVars

QueriesNext ==
    \/ \E h \in HistoryHosts : ListExpires(h) \/ \E t \in 1..LastWindow : SaveVector(h, t)
    \/ PublishVector \/ PushWindow \/ StoreForecast
    \/ UploadAgain
    \/ \E order \in {"asc", "desc"}, until \in Stops : OpenPager(order, until)
    \/ CountForecasts \/ SelectPage

QueriesSpec == QueriesInit /\ [][QueriesNext]_queryVars

-----------------------------------------------------------------------------
\* The vectors of one upload, and no stored window between the first and the
\* last of them that is of another.
OfOneUpload(context, h) ==
    LET first == context[1]
        last == context[Len(context)]
    IN  /\ \A i \in 1..Len(context) : context[i].upload = last.upload
        /\ \A v \in vectorRows :
              v.host = h /\ first.ts <= v.ts /\ v.ts <= last.ts => v.upload = last.upload

(* An explanation explains the forecast it is asked about: it is computed  *)
(* from the very vectors that forecast was made from, whenever it is asked *)
(* for and however far the services are apart (explain.py:10-13 "the same  *)
(* observed windows the forecast was", and 93).  That needs the windows to *)
(* be of one upload, which the code does not check: a capture uploaded     *)
(* again is forecast from a list that still ends with its last windows,    *)
(* later than its first ones, while the first row of a window stays; the   *)
(* explanation then reads other windows than the forecast did, without the *)
(* 404 that explain.py:123-125 has for the explanation of another one.     *)
ExplainsTheForecast ==
    \A row \in forecastRows :
        OfOneUpload(row.context, row.host) => observed_context(row.host, row.ts) = row.context

(* Stored before published (features/worker.py:318-332): whatever is       *)
(* uploaded again, a forecast that is listed is found and has the row of   *)
(* its window behind it, so that it can be explained.                      *)
ListedForecastsAreFound ==
    /\ \A row \in forecastRows :
          /\ get_forecast(row.host, row.ts) = row
          /\ observed_context(row.host, row.ts) # NotFound
    /\ \A h \in HistoryHosts :
          (\E row \in forecastRows : row.host = h) =>
              \E row \in _select_hosts : row.host = h /\ \A q \in _select_hosts : q.host = h => q = row

(* A client that pages until a page is not full has seen every forecast    *)
(* that was there when it began, whatever was added meanwhile and in       *)
(* either order.  One that pages until the total it was told ("a page of   *)
(* history plus the total the pager needs to size itself",                 *)
(* forecasts.py:116) may stop too early, as the page is selected after the *)
(* rows are counted: it misses as many as were stored in between, no more. *)
PagingSkipsNothing ==
    pager # NoPager /\ pager.step = "done" =>
        IF pager.until = "total"
        THEN Cardinality(pager.since \ pager.seen) <= Cardinality(Keys) - pager.total
        ELSE pager.since \subseteq pager.seen

(* What the API reads of rows that are still being written.                *)
AnswersAreWhole == ExplainsTheForecast /\ ListedForecastsAreFound /\ PagingSkipsNothing
==============================================================================
