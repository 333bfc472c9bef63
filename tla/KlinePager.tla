----------------------------- MODULE KlinePager -----------------------------
(***************************************************************************)
(* MarketDataService.fetch_klines_batch: a history longer than one page of *)
(* the venue is fetched page by page, from the newest bar backwards, while *)
(* new bars open, calls fail and other backtests ask for the same series;  *)
(* the result is kept in a cache of bounded size.                          *)
(*                                                                         *)
(* A bar is its number; its open time is that number of intervals, and the *)
(* time just before it lies in the bar before.  One series; the pages of   *)
(* the other series are like its own.                                      *)
(***************************************************************************)
EXTENDS Naturals, Sequences, SequencesExt, FiniteSetsExt

CONSTANTS
    Fetchers,      \* backtests that load their bars, each of which does so once
    Totals,        \* how many bars may be asked for
    PageSize,      \* bars in a page, at most
    CacheSize,     \* _kline_cache_max
    FirstBars,     \* how many bars the venue may have at first
    MaxBars        \* bound: bars of the venue

ASSUME PagerAssumption ==
    /\ Totals \subseteq Nat \ {0} /\ FirstBars \subseteq 0..MaxBars
    /\ PageSize \in Nat \ {0} /\ CacheSize \in Nat \ {0} /\ MaxBars \in Nat

VARIABLES
    newest,        \* the newest bar of the venue, whose bars are 1..newest
    fetches,       \* fetches[f]: the locals of a call
    klineCache     \* _kline_cache, oldest entry first

pagerVars == <<newest, fetches, klineCache>>

NoCursor == 0

PagerTypeOK ==
    /\ newest \in 0..MaxBars
    /\ fetches \in [Fetchers -> [pc: {"idle", "paging", "returned"}, total: Totals \cup {0},
                                 bars: Seq(1..MaxBars), cursor: 0..MaxBars, started: BOOLEAN,
                                 empty: 0..2, seen: 0..MaxBars, cached: BOOLEAN]]
    /\ klineCache \in Seq([total: Totals, bars: Seq(1..MaxBars)])
    /\ Len(klineCache) <= CacheSize

PagerInit ==
    /\ newest \in FirstBars
    /\ fetches = [f \in Fetchers |-> [pc |-> "idle", total |-> 0, bars |-> <<>>, cursor |-> NoCursor,
                                      started |-> FALSE, empty |-> 0, seen |-> 0, cached |-> FALSE]]
    /\ klineCache = <<>>

-------------------------------------------------------------------------------
(* Helpers *)

Least(m, n) == IF m < n THEN m ELSE n
BarsBetween(from, to) == [n \in 1..(to + 1 - Least(from, to + 1)) |-> from + n - 1]

\* fetch_klines_rest: the last limit bars up to the cursor.
Page(cursor, started, limit) ==
    LET last == IF started THEN cursor ELSE newest
    IN  BarsBetween(IF last > limit THEN last - limit + 1 ELSE 1, last)

Limit(f) == Least(PageSize, fetches[f].total - Len(fetches[f].bars))

\* Without its duplicates, in order of time, and no longer than asked for.
Sorted(S) == [n \in 1..Cardinality(S) |-> CHOOSE bar \in S : Cardinality({b \in S : b <= bar}) = n]
Merged(bars, total) ==
    LET sorted == Sorted(ToSet(bars))
    IN  SubSeq(sorted, 1, Least(total, Len(sorted)))

Entries(total) == {n \in DOMAIN klineCache : klineCache[n].total = total}

\* A key that is there keeps its place, but a full cache loses its oldest first.
CacheWith(total, bars) ==
    LET kept   == IF Len(klineCache) >= CacheSize THEN Tail(klineCache) ELSE klineCache
        known  == {n \in DOMAIN kept : kept[n].total = total}
        entry  == [total |-> total, bars |-> bars]
    IN  IF known = {} THEN Append(kept, entry)
        ELSE [n \in DOMAIN kept |-> IF n \in known THEN entry ELSE kept[n]]

-------------------------------------------------------------------------------

\* A call that finds its series complete in the cache returns it, however old.
CacheHit(f, total) ==
    /\ fetches[f].pc = "idle"
    /\ \E n \in Entries(total) :
          /\ Len(klineCache[n].bars) >= total
          /\ fetches' = [fetches EXCEPT ![f].pc = "returned", ![f].total = total, ![f].cached = TRUE,
                                        ![f].bars = SubSeq(klineCache[n].bars, 1, total)]
    /\ UNCHANGED <<newest, klineCache>>

CacheMiss(f, total) ==
    /\ fetches[f].pc = "idle"
    /\ \A n \in Entries(total) : Len(klineCache[n].bars) < total
    /\ fetches' = [fetches EXCEPT ![f].pc = "paging", ![f].total = total]
    /\ UNCHANGED <<newest, klineCache>>

\* The loop is left: the result is cached and returned.
Return(f, bars, fetch) ==
    LET result == Merged(bars, fetch.total)
    IN  /\ fetches' = [fetches EXCEPT ![f] = [fetch EXCEPT !.pc = "returned", !.bars = result]]
        /\ klineCache' = CacheWith(fetch.total, result)

\* An empty page, of a venue without older bars or of a call that failed: the
\* second in a row ends the loop.
EmptyPage(f) ==
    /\ fetches[f].pc = "paging"
    /\ IF fetches[f].empty = 1
       THEN Return(f, fetches[f].bars, [fetches[f] EXCEPT !.empty = 2])
       ELSE /\ fetches' = [fetches EXCEPT ![f].empty = 1]
            /\ UNCHANGED klineCache
    /\ UNCHANGED newest

GotPageInclusive(f) ==
    LET page  == Page(fetches[f].cursor, fetches[f].started, Limit(f))
        fetch == [fetches[f] EXCEPT !.bars = page \o @, !.empty = 0, !.cursor = Head(page), !.started = TRUE,
                                    !.seen = IF fetches[f].started THEN @ ELSE newest]
    IN  /\ fetches[f].pc = "paging"
        /\ page # <<>>
        /\ IF \/ Len(fetch.bars) >= fetch.total
              \/ Len(page) < Max({Limit(f) \div 2, 1})
           THEN Return(f, fetch.bars, fetch)
           ELSE /\ fetches' = [fetches EXCEPT ![f] = fetch]
                /\ UNCHANGED klineCache
        /\ UNCHANGED newest

\* A page goes before what there is; the next one ends just before its first
\* bar.  Enough bars, or a page less than half full, end the loop.
GotPage(f) ==
    LET page  == Page(fetches[f].cursor, fetches[f].started, Limit(f))
        fetch == [fetches[f] EXCEPT !.bars = page \o @, !.empty = 0, !.cursor = Head(page) - 1, !.started = TRUE,
                                    !.seen = IF fetches[f].started THEN @ ELSE newest]
    IN  /\ fetches[f].pc = "paging"
        /\ page # <<>>
        /\ IF \/ Len(fetch.bars) >= fetch.total
              \/ Len(page) < Max({Limit(f) \div 2, 1})
           THEN Return(f, fetch.bars, fetch)
           ELSE /\ fetches' = [fetches EXCEPT ![f] = fetch]
                /\ UNCHANGED klineCache
        /\ UNCHANGED newest

\* The venue opens a bar.
BarOpens ==
    /\ newest < MaxBars
    /\ newest' = newest + 1
    /\ UNCHANGED <<fetches, klineCache>>

PagerNext ==
    \/ \E f \in Fetchers :
          \/ \E total \in Totals : CacheHit(f, total) \/ CacheMiss(f, total)
          \/ EmptyPage(f) \/ GotPage(f)
    \/ BarOpens

PagerSpec == PagerInit /\ [][PagerNext]_pagerVars

-------------------------------------------------------------------------------
(* Properties *)

\* "walking backwards ... until the desired count is reached or no more data is
\* returned": the pages join without a gap, an overlap or a bar too many though
\* bars open between them.  A call that fetched all its pages returns the bars
\* that were the last when the first page came, as many as were asked for and
\* exist; one that was stopped by two failures returns the newest of them.
PagesJoin ==
    \A f \in Fetchers :
        LET fetch == fetches[f]
            count == Len(fetch.bars)
        IN  fetch.pc = "returned" /\ ~ fetch.cached /\ fetch.started =>
                /\ fetch.bars = BarsBetween(fetch.seen - count + 1, fetch.seen)
                /\ fetch.empty # 2 => count = Least(fetch.total, fetch.seen)

=============================================================================
