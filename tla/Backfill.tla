------------------------------ MODULE Backfill ------------------------------
(***************************************************************************)
(* A backfill over the repositories: it asks where the stored bars of a    *)
(* series end (latest_bar_start), fetches the closed bars from there page  *)
(* by page, stores each page with store_bars, and begins again when it is  *)
(* interrupted.  Beside it the other writers store what they like: a live  *)
(* feed bars that form, corrections of old ones.                           *)
(*                                                                         *)
(* The loop itself is external, as no module of src/ has it yet; what it   *)
(* calls is not.  MarketData's instants number the bars: bar i of the      *)
(* series starts i widths after the epoch of the model.                    *)
(***************************************************************************)
EXTENDS MarketData

Models == INSTANCE VenueModels

CONSTANTS Backfiller,     \* the writer that fills the series
          Source,         \* the capabilities of the venue
          Granularity, CandlePrice,
          PageSize,       \* bars per request
          ClosedRow,      \* the row of a closed bar of the venue
          FirstNow,       \* the bar that forms when the model begins
          MaxNow          \* bound: how far the venue's time runs, in bars

ASSUME BackfillAssumption ==
    /\ Backfiller \in Writers
    /\ Models!IsCapabilities(Source)
    /\ PageSize \in 1..Source.max_candles_per_request
    /\ Granularity \in DOMAIN Models!duration
    /\ Instants = 1..Cardinality(Instants)      \* the series has no gaps at the venue
    /\ ClosedRow.complete /\ FirstNow \in Nat /\ MaxNow \in Nat

VARIABLES now,        \* the bar that is forming at the venue
          job,        \* "none", "paging", "storing" or "done"
          from,       \* the start of the job's next page, an instant
          page,       \* the bars it has fetched and not yet stored
          resumedOver,\* whether it resumed at a bar with an older one missing
          fed         \* whether another writer has stored bars

jobVars == <<now, job, from, page, resumedOver, fed>>
allVars == <<vars, jobVars>>

BackfillInit ==
    /\ Init
    /\ now = FirstNow /\ job = "none" /\ from = 0 /\ page = <<>>
    /\ resumedOver = FALSE /\ fed = FALSE

width == Models!duration[Granularity]

\* The venue's bar i.
candle(i) ==
    [start |-> i * width, granularity |-> Granularity, complete |-> i < now]

\* MarketDataSource.fetch_candles, without a right edge or incomplete bars: the
\* first bars from start on, oldest first.
fetch_candles(start) ==
    LET found == {i \in Instants : candle(i).complete /\ candle(i).start >= start}
        all == Ascending(found)
    IN  SubSeq(all, 1, Min({PageSize, Len(all)}))

\* Whether a bar that is older than the newest is missing or incomplete.
HasHole ==
    \E i, j \in Instants : i < j /\ ~rows["bars"][i].complete /\ rows["bars"][j] # Absent

-----------------------------------------------------------------------------
\* Mutant: it resumes after the newest bar.
resume_after ==
    IF Stored("bars") = {} THEN 0 ELSE Models!end(candle(Max(Stored("bars"))))

\* The start of the newest bar, or of the series.
latest_bar_start ==
    IF Stored("bars") = {} THEN 0 ELSE candle(Max(Stored("bars"))).start

\* Also while a session of the interrupted job is still open on the server.
Resume ==
    /\ job \in {"none", "done"}
    /\ pc[Backfiller] = "idle" \/ IsOrphaned(Backfiller)
    /\ job' = "paging" /\ from' = latest_bar_start /\ resumedOver' = HasHole
    /\ UNCHANGED <<vars, now, page, fed>>

FetchPage ==
    /\ job = "paging" /\ page = <<>>
    /\ Models!require_granularity(Source, Granularity, CandlePrice)
    /\ page' = fetch_candles(from)
    /\ job' = IF page' = <<>> THEN "done" ELSE job
    /\ UNCHANGED <<vars, now, from, resumedOver, fed>>

\* Some time later.
StorePage ==
    /\ job = "paging" /\ page # <<>>
    /\ Store(Backfiller)
    /\ batch'[Backfiller] = [table |-> "bars",
                             items |-> [i \in DOMAIN page |-> [ts |-> page[i], row |-> ClosedRow]]]
    /\ job' = "storing"
    /\ UNCHANGED <<now, from, page, resumedOver, fed>>

NextPage ==
    /\ job = "storing" /\ outcome[Backfiller] = "returned"
    /\ from' = Models!end(candle(page[Len(page)]))
    /\ job' = "paging" /\ page' = <<>>
    /\ UNCHANGED <<vars, now, resumedOver, fed>>

\* store_bars raised, or the process stopped between two calls.
Abandon ==
    /\ job = "paging" \/ (job = "storing" /\ outcome[Backfiller] = "raised")
    /\ job' = "none" /\ page' = <<>> /\ from' = 0 /\ resumedOver' = FALSE
    /\ UNCHANGED <<vars, now, fed>>

-----------------------------------------------------------------------------
\* A bar closes.
PassTime ==
    /\ now < MaxNow
    /\ now' = now + 1
    /\ UNCHANGED <<vars, job, from, page, resumedOver, fed>>

StoreOther(w) ==
    /\ w = Backfiller => job \in {"none", "done"}
    /\ Store(w)
    /\ fed' = (fed \/ batch'[w].table = "bars")
    /\ UNCHANGED <<now, job, from, page, resumedOver>>

BackfillNext ==
    \/ Resume \/ FetchPage \/ StorePage \/ NextPage \/ Abandon
    \/ PassTime
    \/ \E w \in Writers : StoreOther(w)
    \/ Run /\ UNCHANGED jobVars

BackfillSpec == BackfillInit /\ [][BackfillNext]_allVars

BackfillFairness ==
    /\ \A w \in Writers :
          WF_allVars((Write(w) \/ Commit(w) \/ Return(w) \/ Reap(w)) /\ UNCHANGED jobVars)
    /\ WF_allVars(DetectDeadlock /\ UNCHANGED jobVars)

FairBackfillSpec == BackfillSpec /\ BackfillFairness

-----------------------------------------------------------------------------
\* Properties.

\* A backfill that finds nothing more to fetch has left no gap: of what a query
\* up to the bar it stopped at returns, every instant from the beginning of the
\* series on lies in one closed bar, whatever interrupted the backfill.  A bar stored by another writer
\* past a gap is the exception: latest_bar_start then resumes beyond the gap.
BackfillLeavesNoGap ==
    job = "done" /\ ~(fed /\ resumedOver) =>
       \A instant \in width..(from - 1) :
          Cardinality({i \in Range(fetch(Stored("bars"), 0, from \div width, 0)) :
                          rows["bars"][i].complete /\ Models!contains(candle(i), instant)}) = 1
=============================================================================
