------------------------------ MODULE CandleStore ------------------------------
(***************************************************************************)
(* One token's candles, of one resolution: the file on disk, the memo each *)
(* process keeps of it (src/src/marketdata/cache.ts), and the two feeds    *)
(* that fill it page by page, GeckoTerminal backwards and Birdeye forwards.*)
(* GeckoTerminal serves the series of a pool, the deepest it finds.        *)
(* Time is in half intervals; candle i covers the ticks 2i and 2i+1 and    *)
(* is worth its final value to whoever fetches it after 2i+1.              *)
(***************************************************************************)
EXTENDS Integers, FiniteSets, Sequences

CONSTANTS
    Procs,              \* profiling processes on one cache directory
    Feeds,              \* subset of {"geckoterminal", "birdeye"}
    Pools,              \* the token's pools on GeckoTerminal
    NoPool, Unasked,    \* no pool was found, or none was looked for yet
    Traded,             \* intervals of which each series has a candle
    Windows,            \* <<fromMs, toMs>> profiles ask for
    FirstMs, LastMs,    \* bound: the clock runs between them
    PAGE_LIMIT,
    MAX_PAGES,
    MaxWindows,         \* bound: windows asked for per behaviour
    NoWindow,           \* nothing asked, or nothing missing
    NoMemo,             \* a token this process has not read
    Torn                \* a file missing, cut short or not yet written

step == 2

\* The series there are of the token: Birdeye's, and that of every pool.
Sources == (Feeds \cap {"birdeye"}) \cup IF "geckoterminal" \in Feeds THEN Pools ELSE {}
Candle == [i: UNION {Traded[s] : s \in Sources}, final: BOOLEAN]

\* What a process may be configured to read when it starts.
Configured == (Feeds \cap {"birdeye"}) \cup IF "geckoterminal" \in Feeds THEN {Unasked} ELSE {}

\* Where all the series have a candle.
Common == {i \in 0..LastMs : \A s \in Sources : i \in Traded[s]}

ASSUME CandleAssumption ==
    /\ Feeds \subseteq {"geckoterminal", "birdeye"}
    /\ Windows \subseteq Nat \X Nat
    /\ {FirstMs, LastMs, MaxWindows} \subseteq Nat
    /\ "birdeye" \notin Pools /\ {NoPool, Unasked} \cap (Pools \cup {"birdeye"}) = {} /\ NoPool # Unasked
    /\ Traded \in [Sources -> SUBSET (0..LastMs)]
    /\ {PAGE_LIMIT, MAX_PAGES} \subseteq Nat \ {0}
    /\ NoWindow \notin Seq(Int)
    /\ \A candles \in SUBSET Candle : candles \notin {Torn, NoMemo}

VARIABLES
    clockMs,            \* Date.now()
    file,               \* candles on disk
    memo,               \* CandleCache.memo per process
    series,             \* what each process reads: Birdeye's, or what pools remembers
    job,                \* candles() under way in each process
    answer,             \* what this step answered: window, candles, whether for want of a pool
    asked,              \* windows asked for so far
    excused             \* history: what made a hole or kept a partial candle, see Excuses

candleVars == <<clockMs, file, memo, series, job, answer, asked, excused>>

Excuses == {"cut", "raced", "slow"}
ts(c) == c.i * step
Idle == [phase |-> "idle"]
NoAnswer == [window |-> NoWindow, candles |-> {}, poolless |-> FALSE]

CandleInit ==
    /\ clockMs = FirstMs
    /\ file = Torn
    /\ memo = [p \in Procs |-> NoMemo]
    /\ series \in [Procs -> Configured]
    /\ job = [p \in Procs |-> Idle]
    /\ answer = NoAnswer
    /\ asked = 0
    /\ excused = {}

----------------------------------------------------------------------------
(* The cache *)

\* A missing or unreadable file is a miss, and is not memoised.
read(p) == IF memo[p] # NoMemo THEN memo[p] ELSE IF file # Torn THEN file ELSE {}
Remembered(p) == IF memo[p] = NoMemo /\ file # Torn THEN file ELSE memo[p]

mergeCandles(old, new) == new \cup {c \in old : \A d \in new : d.i # c.i}

ClosedMutant(c) == ts(c) < clockMs
Closed(c) == ts(c) < clockMs - step

FirstTs(candles) == CHOOSE t \in {ts(c) : c \in candles} : \A c \in candles : t <= ts(c)
LastTs(candles) == CHOOSE t \in {ts(c) : c \in candles} : \A c \in candles : t >= ts(c)

UnionMutant(candles, from, to) == <<from, to>>
\* One range that joins what is asked to what is there.
Union(candles, from, to) ==
    <<IF from < FirstTs(candles) - step THEN from ELSE FirstTs(candles),
      IF to > LastTs(candles) + step THEN to ELSE LastTs(candles)>>

missingRange(candles, from, to) ==
    IF candles = {} THEN <<from, to>>
    ELSE IF from >= FirstTs(candles) - step /\ to <= LastTs(candles) + step THEN NoWindow
    ELSE Union(candles, from, to)

----------------------------------------------------------------------------
(* The feeds *)

\* What the endpoint holds of [from, to] at this moment.
Available(source, from, to) ==
    {[i |-> i, final |-> clockMs >= (i + 1) * step] :
        i \in {j \in Traded[source] : j * step \in from..to}}

\* One page, newest first or oldest first.
Page(source, from, to) ==
    LET forward == source = "birdeye"
        all     == Available(source, IF forward THEN from ELSE 0, to)
    IN  {c \in all : Cardinality({d \in all : IF forward THEN d.i < c.i ELSE d.i > c.i}) < PAGE_LIMIT}

Respond(p, window, candles, poolless) ==
    /\ answer' = [window |-> window, candles |-> candles, poolless |-> poolless]
    /\ job' = [job EXCEPT ![p] = Idle]

\* candles(): answered from the cache, or a fetch of the missing range begins.
\* A process that found no pool for the token answers with what is cached.
ask(p, window) ==
    LET cached  == read(p)
        missing == missingRange(cached, window[1], window[2])
    IN
    /\ job[p] = Idle
    /\ asked < MaxWindows
    /\ window[2] <= clockMs
    /\ asked' = asked + 1
    /\ memo' = [memo EXCEPT ![p] = Remembered(p)]
    /\ IF missing = NoWindow \/ series[p] = NoPool THEN Respond(p, window, cached, missing # NoWindow)
       ELSE /\ job' = [job EXCEPT ![p] =
                  [phase |-> IF series[p] = Unasked THEN "pooling" ELSE "paging", window |-> window,
                   cached |-> cached, from |-> missing[1], to |-> missing[2], got |-> {},
                   pages |-> 0, since |-> clockMs]]
            /\ answer' = NoAnswer
    /\ UNCHANGED <<clockMs, file, series, excused>>

\* The deepest pool is found, or there is none; either is remembered.
deepestPool(p, pool) ==
    /\ job[p].phase = "pooling"
    /\ series' = [series EXCEPT ![p] = pool]
    /\ IF pool = NoPool THEN Respond(p, job[p].window, job[p].cached, TRUE)
       ELSE job' = [job EXCEPT ![p].phase = "paging"] /\ answer' = NoAnswer
    /\ UNCHANGED <<clockMs, file, memo, asked, excused>>

\* Each feed has its own signs that the range is exhausted.
Exhausted(p, page) ==
    LET j == job[p] IN
    IF series[p] = "birdeye" THEN Cardinality(page) < PAGE_LIMIT \/ LastTs(page) + step >= j.to
    ELSE FirstTs(page) <= j.from

Onward(p, page) ==
    LET j == job[p] IN
    IF series[p] = "birdeye" THEN [j EXCEPT !.from = LastTs(page) + step]
    ELSE [j EXCEPT !.to = FirstTs(page) - 1]

nextPage(p) ==
    LET j    == job[p]
        page == Page(series[p], j.from, j.to)
        over == page = {} \/ Exhausted(p, page)
        cut  == ~over /\ j.pages + 1 = MAX_PAGES
    IN
    /\ j.phase = "paging"
    /\ job' = [job EXCEPT ![p] =
          [(IF over \/ cut THEN j ELSE Onward(p, page)) EXCEPT
              !.got = mergeCandles(@, page), !.pages = @ + 1,
              !.phase = IF over \/ cut THEN "fetched" ELSE @]]
    /\ excused' = excused \cup (IF cut THEN {"cut"} ELSE {})
    /\ answer' = NoAnswer
    /\ UNCHANGED <<clockMs, file, memo, series, asked>>

\* The pools or a page failed beyond their retries: the token goes uncovered.
pageFails(p) ==
    /\ job[p].phase \in {"pooling", "paging"}
    /\ job' = [job EXCEPT ![p] = Idle]
    /\ answer' = NoAnswer
    /\ UNCHANGED <<clockMs, file, memo, series, asked, excused>>

\* The process dies, to start again with whichever feed; a file it was writing
\* stays torn.
crash(p) ==
    /\ memo' = [memo EXCEPT ![p] = NoMemo]
    /\ series' \in {[series EXCEPT ![p] = s] : s \in Configured}
    /\ job' = [job EXCEPT ![p] = Idle]
    /\ file' = IF job[p].phase = "writing" THEN Torn ELSE file
    /\ answer' = NoAnswer
    /\ UNCHANGED <<clockMs, asked, excused>>

\* write(): memoised at once, on disk when writeFile returns.
write(p) ==
    LET j      == job[p]
        merged == mergeCandles(read(p), j.got)
        kept   == {c \in merged : Closed(c)}
    IN
    /\ j.phase = "fetched"
    /\ IF j.got = {} THEN Respond(p, j.window, j.cached, FALSE) /\ UNCHANGED <<file, memo, excused>>
       ELSE /\ memo' = [memo EXCEPT ![p] = kept]
            /\ file' = Torn
            /\ job' = [job EXCEPT ![p].phase = "writing"]
            /\ excused' = excused
                  \cup (IF read(p) # j.cached THEN {"raced"} ELSE {})
                  \cup (IF clockMs \div step # j.since \div step THEN {"slow"} ELSE {})
            /\ answer' = NoAnswer
    /\ UNCHANGED <<clockMs, series, asked>>

\* Two writers of the file may also leave it torn.
written(p) ==
    /\ job[p].phase = "writing"
    /\ \/ file' = memo[p]
       \/ file' = Torn /\ \E q \in Procs \ {p} : job[q].phase = "writing"
    /\ Respond(p, job[p].window, mergeCandles(job[p].cached, job[p].got), FALSE)
    /\ UNCHANGED <<clockMs, memo, series, asked, excused>>

CandleTick ==
    /\ clockMs < LastMs
    /\ clockMs' = clockMs + 1
    /\ answer' = NoAnswer
    /\ UNCHANGED <<file, memo, series, job, asked, excused>>

CandleNext ==
    \/ \E p \in Procs :
          \/ \E window \in Windows : ask(p, window)
          \/ \E pool \in Pools \cup {NoPool} : deepestPool(p, pool)
          \/ nextPage(p)
          \/ pageFails(p)
          \/ crash(p)
          \/ write(p)
          \/ written(p)
    \/ CandleTick

CandleSpec == CandleInit /\ [][CandleNext]_candleVars

----------------------------------------------------------------------------
(* Properties *)

\* Whatever mixture of cache and fetch answered it, and after whatever crashes,
\* an answer holds every candle of the window, an interval of slack at each end,
\* that all the configured series have: with one series configured, all of its
\* candles; where two share the cache directory and disagree (geckoterminal.ts:
\* 25-33), an answer may mix them, and no more than what they share is sure.  The
\* exceptions are an answer from the cache for want of a pool (135-136), a fetch
\* that ran out of pages, and a merge with what another process wrote meanwhile:
\* the holes of these two lie inside the cached span and are never asked for
\* again (cache.ts:101-129, geckoterminal.ts:127-143).
AnswersAreWhole ==
    answer.window # NoWindow /\ ~answer.poolless /\ excused \cap {"cut", "raced"} = {} =>
        \A i \in Common :
            i * step \in (answer.window[1] + step)..(answer.window[2] - step)
                => \E c \in answer.candles : c.i = i

\* No partial candle is kept: what the memo and the file hold is final, unless
\* some fetch was still waiting for its pages when the interval it began in
\* closed (cache.ts:19-25, 82-85).
CachedCandlesAreFinal ==
    "slow" \notin excused =>
        \A candles \in {file} \cup {memo[p] : p \in Procs} :
            candles \notin {Torn, NoMemo} => \A c \in candles : c.final

==============================================================================
