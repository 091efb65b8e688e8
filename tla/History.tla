------------------------------- MODULE History -------------------------------
(***************************************************************************)
(* scripts/fetch_history.py: pair by pair, main fetches the candles of     *)
(* [start, end) page by page and writes them to a file of the pair, which  *)
(* backtest.load_csv reads.  Time goes on meanwhile, requests fail, and    *)
(* the process may end anywhere.  A candle is the time at which it starts, *)
(* and a page, which comes in order, is the set of its candles; what else  *)
(* a row holds is its price, true or cut short.                            *)
(***************************************************************************)
EXTENDS Integers, SequencesExt, FiniteSetsExt

CONSTANTS
    Pairs,          \* the sequence of --instruments
    Gran,           \* length of a candle
    Start, End,     \* end is the time at which main starts
    PageSize, MaxAttempts,
    LastTime        \* bound: no candle starts, and no clock goes, beyond it

Times == {t \in 0..LastTime : t % Gran = 0}

ASSUME HistoryAssumption ==
    /\ Pairs \in Seq(STRING)
    /\ Gran \in Nat \ {0}
    /\ {Start, End, LastTime} \subseteq Nat /\ Start < End
    /\ PageSize \in Nat \ {0} /\ MaxAttempts \in Nat \ {0}

VARIABLES
    traded,     \* the broker: pair -> the candles it has prices for
    now,
    pc,         \* where main is
    todo,       \* the pairs it has still to fetch, the one in work first
    cursor, attempt, result,    \* of paginate_candles and of its request
    files       \* pair -> its file: the rows, and how the last one ends

clock == <<traded, now>>
download == <<clock, pc, todo, cursor, attempt, result, files>>

\* The last row may be cut: within its fields, behind the last comma, in close.
Tails == {"none", "whole", "fields", "comma", "close"}
File == [rows : Seq(Times), tail : Tails]

\* main's loop over the pairs.
NextPair(pairs) == IF pairs = <<>> THEN "done" ELSE "fetch"

DownloadInit ==
    /\ traded \in [ToSet(Pairs) -> SUBSET Times]
    /\ now = End
    /\ todo = Pairs /\ pc = NextPair(Pairs)
    /\ cursor = Start /\ attempt = 1 /\ result = <<>>
    /\ files = [p \in ToSet(Pairs) |-> [rows |-> <<>>, tail |-> "none"]]

Pair == Head(todo)

Ascending(s) == \A m, n \in DOMAIN s : m < n => s[m] < s[n]

InOrder(S) == CHOOSE s \in [1..Cardinality(S) -> S] : Ascending(s) /\ ToSet(s) = S

\* list.sort: the place of an element is the number of those up to it.
Place(s, n) == Cardinality({m \in DOMAIN s : s[m] < s[n] \/ (s[m] = s[n] /\ m <= n)})
Sorted(s) == [k \in DOMAIN s |-> s[CHOOSE n \in DOMAIN s : Place(s, n) = k]]
-----------------------------------------------------------------------------
FirstOf(n, found) == {t \in found : Cardinality({u \in found : u < t}) < n}

\* The broker's answer: the first PageSize candles that started at from or
\* later; includeFirst adds the one that covers from.
Response(from, includeFirst) ==
    LET first == IF includeFirst THEN from - Gran ELSE from
    IN  FirstOf(PageSize, {t \in traded[Pair] : t > first /\ t <= now})

Complete(t) == t + Gran <= now

\* Mutant: the candle of this minute counts.
ParseAll(resp) == resp

ParseCandlePage(resp) == {t \in resp : Complete(t)}

\* Mutant: only the first page asks for the candle at the cursor.
RequestAfterCursor == ParseCandlePage(Response(cursor, cursor = Start))

RequestPage == ParseCandlePage(Response(cursor, TRUE))

AfterLast(page) == Max(page) + Gran

\* The stops of paginate_candles; the last is the net below the loop.
AsksAgain(page) ==
    /\ Cardinality(page) >= PageSize
    /\ AfterLast(page) < End
    /\ AfterLast(page) > cursor

New(page) == InOrder({t \in page : t < End /\ t \notin ToSet(result)})

FetchPage ==
    /\ pc = "fetch"
    /\ result' = result \o New(RequestPage)
    /\ attempt' = 1
    /\ IF AsksAgain(RequestPage)
       THEN cursor' = AfterLast(RequestPage) /\ UNCHANGED pc
       ELSE pc' = "write" /\ UNCHANGED cursor
    /\ UNCHANGED <<clock, todo, files>>

\* Mutant: the attempts start over.
RetryForever ==
    /\ pc = "fetch"
    /\ attempt' = (attempt % MaxAttempts) + 1
    /\ UNCHANGED <<clock, pc, todo, cursor, result, files>>

\* Timeout or ConnectionError.
Retry ==
    /\ pc = "fetch" /\ attempt < MaxAttempts
    /\ attempt' = attempt + 1
    /\ UNCHANGED <<clock, pc, todo, cursor, result, files>>

\* The last attempt fails, or another error is raised, or the process is killed:
\* main ends here, with the files that it has written.
Dies ==
    /\ pc = "fetch"
    /\ pc' = "dead"
    /\ UNCHANGED <<clock, todo, cursor, attempt, result, files>>

Rows == Sorted(result)

Written(rows, tail) == files' = [files EXCEPT ![Pair] = [rows |-> rows, tail |-> tail]]

Write ==
    /\ pc = "write"
    /\ Written(Rows, "whole")
    /\ todo' = Tail(todo)
    /\ pc' = NextPair(Tail(todo))
    /\ cursor' = Start /\ attempt' = 1 /\ result' = <<>>
    /\ UNCHANGED clock

\* The process ends while the file is written, which open() has emptied.
WriteCut ==
    /\ pc = "write"
    /\ \E n \in 0..Len(Rows) :
          \/ Written(SubSeq(Rows, 1, n), "whole")
          \/ /\ n > 0
             /\ \E tail \in {"fields", "comma", "close"} :
                   Written(SubSeq(Rows, 1, n), tail)
    /\ pc' = "dead"
    /\ UNCHANGED <<clock, todo, cursor, attempt, result>>

TimePasses ==
    /\ pc \in {"fetch", "write"} /\ now < LastTime
    /\ now' = now + 1
    /\ UNCHANGED <<traded, pc, todo, cursor, attempt, result, files>>

Main == FetchPage \/ Retry \/ Dies \/ Write \/ WriteCut

DownloadNext == Main \/ TimePasses

DownloadSpec == DownloadInit /\ [][DownloadNext]_download

\* The process runs and its requests end; nothing makes them succeed.
FairDownload == DownloadSpec /\ WF_download(Main)
-----------------------------------------------------------------------------
\* load_csv: <<>> where it raises, for DictReader makes None of a field that is
\* not there; a row with an empty field is skipped.
Load(file) ==
    CASE file.tail \in {"none", "fields"} -> <<>>
      [] file.tail = "comma" -> <<Sorted(Front(file.rows))>>
      [] OTHER -> <<Sorted(file.rows)>>
-----------------------------------------------------------------------------
\* The candles of [Start, End), and the one that covers Start.
InRange(pair, until) ==
    {t \in traded[pair] : t > Start - Gran /\ t < End /\ t + Gran <= until}

\* fetch_history.py:66, "Fetch all candles in [start, end)": a pair that main is
\* done with has them all, whatever gaps they have and wherever the pages end;
\* of the candle that was forming when main started, complete or nothing.
HistoryComplete ==
    \A p \in ToSet(Pairs) :
        (p \notin ToSet(todo)) =>
            /\ Ascending(files[p].rows)
            /\ \E until \in {End, now} : ToSet(files[p].rows) = InRange(p, until)

Begins(some, all) ==
    /\ some \subseteq all
    /\ \A t \in some, u \in all : u < t => u \in some

\* What load_csv makes of a file after whatever happened are the pair's first
\* candles, in order, none missing in between, none twice and none that was not
\* complete; only the close of the last one may be cut short.
ReplaysPrefix ==
    \A p \in ToSet(Pairs) : \A candles \in ToSet(Load(files[p])) :
        Ascending(candles) /\ Begins(ToSet(candles), InRange(p, now))

\* The download ends, however the requests go and while the clock runs on.
DownloadEnds == <>(pc \in {"done", "dead"})
=============================================================================
