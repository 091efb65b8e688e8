------------------------------- MODULE Session -------------------------------
(***************************************************************************)
(* session.py and calendar_feed.py: when the bot may enter.  Times are     *)
(* minutes.  A row of the calendar file has no time (<<>>) when the field  *)
(* is empty or cannot be parsed; an empty instrument is "".                *)
(***************************************************************************)
EXTENDS Integers

CONSTANTS
    DayLength,                  \* minutes of a day (1440)
    SessionStart, SessionEnd,   \* start_utc, end_utc as minutes of the day
    BufferBefore, BufferAfter   \* news_buffer_*_min

ASSUME SessionAssumption ==
    /\ DayLength \in Nat \ {0}
    /\ {SessionStart, SessionEnd} \subseteq 0..(DayLength - 1)
    /\ {BufferBefore, BufferAfter} \subseteq Nat

Day(now) == now \div DayLength

\* load_events: the rows that have an instrument and a readable time.
LoadEvents(rows) ==
    {[instrument |-> row.instrument, time |-> row.time[1]] :
        row \in {row \in rows : row.instrument # "" /\ row.time # <<>>}}

InSession(now) ==
    LET t == now % DayLength IN SessionStart <= t /\ t < SessionEnd

Relevant(events, instrument) ==
    {ev \in events : ev.instrument \in {instrument, "*"}}

NewsBlackout(events, instrument, now) ==
    \E ev \in Relevant(events, instrument) :
        ev.time - BufferBefore <= now /\ now <= ev.time + BufferAfter

CanEnter(events, instrument, now) ==
    InSession(now) /\ ~NewsBlackout(events, instrument, now)
=============================================================================
