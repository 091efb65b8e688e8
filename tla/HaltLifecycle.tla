---------------------------- MODULE HaltLifecycle ----------------------------
(***************************************************************************)
(* The kill switch in its three homes: RiskManager.halted in memory, the   *)
(* halt keys of the Repository's state table, and the operator at the      *)
(* other end of Telegram; over days, crashes and restarts.                 *)
(*                                                                         *)
(* The handlers are synchronous, so none of them interleaves with another  *)
(* one, but set_halt and clear_halt are three statements committed one by  *)
(* one and the process may die (and midnight may pass) between any two.    *)
(* Money is reduced to one bit: does the realised loss stand at the limit? *)
(***************************************************************************)
EXTENDS Naturals

CONSTANTS
    MaxDay,     \* bound: trading days
    MaxOpen     \* bound: positions held at once

ASSUME BoundsAssumption == MaxDay \in Nat \ {0} /\ MaxOpen \in Nat \ {0}

VARIABLES
    today,                      \* UTC day of the wall clock
    phase,                      \* the process: down, starting, running
    halted, curDay, lossHit,    \* the RiskManager of this process
    open,                       \* positions held
    dbHalted, dbReason, dbDay,  \* state table; "none" and 0: key absent
    job, step, jobDay,          \* handler in flight and its next statement
    standing,   \* observer: an acknowledged /halt, no /resume since
    heldDay,    \* observer: the day a /halt was acknowledged, if it took hold
    limitDay,   \* observer: the day the limit was last reached
    armed,      \* observer: the same, unless a /resume has followed
    handled,    \* observer: the day a limit was last reached and dealt with
    kept,       \* observer: the day set_halt last recorded a limit
    asked       \* observer: a /halt was sent and no /resume has completed

risk == <<halted, curDay, lossHit>>
db == <<dbHalted, dbReason, dbDay>>
inFlight == <<job, step, jobDay>>
observers == <<standing, heldDay, limitDay, armed, handled, kept, asked>>
vars == <<today, phase, risk, open, db, inFlight, observers>>

Days == 1..MaxDay
MaybeDay == 0..MaxDay

FlagsOK ==
    /\ halted \in BOOLEAN /\ lossHit \in BOOLEAN /\ dbHalted \in BOOLEAN
    /\ standing \in BOOLEAN /\ asked \in BOOLEAN

ValuesOK ==
    /\ today \in Days /\ curDay \in Days /\ jobDay \in Days
    /\ phase \in {"down", "starting", "running"}
    /\ open \in 0..MaxOpen
    /\ dbReason \in {"none", "manual", "daily"}
    /\ job \in {"none", "manual", "daily", "resume", "expire"}
    /\ step \in 0..3
    /\ dbDay \in MaybeDay /\ heldDay \in MaybeDay /\ limitDay \in MaybeDay
    /\ armed \in MaybeDay /\ handled \in MaybeDay /\ kept \in MaybeDay

TypeOK == FlagsOK /\ ValuesOK

Init ==
    /\ today = 1 /\ phase = "down"
    /\ halted = FALSE /\ curDay = 1 /\ lossHit = FALSE
    /\ open = 0
    /\ dbHalted = FALSE /\ dbReason = "none" /\ dbDay = 0
    /\ job = "none" /\ step = 0 /\ jobDay = 1
    /\ standing = FALSE /\ asked = FALSE
    /\ heldDay = 0 /\ limitDay = 0 /\ armed = 0 /\ handled = 0 /\ kept = 0

-----------------------------------------------------------------------------
Idle == job = "none"

\* The flag and the limit as evaluate and close_position see them, after
\* _maybe_rollover.
RolledHalted == halted /\ curDay = today
RolledLossHit == lossHit /\ curDay = today

Begin(handler) == job' = handler /\ step' = 0 /\ jobDay' = today

\* evaluate approves and the order is filled.
Enter ==
    /\ phase = "running" /\ Idle /\ open < MaxOpen
    /\ ~RolledHalted /\ ~RolledLossHit
    /\ halted' = FALSE /\ lossHit' = FALSE /\ curDay' = today
    /\ open' = open + 1
    /\ UNCHANGED <<today, phase, db, inFlight, observers>>

\* evaluate, without an entry.
NoEntry ==
    /\ phase = "running" /\ Idle
    /\ halted' = (RolledHalted \/ RolledLossHit)
    /\ lossHit' = RolledLossHit /\ curDay' = today
    /\ UNCHANGED <<today, phase, open, db, inFlight, observers>>

\* Mutant: the close of a trade that is not held.
CloseAny(hit, journaled) ==
    /\ phase = "running" /\ Idle
    /\ open' = open - 1
    /\ lossHit' = hit /\ curDay' = today
    /\ halted' = (RolledHalted \/ hit)
    /\ IF journaled /\ halted' /\ ~dbHalted
       THEN Begin("daily")
       ELSE UNCHANGED inFlight
    /\ armed' = IF hit THEN today ELSE armed
    /\ limitDay' = IF hit THEN today ELSE limitDay
    /\ handled' = IF hit /\ journaled /\ dbHalted THEN today ELSE handled
    /\ UNCHANGED <<today, phase, db, standing, heldDay, kept, asked>>

\* _close_one.  The journal may raise, and set_halt is not reached then.
CloseOne(hit, journaled) ==
    /\ phase = "running" /\ Idle /\ open > 0
    /\ open' = open - 1
    /\ lossHit' = hit /\ curDay' = today
    /\ halted' = (RolledHalted \/ hit)
    /\ IF journaled /\ halted' /\ ~dbHalted
       THEN Begin("daily")
       ELSE UNCHANGED inFlight
    /\ armed' = IF hit THEN today ELSE armed
    /\ limitDay' = IF hit THEN today ELSE limitDay
    /\ handled' = IF hit /\ journaled /\ dbHalted THEN today ELSE handled
    /\ UNCHANGED <<today, phase, db, standing, heldDay, kept, asked>>

\* handle_halt and handle_resume.  Polling starts before the reconciliation.
HaltCommand ==
    /\ phase # "down" /\ Idle
    /\ Begin("manual")
    /\ asked' = TRUE
    /\ UNCHANGED <<today, phase, risk, open, db, standing, heldDay, limitDay,
                   armed, handled, kept>>

ResumeCommand ==
    /\ phase # "down" /\ Idle
    /\ Begin("resume")
    /\ standing' = FALSE /\ heldDay' = 0 /\ handled' = 0 /\ kept' = 0
    /\ UNCHANGED <<today, phase, risk, open, db, limitDay, armed, asked>>

\* Mutants: no halt expires; a manual one expires like a daily one.
NothingExpired == FALSE
AnyExpired == dbDay = 0 \/ dbDay < today

\* Step 1 of reconcile_on_startup.
ExpiredDaily == dbReason # "manual" /\ (dbDay = 0 \/ dbDay < today)

Reconcile ==
    /\ phase = "starting" /\ Idle
    /\ phase' = "running"
    /\ IF dbHalted /\ ExpiredDaily
       THEN Begin("expire") /\ UNCHANGED halted
       ELSE halted' = (halted \/ dbHalted) /\ UNCHANGED inFlight
    /\ UNCHANGED <<today, curDay, lossHit, open, db, observers>>

\* The next autocommitted statement of set_halt or clear_halt.
WriteFlag ==
    /\ ~Idle /\ step = 0 /\ step' = 1
    /\ dbHalted' = (job \in {"manual", "daily"})
    /\ UNCHANGED <<today, phase, risk, open, dbReason, dbDay, job, jobDay,
                   observers>>

WriteReason ==
    /\ ~Idle /\ step = 1 /\ step' = 2
    /\ dbReason' = IF job \in {"manual", "daily"} THEN job ELSE "none"
    /\ UNCHANGED <<today, phase, risk, open, dbHalted, dbDay, job, jobDay,
                   observers>>

\* Mutant: set_halt forgets the day.
WriteNoDay ==
    /\ ~Idle /\ step = 2 /\ step' = 3
    /\ dbDay' = 0
    /\ UNCHANGED <<today, phase, risk, open, dbHalted, dbReason, job, jobDay,
                   observers>>

WriteDay ==
    /\ ~Idle /\ step = 2 /\ step' = 3
    /\ dbDay' = IF job = "daily" THEN jobDay ELSE 0
    /\ UNCHANGED <<today, phase, risk, open, dbHalted, dbReason, job, jobDay,
                   observers>>

\* What the handler does after its last statement; /halt is acknowledged here.
FinishHalt ==
    /\ job = "manual" /\ step = 3
    /\ halted' = TRUE
    /\ standing' = TRUE
    /\ heldDay' = IF curDay = today THEN today ELSE heldDay
    /\ job' = "none"
    /\ UNCHANGED <<today, phase, curDay, lossHit, open, db, step, jobDay,
                   limitDay, armed, handled, kept, asked>>

FinishResume ==
    /\ job = "resume" /\ step = 3
    /\ halted' = FALSE
    /\ armed' = 0 /\ asked' = FALSE
    /\ job' = "none"
    /\ UNCHANGED <<today, phase, curDay, lossHit, open, db, step, jobDay,
                   standing, heldDay, limitDay, handled, kept>>

FinishDaily ==
    /\ job = "daily" /\ step = 3
    /\ handled' = IF armed = jobDay THEN jobDay ELSE handled
    /\ kept' = jobDay
    /\ job' = "none"
    /\ UNCHANGED <<today, phase, risk, open, db, step, jobDay, standing,
                   heldDay, limitDay, armed, asked>>

FinishExpire ==
    /\ job = "expire" /\ step = 3
    /\ job' = "none"
    /\ UNCHANGED <<today, phase, risk, open, db, step, jobDay, observers>>

Crash ==
    /\ phase # "down"
    /\ phase' = "down" /\ job' = "none"
    /\ UNCHANGED <<today, risk, open, db, step, jobDay, observers>>

\* A fresh RiskManager.
Start ==
    /\ phase = "down"
    /\ phase' = "starting"
    /\ halted' = FALSE /\ lossHit' = FALSE /\ curDay' = today
    /\ UNCHANGED <<today, open, db, inFlight, observers>>

Midnight ==
    /\ today < MaxDay
    /\ today' = today + 1
    /\ UNCHANGED <<phase, risk, open, db, inFlight, observers>>

Next ==
    \/ Enter \/ NoEntry
    \/ \E hit, journaled \in BOOLEAN : CloseOne(hit, journaled)
    \/ HaltCommand \/ ResumeCommand \/ Reconcile
    \/ WriteFlag \/ WriteReason \/ WriteDay
    \/ FinishHalt \/ FinishResume \/ FinishDaily \/ FinishExpire
    \/ Crash \/ Start \/ Midnight

Spec == Init /\ [][Next]_vars

-----------------------------------------------------------------------------
Entered == open' > open

\* A /halt acknowledged by a manager that has already been called today holds
\* for the rest of the day, over any crash and restart, until /resume.
ManualHaltHolds == [][Entered => heldDay # today]_vars

\* Once set_halt has recorded the daily limit, no restart trades on that day
\* again; only /resume does.
DailyHaltHolds == [][Entered => kept # today]_vars

\* The switch does not stick: a running bot refuses entries only for a /halt
\* that no /resume has undone, or for a limit reached today.  This is the
\* bricking that reconcile.py:197 sets out to avoid.
HaltHasCause ==
    phase = "running" /\ Idle /\ RolledHalted => asked \/ limitDay = today

\* telegram_control.py:88: "Bot HALTED. No new entries until /resume."
ManualHaltUntilResume == [][Entered => ~standing]_vars

\* risk_manager.py:48: "halt for the day after -3% realised", for a limit
\* whose close was handled to the end before anything else happened.
LimitHaltsDay == [][Entered => handled # today]_vars
=============================================================================
