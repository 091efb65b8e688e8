------------------------- MODULE HaltLifecycle_proofs -------------------------
(***************************************************************************)
(* What HaltLifecycle guarantees for any number of days, restarts and      *)
(* crashes between two statements of a handler.                            *)
(***************************************************************************)
EXTENDS HaltLifecycle, TLAPS

\* ---- Type correctness ----------------------------------------------------

\* Every reachable state is well typed: TypeOK, for any bounds.
THEOREM HaltTypeCorrect == Spec => []TypeOK
<1> USE BoundsAssumption DEF BoundsAssumption, Days, MaybeDay
<1>1. Init => TypeOK
  <2>1. Init => FlagsOK
    BY Zenon DEF Init, FlagsOK
  <2>2. Init => ValuesOK
    BY DEF Init, ValuesOK
  <2> QED
    BY <2>1, <2>2 DEF TypeOK
<1>2. TypeOK /\ [Next]_vars => TypeOK'
  <2> SUFFICES ASSUME TypeOK, [Next]_vars PROVE TypeOK'
    OBVIOUS
  <2> USE DEF TypeOK, FlagsOK, ValuesOK, Idle, Begin, RolledHalted, RolledLossHit
  <2>1. CASE Enter
    <3>1. FlagsOK'
      BY <2>1, Zenon DEF Enter, db, inFlight, observers
    <3>2. ValuesOK'
      BY <2>1 DEF Enter, db, inFlight, observers
    <3> QED
      BY <3>1, <3>2
  <2>2. CASE NoEntry
    BY <2>2 DEF NoEntry, db, inFlight, observers
  <2>3. ASSUME NEW hit \in BOOLEAN, NEW journaled \in BOOLEAN,
               CloseOne(hit, journaled)
        PROVE  TypeOK'
    BY <2>3 DEF CloseOne, db, inFlight
  <2>4. CASE HaltCommand
    BY <2>4 DEF HaltCommand, db, risk
  <2>5. CASE ResumeCommand
    <3>1. FlagsOK'
      BY <2>5, Zenon DEF ResumeCommand, db, risk
    <3>2. ValuesOK'
      BY <2>5 DEF ResumeCommand, db, risk
    <3> QED
      BY <3>1, <3>2
  <2>6. CASE Reconcile
    BY <2>6 DEF Reconcile, ExpiredDaily, db, inFlight, observers
  <2>7. CASE WriteFlag
    BY <2>7 DEF WriteFlag, risk, observers
  <2>8. CASE WriteReason
    BY <2>8 DEF WriteReason, risk, observers
  <2>9. CASE WriteDay
    BY <2>9 DEF WriteDay, risk, observers
  <2>10. CASE FinishHalt
    BY <2>10 DEF FinishHalt, db
  <2>11. CASE FinishResume
    <3>1. FlagsOK'
      BY <2>11, Zenon DEF FinishResume, db
    <3>2. ValuesOK'
      BY <2>11 DEF FinishResume, db
    <3> QED
      BY <3>1, <3>2
  <2>12. CASE FinishDaily
    BY <2>12 DEF FinishDaily, db, risk
  <2>13. CASE FinishExpire
    BY <2>13 DEF FinishExpire, db, risk, observers
  <2>14. CASE Crash
    BY <2>14 DEF Crash, db, risk, observers
  <2>15. CASE Start
    BY <2>15 DEF Start, db, inFlight, observers
  <2>16. CASE Midnight
    BY <2>16 DEF Midnight, db, risk, inFlight, observers
  <2>17. CASE UNCHANGED vars
    BY <2>17 DEF vars, db, risk, inFlight, observers
  <2> QED
    BY <2>1, <2>2, <2>3, <2>4, <2>5, <2>6, <2>7, <2>8, <2>9, <2>10, <2>11,
       <2>12, <2>13, <2>14, <2>15, <2>16, <2>17 DEF Next
<1> QED
  BY <1>1, <1>2, PTL DEF Spec

\* ---- The inductive invariant ---------------------------------------------

\* How far the handler in flight has got in the state table, and that nothing
\* is dated in the future.
JobProgress ==
    /\ job \in {"manual", "daily"} /\ step >= 1 => dbHalted
    /\ job \in {"manual", "daily"} /\ step >= 2 => dbReason = job
    /\ job \in {"resume", "expire"} /\ step >= 1 => ~dbHalted
    /\ job \in {"resume", "expire"} /\ step >= 2 => dbReason = "none"
    /\ job = "daily" => /\ phase = "running" /\ halted /\ curDay = jobDay
                        /\ dbDay <= jobDay
                        /\ step = 3 => dbDay = jobDay
    /\ jobDay <= today /\ dbDay <= today /\ curDay <= today
    /\ heldDay <= today /\ kept <= today /\ limitDay <= today

\* A restart on the day d would restore the halt.
Restorable(d) ==
    dbHalted /\ (dbReason = "manual" \/ (dbReason = "daily" /\ dbDay = d))

\* The halt of today is in memory, unless the process is still to read it from
\* the table, where it is to be found; and no handler in flight is removing it.
HaltInForce ==
    /\ Restorable(today)
    /\ job \in {"none", "manual"}
    /\ phase # "down" => curDay = today
    /\ phase = "running" => halted

HaltInv ==
    /\ JobProgress
    /\ heldDay = today => HaltInForce /\ dbReason = "manual"
    /\ kept = today => HaltInForce

LEMMA HaltInvInductive ==
    ASSUME TypeOK, TypeOK', HaltInv, [Next]_vars
    PROVE  HaltInv'
<1> USE BoundsAssumption DEF BoundsAssumption, Days, MaybeDay, TypeOK, FlagsOK,
      ValuesOK, Idle, Begin, RolledHalted, RolledLossHit, HaltInv, JobProgress, HaltInForce,
      Restorable
<1>1. CASE Enter
  BY <1>1 DEF Enter, db, inFlight, observers
<1>2. CASE NoEntry
  BY <1>2 DEF NoEntry, db, inFlight, observers
<1>3. ASSUME NEW hit \in BOOLEAN, NEW journaled \in BOOLEAN,
             CloseOne(hit, journaled)
      PROVE  HaltInv'
  BY <1>3 DEF CloseOne, db, inFlight
<1>4. CASE HaltCommand
  BY <1>4 DEF HaltCommand, db, risk
<1>5. CASE ResumeCommand
  BY <1>5 DEF ResumeCommand, db, risk
<1>6. CASE Reconcile
  BY <1>6 DEF Reconcile, ExpiredDaily, db, inFlight, observers
<1>7. CASE WriteFlag
  <2>1. CASE job \in {"manual", "daily"}
    <3>1. dbHalted'
      BY <1>7, <2>1 DEF WriteFlag
    <3> QED
      BY <1>7, <2>1, <3>1 DEF WriteFlag, risk, observers
  <2>2. CASE job \notin {"manual", "daily"}
    <3>1. ~dbHalted'
      BY <1>7, <2>2 DEF WriteFlag
    <3> QED
      BY <1>7, <2>2, <3>1 DEF WriteFlag, risk, observers
  <2> QED
    BY <2>1, <2>2
<1>8. CASE WriteReason
  BY <1>8 DEF WriteReason, risk, observers
<1>9. CASE WriteDay
  BY <1>9 DEF WriteDay, risk, observers
<1>10. CASE FinishHalt
  BY <1>10 DEF FinishHalt, db
<1>11. CASE FinishResume
  BY <1>11 DEF FinishResume, db
<1>12. CASE FinishDaily
  BY <1>12 DEF FinishDaily, db, risk
<1>13. CASE FinishExpire
  BY <1>13 DEF FinishExpire, db, risk, observers
<1>14. CASE Crash
  BY <1>14 DEF Crash, db, risk, observers
<1>15. CASE Start
  BY <1>15 DEF Start, db, inFlight, observers
<1>16. CASE Midnight
  BY <1>16 DEF Midnight, db, risk, inFlight, observers
<1>17. CASE UNCHANGED vars
  BY <1>17 DEF vars, db, risk, inFlight, observers
<1> QED
  BY <1>1, <1>2, <1>3, <1>4, <1>5, <1>6, <1>7, <1>8, <1>9, <1>10, <1>11,
     <1>12, <1>13, <1>14, <1>15, <1>16, <1>17 DEF Next

LEMMA HaltInvariant == Spec => []HaltInv
<1>1. Init => HaltInv
  BY DEF Init, HaltInv, JobProgress
<1>2. TypeOK /\ TypeOK' /\ HaltInv /\ [Next]_vars => HaltInv'
  BY HaltInvInductive
<1> QED
  BY <1>1, <1>2, HaltTypeCorrect, PTL DEF Spec

\* ---- The halts hold ------------------------------------------------------

LEMMA EntryNeedsNoHalt ==
    ASSUME TypeOK, HaltInv, [Next]_vars, Entered
    PROVE  heldDay # today /\ kept # today
<1>1. Enter
  <2> USE DEF TypeOK, ValuesOK, Entered
  <2>1. ASSUME NEW hit \in BOOLEAN, NEW journaled \in BOOLEAN,
               CloseOne(hit, journaled)
        PROVE  FALSE
    BY <2>1, BoundsAssumption DEF CloseOne, BoundsAssumption
  <2>2. open' # open
    BY BoundsAssumption DEF BoundsAssumption
  <2> QED
    BY <2>1, <2>2 DEF Next, NoEntry, HaltCommand, ResumeCommand, Reconcile,
       WriteFlag, WriteReason, WriteDay, FinishHalt, FinishResume, FinishDaily,
       FinishExpire, Crash, Start, Midnight, vars
<1> QED
  BY <1>1 DEF Enter, RolledHalted, HaltInv, HaltInForce

\* An acknowledged /halt that took hold today is never traded against today:
\* ManualHaltHolds, over any crashes, restarts and closes.
THEOREM ManualHalt == Spec => ManualHaltHolds
<1>1. TypeOK /\ HaltInv /\ [Next]_vars => [Entered => heldDay # today]_vars
  BY EntryNeedsNoHalt
<1> QED
  BY <1>1, HaltTypeCorrect, HaltInvariant, PTL DEF Spec, ManualHaltHolds

\* A daily limit that set_halt has recorded today survives every restart:
\* DailyHaltHolds.
THEOREM DailyHalt == Spec => DailyHaltHolds
<1>1. TypeOK /\ HaltInv /\ [Next]_vars => [Entered => kept # today]_vars
  BY EntryNeedsNoHalt
<1> QED
  BY <1>1, HaltTypeCorrect, HaltInvariant, PTL DEF Spec, DailyHaltHolds

\* ---- The switch does not stick -------------------------------------------

\* Whatever could make the bot refuse entries, in memory or in the table after
\* a restart, goes back to the operator or to today's limit.
CauseInv ==
    /\ JobProgress
    /\ RolledHalted => asked \/ limitDay = today
    /\ RolledLossHit => limitDay = today
    /\ dbReason = "manual" => asked
    /\ dbHalted /\ dbDay = today => asked \/ limitDay = today
    /\ job = "daily" /\ jobDay = today => asked \/ limitDay = today
    /\ job = "manual" => asked

LEMMA CauseInvInductive ==
    ASSUME TypeOK, TypeOK', CauseInv, [Next]_vars
    PROVE  CauseInv'
<1> USE BoundsAssumption DEF BoundsAssumption, Days, MaybeDay, TypeOK, FlagsOK,
      ValuesOK, Idle, Begin, RolledHalted, RolledLossHit, CauseInv, JobProgress
<1>1. CASE Enter
  BY <1>1 DEF Enter, db, inFlight, observers
<1>2. CASE NoEntry
  <2> USE DEF NoEntry
  <2>1. UNCHANGED <<today, phase, dbHalted, dbReason, dbDay, job, step, jobDay,
                    heldDay, kept, limitDay, asked>>
    BY <1>2 DEF db, inFlight, observers
  <2>2. RolledHalted' => RolledHalted \/ RolledLossHit
    BY <1>2, <2>1, Zenon
  <2>3. RolledLossHit' => RolledLossHit
    BY <1>2, <2>1, Zenon
  <2>4. curDay' = today /\ job = "none"
    BY <1>2
  <2> HIDE DEF NoEntry, RolledHalted, RolledLossHit
  <2>5. JobProgress'
    BY <2>1, <2>4
  <2> QED
    BY <2>1, <2>2, <2>3, <2>4, <2>5
<1>3. ASSUME NEW hit \in BOOLEAN, NEW journaled \in BOOLEAN,
             CloseOne(hit, journaled)
      PROVE  CauseInv'
  <2> USE <1>3 DEF CloseOne
  <2>1. UNCHANGED <<today, dbHalted, dbReason, dbDay, heldDay, kept, asked>>
    BY DEF db
  <2>2. CASE journaled /\ halted' /\ ~dbHalted
    BY <2>1, <2>2
  <2>3. CASE ~(journaled /\ halted' /\ ~dbHalted)
    BY <2>1, <2>3 DEF inFlight
  <2> QED
    BY <2>2, <2>3
<1>4. CASE HaltCommand
  BY <1>4 DEF HaltCommand, db, risk
<1>5. CASE ResumeCommand
  BY <1>5 DEF ResumeCommand, db, risk
<1>6. CASE Reconcile
  BY <1>6 DEF Reconcile, ExpiredDaily, db, inFlight, observers
<1>7. CASE WriteFlag
  <2>1. CASE job \in {"manual", "daily"}
    <3>1. dbHalted'
      BY <1>7, <2>1 DEF WriteFlag
    <3> QED
      BY <1>7, <2>1, <3>1 DEF WriteFlag, risk, observers
  <2>2. CASE job \notin {"manual", "daily"}
    <3>1. ~dbHalted'
      BY <1>7, <2>2 DEF WriteFlag
    <3> QED
      BY <1>7, <2>2, <3>1 DEF WriteFlag, risk, observers
  <2> QED
    BY <2>1, <2>2
<1>8. CASE WriteReason
  BY <1>8 DEF WriteReason, risk, observers
<1>9. CASE WriteDay
  BY <1>9 DEF WriteDay, risk, observers
<1>10. CASE FinishHalt
  BY <1>10 DEF FinishHalt, db
<1>11. CASE FinishResume
  BY <1>11 DEF FinishResume, db
<1>12. CASE FinishDaily
  BY <1>12 DEF FinishDaily, db, risk
<1>13. CASE FinishExpire
  BY <1>13 DEF FinishExpire, db, risk, observers
<1>14. CASE Crash
  BY <1>14 DEF Crash, db, risk, observers
<1>15. CASE Start
  BY <1>15 DEF Start, db, inFlight, observers
<1>16. CASE Midnight
  BY <1>16 DEF Midnight, db, risk, inFlight, observers
<1>17. CASE UNCHANGED vars
  BY <1>17 DEF vars, db, risk, inFlight, observers
<1> QED
  BY <1>1, <1>2, <1>3, <1>4, <1>5, <1>6, <1>7, <1>8, <1>9, <1>10, <1>11,
     <1>12, <1>13, <1>14, <1>15, <1>16, <1>17 DEF Next

\* A running bot never refuses entries for ever: HaltHasCause.
THEOREM SwitchHasCause == Spec => []HaltHasCause
<1>1. Init => CauseInv
  BY DEF Init, CauseInv, JobProgress, RolledHalted, RolledLossHit
<1>2. TypeOK /\ TypeOK' /\ CauseInv /\ [Next]_vars => CauseInv'
  BY CauseInvInductive
<1>3. CauseInv => HaltHasCause
  BY DEF CauseInv, HaltHasCause
<1> QED
  BY <1>1, <1>2, <1>3, HaltTypeCorrect, PTL DEF Spec
=============================================================================
