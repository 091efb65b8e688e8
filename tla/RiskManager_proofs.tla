-------------------------- MODULE RiskManager_proofs --------------------------
(***************************************************************************)
(* Theorems about RiskManager for every configuration, any set of signals  *)
(* and outcomes and any bounds: type correctness, exactness of the lazy    *)
(* rollover, the daily kill switch, the heat cap and the worst day.        *)
(***************************************************************************)
EXTENDS RiskManager, RiskOps_proofs

\* ---- Type correctness ----------------------------------------------------

\* Every state the manager reaches is well typed: TypeOK, for all constants.
THEOREM TypeCorrect == Spec => []TypeOK
<1>1. Init => TypeOK
  BY RiskAssumption, RunAssumption
     DEF Init, TypeOK, NewRisk, NewLedger, Risk, RiskAssumption, RunAssumption
<1>2. TypeOK /\ [Next]_vars => TypeOK'
  <2> SUFFICES ASSUME TypeOK, [Next]_vars PROVE TypeOK'
    OBVIOUS
  <2> USE RunAssumption DEF TypeOK, RunAssumption
  <2>0. Evaluated(risk, today) \in Risk
    BY RolloverType, ArmedType DEF Evaluated
  <2>1. ASSUME NEW sig \in Signals, Enter(sig) PROVE TypeOK'
    <3> DEFINE r == Evaluated(risk, today)
    <3>1. PICK amount \in RoundToCent(RiskMills(r)) :
            risk' = RegisterFill(r, sig.instrument, sig.direction, amount)
      BY <2>1 DEF Enter
    <3>2. RiskMills(r) \in Int
      BY <2>0, RiskMillsType
    <3>3. amount \in Int
      BY <3>2, RoundToCentType
    <3>4. sig.instrument \in Instruments /\ sig.direction \in {-1, 1}
      BY RunAssumption DEF RunAssumption, Signal
    <3> QED
      BY <2>0, <2>1, <3>1, <3>3, <3>4, RegisterFillType DEF Enter
  <2>2. CASE NoEntry
    BY <2>0, <2>2 DEF NoEntry
  <2>3. ASSUME NEW i \in DOMAIN risk.open, Close(i) PROVE TypeOK'
    <3>1. PICK outcome \in Outcomes :
            LET pnl == (outcome * risk.open[i].risk) \div 10
            IN  /\ risk' = ClosePosition(risk, risk.open[i].instrument, pnl, today)
                /\ ledger' = [start |-> ledger.start, pnl |-> ledger.pnl + pnl,
                              peak |-> IF risk.balance + pnl > ledger.peak
                                       THEN risk.balance + pnl ELSE ledger.peak]
      BY <2>3 DEF Close
    <3> DEFINE pnl == (outcome * risk.open[i].risk) \div 10
    <3>2. risk.open[i] \in Position
      <4>1. risk.open \in Seq(Position)
        BY DEF Risk
      <4> QED
        BY <4>1, LenProperties, ElementOfSeq
    <3>3. pnl \in Int
      BY <3>2 DEF Position
    <3> HIDE DEF pnl
    <3>4. risk' \in Risk
      BY <3>1, <3>3, ClosePositionType DEF pnl
    <3>5. ledger' \in [start : Int, peak : Int, pnl : Int]
      BY <3>1, <3>3 DEF pnl, Risk
    <3> QED
      BY <2>3, <3>4, <3>5 DEF Close
  <2>4. CASE Halt
    BY <2>4 DEF Halt, Risk
  <2>5. CASE Resume
    BY <2>5 DEF Resume, Risk
  <2>6. CASE Midnight
    BY <2>6 DEF Midnight, NewLedger, Risk
  <2>7. CASE UNCHANGED vars
    BY <2>7 DEF vars
  <2> QED
    BY <2>1, <2>2, <2>3, <2>4, <2>5, <2>6, <2>7 DEF Next
<1> QED
  BY <1>1, <1>2, PTL DEF Spec

\* ---- The day's accounts --------------------------------------------------

\* The inductive form of LazyRolloverExact: a manager that has already been
\* called today agrees with the ledger; one that has not will take its present
\* balance and a zero, and the ledger holds just these.
DayAccounts ==
    /\ risk.day <= today
    /\ risk.day = today => /\ ledger.start = risk.dayStart
                          /\ ledger.pnl = risk.dayPnl
    /\ risk.day # today => /\ ledger.start = risk.balance
                          /\ ledger.pnl = 0

\* DayAccounts only speaks of the manager after its rollover.
LEMMA RolledAccounts ==
    ASSUME TypeOK, DayAccounts
    PROVE  LET r == Rollover(risk, today)
           IN  /\ r \in Risk
               /\ r.day = today
               /\ r.dayStart = ledger.start
               /\ r.dayPnl = ledger.pnl
               /\ r.open = risk.open
BY RolloverType, RunAssumption DEF TypeOK, DayAccounts, Rollover, Risk, RunAssumption

\* Every step keeps the two accounts of the day together.
LEMMA DayAccountsInductive ==
    ASSUME TypeOK, TypeOK', DayAccounts, [Next]_vars
    PROVE  DayAccounts'
<1> DEFINE r == Rollover(risk, today)
<1>0. /\ r \in Risk /\ r.day = today /\ r.open = risk.open
      /\ r.dayStart = ledger.start /\ r.dayPnl = ledger.pnl
  BY RolledAccounts
<1>1. today \in Nat
  BY RunAssumption DEF TypeOK, RunAssumption
<1> HIDE DEF r
<1>2. ASSUME NEW sig \in Signals, Enter(sig) PROVE DayAccounts'
  <2>1. PICK amount : risk' = RegisterFill(Armed(r), sig.instrument,
                                           sig.direction, amount)
    BY <1>2 DEF Enter, Evaluated, r
  <2>2. /\ risk'.day = today
        /\ risk'.dayStart = ledger.start /\ risk'.dayPnl = ledger.pnl
    BY <1>0, <2>1, ArmedType DEF RegisterFill, Risk
  <2> QED
    BY <1>1, <1>2, <2>2 DEF Enter, DayAccounts
<1>3. CASE NoEntry
  <2>1. risk' = Armed(r)
    BY <1>3 DEF NoEntry, Evaluated, r
  <2> QED
    BY <1>0, <1>1, <1>3, <2>1, ArmedType DEF NoEntry, DayAccounts
<1>4. ASSUME NEW i \in DOMAIN risk.open, Close(i) PROVE DayAccounts'
  <2>1. PICK outcome \in Outcomes :
          LET pnl == (outcome * risk.open[i].risk) \div 10
          IN  /\ risk' = ClosePosition(risk, risk.open[i].instrument, pnl, today)
              /\ ledger' = [start |-> ledger.start, pnl |-> ledger.pnl + pnl,
                            peak |-> IF risk.balance + pnl > ledger.peak
                                     THEN risk.balance + pnl ELSE ledger.peak]
    BY <1>4 DEF Close
  <2> DEFINE pnl == (outcome * risk.open[i].risk) \div 10
             booked == Booked(r, risk.open[i].instrument, pnl)
  <2>2. pnl \in Int
    <3>1. risk.open \in Seq(Position)
      BY DEF TypeOK, Risk
    <3>2. risk.open[i] \in Position
      BY <3>1, LenProperties, ElementOfSeq
    <3>3. risk.open[i].risk \in Int
      BY <3>2 DEF Position
    <3> QED
      BY <3>3, RunAssumption DEF RunAssumption
  <2> HIDE DEF pnl
  <2>3. /\ booked \in Risk /\ booked.day = today
        /\ booked.dayStart = ledger.start /\ booked.dayPnl = ledger.pnl + pnl
    BY <1>0, <2>2, BookedType DEF Booked
  <2>4. risk' = Armed(booked)
    BY <2>1 DEF ClosePosition, r, pnl
  <2>5. /\ risk'.day = today
        /\ risk'.dayStart = ledger.start /\ risk'.dayPnl = ledger.pnl + pnl
    BY <2>3, <2>4, ArmedType
  <2>6. ledger'.start = ledger.start /\ ledger'.pnl = ledger.pnl + pnl
    BY <2>1 DEF pnl
  <2> QED
    BY <1>1, <1>4, <2>5, <2>6 DEF Close, DayAccounts
<1>5. CASE Halt
  BY <1>5 DEF Halt, DayAccounts, TypeOK, Risk
<1>6. CASE Resume
  BY <1>6 DEF Resume, DayAccounts, TypeOK, Risk
<1>7. CASE Midnight
  BY <1>1, <1>7 DEF Midnight, NewLedger, DayAccounts, TypeOK, Risk
<1>8. CASE UNCHANGED vars
  BY <1>8 DEF vars, DayAccounts
<1> QED
  BY <1>2, <1>3, <1>4, <1>5, <1>6, <1>7, <1>8 DEF Next

LEMMA DayAccountsInvariant == Spec => []DayAccounts
<1>1. Init => DayAccounts
  BY DEF Init, DayAccounts, NewRisk, NewLedger
<1>2. TypeOK /\ TypeOK' /\ DayAccounts /\ [Next]_vars => DayAccounts'
  BY DayAccountsInductive
<1> QED
  BY <1>1, <1>2, TypeCorrect, PTL DEF Spec

\* After the lazy rollover the manager knows exactly what today realised:
\* LazyRolloverExact, for any limits, signals, outcomes and number of days.
THEOREM RolloverExact == Spec => []LazyRolloverExact
<1>1. TypeOK /\ DayAccounts => LazyRolloverExact
  BY RolledAccounts DEF LazyRolloverExact
<1> QED
  BY <1>1, TypeCorrect, DayAccountsInvariant, PTL

\* ---- The kill switch -----------------------------------------------------

\* No position is ever opened on a day that stands at its loss limit:
\* NoEntryPastLimit, whatever /halt, /resume and the rollover do to the flag.
THEOREM KillSwitch == Spec => NoEntryPastLimit
<1> DEFINE Safe == Len(risk'.open) > Len(risk.open)
                     => Scale * ledger.pnl > -(DailyLossLimit * ledger.start)
<1>1. ASSUME TypeOK, DayAccounts, [Next]_vars PROVE Safe
  <2> DEFINE r == Rollover(risk, today)
  <2>0. /\ r \in Risk /\ r.open = risk.open
        /\ r.dayStart = ledger.start /\ r.dayPnl = ledger.pnl
    BY <1>1, RolledAccounts
  <2>1. risk.open \in Seq(Position) /\ Len(risk.open) \in Nat
    BY <1>1, LenProperties DEF TypeOK, Risk
  <2> HIDE DEF r
  <2>2. ASSUME NEW sig \in Signals, Enter(sig) PROVE Safe
    <3>1. ~Armed(r).halted
      BY <2>2 DEF Enter, Evaluated, Approves, r
    <3>2. ~LimitHit(r)
      BY <2>0, <3>1 DEF Armed, Risk
    <3>3. /\ Scale * r.dayPnl \in Int
          /\ DailyLossLimit * r.dayStart \in Int
      <4>1. r.dayPnl \in Int /\ r.dayStart \in Int
        BY <2>0 DEF Risk
      <4>2. Scale \in Int /\ DailyLossLimit \in Int
        BY RiskAssumption DEF RiskAssumption
      <4> QED
        BY <4>1, <4>2
    <3> QED
      BY <2>0, <3>2, <3>3 DEF LimitHit
  <2>3. CASE NoEntry
    BY <2>0, <2>1, <2>3, ArmedType DEF NoEntry, Evaluated, r
  <2>4. ASSUME NEW i \in DOMAIN risk.open, Close(i) PROVE Safe
    <3>1. PICK pnl : risk' = ClosePosition(risk, risk.open[i].instrument, pnl, today)
      BY <2>4 DEF Close
    <3>2. risk'.open = Without(risk.open, risk.open[i].instrument)
      BY <2>0, <3>1 DEF ClosePosition, Armed, Booked, r
    <3>3. Len(risk'.open) <= Len(risk.open) /\ Len(risk'.open) \in Nat
      BY <2>1, <3>2, RemovalType, LenProperties
    <3> QED
      BY <2>1, <3>3
  <2>5. CASE Halt
    BY <1>1, <2>1, <2>5 DEF Halt, TypeOK, Risk
  <2>6. CASE Resume
    BY <1>1, <2>1, <2>6 DEF Resume, TypeOK, Risk
  <2>7. CASE Midnight
    BY <2>1, <2>7 DEF Midnight
  <2>8. CASE UNCHANGED vars
    BY <2>1, <2>8 DEF vars
  <2> QED
    BY <1>1, <2>2, <2>3, <2>4, <2>5, <2>6, <2>7, <2>8 DEF Next
<1> QED
  BY <1>1, TypeCorrect, DayAccountsInvariant, PTL DEF Spec, NoEntryPastLimit

\* ---- The heat cap ---------------------------------------------------------

\* No position is held twice, and none has a risk below zero.
OneEach ==
    /\ \A i \in 1..Len(risk.open) : risk.open[i].risk \in Nat
    /\ \A i, j \in 1..Len(risk.open) :
          risk.open[i].instrument = risk.open[j].instrument => i = j

\* What a step of the manager may do to positions, balance and the day.
Opens(sig, amount) ==
    LET p == [instrument |-> sig.instrument, direction |-> sig.direction,
              risk |-> amount]
    IN  /\ p \in Position /\ amount \in Nat
        /\ risk'.open = Append(risk.open, p)
        /\ risk'.balance = risk.balance
        /\ \A i \in 1..Len(risk.open) : risk.open[i].instrument # sig.instrument
        /\ 2 * Scale * (GrossHeat(risk.open) + amount)
              <= 2 * MaxGrossHeat * risk.balance + Scale
        /\ Scale * ledger.pnl > -(DailyLossLimit * ledger.start)
        /\ UNCHANGED ledger

\* The position k goes, for a result that is at worst the loss of its risk.
Loses(k, pnl) ==
    /\ pnl \in Int /\ pnl >= -risk.open[k].risk
    /\ LacksOnly(risk'.open, risk.open, k)
    /\ risk'.balance = risk.balance + pnl
    /\ ledger'.start = ledger.start /\ ledger'.pnl = ledger.pnl + pnl
    /\ ledger'.peak = IF risk.balance + pnl > ledger.peak
                      THEN risk.balance + pnl ELSE ledger.peak

KeepsPositions == risk'.open = risk.open /\ risk'.balance = risk.balance

NewDay == ledger' = NewLedger(risk.balance)

\* The products of the bounds are numbers.
LEMMA CapType ==
    ASSUME TypeOK
    PROVE  /\ risk.open \in Seq(Position) /\ Len(risk.open) \in Nat
           /\ DOMAIN risk.open = 1..Len(risk.open)
           /\ GrossHeat(risk.open) \in Int
           /\ risk.balance \in Int
           /\ ledger.pnl \in Int /\ ledger.start \in Int /\ ledger.peak \in Int
           /\ Scale \in Nat \ {0} /\ MaxGrossHeat \in Nat /\ DailyLossLimit \in Nat
BY HeatType, LenProperties, RiskAssumption DEF TypeOK, Risk, RiskAssumption

\* An approved order: what the gates let through, and no less than a unit.
LEMMA EnterOpens ==
    ASSUME TypeOK, DayAccounts, NEW sig \in Signals, Enter(sig)
    PROVE  \E amount : Opens(sig, amount)
<1> DEFINE r == Rollover(risk, today)
           mills == RiskMills(Armed(r))
           cap == MaxGrossHeat * risk.balance
           heat == Scale * GrossHeat(risk.open)
<1>0. /\ r \in Risk /\ r.open = risk.open
      /\ r.dayStart = ledger.start /\ r.dayPnl = ledger.pnl
      /\ r.balance = risk.balance
  BY RolledAccounts DEF Rollover
<1>1. /\ Armed(r) \in Risk /\ Armed(r).open = risk.open
      /\ Armed(r).balance = risk.balance
  BY <1>0, ArmedType
<1>2. /\ GrossHeat(risk.open) \in Int /\ risk.balance \in Int
      /\ Scale \in Nat \ {0} /\ MaxGrossHeat \in Nat
      /\ DOMAIN risk.open = 1..Len(risk.open)
  BY CapType
<1>3. mills \in Int /\ cap \in Int /\ heat \in Int
  BY <1>1, <1>2, RiskMillsType
<1>4. Approves(Armed(r), sig)
  BY DEF Enter, Evaluated
<1>5. heat + mills <= cap
  BY <1>1, <1>4 DEF Approves, WithinHeat
<1>6. mills > 0
  <2> DEFINE loss == StopHalfPips(sig) * sig.pipValue
  <2>1. sig \in Signal
    BY RunAssumption DEF RunAssumption
  <2>2. StopHalfPips(sig) \in Int /\ sig.pipValue \in Int
    BY <2>1, RiskAssumption DEF StopHalfPips, Signal, RiskAssumption
  <2>3. loss \in Int
    BY <2>2
  <2>4. loss > 0 /\ mills >= loss
    BY <1>4 DEF Approves, Sizable
  <2> HIDE DEF loss, mills
  <2> QED
    BY <1>3, <2>3, <2>4
<1>7. \A i \in 1..Len(risk.open) : risk.open[i].instrument # sig.instrument
  BY <1>1, <1>2, <1>4 DEF Approves, CheapGates
<1>8. Scale * ledger.pnl > -(DailyLossLimit * ledger.start)
  <2>1. ~LimitHit(r)
    BY <1>0, <1>4 DEF Approves, Armed, Risk
  <2>2. /\ Scale * ledger.pnl \in Int
        /\ DailyLossLimit * ledger.start \in Int
    BY CapType
  <2> QED
    BY <1>0, <2>1, <2>2 DEF LimitHit
<1>9. PICK amount \in RoundToCent(mills) :
        risk' = RegisterFill(Armed(r), sig.instrument, sig.direction, amount)
  BY DEF Enter, Evaluated
<1>10. amount \in Int
  BY <1>3, <1>9, RoundToCentType
<1> DEFINE cents == Scale * amount
<1>11. cents \in Int /\ 2 * (cents - mills) <= Scale /\ -(2 * (cents - mills)) <= Scale
  <2>1. cents \in Int
    BY <1>2, <1>10
  <2>2. 2 * Magnitude(cents - mills) <= Scale
    BY <1>9 DEF RoundToCent
  <2> HIDE DEF cents, mills
  <2> QED
    BY <1>2, <1>3, <2>1, <2>2 DEF Magnitude
<1>12. amount \in Nat
  <2>1. SUFFICES ASSUME amount <= -1 PROVE FALSE
    BY <1>10
  <2>2. cents <= -Scale
    BY <1>2, <1>10, <2>1
  <2> HIDE DEF cents, mills
  <2> QED
    BY <1>2, <1>3, <1>6, <1>11, <2>2
<1>13. 2 * Scale * (GrossHeat(risk.open) + amount) = 2 * (heat + cents)
  BY <1>2, <1>10
<1>14. 2 * Scale * (GrossHeat(risk.open) + amount) <= 2 * cap + Scale
  <2> HIDE DEF cents, mills, heat, cap
  <2> QED
    BY <1>2, <1>3, <1>5, <1>11, <1>13
<1>15. 2 * MaxGrossHeat * risk.balance = 2 * cap
  BY <1>2
<1> DEFINE p == [instrument |-> sig.instrument, direction |-> sig.direction,
                 risk |-> amount]
<1>16. p \in Position
  BY <1>10, RunAssumption DEF RunAssumption, Signal, Position
<1>17. risk'.open = Append(risk.open, p) /\ risk'.balance = risk.balance
  BY <1>1, <1>9 DEF RegisterFill, Risk
<1> HIDE DEF r, mills, cap, heat, cents
<1>18. Opens(sig, amount)
  BY <1>7, <1>8, <1>12, <1>14, <1>15, <1>16, <1>17 DEF Opens, Enter
<1> QED
  BY <1>18

LEMMA CloseLoses ==
    ASSUME TypeOK, OneEach, NEW i \in DOMAIN risk.open, Close(i)
    PROVE  \E pnl : Loses(i, pnl)
<1>0. /\ risk.open \in Seq(Position) /\ i \in 1..Len(risk.open)
      /\ risk.open[i].risk \in Nat
  BY CapType DEF OneEach
<1>1. PICK outcome \in Outcomes :
        LET pnl == (outcome * risk.open[i].risk) \div 10
        IN  /\ risk' = ClosePosition(risk, risk.open[i].instrument, pnl, today)
            /\ ledger' = [start |-> ledger.start, pnl |-> ledger.pnl + pnl,
                          peak |-> IF risk.balance + pnl > ledger.peak
                                   THEN risk.balance + pnl ELSE ledger.peak]
  BY DEF Close
<1> DEFINE pnl == (outcome * risk.open[i].risk) \div 10
           lost == outcome * risk.open[i].risk
<1>2. outcome \in Int /\ outcome >= -10
  BY RunAssumption, StopAssumption DEF RunAssumption, StopAssumption
<1>3. lost \in Int /\ lost >= -(10 * risk.open[i].risk)
  BY <1>0, <1>2
<1>4. pnl \in Int /\ pnl >= -risk.open[i].risk
  <2>1. pnl = lost \div 10
    OBVIOUS
  <2> HIDE DEF lost, pnl
  <2> QED
    BY <1>0, <1>3, <2>1
<1> HIDE DEF pnl
<1>5. /\ risk'.open = Without(risk.open, risk.open[i].instrument)
      /\ risk'.balance = risk.balance + pnl
  BY <1>1 DEF ClosePosition, Armed, Booked, Rollover, pnl
<1>6. LacksOnly(risk'.open, risk.open, i)
  BY <1>0, <1>5, Removal DEF OneEach
<1>7. /\ ledger'.start = ledger.start /\ ledger'.pnl = ledger.pnl + pnl
      /\ ledger'.peak = IF risk.balance + pnl > ledger.peak
                        THEN risk.balance + pnl ELSE ledger.peak
  BY <1>1 DEF pnl
<1> QED
  BY <1>4, <1>5, <1>6, <1>7 DEF Loses

\* Every step is one of these.
LEMMA MoneyMoves ==
    ASSUME TypeOK, DayAccounts, OneEach, [Next]_vars
    PROVE  \/ \E sig \in Signals : \E amount : Opens(sig, amount)
           \/ \E i \in 1..Len(risk.open) : \E pnl : Loses(i, pnl)
           \/ KeepsPositions /\ UNCHANGED ledger
           \/ KeepsPositions /\ NewDay
<1>1. CASE NoEntry
  <2>1. Rollover(risk, today) \in Risk
    BY RolledAccounts
  <2>2. KeepsPositions
    BY <1>1, <2>1, ArmedType DEF NoEntry, Evaluated, Rollover, KeepsPositions
  <2> QED
    BY <1>1, <2>2 DEF NoEntry
<1>2. CASE Halt \/ Resume
  BY <1>2 DEF Halt, Resume, KeepsPositions, TypeOK, Risk
<1>3. CASE Midnight
  BY <1>3 DEF Midnight, KeepsPositions, NewDay
<1>4. CASE UNCHANGED vars
  BY <1>4 DEF vars, KeepsPositions
<1>5. ASSUME NEW i \in DOMAIN risk.open, Close(i)
      PROVE  \E k \in 1..Len(risk.open) : \E pnl : Loses(k, pnl)
  BY <1>5, CloseLoses, CapType
<1> QED
  BY <1>1, <1>2, <1>3, <1>4, <1>5, EnterOpens DEF Next

LEMMA OneEachStep ==
    ASSUME TypeOK, DayAccounts, OneEach, [Next]_vars
    PROVE  OneEach'
<1>0. risk.open \in Seq(Position) /\ Len(risk.open) \in Nat
  BY CapType
<1>1. ASSUME NEW sig \in Signals, NEW amount, Opens(sig, amount) PROVE OneEach'
  <2> DEFINE p == [instrument |-> sig.instrument, direction |-> sig.direction,
                   risk |-> amount]
  <2>1. /\ p \in Position /\ amount \in Nat /\ risk'.open = Append(risk.open, p)
        /\ p.risk = amount /\ p.instrument = sig.instrument
        /\ \A i \in 1..Len(risk.open) : risk.open[i].instrument # sig.instrument
    BY <1>1 DEF Opens
  <2> HIDE DEF p
  <2>2. /\ Len(risk'.open) = Len(risk.open) + 1
        /\ risk'.open[Len(risk.open) + 1] = p
        /\ \A i \in 1..Len(risk.open) : risk'.open[i] = risk.open[i]
    BY <1>0, <2>1, AppendProperties
  <2>3. ASSUME NEW i \in 1..Len(risk'.open)
        PROVE  \/ i \in 1..Len(risk.open) /\ risk'.open[i] = risk.open[i]
               \/ i = Len(risk.open) + 1 /\ risk'.open[i] = p
    BY <1>0, <2>2
  <2>4. ASSUME NEW i \in 1..Len(risk'.open) PROVE risk'.open[i].risk \in Nat
    <3>1. i \in 1..Len(risk.open) => risk.open[i].risk \in Nat
      BY DEF OneEach
    <3> QED
      BY <2>1, <2>3, <3>1
  <2>5. ASSUME NEW i \in 1..Len(risk'.open), NEW j \in 1..Len(risk'.open),
               risk'.open[i].instrument = risk'.open[j].instrument
        PROVE  i = j
    <3>1. CASE i \in 1..Len(risk.open) /\ j \in 1..Len(risk.open)
      <4>1. /\ risk'.open[i] = risk.open[i] /\ risk'.open[j] = risk.open[j]
        BY <2>2, <3>1
      <4> QED
        BY <2>5, <3>1, <4>1 DEF OneEach
    <3>2. CASE ~(i \in 1..Len(risk.open) /\ j \in 1..Len(risk.open))
      BY <2>1, <2>3, <2>5, <3>2
    <3> QED
      BY <3>1, <3>2
  <2> QED
    BY <2>4, <2>5 DEF OneEach
<1>2. ASSUME NEW k \in 1..Len(risk.open), NEW pnl, Loses(k, pnl) PROVE OneEach'
  <2> DEFINE was(i) == IF i < k THEN i ELSE i + 1
  <2>1. /\ Len(risk'.open) \in Nat /\ k \in Nat
        /\ \A i \in 1..Len(risk'.open) :
              was(i) \in 1..Len(risk.open) /\ risk'.open[i] = risk.open[was(i)]
    BY <1>0, <1>2 DEF Loses, LacksOnly
  <2>2. \A i, j \in 1..Len(risk'.open) : was(i) = was(j) => i = j
    BY <2>1
  <2> HIDE DEF was
  <2>3. ASSUME NEW i \in 1..Len(risk'.open)
        PROVE  /\ risk'.open[i].risk \in Nat
               /\ \A j \in 1..Len(risk'.open) :
                     risk'.open[i].instrument = risk'.open[j].instrument => i = j
    <3>1. /\ was(i) \in 1..Len(risk.open) /\ risk'.open[i] = risk.open[was(i)]
          /\ \A j \in 1..Len(risk'.open) :
                was(j) \in 1..Len(risk.open) /\ risk'.open[j] = risk.open[was(j)]
      BY <2>1
    <3>2. risk.open[was(i)].risk \in Nat
      BY <3>1 DEF OneEach
    <3>3. ASSUME NEW j \in 1..Len(risk'.open),
                 risk'.open[i].instrument = risk'.open[j].instrument
          PROVE  i = j
      <4>1. was(i) = was(j)
        BY <3>1, <3>3 DEF OneEach
      <4> QED
        BY <2>2, <4>1
    <3> QED
      BY <3>1, <3>2, <3>3
  <2> QED
    BY <2>3 DEF OneEach
<1> QED
  BY <1>1, <1>2, MoneyMoves DEF KeepsPositions, OneEach

LEMMA OneEachInvariant == Spec => []OneEach
<1>1. Init => OneEach
  BY DEF Init, NewRisk, OneEach
<1> QED
  BY <1>1, OneEachStep, TypeCorrect, DayAccountsInvariant, PTL DEF Spec

\* A position that goes takes its risk, and no other, out of the sum.
LEMMA HeatGone ==
    ASSUME risk.open \in Seq(Position), OneEach,
           NEW k \in 1..Len(risk.open), NEW pnl, Loses(k, pnl)
    PROVE  /\ GrossHeat(risk.open) = risk.open[k].risk + GrossHeat(risk'.open)
           /\ risk.open[k].risk \in Nat
           /\ GrossHeat(risk'.open) \in Int
<1>1. LacksOnly(risk'.open, risk.open, k)
  BY DEF Loses
<1>2. risk'.open \in Seq(Position)
  BY <1>1 DEF LacksOnly
<1>3. risk.open[k].risk \in Nat
  BY DEF OneEach
<1>4. GrossHeat(risk.open) = risk.open[k].risk + GrossHeat(risk'.open)
  BY <1>1, HeatOfRemoval
<1>5. GrossHeat(risk'.open) \in Int
  BY <1>2, HeatType
<1> QED
  BY <1>3, <1>4, <1>5

LEMMA HeatStep ==
    ASSUME TypeOK, DayAccounts, OneEach, HeatWithinCap, [Next]_vars
    PROVE  HeatWithinCap'
<1> DEFINE heat == GrossHeat(risk.open)
           cap == 2 * MaxGrossHeat * risk.balance
<1>0. /\ risk.open \in Seq(Position) /\ heat \in Int /\ risk.balance \in Int
      /\ Scale \in Nat \ {0} /\ MaxGrossHeat \in Nat /\ cap \in Int
  BY CapType
<1>1. ASSUME NEW sig \in Signals, NEW amount, Opens(sig, amount)
      PROVE  HeatWithinCap'
  <2>1. GrossHeat(risk'.open) = amount + heat /\ amount \in Nat
    BY <1>0, <1>1, HeatOfAppend DEF Opens
  <2>2. amount + heat = heat + amount
    BY <1>0, <2>1
  <2> QED
    BY <1>0, <1>1, <2>1, <2>2 DEF Opens, HeatWithinCap
<1>2. ASSUME NEW k \in 1..Len(risk.open), NEW pnl, Loses(k, pnl)
      PROVE  HeatWithinCap'
  <2> DEFINE gone == risk.open[k].risk
             rest == GrossHeat(risk'.open)
  <2>1. heat = gone + rest /\ gone \in Nat /\ rest \in Int
    BY <1>0, <1>2, HeatGone
  <2>2. pnl \in Int /\ pnl >= -gone /\ risk'.balance = risk.balance + pnl
    BY <1>2 DEF Loses
  <2> HIDE DEF gone, rest
  <2>3. 2 * Scale * heat = 2 * Scale * rest + 2 * Scale * gone
    BY <1>0, <2>1
  <2>4. 2 * MaxGrossHeat * risk'.balance = cap + 2 * MaxGrossHeat * pnl
    BY <1>0, <2>2
  <2>5. 2 * MaxGrossHeat * pnl >= -(2 * MaxGrossHeat * gone)
    <3>1. MaxGrossHeat * (pnl + gone) >= 0
      BY <1>0, <2>1, <2>2
    <3> QED
      BY <1>0, <2>1, <2>2, <3>1
  <2>6. 2 * MaxGrossHeat * gone <= 2 * Scale * gone
    <3>1. (Scale - MaxGrossHeat) * gone >= 0
      BY <1>0, <2>1, StopAssumption DEF StopAssumption
    <3> QED
      BY <1>0, <2>1, <3>1
  <2>7. /\ 2 * Scale * rest \in Int /\ 2 * Scale * gone \in Int
        /\ 2 * MaxGrossHeat * pnl \in Int /\ 2 * MaxGrossHeat * gone \in Int
    BY <1>0, <2>1, <2>2
  <2>8. 2 * Scale * heat <= cap + Scale
    BY DEF HeatWithinCap
  <2> DEFINE a == 2 * Scale * rest
             b == 2 * Scale * gone
             c == 2 * MaxGrossHeat * pnl
             d == 2 * MaxGrossHeat * gone
  <2>9. /\ a \in Int /\ b \in Int /\ c \in Int /\ d \in Int /\ a + b <= cap + Scale
        /\ c >= -d /\ d <= b
    BY <2>3, <2>5, <2>6, <2>7, <2>8
  <2>10. a <= cap + c + Scale
    <3> HIDE DEF a, b, c, d, cap
    <3> QED
      BY <1>0, <2>9
  <2> QED
    BY <2>4, <2>10 DEF HeatWithinCap, rest
<1> QED
  BY <1>1, <1>2, MoneyMoves DEF KeepsPositions, HeatWithinCap

\* Open risk never exceeds max_gross_heat of the current balance, HeatWithinCap:
\* for any number of positions, any signals, any results no worse than a stop.
THEOREM HeatCapped == Spec => []HeatWithinCap
<1>1. Init => HeatWithinCap
  <2>1. GrossHeat(<<>>) = 0
    BY HeatOfNone
  <2>2. Init => risk.open = <<>> /\ risk.balance = StartBalance
    BY DEF Init, NewRisk
  <2>3. MaxGrossHeat * StartBalance >= 0 /\ MaxGrossHeat * StartBalance \in Int
    BY RiskAssumption, RunAssumption, StopAssumption
       DEF RiskAssumption, RunAssumption, StopAssumption
  <2> QED
    BY <2>1, <2>2, <2>3, RiskAssumption, RunAssumption
       DEF RiskAssumption, RunAssumption, HeatWithinCap
<1> QED
  BY <1>1, HeatStep, TypeCorrect, DayAccountsInvariant, OneEachInvariant, PTL DEF Spec

\* ---- The worst day --------------------------------------------------------

\* Multiplying by a natural number keeps an order.
LEMMA ScaledOrder ==
    ASSUME NEW m \in Nat, NEW x \in Int, NEW y \in Int, x <= y
    PROVE  /\ 2 * m * x \in Int /\ 2 * m * y \in Int
           /\ 2 * m * x <= 2 * m * y
<1>1. m * (y - x) >= 0
  OBVIOUS
<1>2. m * (y - x) = m * y - m * x
  OBVIOUS
<1>3. 2 * m * x = 2 * (m * x) /\ 2 * m * y = 2 * (m * y)
  OBVIOUS
<1>4. m * x \in Int /\ m * y \in Int
  OBVIOUS
<1> DEFINE a == m * x
           b == m * y
<1>5. a \in Int /\ b \in Int /\ b - a >= 0
  BY <1>1, <1>2, <1>4
<1>6. 2 * a \in Int /\ 2 * b \in Int /\ 2 * a <= 2 * b
  <2> HIDE DEF a, b
  <2> QED
    BY <1>5
<1> QED
  BY <1>3, <1>6

\* The account covers its open risk, even with every stop hit; the day's peak
\* is no less than the balance.
Solvent ==
    /\ GrossHeat(risk.open) <= risk.balance
    /\ risk.balance <= ledger.peak

LEMMA SolventStep ==
    ASSUME TypeOK, TypeOK', DayAccounts, OneEach, Solvent, [Next]_vars
    PROVE  Solvent'
<1> DEFINE heat == GrossHeat(risk.open)
<1>0. /\ risk.open \in Seq(Position) /\ heat \in Nat /\ risk.balance \in Int
      /\ ledger.peak \in Int /\ Scale \in Nat \ {0} /\ MaxGrossHeat \in Nat
  BY CapType, HeatNotNegative DEF OneEach
<1>1. ASSUME NEW sig \in Signals, NEW amount, Opens(sig, amount)
      PROVE  Solvent'
  <2>1. GrossHeat(risk'.open) = amount + heat /\ amount \in Nat
    BY <1>0, <1>1, HeatOfAppend DEF Opens
  <2> DEFINE more == heat + amount
  <2>2. 2 * Scale * more <= 2 * MaxGrossHeat * risk.balance + Scale
    BY <1>1 DEF Opens
  <2>3. more \in Nat /\ risk.balance \in Nat
    BY <1>0, <2>1 DEF Solvent
  <2> HIDE DEF more
  <2>4. (Scale - MaxGrossHeat) * risk.balance >= 0
    BY <1>0, <2>3, StopAssumption DEF StopAssumption
  <2>5. 2 * MaxGrossHeat * risk.balance <= 2 * Scale * risk.balance
    BY <1>0, <2>3, <2>4
  <2>6. more <= risk.balance
    <3>1. SUFFICES ASSUME more >= risk.balance + 1 PROVE FALSE
      BY <1>0, <2>3
    <3>2. Scale * (more - risk.balance - 1) >= 0
      BY <1>0, <2>3, <3>1
    <3>3. 2 * Scale * more >= 2 * Scale * risk.balance + 2 * Scale
      BY <1>0, <2>3, <3>2
    <3> DEFINE a == 2 * Scale * more
               b == 2 * Scale * risk.balance
               c == 2 * MaxGrossHeat * risk.balance
    <3>4. a \in Int /\ b \in Int /\ c \in Int
      BY <1>0, <2>3
    <3> HIDE DEF a, b, c
    <3>5. a <= c + Scale /\ c <= b /\ a >= b + 2 * Scale
      BY <2>2, <2>5, <3>3 DEF a, b, c
    <3> QED
      BY <1>0, <3>4, <3>5
  <2>7. GrossHeat(risk'.open) <= risk'.balance
    <3>1. risk'.balance = risk.balance
      BY <1>1 DEF Opens
    <3>2. GrossHeat(risk'.open) = more
      BY <1>0, <2>1 DEF more
    <3> QED
      BY <2>6, <3>1, <3>2
  <2>8. risk'.balance <= ledger'.peak
    BY <1>1 DEF Opens, Solvent
  <2> QED
    BY <2>7, <2>8 DEF Solvent
<1>2. ASSUME NEW k \in 1..Len(risk.open), NEW pnl, Loses(k, pnl)
      PROVE  Solvent'
  <2> DEFINE rest == GrossHeat(risk'.open)
             gone == risk.open[k].risk
  <2>1. heat = gone + rest /\ gone \in Nat /\ rest \in Int
    BY <1>0, <1>2, HeatGone
  <2>2. /\ pnl \in Int /\ pnl >= -gone /\ risk'.balance = risk.balance + pnl
        /\ ledger'.peak = IF risk.balance + pnl > ledger.peak
                          THEN risk.balance + pnl ELSE ledger.peak
    BY <1>2 DEF Loses
  <2>3. heat <= risk.balance
    BY DEF Solvent
  <2> HIDE DEF rest, gone, heat
  <2>4. rest <= risk'.balance /\ risk'.balance <= ledger'.peak
    BY <1>0, <2>1, <2>2, <2>3
  <2> QED
    BY <2>4 DEF Solvent, rest
<1> QED
  BY <1>0, <1>1, <1>2, MoneyMoves DEF KeepsPositions, NewDay, NewLedger, Solvent

LEMMA SolventInvariant == Spec => []Solvent
<1>1. Init => Solvent
  BY HeatOfNone, RunAssumption, StopAssumption
     DEF Init, NewRisk, NewLedger, RunAssumption, StopAssumption, Solvent
<1> QED
  BY <1>1, SolventStep, TypeCorrect, DayAccountsInvariant, OneEachInvariant, PTL
     DEF Spec

LEMMA WorstDayStep ==
    ASSUME TypeOK, TypeOK', DayAccounts, OneEach, Solvent, Solvent',
           HeatWithinCap, WorstDayBounded, [Next]_vars
    PROVE  WorstDayBounded'
<1> DEFINE heat == GrossHeat(risk.open)
           floor == -(2 * DailyLossLimit * ledger.start)
           top == 2 * MaxGrossHeat * ledger.peak
           cap == 2 * MaxGrossHeat * risk.balance
<1>0. /\ risk.open \in Seq(Position) /\ heat \in Nat
      /\ risk.balance \in Int /\ ledger.peak \in Int
      /\ ledger.pnl \in Int /\ ledger.start \in Int
      /\ Scale \in Nat \ {0} /\ MaxGrossHeat \in Nat /\ DailyLossLimit \in Nat
  BY CapType, HeatNotNegative DEF OneEach
<1>1. floor \in Int /\ top \in Int /\ cap \in Int /\ cap <= top
  <2>1. risk.balance <= ledger.peak
    BY DEF Solvent
  <2>2. cap \in Int /\ top \in Int /\ cap <= top
    BY <1>0, <2>1, ScaledOrder
  <2>3. floor \in Int
    BY <1>0
  <2> QED
    BY <2>2, <2>3
<1>9. /\ 2 * Scale * (ledger.pnl - heat) >= floor - top - Scale
      /\ 2 * Scale * heat <= cap + Scale
  BY DEF WorstDayBounded, HeatWithinCap
<1> HIDE DEF floor, top, cap, heat
<1>2. ASSUME NEW sig \in Signals, NEW amount, Opens(sig, amount)
      PROVE  WorstDayBounded'
  <2>1. GrossHeat(risk'.open) = amount + heat /\ amount \in Nat
    BY <1>0, <1>2, HeatOfAppend DEF Opens, heat
  <2> DEFINE more == heat + amount
             a == 2 * Scale * more
             b == Scale * ledger.pnl
             c == DailyLossLimit * ledger.start
  <2>2. a <= cap + Scale /\ b > -c /\ UNCHANGED ledger
    BY <1>2 DEF Opens, heat, cap
  <2>3. more \in Nat /\ amount + heat = more
    BY <1>0, <2>1
  <2> HIDE DEF more
  <2>4. a \in Int /\ b \in Int /\ c \in Int
    BY <1>0, <2>3
  <2>5. floor = -(2 * c)
    BY <1>0 DEF floor
  <2>6. 2 * Scale * (ledger.pnl - more) = 2 * b - a
    BY <1>0, <2>3
  <2>7. 2 * b - a >= floor - top - Scale
    <3> HIDE DEF a, b, c
    <3> QED
      BY <1>0, <1>1, <2>2, <2>4, <2>5
  <2>8. 2 * Scale * (ledger.pnl - more) >= floor - top - Scale
    BY <2>6, <2>7
  <2> QED
    BY <2>1, <2>2, <2>3, <2>8 DEF WorstDayBounded, floor, top
<1>3. ASSUME NEW k \in 1..Len(risk.open), NEW pnl, Loses(k, pnl)
      PROVE  WorstDayBounded'
  <2> DEFINE rest == GrossHeat(risk'.open)
             gone == risk.open[k].risk
             before == ledger.pnl - heat
             after == ledger.pnl + pnl - rest
             peak == ledger'.peak
  <2>1. heat = gone + rest /\ gone \in Nat /\ rest \in Int
    BY <1>0, <1>3, HeatGone DEF heat
  <2>2. /\ pnl \in Int /\ pnl >= -gone
        /\ ledger'.start = ledger.start /\ ledger'.pnl = ledger.pnl + pnl
        /\ peak \in Int /\ peak >= ledger.peak
    BY <1>0, <1>3 DEF Loses
  <2> HIDE DEF rest, gone, peak
  <2>3. after >= before /\ after \in Int /\ before \in Int
    BY <1>0, <2>1, <2>2
  <2>8. ledger'.pnl - rest = after
    BY <1>0, <2>1, <2>2
  <2>9. floor = -(2 * DailyLossLimit * ledger'.start)
    BY <2>2, Zenon DEF floor
  <2> DEFINE x == 2 * Scale * after
             y == 2 * Scale * before
             z == 2 * MaxGrossHeat * peak
  <2>4. y >= floor - top - Scale
    BY <1>9
  <2> HIDE DEF before, after
  <2>5. x \in Int /\ y \in Int /\ y <= x
    BY <1>0, <2>3, ScaledOrder
  <2>6. z \in Int /\ top <= z
    <3>1. ledger.peak <= peak
      BY <1>0, <2>2
    <3> QED
      BY <1>0, <2>2, <3>1, ScaledOrder DEF top
  <2>7. x >= floor - z - Scale
    <3> HIDE DEF x, y, z
    <3> QED
      BY <1>0, <1>1, <2>4, <2>5, <2>6
  <2> QED
    BY <2>7, <2>8, <2>9 DEF WorstDayBounded, peak, rest
<1>4. ASSUME KeepsPositions, NewDay
      PROVE  WorstDayBounded'
  <2>1. /\ ledger'.pnl = 0 /\ ledger'.start = risk.balance
        /\ ledger'.peak = risk.balance /\ GrossHeat(risk'.open) = heat
    BY <1>4 DEF KeepsPositions, NewDay, NewLedger, heat
  <2> DEFINE a == 2 * Scale * heat
             c == DailyLossLimit * risk.balance
  <2>2. risk.balance \in Nat
    BY <1>0 DEF Solvent, heat
  <2>3. a \in Int /\ c \in Int /\ c >= 0
    BY <1>0, <2>2
  <2>4. /\ 2 * Scale * (0 - heat) = -a
        /\ -(2 * DailyLossLimit * risk.balance) = -(2 * c)
    BY <1>0
  <2>5. -a >= -(2 * c) - cap - Scale
    <3> HIDE DEF a, c
    <3> QED
      BY <1>0, <1>1, <1>9, <2>3 DEF a
  <2> QED
    BY <2>1, <2>4, <2>5 DEF WorstDayBounded, cap
<1> QED
  BY <1>2, <1>3, <1>4, MoneyMoves DEF KeepsPositions, WorstDayBounded

\* No day loses more than the daily limit and the heat cap together, even if
\* every open trade is stopped out at once: WorstDayBounded, over any number of
\* days, halts and resumes.
THEOREM WorstDay == Spec => []WorstDayBounded
<1>1. Init => WorstDayBounded
  <2>1. Init => /\ risk.open = <<>> /\ ledger.pnl = 0
                /\ ledger.start = StartBalance /\ ledger.peak = StartBalance
    BY DEF Init, NewRisk, NewLedger
  <2>2. /\ DailyLossLimit * StartBalance >= 0 /\ MaxGrossHeat * StartBalance >= 0
        /\ DailyLossLimit * StartBalance \in Int /\ MaxGrossHeat * StartBalance \in Int
    BY RiskAssumption, RunAssumption, StopAssumption
       DEF RiskAssumption, RunAssumption, StopAssumption
  <2>3. /\ Scale \in Nat
        /\ 2 * DailyLossLimit * StartBalance = 2 * (DailyLossLimit * StartBalance)
        /\ 2 * MaxGrossHeat * StartBalance = 2 * (MaxGrossHeat * StartBalance)
        /\ 2 * Scale * (0 - 0) = 0
    BY RiskAssumption, RunAssumption DEF RiskAssumption, RunAssumption
  <2> DEFINE limit == DailyLossLimit * StartBalance
             cap == MaxGrossHeat * StartBalance
  <2>4. 0 >= -(2 * limit) - 2 * cap - Scale
    <3>1. limit >= 0 /\ cap >= 0 /\ limit \in Int /\ cap \in Int
      BY <2>2
    <3> HIDE DEF limit, cap
    <3> QED
      BY <2>3, <3>1
  <2> QED
    BY <2>1, <2>3, <2>4, HeatOfNone DEF WorstDayBounded
<1> QED
  BY <1>1, WorstDayStep, HeatCapped, TypeCorrect, DayAccountsInvariant,
     OneEachInvariant, SolventInvariant, PTL DEF Spec
=============================================================================
