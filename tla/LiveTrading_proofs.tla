-------------------------- MODULE LiveTrading_proofs --------------------------
(***************************************************************************)
(* The pipeline of LiveTrading under every fault, any number of them, for  *)
(* any trades.  First the ledger: no row is closed too early, none twice,  *)
(* no trade is forgotten, and every step is a step of TradeLife.  Then the *)
(* books: whose a booked close was, what the balance counts, and that      *)
(* broker, rows and positions hold the same trades, one of a pair.         *)
(***************************************************************************)
EXTENDS LiveTrading, RiskOps_proofs

\* ---- The inductive invariant ---------------------------------------------

Shapes ==
    /\ deal = [t \in Trades |-> deal[t]]
    /\ rows = [t \in Trades |-> rows[t]]
    /\ \A t \in Trades : /\ deal[t].status \in {"none", "open", "closed"}
                         /\ rows[t].status \in {"none", "open", "closed"}
    /\ pending \subseteq Trades /\ seen \subseteq Trades

\* No row without a trade; no closed row of a trade that stands.
RowsFollowDeals ==
    \A t \in Trades :
        /\ rows[t].status = "closed" => deal[t].status = "closed"
        /\ rows[t].status = "open" => deal[t].status # "none"

\* What the loop in progress has read still holds of what it has to visit.
PendingInv ==
    /\ pc \in {"sync", "adopt"} =>
         \A t \in pending : /\ deal[t].status = "closed"
                            /\ rows[t].status = "open"
    /\ pc = "adopt" =>
         \A t \in seen : /\ deal[t].status # "none"
                         /\ rows[t].status # "closed"
                         /\ t \notin pending
    /\ pc = "filled" =>
         \A t \in pending : /\ deal[t].status # "none"
                            /\ rows[t].status = "none"

LedgerInv == Shapes /\ RowsFollowDeals /\ PendingInv

\* ---- Steps by what they change -------------------------------------------

\* A step that writes no row and starts no loop over rows; trades may end.
Quiet ==
    /\ UNCHANGED rows
    /\ deal' = [u \in Trades |-> deal'[u]]
    /\ \A u \in Trades :
          \/ deal'[u].status = deal[u].status
          \/ deal[u].status = "open" /\ deal'[u].status = "closed"
    /\ pending' \subseteq Trades /\ seen' \subseteq Trades
    /\ pc' \in {"sync", "adopt", "filled"} =>
         pc' = pc /\ pending' \subseteq pending /\ seen' = seen

LEMMA QuietStep ==
    ASSUME LedgerInv, Quiet
    PROVE  LedgerInv'
BY DEF LedgerInv, Quiet, Shapes, RowsFollowDeals, PendingInv

\* A trade ends, or nothing happens to it.
LEMMA EndsShape ==
    ASSUME LedgerInv, NEW t \in Trades, NEW who, Ends(t, who)
    PROVE  /\ deal' = [u \in Trades |-> deal'[u]]
           /\ \A u \in Trades :
                 \/ deal'[u].status = deal[u].status
                 \/ deal[u].status = "open" /\ deal'[u].status = "closed"
<1>1. CASE deal[t].status = "open"
  <2>1. PICK outcome \in Outcomes :
          Becomes(t, "closed", (outcome * deal[t].risk) \div 10, who,
                  deal[t].stop)
    BY <1>1 DEF Ends
  <2> QED
    BY <1>1, <2>1 DEF Becomes, LedgerInv, Shapes
<1>2. CASE deal[t].status # "open"
  BY <1>2 DEF Ends, LedgerInv, Shapes
<1> QED
  BY <1>1, <1>2

\* An open row is closed: the trade is over, because the row was pending.
LEMMA RecordCloseStep ==
    ASSUME LedgerInv, NEW t \in pending, NEW pnl, RecordClose(t, pnl),
           UNCHANGED deal, pc \in {"sync", "adopt"},
           pc' \in {"sync", "adopt"} =>
               pc' = pc /\ pending' = pending \ {t} /\ seen' = seen,
           pc' # "filled", pending' \subseteq Trades, seen' \subseteq Trades
    PROVE  LedgerInv'
<1> USE DEF LedgerInv
<1>1. t \in Trades /\ deal[t].status = "closed" /\ (pc = "adopt" => t \notin seen)
  BY DEF Shapes, PendingInv
<1>2. /\ rows' = [u \in Trades |-> rows'[u]]
      /\ rows'[t].status = "closed"
      /\ \A u \in Trades \ {t} : rows'[u] = rows[u]
  BY <1>1 DEF RecordClose, NewRow, Shapes
<1>3. Shapes'
  BY <1>1, <1>2 DEF Shapes
<1>4. RowsFollowDeals'
  BY <1>1, <1>2 DEF RowsFollowDeals
<1>5. PendingInv'
  BY <1>1, <1>2 DEF PendingInv, Shapes
<1> QED
  BY <1>3, <1>4, <1>5

\* A new trade appears at the broker, and no row with it.
LEMMA FillStep ==
    ASSUME LedgerInv, NEW t \in Trades, NEW sig \in Signals, Fill(t, sig),
           pc' \in {"filled", "idle"},
           pending' \subseteq {t}, UNCHANGED seen
    PROVE  LedgerInv'
<1> USE DEF LedgerInv
<1>1. UNCHANGED rows /\ deal[t].status = "none"
  BY DEF Fill, store
<1>2. /\ deal' = [u \in Trades |-> deal'[u]]
      /\ deal'[t].status = "open"
      /\ \A u \in Trades \ {t} : deal'[u] = deal[u]
  <2>1. PICK amount \in RoundToCent(RiskMills(risk')) :
          deal' = [deal EXCEPT ![t] =
              [status |-> "open", instrument |-> sig.instrument,
               direction |-> sig.direction, risk |-> amount,
               pnl |-> 0, by |-> "nobody", stop |-> TRUE]]
    BY DEF Fill
  <2> QED
    BY <2>1 DEF Shapes
<1>3. rows[t].status = "none"
  BY <1>1 DEF Shapes, RowsFollowDeals
<1> QED
  BY <1>1, <1>2, <1>3 DEF Shapes, RowsFollowDeals, PendingInv

\* Orphans of the broker get a row.
LEMMA AdoptStep ==
    ASSUME LedgerInv, NEW some \in SUBSET seen, rows' = Adopted(some),
           pc = "adopt", pc' = "idle", UNCHANGED <<deal, pending>>, seen' = {}
    PROVE  LedgerInv'
<1> USE DEF LedgerInv
<1>1. \A u \in Trades :
         \/ rows'[u] = rows[u]
         \/ u \in seen /\ rows'[u].status = "open"
  BY DEF Adopted, NewRow
<1>2. rows' = [u \in Trades |-> rows'[u]]
  BY DEF Adopted
<1> QED
  BY <1>1, <1>2 DEF Shapes, RowsFollowDeals, PendingInv

\* ---- Every step preserves the invariant ----------------------------------

LEMMA ProgramStep ==
    ASSUME LedgerInv, Program
    PROVE  LedgerInv'
<1> USE DEF Goto, store, memory, control
<1>1. CASE SyncRead
  BY <1>1 DEF SyncRead, OpenRows, AtBroker, LedgerInv, Shapes, RowsFollowDeals,
     PendingInv
<1>2. CASE BootRead
  BY <1>2 DEF BootRead, OpenRows, AtBroker, LedgerInv, Shapes, RowsFollowDeals,
     PendingInv
<1>3. CASE SyncDone \/ NotTradeable \/ ManageDone \/ NoEntry \/ WatchDone \/ Start
  <2>1. Quiet
    BY <1>3 DEF SyncDone, NotTradeable, ManageDone, NoEntry, WatchDone, Start,
       Boot, Quiet, LedgerInv, Shapes
  <2> QED
    BY <2>1, QuietStep
<1>4. CASE ManageRead \/ WatchRead
  <2>1. Quiet
    BY <1>4 DEF ManageRead, WatchRead, AtBroker, Quiet, LedgerInv, Shapes
  <2> QED
    BY <2>1, QuietStep
<1>5. CASE Rebuild
  <2>1. seen \ OpenRows \in SUBSET seen
    OBVIOUS
  <2> QED
    BY <1>5, <2>1, AdoptStep DEF Rebuild
<1>6. ASSUME NEW t \in Trades, CloseKnown(t)
      PROVE  LedgerInv'
  <2>1. t \in pending /\ RecordClose(t, deal[t].pnl)
    BY <1>6 DEF CloseKnown, CloseOne
  <2> QED
    BY <1>6, <2>1, RecordCloseStep DEF CloseKnown, CloseOne, LedgerInv, Shapes
<1>7. ASSUME NEW t \in Trades, Keep(t)
      PROVE  LedgerInv'
  <2>1. Quiet
    BY <1>7 DEF Keep, Quiet, LedgerInv, Shapes
  <2> QED
    BY <2>1, QuietStep
<1>8. ASSUME NEW t \in Trades, TimeStop(t) \/ WatchClose(t)
      PROVE  LedgerInv'
  <2>1. Ends(t, "bot")
    BY <1>8 DEF TimeStop, WatchClose
  <2>2. Quiet
    BY <1>8, <2>1, EndsShape DEF TimeStop, WatchClose, Quiet, LedgerInv, Shapes
  <2> QED
    BY <2>2, QuietStep
<1>9. ASSUME NEW t \in Trades, Enter(t)
      PROVE  LedgerInv'
  BY <1>9 DEF Enter, RecordOpen, NewRow, LedgerInv, Shapes, RowsFollowDeals,
     PendingInv
<1>10. ASSUME NEW t \in Trades, NEW sig \in Signals, PlaceOrder(t, sig)
       PROVE  LedgerInv'
  BY <1>10, FillStep DEF PlaceOrder
<1> QED
  BY <1>1, <1>2, <1>3, <1>4, <1>5, <1>6, <1>7, <1>8, <1>9, <1>10 DEF Program

LEMMA BrokerStep ==
    ASSUME LedgerInv, Broker
    PROVE  LedgerInv'
<1> USE DEF store, memory, control
<1>1. PICK t \in Trades : BrokerClose(t) \/ StopVanishes(t)
  BY DEF Broker
<1>2. CASE BrokerClose(t)
  <2>1. Quiet
    BY <1>2, EndsShape DEF BrokerClose, Quiet, LedgerInv, Shapes
  <2> QED
    BY <2>1, QuietStep
<1>3. CASE StopVanishes(t)
  <2>1. Quiet
    BY <1>3 DEF StopVanishes, AtBroker, Becomes, Quiet, LedgerInv, Shapes
  <2> QED
    BY <2>1, QuietStep
<1> QED
  BY <1>1, <1>2, <1>3

LEMMA FailureStep ==
    ASSUME LedgerInv, Failure
    PROVE  LedgerInv'
<1> USE DEF Goto, Abandon, store, memory, control
<1>1. CASE SyncReadFails \/ ClosePnlRaises \/ ManageReadFails
  <2>1. Quiet
    BY <1>1 DEF SyncReadFails, ClosePnlRaises, ManageReadFails, Quiet, LedgerInv,
       Shapes
  <2> QED
    BY <2>1, QuietStep
<1>2. CASE StartWithoutBalance \/ BootReadFails \/ Restart \/ Crash
  <2>1. Quiet
    BY <1>2 DEF StartWithoutBalance, Boot, BootReadFails, Restart, Crash, Dies,
       Quiet, LedgerInv, Shapes
  <2> QED
    BY <2>1, QuietStep
<1>3. CASE RebuildFails
  <2>1. PICK some \in SUBSET (seen \ OpenRows) : rows' = Adopted(some)
    BY <1>3 DEF RebuildFails
  <2>2. some \in SUBSET seen
    BY <2>1
  <2> QED
    BY <1>3, <2>1, <2>2, AdoptStep DEF RebuildFails
<1>4. ASSUME NEW t \in Trades, CloseUnknown(t)
      PROVE  LedgerInv'
  <2>1. t \in pending /\ RecordClose(t, 0)
    BY <1>4 DEF CloseUnknown, CloseOne
  <2> QED
    BY <1>4, <2>1, RecordCloseStep DEF CloseUnknown, CloseOne, LedgerInv, Shapes
<1>5. ASSUME NEW t \in Trades, CloseRowFails(t) \/ EnterRowFails(t)
      PROVE  LedgerInv'
  <2>1. Quiet
    BY <1>5 DEF CloseRowFails, EnterRowFails, Quiet, LedgerInv, Shapes
  <2> QED
    BY <2>1, QuietStep
<1>6. ASSUME NEW t \in Trades, CloseJournalFails(t)
      PROVE  LedgerInv'
  <2>1. t \in pending /\ RecordClose(t, deal[t].pnl)
    BY <1>6 DEF CloseJournalFails
  <2> QED
    BY <1>6, <2>1, RecordCloseStep DEF CloseJournalFails, LedgerInv, Shapes
<1>7. ASSUME NEW t \in Trades, \/ TimeStopLost(t) \/ WatchCloseLost(t)
                               \/ TimeStopUnfilled(t) \/ WatchCloseUnfilled(t)
      PROVE  LedgerInv'
  <2>1. Ends(t, "bot") \/ UNCHANGED deal
    BY <1>7 DEF TimeStopLost, WatchCloseLost,
       TimeStopUnfilled, WatchCloseUnfilled
  <2>2. Quiet
    BY <1>7, <2>1, EndsShape DEF TimeStopLost, WatchCloseLost,
       TimeStopUnfilled, WatchCloseUnfilled, Quiet, LedgerInv,
       Shapes
  <2> QED
    BY <2>2, QuietStep
<1>8. ASSUME NEW t \in Trades, NEW sig \in Signals, OrderResponseLost(t, sig)
      PROVE  LedgerInv'
  BY <1>8, FillStep DEF OrderResponseLost
<1> QED
  BY <1>1, <1>2, <1>3, <1>4, <1>5, <1>6, <1>7, <1>8 DEF Failure

LEMMA LedgerInvariant == Spec => []LedgerInv
<1>1. Init => LedgerInv
  BY DEF Init, NoDeal, NewRow, LedgerInv, Shapes, RowsFollowDeals, PendingInv
<1>2. LedgerInv /\ [Next]_vars => LedgerInv'
  <2>1. CASE UNCHANGED vars
    BY <2>1 DEF vars, store, control, LedgerInv, Shapes, RowsFollowDeals,
       PendingInv
  <2> QED
    BY <2>1, ProgramStep, BrokerStep, FailureStep DEF Next
<1> QED
  BY <1>1, <1>2, PTL DEF Spec

\* ---- The theorems --------------------------------------------------------

\* The bot never loses sight of a live trade: ClosedOnlyIfOver, whatever is
\* read late, fails or is lost.
THEOREM NoLiveTradeBooked == Spec => []ClosedOnlyIfOver
<1>1. LedgerInv => ClosedOnlyIfOver
  BY DEF LedgerInv, RowsFollowDeals, ClosedOnlyIfOver
<1> QED
  BY <1>1, LedgerInvariant, PTL

\* What a step may do to a row, and to a trade with it.
RowMove(t) ==
    \/ rows'[t] = rows[t]
    \/ rows[t].status = "open" /\ rows'[t].status = "closed"
                               /\ deal[t].status = "closed"
                               /\ deal'[t] = deal[t]
    \/ rows[t].status # "closed" /\ rows'[t].status = "open"
                                 /\ InHand(t)
                                 /\ deal'[t] = deal[t]

LEMMA RowMoves ==
    ASSUME LedgerInv, [Next]_vars, NEW t \in Trades
    PROVE  RowMove(t)
<1> USE DEF store, control, memory, LedgerInv, Shapes, PendingInv, RowMove, InHand
<1>1. CASE UNCHANGED rows
  BY <1>1
<1>2. ASSUME NEW u \in Trades, NEW pnl, RecordClose(u, pnl), u \in pending,
             pc \in {"sync", "adopt"}, UNCHANGED deal
      PROVE  RowMove(t)
  BY <1>2 DEF RecordClose, NewRow
<1>3. ASSUME NEW u \in Trades, Enter(u)
      PROVE  RowMove(t)
  BY <1>3 DEF Enter, RecordOpen, NewRow
<1>4. ASSUME NEW some \in SUBSET (seen \ OpenRows), rows' = Adopted(some),
             pc = "adopt", UNCHANGED deal
      PROVE  RowMove(t)
  BY <1>4 DEF Adopted, NewRow
<1>5. CASE Program
  <2>1. \/ UNCHANGED rows
        \/ Rebuild
        \/ \E u \in Trades : CloseKnown(u) \/ Enter(u)
    BY <1>5 DEF Program, SyncRead, SyncDone, NotTradeable, ManageRead, ManageDone,
       NoEntry, WatchRead, WatchDone, Start, Boot, BootRead, Keep, TimeStop,
       WatchClose, PlaceOrder, Fill
  <2>2. CASE Rebuild
    BY <1>4, <2>2 DEF Rebuild
  <2>3. ASSUME NEW u \in Trades, CloseKnown(u)
        PROVE  RowMove(t)
    <3>1. RecordClose(u, deal[u].pnl) /\ u \in pending
          /\ pc \in {"sync", "adopt"} /\ UNCHANGED deal
      BY <2>3 DEF CloseKnown, CloseOne
    <3> QED
      BY <1>2, <3>1
  <2> QED
    BY <1>1, <1>3, <2>1, <2>2, <2>3
<1>6. CASE Broker
  BY <1>1, <1>6 DEF Broker, BrokerClose, StopVanishes
<1>7. CASE Failure
  <2>1. \/ UNCHANGED rows
        \/ RebuildFails
        \/ \E u \in Trades : CloseUnknown(u) \/ CloseJournalFails(u)
    BY <1>7 DEF Failure, SyncReadFails, ClosePnlRaises, ManageReadFails,
       StartWithoutBalance, Boot, BootReadFails, Restart, Crash, Dies,
       CloseRowFails, TimeStopLost, EnterRowFails, WatchCloseLost,
       TimeStopUnfilled, WatchCloseUnfilled, OrderResponseLost, Fill
  <2>2. CASE RebuildFails
    BY <1>4, <2>2 DEF RebuildFails
  <2>3. ASSUME NEW u \in Trades, CloseUnknown(u) \/ CloseJournalFails(u)
        PROVE  RowMove(t)
    <3>1. PICK pnl : RecordClose(u, pnl)
      BY <2>3 DEF CloseUnknown, CloseOne, CloseJournalFails
    <3>2. u \in pending /\ pc \in {"sync", "adopt"} /\ UNCHANGED deal
      BY <2>3 DEF CloseUnknown, CloseOne, CloseJournalFails
    <3> QED
      BY <1>2, <3>1, <3>2
  <2> QED
    BY <1>1, <2>1, <2>2, <2>3
<1> QED
  BY <1>1, <1>5, <1>6, <1>7 DEF Next, vars

\* A booked row is final: BookedOnce, under any number of faults.
THEOREM BookedRowsAreFinal == Spec => BookedOnce
<1>1. LedgerInv /\ [Next]_vars =>
        [\A t \in Trades : rows[t].status = "closed" => rows'[t] = rows[t]]_vars
  BY RowMoves DEF RowMove
<1> QED
  BY <1>1, LedgerInvariant, PTL DEF Spec, BookedOnce

\* ---- Every step is a step of TradeLife -----------------------------------

\* What a step may do to a trade at the broker, and how one gets in hand.
DealMove(t) ==
    /\ \/ deal'[t].status = deal[t].status
       \/ deal[t].status = "none" /\ deal'[t].status = "open"
       \/ deal[t].status = "open" /\ deal'[t].status = "closed"
    /\ InHand(t)' => InHand(t) \/ deal'[t].status = "open"

LEMMA EndsMove ==
    ASSUME LedgerInv, NEW u \in Trades, NEW who, Ends(u, who), NEW t \in Trades,
           InHand(t)' => InHand(t)
    PROVE  DealMove(t)
BY EndsShape DEF DealMove

LEMMA FillMove ==
    ASSUME LedgerInv, NEW u \in Trades, NEW sig \in Signals, Fill(u, sig),
           pc' \in {"filled", "idle"}, pending' \subseteq {u}, NEW t \in Trades
    PROVE  DealMove(t)
<1>1. PICK amount \in RoundToCent(RiskMills(risk')) :
        deal' = [deal EXCEPT ![u] =
            [status |-> "open", instrument |-> sig.instrument,
             direction |-> sig.direction, risk |-> amount,
             pnl |-> 0, by |-> "nobody", stop |-> TRUE]]
  BY DEF Fill
<1>2. deal[u].status = "none"
  BY DEF Fill
<1>3. CASE t = u
  <2>1. deal'[t].status = "open"
    BY <1>1, <1>3 DEF LedgerInv, Shapes
  <2> QED
    BY <1>2, <1>3, <2>1 DEF DealMove
<1>4. CASE t # u
  <2>1. deal'[t] = deal[t]
    BY <1>1, <1>4 DEF LedgerInv, Shapes
  <2>2. ~InHand(t)'
    BY <1>4 DEF InHand
  <2> QED
    BY <2>1, <2>2 DEF DealMove
<1> QED
  BY <1>3, <1>4

LEMMA DealMoves ==
    ASSUME LedgerInv, [Next]_vars, NEW t \in Trades
    PROVE  DealMove(t)
<1> USE DEF Goto, store, control, memory
<1>1. ASSUME UNCHANGED deal, InHand(t)' => InHand(t)
      PROVE  DealMove(t)
  BY <1>1 DEF DealMove
<1>2. CASE UNCHANGED vars
  BY <1>1, <1>2 DEF vars, InHand
<1>3. CASE Program
  <2>1. CASE SyncRead \/ SyncDone \/ NotTradeable \/ ManageRead \/ ManageDone
             \/ NoEntry \/ WatchRead \/ WatchDone \/ Start \/ Rebuild
    <3>1. UNCHANGED deal /\ ~InHand(t)'
      BY <2>1 DEF SyncRead, SyncDone, NotTradeable, ManageRead, ManageDone,
         NoEntry, WatchRead, WatchDone, Start, Boot, Rebuild, InHand
    <3> QED
      BY <1>1, <3>1
  <2>2. CASE BootRead
    BY <2>2 DEF BootRead, AtBroker, InHand, DealMove
  <2>3. ASSUME NEW u \in Trades, CloseKnown(u) \/ Keep(u) \/ Enter(u)
        PROVE  DealMove(t)
    <3>1. UNCHANGED deal /\ (InHand(t)' => InHand(t))
      BY <2>3 DEF CloseKnown, CloseOne, Keep, Enter, InHand
    <3> QED
      BY <1>1, <3>1
  <2>4. ASSUME NEW u \in Trades, TimeStop(u) \/ WatchClose(u)
        PROVE  DealMove(t)
    <3>1. Ends(u, "bot") /\ ~InHand(t)'
      BY <2>4 DEF TimeStop, WatchClose, InHand
    <3> QED
      BY <3>1, EndsMove
  <2>5. ASSUME NEW u \in Trades, NEW sig \in Signals, PlaceOrder(u, sig)
        PROVE  DealMove(t)
    BY <2>5, FillMove DEF PlaceOrder
  <2> QED
    BY <1>3, <2>1, <2>2, <2>3, <2>4, <2>5 DEF Program
<1>4. CASE Broker
  <2>1. PICK u \in Trades : BrokerClose(u) \/ StopVanishes(u)
    BY <1>4 DEF Broker
  <2>2. InHand(t)' => InHand(t)
    BY <2>1 DEF BrokerClose, StopVanishes, InHand
  <2>3. CASE BrokerClose(u)
    BY <2>2, <2>3, EndsMove DEF BrokerClose
  <2>4. CASE StopVanishes(u)
    <3>1. deal'[t].status = deal[t].status
      BY <2>4 DEF StopVanishes, AtBroker, Becomes, LedgerInv, Shapes
    <3> QED
      BY <2>2, <3>1 DEF DealMove
  <2> QED
    BY <2>1, <2>3, <2>4
<1>5. CASE Failure
  <2>1. CASE SyncReadFails \/ ClosePnlRaises \/ ManageReadFails \/ BootReadFails
             \/ StartWithoutBalance \/ RebuildFails \/ Restart \/ Crash
    <3>1. UNCHANGED deal /\ ~InHand(t)'
      BY <2>1 DEF SyncReadFails, ClosePnlRaises, ManageReadFails, BootReadFails,
         StartWithoutBalance, Boot, RebuildFails, Restart, Crash, Dies, Abandon,
         InHand
    <3> QED
      BY <1>1, <3>1
  <2>2. ASSUME NEW u \in Trades, \/ CloseUnknown(u) \/ CloseRowFails(u)
                                 \/ CloseJournalFails(u) \/ EnterRowFails(u)
        PROVE  DealMove(t)
    <3>1. UNCHANGED deal /\ (InHand(t)' => InHand(t))
      BY <2>2 DEF CloseUnknown, CloseOne, CloseRowFails, CloseJournalFails,
         EnterRowFails, Abandon, InHand
    <3> QED
      BY <1>1, <3>1
  <2>3. ASSUME NEW u \in Trades, \/ TimeStopLost(u) \/ WatchCloseLost(u)
                                 \/ TimeStopUnfilled(u) \/ WatchCloseUnfilled(u)
        PROVE  DealMove(t)
    <3>1. (Ends(u, "bot") \/ UNCHANGED deal) /\ ~InHand(t)'
      BY <2>3 DEF TimeStopLost, WatchCloseLost,
         TimeStopUnfilled, WatchCloseUnfilled, InHand
    <3> QED
      BY <1>1, <3>1, EndsMove
  <2>4. ASSUME NEW u \in Trades, NEW sig \in Signals, OrderResponseLost(u, sig)
        PROVE  DealMove(t)
    BY <2>4, FillMove DEF OrderResponseLost
  <2> QED
    BY <1>5, <2>1, <2>2, <2>3, <2>4 DEF Failure
<1> QED
  BY <1>2, <1>3, <1>4, <1>5 DEF Next

\* ---- No trade is lost while the writing down is reliable ------------------

Reliable == NoneOf({"crash", "orderLost", "openRow"})

\* The only trade without a row is the one that was filled just now.
WrittenInv ==
    /\ pc = "filled" => \A t, u \in pending : t = u
    /\ Reliable => \A t \in Trades :
          deal[t].status # "none" /\ rows[t].status = "none"
              => pc = "filled" /\ t \in pending

\* A step that fills nothing and does not leave record_open behind.
Idles ==
    /\ pc = "filled" <=> pc' = "filled"
    /\ pc = "filled" => pending' = pending
    /\ Reliable' => Reliable
    /\ \A t \in Trades : deal[t].status = "none" => deal'[t].status = "none"

LEMMA IdleStep ==
    ASSUME LedgerInv, WrittenInv, [Next]_vars, Idles
    PROVE  WrittenInv'
<1>1. \A t \in Trades : rows'[t].status = "none" => rows[t].status = "none"
  BY RowMoves DEF RowMove, LedgerInv, Shapes
<1> QED
  BY <1>1 DEF WrittenInv, Idles

LEMMA EndsNothingNew ==
    ASSUME LedgerInv, NEW u \in Trades, NEW who, Ends(u, who)
    PROVE  \A t \in Trades : deal[t].status = "none" => deal'[t].status = "none"
BY EndsShape

LEMMA WrittenStep ==
    ASSUME LedgerInv, WrittenInv, [Next]_vars
    PROVE  WrittenInv'
<1> USE DEF Goto, store, control, memory, count, Fault, Counted, Reliable, NoneOf
<1>1. CASE UNCHANGED vars
  BY <1>1 DEF vars, WrittenInv
<1>2. CASE Program
  <2>1. CASE SyncRead \/ SyncDone \/ NotTradeable \/ ManageRead \/ ManageDone
             \/ NoEntry \/ WatchRead \/ WatchDone \/ Start \/ BootRead \/ Rebuild
    <3>1. Idles
      BY <2>1 DEF SyncRead, SyncDone, NotTradeable, ManageRead, ManageDone,
         NoEntry, WatchRead, WatchDone, Start, Boot, BootRead, Rebuild, Idles
    <3> QED
      BY <3>1, IdleStep
  <2>2. ASSUME NEW u \in Trades, CloseKnown(u) \/ Keep(u)
        PROVE  WrittenInv'
    <3>1. Idles
      BY <2>2 DEF CloseKnown, CloseOne, Keep, Idles
    <3> QED
      BY <3>1, IdleStep
  <2>3. ASSUME NEW u \in Trades, TimeStop(u) \/ WatchClose(u)
        PROVE  WrittenInv'
    <3>1. Idles
      BY <2>3, EndsNothingNew DEF TimeStop, WatchClose, Idles
    <3> QED
      BY <3>1, IdleStep
  <2>4. ASSUME NEW u \in Trades, Enter(u)
        PROVE  WrittenInv'
    BY <2>4 DEF Enter, RecordOpen, NewRow, WrittenInv, LedgerInv, Shapes
  <2>5. ASSUME NEW u \in Trades, NEW sig \in Signals, PlaceOrder(u, sig)
        PROVE  WrittenInv'
    <3>1. PICK amount \in RoundToCent(RiskMills(risk')) :
            deal' = [deal EXCEPT ![u] =
                [status |-> "open", instrument |-> sig.instrument,
                 direction |-> sig.direction, risk |-> amount,
                 pnl |-> 0, by |-> "nobody", stop |-> TRUE]]
      BY <2>5 DEF PlaceOrder, Fill
    <3>2. \A t \in Trades \ {u} : deal'[t] = deal[t]
      BY <3>1 DEF LedgerInv, Shapes
    <3> QED
      BY <2>5, <3>2 DEF PlaceOrder, Fill, WrittenInv
  <2> QED
    BY <1>2, <2>1, <2>2, <2>3, <2>4, <2>5 DEF Program
<1>3. CASE Broker
  <2>1. PICK u \in Trades : BrokerClose(u) \/ StopVanishes(u)
    BY <1>3 DEF Broker
  <2>2. CASE BrokerClose(u)
    <3>1. Idles
      BY <2>2, EndsNothingNew DEF BrokerClose, Idles
    <3> QED
      BY <3>1, IdleStep
  <2>3. CASE StopVanishes(u)
    <3>1. \A t \in Trades : deal[t].status = "none" => deal'[t].status = "none"
      BY <2>3 DEF StopVanishes, AtBroker, Becomes, LedgerInv, Shapes
    <3>2. Idles
      BY <2>3, <3>1 DEF StopVanishes, Idles
    <3> QED
      BY <3>2, IdleStep
  <2> QED
    BY <2>1, <2>2, <2>3
<1>4. CASE Failure
  <2>1. CASE SyncReadFails \/ ClosePnlRaises \/ ManageReadFails \/ BootReadFails
             \/ StartWithoutBalance \/ Restart
    <3>1. Idles
      BY <2>1 DEF SyncReadFails, ClosePnlRaises, ManageReadFails, BootReadFails,
         StartWithoutBalance, Boot, Restart, Dies, Abandon, Idles
    <3> QED
      BY <3>1, IdleStep
  <2>2. ASSUME NEW u \in Trades,
               CloseUnknown(u) \/ CloseRowFails(u) \/ CloseJournalFails(u)
        PROVE  WrittenInv'
    <3>1. Idles
      BY <2>2 DEF CloseUnknown, CloseOne, CloseRowFails, CloseJournalFails,
         Abandon, Idles
    <3> QED
      BY <3>1, IdleStep
  <2>3. ASSUME NEW u \in Trades, \/ TimeStopLost(u) \/ WatchCloseLost(u)
                                 \/ TimeStopUnfilled(u) \/ WatchCloseUnfilled(u)
        PROVE  WrittenInv'
    <3>1. Ends(u, "bot") \/ UNCHANGED deal
      BY <2>3 DEF TimeStopLost, WatchCloseLost,
         TimeStopUnfilled, WatchCloseUnfilled
    <3>2. Idles
      BY <2>3, <3>1, EndsNothingNew DEF TimeStopLost, WatchCloseLost,
         TimeStopUnfilled, WatchCloseUnfilled, Idles
    <3> QED
      BY <3>2, IdleStep
  <2>4. ASSUME NEW u \in Trades, NEW sig \in Signals, OrderResponseLost(u, sig)
        PROVE  WrittenInv'
    BY <2>4 DEF OrderResponseLost, WrittenInv
  <2>5. ASSUME NEW u \in Trades, EnterRowFails(u)
        PROVE  WrittenInv'
    BY <2>5 DEF EnterRowFails, WrittenInv
  <2>6. CASE RebuildFails \/ Crash
    BY <2>6 DEF RebuildFails, Crash, Dies, WrittenInv
  <2> QED
    BY <1>4, <2>1, <2>2, <2>3, <2>4, <2>5, <2>6 DEF Failure
<1> QED
  BY <1>1, <1>2, <1>3, <1>4 DEF Next

LEMMA WrittenInvariant == Spec => []WrittenInv
<1>1. Init => WrittenInv
  BY DEF Init, NoDeal, NewRow, WrittenInv
<1> QED
  BY <1>1, WrittenStep, LedgerInvariant, PTL DEF Spec

\* ---- Every trade that stands is known -------------------------------------

\* Where a trade that stands may be without a row, after no fault that only a
\* restart mends: filled just now, or on the way to being adopted.
OnTheWay(t) ==
    \/ pc = "filled" /\ t \in pending
    \/ pc \in {"down", "boot"}
    \/ pc = "adopt" /\ t \in seen

KnownInv ==
    /\ pc = "filled" => \A t, u \in pending : t = u
    /\ Reconciled => \A t \in AtBroker : rows[t].status = "none" => OnTheWay(t)

\* A step that fills nothing and takes no trade off the way.
KeepsWay ==
    /\ pc' = "filled" => pc = "filled" /\ pending' = pending
    /\ Reconciled' => Reconciled
    /\ \A t \in Trades : deal'[t].status = "open" => deal[t].status = "open"
    /\ \A t \in Trades : Reconciled' /\ OnTheWay(t) => OnTheWay(t)'

LEMMA KeepsWayStep ==
    ASSUME LedgerInv, KnownInv, [Next]_vars, KeepsWay
    PROVE  KnownInv'
<1>1. \A t \in Trades : rows'[t].status = "none" => rows[t].status = "none"
  BY RowMoves DEF RowMove, LedgerInv, Shapes
<1> QED
  BY <1>1 DEF KnownInv, KeepsWay, AtBroker

LEMMA EndsOpensNothing ==
    ASSUME LedgerInv, NEW u \in Trades, NEW who, Ends(u, who)
    PROVE  \A t \in Trades : deal'[t].status = "open" => deal[t].status = "open"
BY EndsShape

LEMMA KnownStep ==
    ASSUME LedgerInv, KnownInv, [Next]_vars
    PROVE  KnownInv'
<1> USE DEF Goto, store, control, memory, count, Fault, Counted, Reconciled,
        NoneOf, OnTheWay
<1>1. CASE UNCHANGED vars
  BY <1>1 DEF vars, KnownInv, AtBroker
<1>2. CASE Program
  <2>1. CASE SyncRead \/ SyncDone \/ NotTradeable \/ ManageRead \/ ManageDone
             \/ NoEntry \/ WatchRead \/ WatchDone \/ Start
    <3>1. KeepsWay
      BY <2>1 DEF SyncRead, SyncDone, NotTradeable, ManageRead, ManageDone,
         NoEntry, WatchRead, WatchDone, Start, Boot, KeepsWay
    <3> QED
      BY <3>1, KeepsWayStep
  <2>2. CASE BootRead
    BY <2>2 DEF BootRead, KnownInv, AtBroker
  <2>3. CASE Rebuild
    <3>1. \A t \in Trades : /\ t \in seen \ OpenRows => rows'[t].status = "open"
                            /\ t \notin seen \ OpenRows => rows'[t] = rows[t]
      BY <2>3 DEF Rebuild, Adopted, NewRow
    <3> QED
      BY <2>3, <3>1 DEF Rebuild, KnownInv, AtBroker, OpenRows, LedgerInv, Shapes
  <2>4. ASSUME NEW u \in Trades, CloseKnown(u) \/ Keep(u)
        PROVE  KnownInv'
    <3>1. KeepsWay
      BY <2>4 DEF CloseKnown, CloseOne, Keep, KeepsWay
    <3> QED
      BY <3>1, KeepsWayStep
  <2>5. ASSUME NEW u \in Trades, TimeStop(u) \/ WatchClose(u)
        PROVE  KnownInv'
    <3>1. KeepsWay
      BY <2>5, EndsOpensNothing DEF TimeStop, WatchClose, KeepsWay
    <3> QED
      BY <3>1, KeepsWayStep
  <2>6. ASSUME NEW u \in Trades, Enter(u)
        PROVE  KnownInv'
    BY <2>6 DEF Enter, RecordOpen, NewRow, KnownInv, AtBroker, LedgerInv, Shapes
  <2>7. ASSUME NEW u \in Trades, NEW sig \in Signals, PlaceOrder(u, sig)
        PROVE  KnownInv'
    <3>1. PICK amount \in RoundToCent(RiskMills(risk')) :
            deal' = [deal EXCEPT ![u] =
                [status |-> "open", instrument |-> sig.instrument,
                 direction |-> sig.direction, risk |-> amount,
                 pnl |-> 0, by |-> "nobody", stop |-> TRUE]]
      BY <2>7 DEF PlaceOrder, Fill
    <3>2. \A t \in Trades \ {u} : deal'[t] = deal[t]
      BY <3>1 DEF LedgerInv, Shapes
    <3> QED
      BY <2>7, <3>2 DEF PlaceOrder, Fill, KnownInv, AtBroker
  <2> QED
    BY <1>2, <2>1, <2>2, <2>3, <2>4, <2>5, <2>6, <2>7 DEF Program
<1>3. CASE Broker
  <2>1. PICK u \in Trades : BrokerClose(u) \/ StopVanishes(u)
    BY <1>3 DEF Broker
  <2>2. CASE BrokerClose(u)
    <3>1. KeepsWay
      BY <2>2, EndsOpensNothing DEF BrokerClose, KeepsWay
    <3> QED
      BY <3>1, KeepsWayStep
  <2>3. CASE StopVanishes(u)
    <3>1. \A t \in Trades : deal'[t].status = "open" => deal[t].status = "open"
      BY <2>3 DEF StopVanishes, AtBroker, Becomes, LedgerInv, Shapes
    <3>2. KeepsWay
      BY <2>3, <3>1 DEF StopVanishes, KeepsWay
    <3> QED
      BY <3>2, KeepsWayStep
  <2> QED
    BY <2>1, <2>2, <2>3
<1>4. CASE Failure
  <2>1. CASE SyncReadFails \/ ClosePnlRaises \/ ManageReadFails \/ BootReadFails
             \/ StartWithoutBalance \/ Restart \/ Crash
    <3>1. KeepsWay
      BY <2>1 DEF SyncReadFails, ClosePnlRaises, ManageReadFails, BootReadFails,
         StartWithoutBalance, Boot, Restart, Crash, Dies, Abandon, KeepsWay
    <3> QED
      BY <3>1, KeepsWayStep
  <2>2. ASSUME NEW u \in Trades,
               CloseUnknown(u) \/ CloseRowFails(u) \/ CloseJournalFails(u)
        PROVE  KnownInv'
    <3>1. KeepsWay
      BY <2>2 DEF CloseUnknown, CloseOne, CloseRowFails, CloseJournalFails,
         Abandon, KeepsWay
    <3> QED
      BY <3>1, KeepsWayStep
  <2>3. ASSUME NEW u \in Trades, \/ TimeStopLost(u) \/ WatchCloseLost(u)
                                 \/ TimeStopUnfilled(u) \/ WatchCloseUnfilled(u)
        PROVE  KnownInv'
    <3>1. Ends(u, "bot") \/ UNCHANGED deal
      BY <2>3 DEF TimeStopLost, WatchCloseLost,
         TimeStopUnfilled, WatchCloseUnfilled
    <3>2. KeepsWay
      BY <2>3, <3>1, EndsOpensNothing DEF TimeStopLost, WatchCloseLost,
         TimeStopUnfilled, WatchCloseUnfilled, KeepsWay
    <3> QED
      BY <3>2, KeepsWayStep
  <2>4. ASSUME NEW u \in Trades, NEW sig \in Signals, OrderResponseLost(u, sig)
        PROVE  KnownInv'
    BY <2>4 DEF OrderResponseLost, KnownInv
  <2>5. ASSUME NEW u \in Trades, EnterRowFails(u)
        PROVE  KnownInv'
    BY <2>5 DEF EnterRowFails, KnownInv
  <2>6. CASE RebuildFails
    BY <2>6 DEF RebuildFails, KnownInv
  <2> QED
    BY <1>4, <2>1, <2>2, <2>3, <2>4, <2>5, <2>6 DEF Failure
<1> QED
  BY <1>1, <1>2, <1>3, <1>4 DEF Next

LEMMA KnownInvariant == Spec => []KnownInv
<1>1. Init => KnownInv
  BY DEF Init, NoDeal, NewRow, KnownInv, AtBroker
<1> QED
  BY <1>1, KnownStep, LedgerInvariant, PTL DEF Spec

\* Between two events every trade that stands has an open row, EveryTradeKnown:
\* a fill that a crash cut off from its row is adopted on the way up.
THEOREM NoTradeForgotten == Spec => []EveryTradeKnown
<1>1. LedgerInv /\ KnownInv => EveryTradeKnown
  BY DEF LedgerInv, Shapes, RowsFollowDeals, KnownInv, OnTheWay, EveryTradeKnown,
     AtBroker, OpenRows
<1> QED
  BY <1>1, KnownInvariant, LedgerInvariant, PTL

\* ---- The refinement -------------------------------------------------------

MappedVars == <<[t \in Trades |-> Stage(t)], Reliable>>

LEMMA StageStep ==
    ASSUME LedgerInv, LedgerInv', WrittenInv', [Next]_vars, NEW t \in Trades
    PROVE  \/ Stage(t)' = Stage(t)
           \/ <<Stage(t), Stage(t)'>> \in Life!Forward
           \/ <<Stage(t), Stage(t)'>> \in Life!Lost /\ ~Reliable'
<1> USE DEF LedgerInv, Shapes, RowsFollowDeals
<1>1. DealMove(t) /\ RowMove(t)
  BY DealMoves, RowMoves
<1>2. CASE deal[t].status = "none"
  <2>1. deal'[t].status = "none" => Stage(t)' = "none"
    BY DEF Stage
  <2>2. deal'[t].status = "open" => Stage(t)' = "live"
    BY DEF Stage
  <2> QED
    BY <1>1, <1>2, <2>1, <2>2 DEF DealMove, Stage, Life!Forward
<1>3. CASE deal[t].status = "open"
  <2>1. Stage(t) = "live"
    BY <1>3 DEF Stage
  <2>2. CASE deal'[t].status = "open"
    BY <2>1, <2>2 DEF Stage
  <2>3. CASE deal'[t].status = "closed"
    <3>1. rows'[t].status # "closed"
      BY <1>1, <1>3, <2>3 DEF RowMove
    <3>2. \/ Stage(t)' = "ended"
          \/ Stage(t)' = "lost" /\ rows'[t].status = "none" /\ ~InHand(t)'
      BY <2>3, <3>1 DEF Stage
    <3>3. Stage(t)' = "lost" => ~Reliable'
      BY <2>3, <3>2 DEF WrittenInv, InHand
    <3> QED
      BY <2>1, <3>2, <3>3 DEF Life!Forward, Life!Lost
  <2> QED
    BY <1>1, <1>3, <2>2, <2>3 DEF DealMove
<1>4. CASE deal[t].status = "closed"
  <2>1. deal'[t].status = "closed"
    BY <1>1, <1>4 DEF DealMove
  <2>2. InHand(t)' => InHand(t)
    BY <1>1, <2>1 DEF DealMove
  <2>3. CASE rows[t].status = "closed"
    BY <1>1, <1>4, <2>1, <2>3 DEF RowMove, Stage
  <2>4. CASE rows[t].status = "open"
    <3>1. Stage(t) = "ended"
      BY <1>4, <2>4 DEF Stage
    <3>2. rows'[t].status \in {"open", "closed"}
      BY <1>1, <2>4 DEF RowMove
    <3>3. Stage(t)' \in {"ended", "booked"}
      BY <2>1, <3>2 DEF Stage
    <3> QED
      BY <3>1, <3>3 DEF Life!Forward
  <2>5. CASE rows[t].status = "none" /\ ~InHand(t)
    <3>1. rows'[t].status = "none" /\ ~InHand(t)'
      BY <1>1, <2>2, <2>5 DEF RowMove
    <3> QED
      BY <1>4, <2>1, <2>5, <3>1 DEF Stage
  <2>6. CASE rows[t].status = "none" /\ InHand(t)
    <3>1. Stage(t) = "ended"
      BY <1>4, <2>6 DEF Stage
    <3>2. rows'[t].status # "closed"
      BY <1>1, <2>6 DEF RowMove
    <3>3. \/ Stage(t)' = "ended"
          \/ Stage(t)' = "lost" /\ rows'[t].status = "none" /\ ~InHand(t)'
      BY <2>1, <3>2 DEF Stage
    <3>4. Stage(t)' = "lost" => ~Reliable'
      BY <2>1, <3>3 DEF WrittenInv, InHand
    <3> QED
      BY <3>1, <3>3, <3>4 DEF Life!Lost
  <2> QED
    BY <2>3, <2>4, <2>5, <2>6
<1> QED
  BY <1>2, <1>3, <1>4

LEMMA HappenedGrows ==
    ASSUME [Next]_vars
    PROVE  happened \subseteq happened'
<1> USE DEF Fault, Counted, count
<1>1. CASE UNCHANGED vars
  BY <1>1 DEF vars
<1>2. CASE Program
  BY <1>2 DEF Program, SyncRead, SyncDone, NotTradeable, ManageRead, ManageDone,
     NoEntry, WatchRead, WatchDone, Start, BootRead, Rebuild, CloseKnown, Keep,
     TimeStop, Enter, WatchClose, PlaceOrder
<1>3. CASE Broker
  BY <1>3 DEF Broker, BrokerClose, StopVanishes
<1>4. CASE Failure
  BY <1>4 DEF Failure, SyncReadFails, ClosePnlRaises, ManageReadFails,
     StartWithoutBalance, BootReadFails, RebuildFails, Restart, Crash, Dies,
     CloseUnknown, CloseRowFails, CloseJournalFails, TimeStopLost,
     EnterRowFails, WatchCloseLost, TimeStopUnfilled,
     WatchCloseUnfilled, OrderResponseLost
<1> QED
  BY <1>1, <1>2, <1>3, <1>4 DEF Next

\* Safety of the refinement, under any number of faults of any kind: the
\* pipeline never books a trade that stands, never twice, reopens nothing, and
\* loses none before a crash, a lost answer to an order or an open row that
\* could not be written.  Its fairness half is left to TLC.
THEOREM ImplementsTradeLifeSafety ==
    Spec => Life!Init /\ [][Life!Next]_MappedVars
<1>1. Init => Life!Init
  BY DEF Init, NoDeal, NewRow, Life!Init, Stage, Reliable, NoneOf
<1>2. LedgerInv /\ LedgerInv' /\ WrittenInv' /\ [Next]_vars => Life!Next
  <2> SUFFICES ASSUME LedgerInv, LedgerInv', WrittenInv', [Next]_vars
               PROVE  Life!Next
    OBVIOUS
  <2>1. \A t \in Trades : Stage(t)' \in Life!Stages
    BY DEF Stage, Life!Stages
  <2>2. Reliable' \in {Reliable, FALSE}
    BY HappenedGrows DEF Reliable, NoneOf
  <2> QED
    BY <2>1, <2>2, StageStep DEF Life!Next, Reliable
<1> QED
  BY <1>1, <1>2, LedgerInvariant, WrittenInvariant, PTL DEF Spec

\* ---- Steps by what they do to the books -----------------------------------

Causes == {"none", "time_stop", "watchdog_no_stop"}

Deal == [status : {"none", "open", "closed"}, instrument : Instruments,
         direction : {-1, 1}, risk : Int, pnl : Int,
         by : {"nobody", "broker", "bot"}, stop : BOOLEAN]

Row == [status : {"none", "open", "closed"}, risk : Int, pnl : Int,
        reason : Causes \cup {"broker_close", "broker_close_startup"}]

Typed ==
    /\ deal \in [Trades -> Deal]
    /\ rows \in [Trades -> Row]
    /\ risk \in Risk
    /\ reasons \in [Trades -> Causes]
    /\ base \in Int
    /\ dbHalted \in BOOLEAN

\* The memory of the process is in force: it has booted and is reconciled.
Running == pc \notin {"down", "boot", "adopt"}

SameMoney ==
    /\ risk' \in Risk /\ risk'.open = risk.open /\ risk'.balance = risk.balance
    /\ base' = base

\* The process reads, waits, decides against a trade.
Looks ==
    /\ UNCHANGED <<deal, rows, reasons>> /\ SameMoney
    /\ Running /\ Running' /\ pc' # "filled"

\* What becomes of the trade t at the broker; nothing of the others.
Becoming(t, status, by) ==
    /\ \A u \in Trades \ {t} : deal'[u] = deal[u]
    /\ deal[t].status = "open"
    /\ deal'[t].instrument = deal[t].instrument
    /\ deal'[t].direction = deal[t].direction
    /\ deal'[t].risk = deal[t].risk
    /\ deal'[t].status = status /\ deal'[t].by = by
    /\ deal' \in [Trades -> Deal]

BrokerActs(t) ==
    /\ Becoming(t, "closed", "broker") \/ Becoming(t, "open", "nobody")
    /\ UNCHANGED <<rows, risk, reasons, pc, pending, seen, base>>

\* A time stop or the watchdog: the trade is marked and perhaps closed.
BotActs(t) ==
    /\ Running /\ Running' /\ pc' # "filled"
    /\ UNCHANGED deal \/ Becoming(t, "closed", "bot")
    /\ reasons'[t] \in Causes \ {"none"}
    /\ \A u \in Trades \ {t} : reasons'[u] = reasons[u]
    /\ reasons' \in [Trades -> Causes]
    /\ UNCHANGED <<rows, risk, base>>

\* A close is booked; when the journal raises, the loop ends with it.
Books(t, pnl) ==
    /\ pc \in {"sync", "adopt"} /\ t \in pending /\ pnl \in Int
    /\ RecordClose(t, pnl) /\ Settle(t, pnl)
    /\ UNCHANGED <<deal, base>>
    /\ \/ pc' = pc /\ pending' = pending \ {t} /\ seen' = seen
       \/ "journal" \in happened' /\ pc' = (IF pc = "sync" THEN "manage" ELSE "idle")

\* The risk manager is told of a close, the table is not.
Miscounts(t) ==
    /\ pc \in {"sync", "adopt"} /\ t \in pending
    /\ Settle(t, deal[t].pnl) /\ "closeRow" \in happened'
    /\ UNCHANGED <<deal, rows, base>>
    /\ pc' \in {"manage", "idle"}

\* An order is filled; the process knows it, or does not.
Fills(t, sig) ==
    /\ Fill(t, sig) /\ SameMoney
    /\ \/ pc' = "filled" /\ pending' = {t}
       \/ pc' = "idle" /\ "orderLost" \in happened'

\* A fill is registered, and its row is written or fails.
Registers(t) ==
    /\ pc = "filled" /\ t \in pending /\ pc' = "idle"
    /\ RegisterDeal(t)
    /\ UNCHANGED <<deal, reasons, base>>
    /\ \/ RecordOpen(t, deal[t].risk)
       \/ UNCHANGED rows /\ "openRow" \in happened'

Leaves == pc' = "down" /\ UNCHANGED <<deal, rows, risk, reasons, base>>

Boots == \E balance \in Int : Boot(balance)

ReadsBooks ==
    /\ pc = "boot" /\ pc' = "adopt"
    /\ pending' = OpenRows \ AtBroker /\ seen' = AtBroker
    /\ UNCHANGED <<deal, rows, reasons>> /\ SameMoney

\* The startup reconciliation does not get to its end.
GivesUp ==
    /\ pc \in {"boot", "adopt"} /\ pc' = "idle" /\ "bootRead" \in happened'
    /\ UNCHANGED <<deal, rows, reasons>> /\ SameMoney

\* Orphans are adopted: all of them, and the positions are rebuilt, or a row fails.
Adopts(orphans) ==
    /\ pc = "adopt" /\ pending = {} /\ pc' = "idle"
    /\ orphans \in SUBSET (seen \ OpenRows) /\ rows' = Adopted(orphans)
    /\ UNCHANGED <<deal, reasons, base>>
    /\ \/ orphans = seen \ OpenRows /\ Held(seen)
       \/ "openRow" \in happened' /\ UNCHANGED risk

StepKind ==
    \/ Looks
    \/ \E t \in Trades : BrokerActs(t) \/ BotActs(t) \/ Miscounts(t) \/ Registers(t)
    \/ \E t \in Trades, pnl \in Int : Books(t, pnl)
    \/ \E t \in Trades, sig \in Signals : Fills(t, sig)
    \/ Leaves \/ Boots \/ ReadsBooks \/ GivesUp
    \/ \E orphans : Adopts(orphans)

LEMMA EvaluatedMoney ==
    ASSUME NEW r \in Risk
    PROVE  /\ Evaluated(r, Day) \in Risk
           /\ Evaluated(r, Day).open = r.open
           /\ Evaluated(r, Day).balance = r.balance
<1>1. Rollover(r, Day) \in Risk
  BY RolloverType DEF Day
<1>2. Rollover(r, Day).open = r.open /\ Rollover(r, Day).balance = r.balance
  BY DEF Rollover
<1> QED
  BY <1>1, <1>2, ArmedType DEF Evaluated

LEMMA BecomesOf ==
    ASSUME Typed, NEW t \in Trades, deal[t].status = "open",
           NEW status \in {"open", "closed"}, NEW pnl \in Int,
           NEW by \in {"nobody", "broker", "bot"}, NEW stop \in BOOLEAN,
           Becomes(t, status, pnl, by, stop)
    PROVE  Becoming(t, status, by)
<1> DEFINE d == [status |-> status, instrument |-> deal[t].instrument,
                 direction |-> deal[t].direction, risk |-> deal[t].risk,
                 pnl |-> pnl, by |-> by, stop |-> stop]
<1>1. deal[t] \in Deal /\ deal \in [Trades -> Deal]
  BY DEF Typed
<1>2. d \in Deal
  BY <1>1 DEF Deal
<1>3. deal' = [deal EXCEPT ![t] = d]
  BY DEF Becomes
<1> QED
  BY <1>1, <1>2, <1>3 DEF Becoming

LEMMA OutcomeType ==
    ASSUME Typed, NEW t \in Trades, NEW outcome \in Outcomes
    PROVE  (outcome * deal[t].risk) \div 10 \in Int /\ deal[t].stop \in BOOLEAN
BY LiveAssumption DEF LiveAssumption, Typed, Deal

LEMMA EndsOf ==
    ASSUME Typed, NEW t \in Trades, NEW who \in {"broker", "bot"}, Ends(t, who)
    PROVE  UNCHANGED deal \/ Becoming(t, "closed", who)
<1>1. CASE deal[t].status = "open"
  <2>1. PICK outcome \in Outcomes :
          Becomes(t, "closed", (outcome * deal[t].risk) \div 10, who,
                  deal[t].stop)
    BY <1>1 DEF Ends
  <2> QED
    BY <1>1, <2>1, BecomesOf, OutcomeType
<1>2. CASE deal[t].status # "open"
  BY <1>2 DEF Ends
<1> QED
  BY <1>1, <1>2

LEMMA MarkOf ==
    ASSUME Typed, NEW t \in Trades, NEW reason \in Causes \ {"none"}, Mark(t, reason)
    PROVE  /\ reasons'[t] \in Causes \ {"none"}
           /\ \A u \in Trades \ {t} : reasons'[u] = reasons[u]
           /\ reasons' \in [Trades -> Causes]
BY DEF Typed, Mark

LEMMA StepKinds ==
    ASSUME LedgerInv, Typed, [Next]_vars, BrokerBalance \in Int
    PROVE  StepKind \/ UNCHANGED vars
<1> USE DEF Goto, store, memory, control, count, Fault, Counted, Abandon
<1>0. /\ risk \in Risk /\ dbHalted \in BOOLEAN
      /\ [risk EXCEPT !.halted = dbHalted] \in Risk
      /\ pending \subseteq Trades /\ \A t \in Trades : deal[t].pnl \in Int
  BY DEF Typed, Deal, LedgerInv, Shapes, Risk
<1>1. CASE Program
  <2>1. CASE SyncRead \/ SyncDone \/ NotTradeable \/ ManageRead \/ ManageDone
             \/ WatchRead \/ WatchDone
    <3>1. Looks
      BY <1>0, <2>1 DEF SyncRead, SyncDone, NotTradeable, ManageRead, ManageDone,
         WatchRead, WatchDone, Looks, SameMoney, Running
    <3> QED
      BY <3>1 DEF StepKind
  <2>2. CASE NoEntry
    <3>1. Looks
      BY <1>0, <2>2, EvaluatedMoney DEF NoEntry, Looks, SameMoney, Running
    <3> QED
      BY <3>1 DEF StepKind
  <2>3. CASE Start
    BY <2>3 DEF Start, Boots, StepKind
  <2>4. CASE BootRead
    <3>1. ReadsBooks
      BY <1>0, <2>4 DEF BootRead, RestoreHalt, ReadsBooks, SameMoney, Risk
    <3> QED
      BY <3>1 DEF StepKind
  <2>5. CASE Rebuild
    <3>1. Adopts(seen \ OpenRows)
      BY <2>5 DEF Rebuild, Adopts
    <3> QED
      BY <3>1 DEF StepKind
  <2>6. ASSUME NEW t \in Trades, CloseKnown(t) PROVE StepKind
    <3>1. Books(t, deal[t].pnl)
      BY <1>0, <2>6 DEF CloseKnown, CloseOne, Books
    <3> QED
      BY <1>0, <3>1 DEF StepKind
  <2>7. ASSUME NEW t \in Trades, Keep(t) PROVE StepKind
    <3>1. Looks
      BY <1>0, <2>7 DEF Keep, Looks, SameMoney, Running
    <3> QED
      BY <3>1 DEF StepKind
  <2>8. ASSUME NEW t \in Trades, TimeStop(t) \/ WatchClose(t) PROVE StepKind
    <3>1. Mark(t, "time_stop") \/ Mark(t, "watchdog_no_stop")
      BY <2>8 DEF TimeStop, WatchClose
    <3>2. /\ reasons'[t] \in Causes \ {"none"}
          /\ \A u \in Trades \ {t} : reasons'[u] = reasons[u]
          /\ reasons' \in [Trades -> Causes]
      BY <3>1, MarkOf DEF Causes
    <3>3. UNCHANGED deal \/ Becoming(t, "closed", "bot")
      BY <2>8, EndsOf DEF TimeStop, WatchClose
    <3>4. BotActs(t)
      BY <2>8, <3>2, <3>3 DEF TimeStop, WatchClose, BotActs, Running
    <3> QED
      BY <3>4 DEF StepKind
  <2>9. ASSUME NEW t \in Trades, Enter(t) PROVE StepKind
    <3>1. Registers(t)
      BY <2>9 DEF Enter, Registers
    <3> QED
      BY <3>1 DEF StepKind
  <2>10. ASSUME NEW t \in Trades, NEW sig \in Signals, PlaceOrder(t, sig)
         PROVE  StepKind
    <3>1. Fills(t, sig)
      BY <1>0, <2>10, EvaluatedMoney DEF PlaceOrder, Fill, Fills, SameMoney
    <3> QED
      BY <3>1 DEF StepKind
  <2> QED
    BY <1>1, <2>1, <2>2, <2>3, <2>4, <2>5, <2>6, <2>7, <2>8, <2>9, <2>10 DEF Program
<1>2. CASE Broker
  <2>1. PICK t \in Trades : BrokerClose(t) \/ StopVanishes(t)
    BY <1>2 DEF Broker
  <2>2. CASE BrokerClose(t)
    <3>1. Becoming(t, "closed", "broker")
      <4>1. PICK outcome \in Outcomes :
              Becomes(t, "closed", (outcome * deal[t].risk) \div 10, "broker",
                      deal[t].stop)
        BY <2>2 DEF BrokerClose, AtBroker, Ends
      <4> QED
        BY <2>2, <4>1, BecomesOf, OutcomeType DEF BrokerClose, AtBroker
    <3>2. BrokerActs(t)
      BY <2>2, <3>1 DEF BrokerClose, BrokerActs
    <3> QED
      BY <3>2 DEF StepKind
  <2>3. CASE StopVanishes(t)
    <3>1. Becoming(t, "open", "nobody")
      <4>1. Becomes(t, "open", 0, "nobody", FALSE) /\ deal[t].status = "open"
        BY <2>3 DEF StopVanishes, AtBroker
      <4>2. /\ "open" \in {"open", "closed"} /\ 0 \in Int
            /\ "nobody" \in {"nobody", "broker", "bot"} /\ FALSE \in BOOLEAN
        OBVIOUS
      <4> QED
        BY <4>1, <4>2, BecomesOf, Zenon
    <3>2. BrokerActs(t)
      BY <2>3, <3>1 DEF StopVanishes, BrokerActs
    <3> QED
      BY <3>2 DEF StepKind
  <2> QED
    BY <2>1, <2>2, <2>3
<1>3. CASE Failure
  <2>1. CASE SyncReadFails \/ ManageReadFails
    <3>1. Looks
      BY <1>0, <2>1 DEF SyncReadFails, ManageReadFails, Looks, SameMoney, Running
    <3> QED
      BY <3>1 DEF StepKind
  <2>2. CASE ClosePnlRaises
    <3>1. Looks \/ GivesUp
      BY <1>0, <2>2 DEF ClosePnlRaises, Looks, GivesUp, SameMoney, Running
    <3> QED
      BY <3>1 DEF StepKind
  <2>3. CASE StartWithoutBalance
    BY <2>3, LiveAssumption DEF StartWithoutBalance, LiveAssumption, Boots, StepKind
  <2>4. CASE BootReadFails
    <3>1. GivesUp
      BY <1>0, <2>4 DEF BootReadFails, RestoreHalt, GivesUp, SameMoney, Running, Risk
    <3> QED
      BY <3>1 DEF StepKind
  <2>5. CASE RebuildFails
    <3>1. PICK orphans \in SUBSET (seen \ OpenRows) : rows' = Adopted(orphans)
      BY <2>5 DEF RebuildFails
    <3>2. Adopts(orphans)
      BY <2>5, <3>1 DEF RebuildFails, Adopts
    <3> QED
      BY <3>2 DEF StepKind
  <2>6. CASE Restart \/ Crash
    <3>1. Leaves
      BY <2>6 DEF Restart, Crash, Dies, Leaves
    <3> QED
      BY <3>1 DEF StepKind
  <2>7. ASSUME NEW t \in Trades, CloseUnknown(t) PROVE StepKind
    <3>1. Books(t, 0)
      BY <2>7 DEF CloseUnknown, CloseOne, Books
    <3> QED
      BY <3>1 DEF StepKind
  <2>8. ASSUME NEW t \in Trades, CloseRowFails(t) PROVE StepKind
    <3>1. Miscounts(t)
      BY <2>8 DEF CloseRowFails, Miscounts
    <3> QED
      BY <3>1 DEF StepKind
  <2>9. ASSUME NEW t \in Trades, CloseJournalFails(t) PROVE StepKind
    <3>1. Books(t, deal[t].pnl)
      BY <1>0, <2>9 DEF CloseJournalFails, Books
    <3> QED
      BY <1>0, <3>1 DEF StepKind
  <2>10. ASSUME NEW t \in Trades, \/ TimeStopLost(t) \/ WatchCloseLost(t)
                                  \/ TimeStopUnfilled(t) \/ WatchCloseUnfilled(t)
         PROVE  StepKind
    <3>1. Mark(t, "time_stop") \/ Mark(t, "watchdog_no_stop")
      BY <2>10 DEF TimeStopLost, WatchCloseLost,
         TimeStopUnfilled, WatchCloseUnfilled
    <3>2. /\ reasons'[t] \in Causes \ {"none"}
          /\ \A u \in Trades \ {t} : reasons'[u] = reasons[u]
          /\ reasons' \in [Trades -> Causes]
      BY <3>1, MarkOf DEF Causes
    <3>3. UNCHANGED deal \/ Becoming(t, "closed", "bot")
      BY <2>10, EndsOf DEF TimeStopLost, WatchCloseLost,
         TimeStopUnfilled, WatchCloseUnfilled
    <3>4. BotActs(t)
      BY <2>10, <3>2, <3>3 DEF TimeStopLost, WatchCloseLost,
         TimeStopUnfilled, WatchCloseUnfilled, BotActs, Running
    <3> QED
      BY <3>4 DEF StepKind
  <2>11. ASSUME NEW t \in Trades, EnterRowFails(t) PROVE StepKind
    <3>1. Registers(t)
      BY <2>11 DEF EnterRowFails, Registers
    <3> QED
      BY <3>1 DEF StepKind
  <2>12. ASSUME NEW t \in Trades, NEW sig \in Signals, OrderResponseLost(t, sig)
         PROVE  StepKind
    <3>1. Fills(t, sig)
      BY <1>0, <2>12, EvaluatedMoney DEF OrderResponseLost, Fill, Fills, SameMoney
    <3> QED
      BY <3>1 DEF StepKind
  <2> QED
    BY <1>3, <2>1, <2>2, <2>3, <2>4, <2>5, <2>6, <2>7, <2>8, <2>9, <2>10, <2>11,
       <2>12 DEF Failure
<1> QED
  BY <1>1, <1>2, <1>3 DEF Next

\* ---- Types ----------------------------------------------------------------

LEMMA TradesFinite == IsFiniteSet(Trades) /\ \A S \in SUBSET Trades : IsFiniteSet(S)
<1>1. IsFiniteSet(Trades)
  BY LiveAssumption, FS_Interval DEF LiveAssumption, Trades
<1> QED
  BY <1>1, FS_Subset

LEMMA BalancesType ==
    ASSUME Typed
    PROVE  BrokerBalance \in Int /\ BookedPnl \in Int
<1> DEFINE won == [t \in Trades |-> deal[t].pnl]
           booked == [t \in Trades |-> rows[t].pnl]
           all == FoldFunctionOnSet(+, 0, won, Trades)
           some == FoldFunctionOnSet(+, 0, booked, ClosedRows)
<1>1. \A t \in Trades : won[t] \in Int /\ booked[t] \in Int
  BY DEF Typed, Deal, Row
<1>2. ClosedRows \in SUBSET Trades
  BY DEF ClosedRows
<1>3. BrokerBalance = StartBalance + all
  BY DEF BrokerBalance, SumOf
<1>4. BookedPnl = some
  BY DEF BookedPnl, SumOf
<1> HIDE DEF won, booked
<1>5. all \in Int
  BY <1>1, TradesFinite, SumType
<1>6. some \in Int
  BY <1>1, <1>2, TradesFinite, SumType
<1> HIDE DEF all, some
<1> QED
  BY <1>3, <1>4, <1>5, <1>6, LiveAssumption DEF LiveAssumption

LEMMA RebuiltType ==
    ASSUME Typed, seen \subseteq Trades, Held(seen)
    PROVE  /\ risk' \in Risk
           /\ risk'.balance = risk.balance
<1>1. PICK newest \in [1..Cardinality(seen) -> seen] :
        risk' = [risk EXCEPT !.open =
                   [i \in DOMAIN newest |-> PositionOf(newest[i])]]
  BY DEF Held
<1> DEFINE open == [i \in 1..Cardinality(seen) |-> PositionOf(newest[i])]
<1>2. Cardinality(seen) \in Nat
  BY TradesFinite, FS_CardinalityType
<1>3. ASSUME NEW t \in seen PROVE PositionOf(t) \in Position
  <2>1. t \in Trades /\ deal[t] \in Deal /\ rows[t] \in Row
    BY <1>3 DEF Typed
  <2> QED
    BY <2>1 DEF Deal, Row, KnownRisk, PositionOf, Position
<1>4. open \in Seq(Position)
  <2>1. open \in [1..Cardinality(seen) -> Position]
    BY <1>3
  <2> QED
    BY <1>2, <2>1, SeqDef
<1>5. risk' = [risk EXCEPT !.open = open]
  BY <1>1
<1> HIDE DEF open
<1>6. risk \in Risk
  BY DEF Typed
<1> QED
  BY <1>4, <1>5, <1>6 DEF Risk

LEMMA TypedKind ==
    ASSUME LedgerInv, Typed, StepKind, dbHalted' \in BOOLEAN
    PROVE  Typed'
<1>0. /\ deal \in [Trades -> Deal] /\ rows \in [Trades -> Row] /\ risk \in Risk
      /\ reasons \in [Trades -> Causes] /\ base \in Int
      /\ pending \subseteq Trades /\ seen \subseteq Trades
  BY DEF Typed, LedgerInv, Shapes
<1>1. CASE Looks \/ ReadsBooks \/ GivesUp
  BY <1>0, <1>1 DEF Looks, ReadsBooks, GivesUp, SameMoney, Typed
<1>2. CASE Leaves
  BY <1>0, <1>2 DEF Leaves, Typed
<1>3. ASSUME NEW t \in Trades, BrokerActs(t) PROVE Typed'
  BY <1>0, <1>3 DEF BrokerActs, Becoming, Typed
<1>4. ASSUME NEW t \in Trades, BotActs(t) PROVE Typed'
  BY <1>0, <1>4 DEF BotActs, Becoming, Typed
<1>5. ASSUME NEW t \in Trades, NEW pnl \in Int, Settle(t, pnl)
      PROVE  risk' \in Risk /\ reasons' \in [Trades -> Causes]
  <2>1. 1 \in Nat /\ Day = 1
    BY DEF Day
  <2>2. risk' \in Risk
    BY <1>0, <1>5, <2>1, ClosePositionType DEF Settle
  <2>3. reasons' \in [Trades -> Causes]
    BY <1>0, <1>5 DEF Settle, Causes
  <2> QED
    BY <2>2, <2>3
<1>6. ASSUME NEW t \in Trades, NEW pnl \in Int, Books(t, pnl) PROVE Typed'
  <2>1. risk' \in Risk /\ reasons' \in [Trades -> Causes]
    BY <1>5, <1>6 DEF Books
  <2>2. NewRow("closed", rows[t].risk, pnl, TakenReason(t)) \in Row
    <3>1. TakenReason(t) \in Causes \cup {"broker_close", "broker_close_startup"}
      BY <1>0 DEF TakenReason
    <3>2. rows[t].risk \in Int
      BY <1>0 DEF Row
    <3> QED
      BY <3>1, <3>2 DEF NewRow, Row
  <2>3. rows' \in [Trades -> Row]
    BY <1>0, <1>6, <2>2 DEF Books, RecordClose
  <2> QED
    BY <1>0, <1>6, <2>1, <2>3 DEF Books, Typed
<1>7. ASSUME NEW t \in Trades, Miscounts(t) PROVE Typed'
  <2>1. deal[t].pnl \in Int
    BY <1>0 DEF Deal
  <2>2. risk' \in Risk /\ reasons' \in [Trades -> Causes]
    BY <1>5, <1>7, <2>1 DEF Miscounts
  <2> QED
    BY <1>0, <1>7, <2>2 DEF Miscounts, Typed
<1>8. ASSUME NEW t \in Trades, Registers(t) PROVE Typed'
  <2>1. /\ deal[t].instrument \in Instruments /\ deal[t].direction \in {-1, 1}
        /\ deal[t].risk \in Int
    BY <1>0 DEF Deal
  <2>2. risk' \in Risk
    BY <1>0, <1>8, <2>1, RegisterFillType DEF Registers, RegisterDeal
  <2>3. NewRow("open", deal[t].risk, 0, "none") \in Row
    BY <2>1 DEF NewRow, Row, Causes
  <2>4. rows' \in [Trades -> Row]
    BY <1>0, <1>8, <2>3 DEF Registers, RecordOpen
  <2> QED
    BY <1>0, <1>8, <2>2, <2>4 DEF Registers, Typed
<1>9. ASSUME NEW t \in Trades, NEW sig \in Signals, Fills(t, sig) PROVE Typed'
  <2>1. risk' \in Risk /\ base' = base /\ UNCHANGED <<rows, reasons>>
    BY <1>9 DEF Fills, SameMoney, Fill, store
  <2>2. PICK amount \in RoundToCent(RiskMills(risk')) :
          deal' = [deal EXCEPT ![t] =
              [status |-> "open", instrument |-> sig.instrument,
               direction |-> sig.direction, risk |-> amount,
               pnl |-> 0, by |-> "nobody", stop |-> TRUE]]
    BY <1>9 DEF Fills, Fill
  <2>3. amount \in Int
    BY <2>1, RiskMillsType, RoundToCentType
  <2>4. sig \in Signal
    BY LiveAssumption DEF LiveAssumption
  <2> DEFINE d == [status |-> "open", instrument |-> sig.instrument,
                   direction |-> sig.direction, risk |-> amount,
                   pnl |-> 0, by |-> "nobody", stop |-> TRUE]
  <2>5. d \in Deal
    BY <2>3, <2>4 DEF Deal, Signal
  <2>6. deal' = [deal EXCEPT ![t] = d]
    BY <2>2
  <2> HIDE DEF d
  <2>7. deal' \in [Trades -> Deal]
    BY <1>0, <2>5, <2>6
  <2> QED
    BY <1>0, <2>1, <2>7 DEF Typed
<1>10. CASE Boots
  <2>1. PICK balance \in Int : Boot(balance)
    BY <1>10 DEF Boots
  <2>2. NewRisk(balance, Day) \in Risk
    BY RiskAssumption DEF RiskAssumption, NewRisk, Day, Risk
  <2>3. base' \in Int
    BY <2>1, BalancesType DEF Boot
  <2>4. reasons' \in [Trades -> Causes]
    BY <2>1 DEF Boot, Causes
  <2> QED
    BY <1>0, <2>1, <2>2, <2>3, <2>4 DEF Boot, store, Typed
<1>11. ASSUME NEW orphans, Adopts(orphans) PROVE Typed'
  <2>1. NewRow("open", 0, 0, "none") \in Row
    BY DEF NewRow, Row, Causes
  <2>2. rows' \in [Trades -> Row]
    BY <1>0, <1>11, <2>1 DEF Adopts, Adopted
  <2>3. risk' \in Risk
    BY <1>0, <1>11, RebuiltType DEF Adopts
  <2> QED
    BY <1>0, <1>11, <2>2, <2>3 DEF Adopts, Typed
<1> QED
  BY <1>1, <1>2, <1>3, <1>4, <1>6, <1>7, <1>8, <1>9, <1>10, <1>11 DEF StepKind

LEMMA HaltType ==
    ASSUME Typed, [Next]_vars
    PROVE  dbHalted' \in BOOLEAN
<1> USE DEF Typed, store
<1>1. CASE UNCHANGED vars
  BY <1>1 DEF vars
<1>2. CASE Program
  BY <1>2 DEF Program, SyncRead, SyncDone, NotTradeable, ManageRead, ManageDone,
     NoEntry, WatchRead, WatchDone, Start, Boot, BootRead, Rebuild, CloseKnown,
     CloseOne, Keep, TimeStop, Enter, WatchClose, PlaceOrder, Fill
<1>3. CASE Broker
  BY <1>3 DEF Broker, BrokerClose, StopVanishes
<1>4. CASE Failure
  BY <1>4 DEF Failure, SyncReadFails, ClosePnlRaises, ManageReadFails,
     StartWithoutBalance, Boot, BootReadFails, RebuildFails, Restart, Crash, Dies,
     CloseUnknown, CloseOne, CloseRowFails, CloseJournalFails, TimeStopLost,
     EnterRowFails, WatchCloseLost, TimeStopUnfilled,
     WatchCloseUnfilled, OrderResponseLost, Fill
<1> QED
  BY <1>1, <1>2, <1>3, <1>4 DEF Next

LEMMA TypedStep ==
    ASSUME LedgerInv, Typed, [Next]_vars
    PROVE  Typed' /\ (StepKind \/ UNCHANGED vars)
<1>1. (StepKind \/ UNCHANGED vars) /\ dbHalted' \in BOOLEAN
  BY BalancesType, StepKinds, HaltType
<1>2. CASE UNCHANGED vars
  BY <1>2 DEF vars, store, memory, count, Typed
<1> QED
  BY <1>1, <1>2, TypedKind

LEMMA TypedInvariant == Spec => []Typed
<1>1. Init => Typed
  <2> SUFFICES ASSUME Init PROVE Typed
    OBVIOUS
  <2>1. deal \in [Trades -> Deal]
    <3>1. (CHOOSE i \in Instruments : TRUE) \in Instruments
      BY LiveAssumption DEF LiveAssumption
    <3>2. NoDeal \in Deal
      BY <3>1 DEF NoDeal, Deal
    <3> QED
      BY <3>2 DEF Init
  <2>2. rows \in [Trades -> Row] /\ reasons \in [Trades -> Causes]
    <3>1. NewRow("none", 0, 0, "none") \in Row /\ "none" \in Causes
      BY DEF NewRow, Row, Causes
    <3> QED
      BY <3>1 DEF Init
  <2>3. risk \in Risk
    BY RiskAssumption, LiveAssumption
       DEF Init, NewRisk, Day, Risk, RiskAssumption, LiveAssumption
  <2>4. base \in Int /\ dbHalted \in BOOLEAN
    BY LiveAssumption DEF Init, LiveAssumption
  <2> QED
    BY <2>1, <2>2, <2>3, <2>4 DEF Typed
<1> QED
  BY <1>1, TypedStep, LedgerInvariant, PTL DEF Spec

\* ---- Where a reason comes from --------------------------------------------

\* The startup reconciliation has every open row in its hands: as a close to
\* book or as a trade that it has seen at the broker.
AdoptRead == pc = "adopt" => OpenRows \subseteq seen \cup pending

LEMMA AdoptReadKind ==
    ASSUME LedgerInv, Typed, AdoptRead, StepKind
    PROVE  AdoptRead'
<1> USE DEF AdoptRead, OpenRows, LedgerInv, Shapes, Typed
<1>1. CASE Looks \/ Leaves \/ GivesUp
  BY <1>1 DEF Looks, Leaves, GivesUp, Running
<1>2. CASE ReadsBooks
  BY <1>2 DEF ReadsBooks, AtBroker
<1>3. CASE Boots
  BY <1>3 DEF Boots, Boot, Goto
<1>4. ASSUME NEW t \in Trades, BrokerActs(t) \/ BotActs(t) \/ Miscounts(t) \/ Registers(t)
      PROVE  AdoptRead'
  BY <1>4 DEF BrokerActs, BotActs, Miscounts, Registers, Running
<1>5. ASSUME NEW t \in Trades, NEW pnl \in Int, Books(t, pnl) PROVE AdoptRead'
  BY <1>5 DEF Books, RecordClose, NewRow
<1>6. ASSUME NEW t \in Trades, NEW sig \in Signals, Fills(t, sig) PROVE AdoptRead'
  BY <1>6 DEF Fills
<1>7. ASSUME NEW orphans, Adopts(orphans) PROVE AdoptRead'
  BY <1>7 DEF Adopts
<1> QED
  BY <1>1, <1>2, <1>3, <1>4, <1>5, <1>6, <1>7 DEF StepKind

\* What is over was ended by someone, a trade in hand not by the bot; and what
\* the bot has ended and not booked bears its mark while the process runs.
ReasonInv ==
    /\ \A t \in Trades :
          /\ rows[t].status # "closed" => rows[t].reason = "none"
          /\ deal[t].status = "open" => deal[t].by = "nobody"
          /\ deal[t].status = "closed" => deal[t].by \in {"broker", "bot"}
          /\ InHand(t) => deal[t].by # "bot"
    /\ NoneOf({"bootRead", "closeRow", "journal"}) => \A t \in Trades :
          /\ rows[t].reason = "broker_close" => deal[t].by = "broker"
          /\ Running /\ deal[t].by = "bot" /\ rows[t].status = "open"
               => reasons[t] # "none"

LEMMA ReasonKind ==
    ASSUME LedgerInv, Typed, AdoptRead, ReasonInv, StepKind, happened \subseteq happened'
    PROVE  ReasonInv'
<1> USE DEF LedgerInv, Shapes, Typed, ReasonInv, InHand, Running, NoneOf
<1>1. CASE Looks
  BY <1>1 DEF Looks
<1>2. CASE Leaves \/ GivesUp
  BY <1>2 DEF Leaves, GivesUp
<1>3. CASE ReadsBooks
  BY <1>3 DEF ReadsBooks, AtBroker
<1>4. CASE Boots
  BY <1>4 DEF Boots, Boot, Goto, store
<1>5. ASSUME NEW t \in Trades, BrokerActs(t) PROVE ReasonInv'
  BY <1>5 DEF BrokerActs, Becoming, RowsFollowDeals
<1>6. ASSUME NEW t \in Trades, BotActs(t) PROVE ReasonInv'
  BY <1>6 DEF BotActs, Becoming, RowsFollowDeals, Causes
<1>7. ASSUME NEW t \in Trades, Miscounts(t) PROVE ReasonInv'
  BY <1>7 DEF Miscounts
<1>8. ASSUME NEW t \in Trades, Registers(t) PROVE ReasonInv'
  BY <1>8 DEF Registers, RecordOpen, NewRow
<1>9. ASSUME NEW t \in Trades, NEW pnl \in Int, Books(t, pnl) PROVE ReasonInv'
  BY <1>9 DEF Books, RecordClose, NewRow, Settle, TakenReason, PendingInv, Causes
<1>10. ASSUME NEW t \in Trades, NEW sig \in Signals, Fills(t, sig) PROVE ReasonInv'
  <2>1. deal[t].status = "none" /\ rows[t].status = "none"
    BY <1>10 DEF Fills, Fill, RowsFollowDeals
  <2>2. /\ deal'[t].status = "open" /\ deal'[t].by = "nobody"
        /\ \A u \in Trades \ {t} : deal'[u] = deal[u]
    BY <1>10 DEF Fills, Fill
  <2>3. UNCHANGED <<rows, reasons>> /\ pc = "enter"
    BY <1>10 DEF Fills, Fill, store
  <2>4. pc' = "idle" \/ (pc' = "filled" /\ pending' = {t})
    BY <1>10 DEF Fills
  <2> QED
    BY <2>1, <2>2, <2>3, <2>4
<1>11. ASSUME NEW orphans, Adopts(orphans) PROVE ReasonInv'
  <2>1. \A t \in Trades : rows'[t] = rows[t] \/ (rows'[t].status = "open"
                                                 /\ rows'[t].reason = "none"
                                                 /\ t \in seen)
    BY <1>11 DEF Adopts, Adopted, NewRow
  <2>2. OpenRows \subseteq seen
    BY <1>11 DEF Adopts, AdoptRead
  <2> QED
    BY <1>11, <2>1, <2>2 DEF Adopts, OpenRows
<1> QED
  BY <1>1, <1>2, <1>3, <1>4, <1>5, <1>6, <1>7, <1>8, <1>9, <1>10, <1>11 DEF StepKind

LEMMA AdoptReadInvariant == Spec => []AdoptRead
<1>1. Init => AdoptRead
  BY DEF Init, AdoptRead
<1>2. AdoptRead /\ UNCHANGED vars => AdoptRead'
  BY DEF AdoptRead, OpenRows, vars, store, control
<1> QED
  BY <1>1, <1>2, AdoptReadKind, TypedStep, TypedInvariant, LedgerInvariant, PTL DEF Spec

\* BrokerReasonTrue: a close booked as the broker's own was the broker's, as
\* long as no startup reconciliation was given up and no close failed half way.
THEOREM BrokerClosesAreTheBrokers == Spec => []BrokerReasonTrue
<1>1. Init => ReasonInv
  BY DEF Init, NoDeal, NewRow, ReasonInv, InHand, Running
<1>2. ReasonInv /\ UNCHANGED vars => ReasonInv'
  BY DEF ReasonInv, InHand, Running, NoneOf, vars, store, memory, control, count
<1>3. ReasonInv => BrokerReasonTrue
  BY DEF ReasonInv, BrokerReasonTrue
<1> QED
  BY <1>1, <1>2, <1>3, ReasonKind, HappenedGrows, TypedStep, TypedInvariant,
     AdoptReadInvariant, LedgerInvariant, PTL DEF Spec

\* ---- What is booked -------------------------------------------------------

BookedOf(table) ==
    FoldFunctionOnSet(+, 0, [t \in Trades |-> table[t].pnl],
                      {t \in Trades : table[t].status = "closed"})

LEMMA BookedIs == BookedPnl = BookedOf(rows)
BY DEF BookedPnl, BookedOf, SumOf, ClosedRows

LEMMA BookedNext == BookedPnl' = BookedOf(rows')
<1>1. (BookedPnl = BookedOf(rows))'
  BY BookedIs, PTL
<1>2. BookedOf(rows)' = BookedOf(rows')
  BY DEF BookedOf, FoldFunctionOnSet, MapThenFoldSet
<1> QED
  BY <1>1, <1>2

LEMMA BookedSame ==
    ASSUME Typed, ClosedRows' = ClosedRows,
           \A t \in ClosedRows : rows'[t] = rows[t]
    PROVE  BookedPnl' = BookedPnl
<1> DEFINE booked == [t \in Trades |-> rows[t].pnl]
           after == [t \in Trades |-> rows'[t].pnl]
<1>1. ClosedRows \in SUBSET Trades
  BY DEF ClosedRows
<1>2. IsFiniteSet(ClosedRows)
  BY <1>1, TradesFinite
<1>3. \A t \in ClosedRows : booked[t] \in Int /\ after[t] = booked[t]
  BY <1>1 DEF Typed, Row
<1>4. BookedPnl = FoldFunctionOnSet(+, 0, booked, ClosedRows)
  BY DEF BookedPnl, SumOf
<1>5. BookedPnl' = FoldFunctionOnSet(+, 0, after, ClosedRows')
  BY BookedNext DEF BookedOf, ClosedRows
<1> HIDE DEF booked, after
<1>6. FoldFunctionOnSet(+, 0, after, ClosedRows)
        = FoldFunctionOnSet(+, 0, booked, ClosedRows)
  BY <1>2, <1>3, SumOfSame
<1> QED
  BY <1>4, <1>5, <1>6, Zenon

LEMMA BookedMore ==
    ASSUME Typed, NEW t \in Trades, t \notin ClosedRows, NEW pnl \in Int,
           RecordClose(t, pnl)
    PROVE  BookedPnl' = pnl + BookedPnl
<1> DEFINE booked == [u \in Trades |-> rows[u].pnl]
           after == [u \in Trades |-> rows'[u].pnl]
<1>1. ClosedRows \in SUBSET Trades
  BY DEF ClosedRows
<1>2. IsFiniteSet(ClosedRows)
  BY <1>1, TradesFinite
<1>3. /\ rows'[t].status = "closed" /\ rows'[t].pnl = pnl
      /\ \A u \in Trades \ {t} : rows'[u] = rows[u]
  BY DEF RecordClose, NewRow, Typed
<1>4. ClosedRows' = ClosedRows \cup {t}
  BY <1>3 DEF ClosedRows
<1>5. /\ after[t] = pnl
      /\ \A u \in ClosedRows : booked[u] \in Int /\ after[u] = booked[u]
  BY <1>1, <1>3 DEF Typed, Row
<1>6. BookedPnl = FoldFunctionOnSet(+, 0, booked, ClosedRows)
  BY DEF BookedPnl, SumOf
<1>7. BookedPnl' = FoldFunctionOnSet(+, 0, after, ClosedRows')
  BY BookedNext DEF BookedOf, ClosedRows
<1> HIDE DEF booked, after
<1>8. FoldFunctionOnSet(+, 0, after, ClosedRows \cup {t})
        = after[t] + FoldFunctionOnSet(+, 0, booked, ClosedRows)
  BY <1>2, <1>5, SumOfMore
<1>9. BookedPnl' = after[t] + BookedPnl
  BY <1>4, <1>6, <1>7, <1>8, Zenon
<1> QED
  BY <1>5, <1>9

LEMMA BalanceKind ==
    ASSUME LedgerInv, Typed, BalanceIsBooked, StepKind, happened \subseteq happened'
    PROVE  BalanceIsBooked'
<1> USE DEF BalanceIsBooked, NoneOf
<1>0. /\ BookedPnl \in Int /\ risk.balance \in Int /\ base \in Int
      /\ pending \subseteq Trades
  BY BalancesType DEF Typed, Risk, LedgerInv, Shapes
<1>1. ASSUME UNCHANGED rows PROVE BookedPnl' = BookedPnl
  <2>1. ClosedRows' = ClosedRows /\ \A t \in ClosedRows : rows'[t] = rows[t]
    BY <1>1 DEF ClosedRows
  <2> QED
    BY <2>1, BookedSame
<1>2. CASE Looks \/ ReadsBooks \/ GivesUp
  BY <1>1, <1>2 DEF Looks, ReadsBooks, GivesUp, SameMoney, Running
<1>3. CASE Leaves
  BY <1>3 DEF Leaves
<1>4. CASE Boots
  <2>1. PICK balance \in Int : Boot(balance)
    BY <1>4 DEF Boots
  <2>2. /\ UNCHANGED rows /\ base' = balance - BookedPnl
        /\ risk' = NewRisk(balance, Day)
    BY <2>1 DEF Boot, store
  <2>3. risk'.balance = balance
    BY <2>2 DEF NewRisk
  <2>4. BookedPnl' = BookedPnl
    BY <1>1, <2>2
  <2> QED
    BY <1>0, <2>2, <2>3, <2>4
<1>5. ASSUME NEW t \in Trades, BrokerActs(t) \/ BotActs(t) PROVE BalanceIsBooked'
  BY <1>1, <1>5 DEF BrokerActs, BotActs, Running
<1>6. ASSUME NEW t \in Trades, Miscounts(t) PROVE BalanceIsBooked'
  BY <1>6 DEF Miscounts
<1>7. ASSUME NEW t \in Trades, Registers(t) PROVE BalanceIsBooked'
  <2>1. risk'.balance = risk.balance
    BY <1>7 DEF Registers, RegisterDeal, RegisterFill, Typed, Risk
  <2>2. rows[t].status = "none"
    BY <1>7 DEF Registers, LedgerInv, PendingInv
  <2>3. /\ \A u \in Trades \ {t} : rows'[u] = rows[u]
        /\ rows'[t].status # "closed"
    BY <1>7, <2>2 DEF Registers, RecordOpen, NewRow, Typed
  <2>4. ClosedRows' = ClosedRows /\ \A u \in ClosedRows : rows'[u] = rows[u]
    BY <2>2, <2>3 DEF ClosedRows
  <2> QED
    BY <1>7, <2>1, <2>4, BookedSame DEF Registers
<1>8. ASSUME NEW t \in Trades, NEW pnl \in Int, Books(t, pnl) PROVE BalanceIsBooked'
  <2>1. t \notin ClosedRows
    BY <1>8 DEF Books, LedgerInv, PendingInv, ClosedRows
  <2>2. BookedPnl' = pnl + BookedPnl
    BY <1>8, <2>1, BookedMore DEF Books
  <2>3. risk' = ClosePosition(risk, deal[t].instrument, pnl, Day) /\ Day \in Nat
    BY <1>8 DEF Books, Settle, Day
  <2>4. risk \in Risk
    BY DEF Typed
  <2>5. risk'.balance = risk.balance + pnl
    BY <2>3, <2>4, ClosePositionMoves
  <2>6. base' = base /\ pc # "down"
    BY <1>8 DEF Books
  <2> QED
    BY <1>0, <2>2, <2>5, <2>6
<1>9. ASSUME NEW t \in Trades, NEW sig \in Signals, Fills(t, sig)
      PROVE  BalanceIsBooked'
  <2>1. UNCHANGED rows /\ pc = "enter" /\ SameMoney
    BY <1>9 DEF Fills, Fill, store
  <2> QED
    BY <1>1, <2>1 DEF SameMoney
<1>10. ASSUME NEW orphans, Adopts(orphans) PROVE BalanceIsBooked'
  <2>1. risk'.balance = risk.balance
    BY <1>10, RebuiltType DEF Adopts, LedgerInv, Shapes
  <2>2. \A u \in Trades : u \in orphans => u \in seen /\ rows[u].status # "closed"
    BY <1>10 DEF Adopts, LedgerInv, PendingInv
  <2>3. \A u \in Trades : \/ rows'[u] = rows[u]
                          \/ rows[u].status # "closed" /\ rows'[u].status # "closed"
    BY <1>10, <2>2 DEF Adopts, Adopted, NewRow
  <2>4. ClosedRows' = ClosedRows /\ \A u \in ClosedRows : rows'[u] = rows[u]
    BY <2>3 DEF ClosedRows
  <2> QED
    BY <1>10, <2>1, <2>4, BookedSame DEF Adopts
<1> QED
  BY <1>2, <1>3, <1>4, <1>5, <1>6, <1>7, <1>8, <1>9, <1>10 DEF StepKind

\* BalanceIsBooked: within one process the balance moves by exactly what is
\* booked, unless a row fails after the risk manager was told.
THEOREM BalanceFollowsTable == Spec => []BalanceIsBooked
<1>1. Init => BalanceIsBooked
  BY DEF Init, BalanceIsBooked
<1>2. Typed /\ BalanceIsBooked /\ UNCHANGED vars => BalanceIsBooked'
  <2> SUFFICES ASSUME Typed, BalanceIsBooked, UNCHANGED vars
               PROVE  BalanceIsBooked'
    OBVIOUS
  <2>1. UNCHANGED <<rows, risk, base, pc, happened>>
    BY DEF vars, store, memory, control, count
  <2>2. ClosedRows' = ClosedRows /\ \A u \in ClosedRows : rows'[u] = rows[u]
    BY <2>1 DEF ClosedRows
  <2> QED
    BY <2>1, <2>2, BookedSame DEF BalanceIsBooked, NoneOf
<1> QED
  BY <1>1, <1>2, BalanceKind, HappenedGrows, TypedStep, TypedInvariant,
     LedgerInvariant, PTL DEF Spec

\* ---- One trade of a pair, and its one position ----------------------------

\* A trade that may hold its pair: it stands, or has a row to close, or is on
\* the way to one.
InPlay(t) == deal[t].status = "open" \/ rows[t].status = "open" \/ InHand(t)

OnePerPair ==
    Reconciled => \A t, u \in Trades :
        InPlay(t) /\ InPlay(u) /\ deal[t].instrument = deal[u].instrument => t = u

\* While the process runs, its positions and the open rows stand for each other.
Mirror ==
    Reconciled /\ Running =>
        /\ \A t \in OpenRows : \E n \in 1..Len(risk.open) : StandsFor(risk.open[n], t)
        /\ \A n \in 1..Len(risk.open) : \E t \in OpenRows : StandsFor(risk.open[n], t)
        /\ \A n, m \in 1..Len(risk.open) :
              risk.open[n].instrument = risk.open[m].instrument => n = m

LEMMA ReconciledBefore ==
    ASSUME happened \subseteq happened', Reconciled'
    PROVE  /\ Reconciled
           /\ happened' \cap {"openRow", "orderLost", "bootRead", "closeRow",
                               "journal"} = {}
BY DEF Reconciled, NoneOf

\* Nothing but a fill brings a trade into play, or changes what is traded.
LEMMA PlayKind ==
    ASSUME LedgerInv, Typed, AdoptRead, StepKind, happened \subseteq happened',
           Reconciled', NEW u \in Trades,
           ~ \E t \in Trades, sig \in Signals : Fills(t, sig)
    PROVE  /\ InPlay(u)' => InPlay(u)
           /\ deal'[u].instrument = deal[u].instrument
           /\ deal'[u].direction = deal[u].direction
<1> USE DEF InPlay, InHand, LedgerInv, Shapes, Typed
<1>1. CASE Looks \/ Leaves \/ GivesUp
  BY <1>1 DEF Looks, Leaves, GivesUp, Running
<1>2. CASE ReadsBooks
  BY <1>2 DEF ReadsBooks, AtBroker
<1>3. CASE Boots
  BY <1>3 DEF Boots, Boot, Goto, store
<1>4. ASSUME NEW t \in Trades, BrokerActs(t)
      PROVE  /\ InPlay(u)' => InPlay(u)
             /\ deal'[u].instrument = deal[u].instrument
             /\ deal'[u].direction = deal[u].direction
  BY <1>4 DEF BrokerActs, Becoming
<1>5. ASSUME NEW t \in Trades, BotActs(t)
      PROVE  /\ InPlay(u)' => InPlay(u)
             /\ deal'[u].instrument = deal[u].instrument
             /\ deal'[u].direction = deal[u].direction
  BY <1>5 DEF BotActs, Becoming, Running
<1>6. ASSUME NEW t \in Trades, Miscounts(t)
      PROVE  /\ InPlay(u)' => InPlay(u)
             /\ deal'[u].instrument = deal[u].instrument
             /\ deal'[u].direction = deal[u].direction
  BY <1>6 DEF Miscounts
<1>7. ASSUME NEW t \in Trades, Registers(t)
      PROVE  /\ InPlay(u)' => InPlay(u)
             /\ deal'[u].instrument = deal[u].instrument
             /\ deal'[u].direction = deal[u].direction
  BY <1>7 DEF Registers, RecordOpen, NewRow
<1>8. ASSUME NEW t \in Trades, NEW pnl \in Int, Books(t, pnl)
      PROVE  /\ InPlay(u)' => InPlay(u)
             /\ deal'[u].instrument = deal[u].instrument
             /\ deal'[u].direction = deal[u].direction
  BY <1>8 DEF Books, RecordClose, NewRow
<1>9. ASSUME NEW orphans, Adopts(orphans)
      PROVE  /\ InPlay(u)' => InPlay(u)
             /\ deal'[u].instrument = deal[u].instrument
             /\ deal'[u].direction = deal[u].direction
  BY <1>9 DEF Adopts, Adopted, NewRow
<1> QED
  BY <1>1, <1>2, <1>3, <1>4, <1>5, <1>6, <1>7, <1>8, <1>9 DEF StepKind

\* A fill is the only trade of its pair: evaluate saw no position of it, and a
\* trade in play has one.
LEMMA FillAlone ==
    ASSUME LedgerInv, Typed, KnownInv, Mirror, Reconciled,
           NEW t \in Trades, NEW sig \in Signals, Fills(t, sig)
    PROVE  \A u \in Trades : InPlay(u) => deal[u].instrument # sig.instrument
<1> SUFFICES ASSUME NEW u \in Trades, InPlay(u)
             PROVE  deal[u].instrument # sig.instrument
  OBVIOUS
<1>1. /\ pc = "enter" /\ Approves(Evaluated(risk, Day), sig)
  BY DEF Fills, Fill
<1>2. deal[u].status = "open" \/ rows[u].status = "open"
  BY <1>1 DEF InPlay, InHand
<1>3. u \in OpenRows
  <2>1. rows[u].status # "none"
    BY <1>1, <1>2 DEF KnownInv, OnTheWay, AtBroker
  <2>2. rows[u].status # "closed"
    BY <1>2 DEF LedgerInv, RowsFollowDeals
  <2> QED
    BY <2>1, <2>2 DEF LedgerInv, Shapes, OpenRows
<1>4. PICK n \in 1..Len(risk.open) : StandsFor(risk.open[n], u)
  BY <1>1, <1>3 DEF Mirror, Running
<1>5. risk \in Risk
  BY DEF Typed
<1>6. Evaluated(risk, Day).open = risk.open
  BY <1>5, EvaluatedMoney
<1>7. DOMAIN risk.open = 1..Len(risk.open)
  BY <1>5, LenProperties DEF Risk
<1>8. \A i \in DOMAIN risk.open : risk.open[i].instrument # sig.instrument
  BY <1>1, <1>6 DEF Approves, CheapGates
<1> QED
  BY <1>4, <1>7, <1>8 DEF StandsFor

LEMMA FillShape ==
    ASSUME LedgerInv, Typed, NEW t \in Trades, NEW sig \in Signals, Fills(t, sig)
    PROVE  /\ deal[t].status = "none" /\ rows[t].status = "none"
           /\ deal'[t].instrument = sig.instrument
           /\ \A u \in Trades \ {t} : deal'[u] = deal[u]
           /\ UNCHANGED rows /\ SameMoney /\ pc = "enter"
           /\ \/ pc' = "idle" /\ "orderLost" \in happened'
              \/ pc' = "filled" /\ pending' = {t}
<1>1. PICK amount \in RoundToCent(RiskMills(risk')) :
        deal' = [deal EXCEPT ![t] =
            [status |-> "open", instrument |-> sig.instrument,
             direction |-> sig.direction, risk |-> amount,
             pnl |-> 0, by |-> "nobody", stop |-> TRUE]]
  BY DEF Fills, Fill
<1>2. deal[t].status = "none" /\ rows[t].status = "none"
  BY DEF Fills, Fill, LedgerInv, RowsFollowDeals, Shapes
<1>3. /\ deal'[t].instrument = sig.instrument
      /\ \A u \in Trades \ {t} : deal'[u] = deal[u]
  BY <1>1 DEF Typed
<1> QED
  BY <1>2, <1>3 DEF Fills, Fill, store

LEMMA OnePerPairKind ==
    ASSUME LedgerInv, Typed, AdoptRead, KnownInv, Mirror, OnePerPair, StepKind,
           happened \subseteq happened'
    PROVE  OnePerPair'
<1> SUFFICES ASSUME Reconciled', NEW t \in Trades, NEW u \in Trades,
                    InPlay(t)', InPlay(u)',
                    deal'[t].instrument = deal'[u].instrument
             PROVE  t = u
  BY DEF OnePerPair
<1>0. /\ Reconciled
      /\ happened' \cap {"openRow", "orderLost", "bootRead", "closeRow",
                          "journal"} = {}
  BY ReconciledBefore
<1>1. CASE ~ \E v \in Trades, sig \in Signals : Fills(v, sig)
  BY <1>0, <1>1, PlayKind DEF OnePerPair
<1>2. ASSUME NEW v \in Trades, NEW sig \in Signals, Fills(v, sig) PROVE t = u
  <2>1. /\ deal'[v].instrument = sig.instrument
        /\ \A w \in Trades \ {v} : deal'[w] = deal[w]
        /\ UNCHANGED rows /\ pc = "enter" /\ pc' = "filled" /\ pending' = {v}
    BY <1>0, <1>2, FillShape
  <2>2. \A w \in Trades \ {v} : InPlay(w)' => InPlay(w)
    BY <2>1 DEF InPlay, InHand
  <2>3. \A w \in Trades : InPlay(w) => deal[w].instrument # sig.instrument
    BY <1>0, <1>2, FillAlone
  <2> QED
    BY <1>0, <2>1, <2>2, <2>3 DEF OnePerPair
<1> QED
  BY <1>1, <1>2

\* A step that moves no position and no open row keeps the mirror.
LEMMA MirrorKept ==
    ASSUME Typed, Mirror, UNCHANGED rows, risk'.open = risk.open,
           Reconciled' => Reconciled, Running' => Running,
           \A t \in OpenRows : /\ deal'[t].instrument = deal[t].instrument
                               /\ deal'[t].direction = deal[t].direction
    PROVE  Mirror'
<1>1. OpenRows' = OpenRows
  BY DEF OpenRows
<1>2. \A p : \A t \in OpenRows : StandsFor(p, t) <=> StandsFor(p, t)'
  BY DEF StandsFor
<1> QED
  BY <1>1, <1>2 DEF Mirror

\* StandsFor in the next state, for a position named there.
StandsNext(position, t) ==
    /\ position.instrument = deal'[t].instrument
    /\ position.direction = deal'[t].direction
    /\ position.risk = rows'[t].risk

LEMMA MirrorNext ==
    ASSUME NEW open, open = risk'.open,
           \A t \in OpenRows' : \E n \in 1..Len(open) : StandsNext(open[n], t),
           \A n \in 1..Len(open) : \E t \in OpenRows' : StandsNext(open[n], t),
           \A n, m \in 1..Len(open) : open[n].instrument = open[m].instrument => n = m
    PROVE  Mirror'
BY DEF Mirror, StandsFor, StandsNext

\* A close that sync books: the one position of the pair goes with the row.
LEMMA MirrorOfClose ==
    ASSUME LedgerInv, Typed, Mirror, OnePerPair, Reconciled,
           NEW t \in Trades, NEW pnl \in Int, Books(t, pnl), pc = "sync"
    PROVE  Mirror'
<1> DEFINE open == risk.open
           rest == risk'.open
<1>0. risk \in Risk /\ open \in Seq(Position) /\ Len(open) \in Nat
  BY LenProperties DEF Typed, Risk
<1>1. /\ \A u \in OpenRows : \E n \in 1..Len(open) : StandsFor(open[n], u)
      /\ \A n \in 1..Len(open) : \E u \in OpenRows : StandsFor(open[n], u)
      /\ \A n, m \in 1..Len(open) : open[n].instrument = open[m].instrument => n = m
  BY DEF Mirror, Running, Books
<1>2. t \in OpenRows
  BY DEF Books, LedgerInv, PendingInv, OpenRows
<1>3. \A u \in OpenRows : deal[u].instrument = deal[t].instrument => u = t
  BY <1>2 DEF OnePerPair, InPlay, OpenRows
<1>4. rest = Without(open, deal[t].instrument)
  <2>1. risk' = ClosePosition(risk, deal[t].instrument, pnl, Day) /\ Day \in Nat
    BY DEF Books, Settle, Day
  <2> QED
    BY <1>0, <2>1, ClosePositionMoves
<1>5. PICK k \in 1..Len(open) : /\ open[k].instrument = deal[t].instrument
                                /\ LacksOnly(rest, open, k)
  BY <1>0, <1>1, <1>2, <1>4, Removal DEF StandsFor
<1>6. /\ OpenRows' = OpenRows \ {t}
      /\ \A p : \A u \in OpenRows \ {t} : StandsFor(p, u) <=> StandsNext(p, u)
  <2>1. /\ \A u \in Trades \ {t} : rows'[u] = rows[u]
        /\ rows'[t].status = "closed" /\ UNCHANGED deal
    BY DEF Books, RecordClose, NewRow, Typed
  <2> QED
    BY <2>1 DEF OpenRows, StandsFor, StandsNext
<1>7. /\ Len(rest) = Len(open) - 1
      /\ \A i \in 1..Len(rest) : rest[i] = open[IF i < k THEN i ELSE i + 1]
  BY <1>5 DEF LacksOnly
<1> DEFINE at == [i \in 1..Len(rest) |-> IF i < k THEN i ELSE i + 1]
<1>8. /\ \A i \in 1..Len(rest) : /\ at[i] \in 1..Len(open) /\ at[i] # k
                                 /\ rest[i] = open[at[i]]
      /\ \A i, j \in 1..Len(rest) : at[i] = at[j] => i = j
      /\ \A n \in 1..Len(open) : n # k => \E i \in 1..Len(rest) : at[i] = n
  <2>1. ASSUME NEW n \in 1..Len(open), n # k
        PROVE  \E i \in 1..Len(rest) : at[i] = n
    <3>1. CASE n < k
      <4>1. n \in 1..Len(rest) /\ at[n] = n
        BY <1>0, <1>5, <1>7, <3>1
      <4> QED
        BY <4>1
    <3>2. CASE n > k
      <4>1. n - 1 \in 1..Len(rest) /\ at[n - 1] = n
        BY <1>0, <1>5, <1>7, <3>2
      <4> QED
        BY <4>1
    <3> QED
      BY <1>0, <2>1, <3>1, <3>2
  <2>2. ASSUME NEW i \in 1..Len(rest)
        PROVE  at[i] \in 1..Len(open) /\ at[i] # k /\ rest[i] = open[at[i]]
    BY <1>0, <1>7
  <2>3. ASSUME NEW i \in 1..Len(rest), NEW j \in 1..Len(rest), at[i] = at[j]
        PROVE  i = j
    BY <1>0, <1>7, <2>3
  <2> QED
    BY <2>1, <2>2, <2>3
<1> HIDE DEF at
<1>9. ASSUME NEW u \in OpenRows \ {t}
      PROVE  \E i \in 1..Len(rest) : StandsFor(rest[i], u)
  <2>1. PICK n \in 1..Len(open) : StandsFor(open[n], u)
    BY <1>1
  <2>2. n # k
    BY <1>3, <1>5, <2>1 DEF StandsFor
  <2>3. PICK i \in 1..Len(rest) : at[i] = n
    BY <1>8, <2>2
  <2> QED
    BY <1>8, <2>1, <2>3
<1>10. ASSUME NEW i \in 1..Len(rest)
       PROVE  \E u \in OpenRows \ {t} : StandsFor(rest[i], u)
  <2>1. at[i] \in 1..Len(open) /\ at[i] # k /\ rest[i] = open[at[i]]
    BY <1>8
  <2>2. PICK u \in OpenRows : StandsFor(rest[i], u)
    BY <1>1, <2>1
  <2>3. u # t
    BY <1>1, <1>5, <2>1, <2>2 DEF StandsFor
  <2> QED
    BY <2>2, <2>3
<1>11. ASSUME NEW i \in 1..Len(rest), NEW j \in 1..Len(rest),
              rest[i].instrument = rest[j].instrument
       PROVE  i = j
  <2>1. /\ at[i] \in 1..Len(open) /\ rest[i] = open[at[i]]
        /\ at[j] \in 1..Len(open) /\ rest[j] = open[at[j]]
    BY <1>8
  <2>2. at[i] = at[j]
    BY <1>1, <1>11, <2>1
  <2> QED
    BY <1>8, <2>2
<1> HIDE DEF rest, open
<1>12. /\ \A u \in OpenRows' : \E n \in 1..Len(rest) : StandsNext(rest[n], u)
       /\ \A n \in 1..Len(rest) : \E u \in OpenRows' : StandsNext(rest[n], u)
  BY <1>6, <1>9, <1>10
<1> QED
  BY <1>11, <1>12, MirrorNext DEF rest

\* A fill registered and written: a position and a row more, of a pair that had none.
LEMMA MirrorOfFill ==
    ASSUME LedgerInv, Typed, Mirror, OnePerPair, Reconciled,
           NEW t \in Trades, Registers(t), "openRow" \notin happened'
    PROVE  Mirror'
<1> DEFINE open == risk.open
           p == [instrument |-> deal[t].instrument,
                 direction |-> deal[t].direction, risk |-> deal[t].risk]
           k == Len(open) + 1
<1>0. risk \in Risk /\ open \in Seq(Position) /\ Len(open) \in Nat
  BY LenProperties DEF Typed, Risk
<1>1. /\ \A u \in OpenRows : \E n \in 1..Len(open) : StandsFor(open[n], u)
      /\ \A n \in 1..Len(open) : \E u \in OpenRows : StandsFor(open[n], u)
      /\ \A n, m \in 1..Len(open) : open[n].instrument = open[m].instrument => n = m
  BY DEF Mirror, Running, Registers
<1>2. rows[t].status = "none" /\ InPlay(t)
  BY DEF Registers, LedgerInv, PendingInv, InPlay, InHand
<1>3. \A u \in OpenRows : deal[u].instrument # deal[t].instrument
  BY <1>2 DEF OnePerPair, InPlay, OpenRows
<1>4. p \in Position
  BY DEF Typed, Deal, Position
<1>5. risk'.open = Append(open, p)
  BY <1>0 DEF Registers, RegisterDeal, RegisterFill, Risk
<1>6. /\ OpenRows' = OpenRows \cup {t}
      /\ \A q : \A u \in OpenRows : StandsFor(q, u) <=> StandsNext(q, u)
      /\ StandsNext(p, t)
  <2>1. RecordOpen(t, deal[t].risk) /\ UNCHANGED deal
    BY DEF Registers
  <2>2. /\ \A u \in Trades \ {t} : rows'[u] = rows[u]
        /\ rows'[t].status = "open" /\ rows'[t].risk = deal[t].risk
    BY <2>1 DEF RecordOpen, NewRow, Typed
  <2> QED
    BY <1>2, <2>1, <2>2 DEF OpenRows, StandsFor, StandsNext
<1> HIDE DEF p
<1>7. /\ Len(Append(open, p)) = k
      /\ Append(open, p)[k] = p
      /\ \A n \in 1..Len(open) : Append(open, p)[n] = open[n]
  BY <1>0, <1>4, AppendProperties
<1> DEFINE more == risk'.open
<1>8. /\ Len(more) = k /\ more[k] = p
      /\ \A n \in 1..Len(open) : more[n] = open[n]
  BY <1>5, <1>7
<1>9. p.instrument = deal[t].instrument
  BY DEF p
<1> HIDE DEF more, open
<1>10. /\ 1..k = 1..Len(open) \cup {k} /\ k \notin 1..Len(open)
  BY <1>0
<1> HIDE DEF k
<1>11. ASSUME NEW u \in OpenRows' PROVE \E n \in 1..Len(more) : StandsNext(more[n], u)
  <2>1. CASE u = t
    BY <1>6, <1>8, <1>10, <2>1
  <2>2. CASE u # t
    <3>1. PICK n \in 1..Len(open) : StandsFor(open[n], u)
      BY <1>1, <1>6, <2>2
    <3> QED
      BY <1>6, <1>8, <1>10, <2>2, <3>1
  <2> QED
    BY <2>1, <2>2
<1>12. ASSUME NEW n \in 1..Len(more) PROVE \E u \in OpenRows' : StandsNext(more[n], u)
  <2>1. CASE n = k
    BY <1>6, <1>8, <2>1
  <2>2. CASE n # k
    <3>1. PICK u \in OpenRows : StandsFor(open[n], u)
      BY <1>1, <1>8, <1>10, <2>2
    <3> QED
      BY <1>6, <1>8, <1>10, <2>2, <3>1
  <2> QED
    BY <2>1, <2>2
<1>13. ASSUME NEW n \in 1..Len(open) PROVE open[n].instrument # p.instrument
  <2>1. PICK u \in OpenRows : StandsFor(open[n], u)
    BY <1>1
  <2> QED
    BY <1>3, <1>9, <2>1 DEF StandsFor
<1>14. \A n, m \in 1..Len(more) : more[n].instrument = more[m].instrument => n = m
  BY <1>1, <1>8, <1>10, <1>13
<1> QED
  BY <1>11, <1>12, <1>14, MirrorNext DEF more

\* The positions rebuilt from the broker's trades, all of which have a row now.
LEMMA MirrorOfRebuild ==
    ASSUME LedgerInv, Typed, AdoptRead, OnePerPair, Reconciled,
           Adopts(seen \ OpenRows), Held(seen)
    PROVE  Mirror'
<1> DEFINE size == Cardinality(seen)
<1>1. PICK newest \in [1..size -> seen] :
        /\ \A i, j \in DOMAIN newest : i < j => newest[i] > newest[j]
        /\ risk' = [risk EXCEPT !.open =
                       [i \in DOMAIN newest |-> PositionOf(newest[i])]]
  BY DEF Held
<1>2. /\ seen \subseteq Trades /\ IsFiniteSet(seen) /\ size \in Nat
  BY TradesFinite, FS_CardinalityType DEF LedgerInv, Shapes
<1>3. pc = "adopt" /\ OpenRows \subseteq seen /\ UNCHANGED deal
  BY DEF Adopts, AdoptRead
<1>4. /\ OpenRows' = seen
      /\ \A t \in seen : StandsNext(PositionOf(t), t)
  <2>1. \A t \in Trades :
           /\ t \in seen \ OpenRows => rows'[t] = NewRow("open", 0, 0, "none")
           /\ t \notin seen \ OpenRows => rows'[t] = rows[t]
    BY DEF Adopts, Adopted
  <2>2. OpenRows' = seen
    BY <1>2, <1>3, <2>1 DEF OpenRows, NewRow
  <2>3. \A t \in seen : rows'[t].risk = KnownRisk(t)
    BY <1>2, <2>1 DEF OpenRows, NewRow, KnownRisk
  <2> QED
    BY <1>2, <1>3, <2>2, <2>3 DEF StandsNext, PositionOf
<1> DEFINE open == risk'.open
<1>5. /\ Len(open) = size
      /\ \A i \in 1..size : open[i] = PositionOf(newest[i])
  <2>1. open = [i \in 1..size |-> PositionOf(newest[i])]
    BY <1>1 DEF Typed, Risk
  <2> QED
    BY <1>2, <2>1
<1>6. newest \in Injection(1..size, seen)
  <2>1. \A i, j \in 1..size : newest[i] = newest[j] => i = j
    <3>1. \A i \in 1..size : newest[i] \in Nat
      BY <1>1, <1>2, LiveAssumption DEF Trades, LiveAssumption
    <3> QED
      BY <1>1, <3>1
  <2> QED
    BY <1>1, <2>1 DEF Injection, IsInjective
<1>7. newest \in Surjection(1..size, seen)
  <2>1. Cardinality(1..size) = size
    BY <1>2, FS_Interval
  <2> QED
    BY <1>2, <1>6, <2>1, FS_Injection
<1> HIDE DEF open, size
<1>8. ASSUME NEW t \in OpenRows' PROVE \E n \in 1..Len(open) : StandsNext(open[n], t)
  <2>1. PICK n \in 1..size : newest[n] = t
    BY <1>4, <1>7 DEF Surjection
  <2> QED
    BY <1>4, <1>5, <2>1
<1>9. ASSUME NEW n \in 1..Len(open) PROVE \E t \in OpenRows' : StandsNext(open[n], t)
  BY <1>4, <1>5
<1>10. ASSUME NEW n \in 1..Len(open), NEW m \in 1..Len(open),
              open[n].instrument = open[m].instrument
       PROVE  n = m
  <2>1. /\ newest[n] \in seen /\ newest[m] \in seen
        /\ open[n] = PositionOf(newest[n]) /\ open[m] = PositionOf(newest[m])
    BY <1>5
  <2>2. deal[newest[n]].instrument = deal[newest[m]].instrument
    BY <1>10, <2>1 DEF PositionOf
  <2>3. newest[n] = newest[m]
    BY <1>2, <1>3, <2>1, <2>2 DEF OnePerPair, InPlay, InHand
  <2> QED
    BY <1>5, <1>6, <2>3 DEF Injection, IsInjective
<1> QED
  BY <1>8, <1>9, <1>10, MirrorNext DEF open

LEMMA MirrorKind ==
    ASSUME LedgerInv, Typed, AdoptRead, OnePerPair, Mirror, StepKind,
           happened \subseteq happened'
    PROVE  Mirror'
<1> SUFFICES ASSUME Reconciled', Running' PROVE Mirror'
  BY DEF Mirror
<1>0. /\ Reconciled
      /\ happened' \cap {"openRow", "orderLost", "bootRead", "closeRow",
                          "journal"} = {}
  BY ReconciledBefore
<1>1. CASE Looks
  BY <1>0, <1>1, MirrorKept DEF Looks, SameMoney
<1>2. CASE Leaves \/ GivesUp \/ ReadsBooks \/ Boots
  BY <1>0, <1>2 DEF Leaves, GivesUp, ReadsBooks, Boots, Boot, Goto, Running
<1>3. ASSUME NEW t \in Trades, BrokerActs(t) PROVE Mirror'
  <2>1. \A u \in OpenRows : /\ deal'[u].instrument = deal[u].instrument
                            /\ deal'[u].direction = deal[u].direction
    BY <1>3 DEF BrokerActs, Becoming, OpenRows
  <2> QED
    BY <1>0, <1>3, <2>1, MirrorKept DEF BrokerActs, Running
<1>4. ASSUME NEW t \in Trades, BotActs(t) PROVE Mirror'
  <2>1. \A u \in OpenRows : /\ deal'[u].instrument = deal[u].instrument
                            /\ deal'[u].direction = deal[u].direction
    BY <1>4 DEF BotActs, Becoming, OpenRows
  <2> QED
    BY <1>0, <1>4, <2>1, MirrorKept DEF BotActs
<1>5. ASSUME NEW t \in Trades, Miscounts(t) PROVE Mirror'
  BY <1>0, <1>5 DEF Miscounts
<1>6. ASSUME NEW t \in Trades, Registers(t) PROVE Mirror'
  BY <1>0, <1>6, MirrorOfFill
<1>7. ASSUME NEW t \in Trades, NEW pnl \in Int, Books(t, pnl) PROVE Mirror'
  <2>1. pc = "sync"
    BY <1>0, <1>7 DEF Books, Running
  <2> QED
    BY <1>0, <1>7, <2>1, MirrorOfClose
<1>8. ASSUME NEW t \in Trades, NEW sig \in Signals, Fills(t, sig) PROVE Mirror'
  <2>1. /\ rows[t].status = "none" /\ UNCHANGED rows /\ SameMoney /\ pc = "enter"
        /\ \A u \in Trades \ {t} : deal'[u] = deal[u]
    BY <1>8, FillShape
  <2>2. \A u \in OpenRows : deal'[u] = deal[u]
    BY <2>1 DEF OpenRows
  <2> QED
    BY <1>0, <2>1, <2>2, MirrorKept DEF SameMoney, Running
<1>9. ASSUME NEW orphans, Adopts(orphans) PROVE Mirror'
  <2>1. orphans = seen \ OpenRows /\ Held(seen)
    BY <1>0, <1>9 DEF Adopts
  <2> QED
    BY <1>0, <1>9, <2>1, MirrorOfRebuild
<1> QED
  BY <1>1, <1>2, <1>3, <1>4, <1>5, <1>6, <1>7, <1>8, <1>9 DEF StepKind

PairInv == OnePerPair /\ Mirror

LEMMA PairInvariant == Spec => []PairInv
<1>1. Init => PairInv
  BY DEF Init, NoDeal, NewRow, PairInv, OnePerPair, Mirror, InPlay, InHand, Running
<1>2. PairInv /\ UNCHANGED vars => PairInv'
  BY DEF PairInv, OnePerPair, Mirror, InPlay, InHand, Running, OpenRows, StandsFor,
     Reconciled, NoneOf, vars, store, memory, control, count
<1>3. /\ LedgerInv /\ Typed /\ AdoptRead /\ KnownInv /\ PairInv
      /\ (StepKind \/ UNCHANGED vars) /\ happened \subseteq happened'
      => PairInv'
  BY <1>2, OnePerPairKind, MirrorKind DEF PairInv
<1> QED
  BY <1>1, <1>3, HappenedGrows, TypedStep, TypedInvariant, AdoptReadInvariant,
     KnownInvariant, LedgerInvariant, PTL DEF Spec

\* OneTradePerInstrument: the broker never holds two trades of a pair, though
\* evaluate looks in memory only and memory is rebuilt by every restart.
THEOREM PairTradedOnce == Spec => []OneTradePerInstrument
<1>1. PairInv => OneTradePerInstrument
  <2> SUFFICES ASSUME PairInv, Reconciled, NEW i \in Instruments
               PROVE  Cardinality(OfInstrument(AtBroker, i)) <= 1
    BY DEF OneTradePerInstrument
  <2>1. \A t, u \in OfInstrument(AtBroker, i) : t = u
    BY DEF PairInv, OnePerPair, InPlay, OfInstrument, AtBroker
  <2>2. CASE OfInstrument(AtBroker, i) = {}
    BY <2>2, FS_EmptySet
  <2>3. CASE OfInstrument(AtBroker, i) # {}
    <3>1. PICK t : OfInstrument(AtBroker, i) = {t}
      BY <2>1, <2>3
    <3>2. Cardinality({t}) = 1
      BY FS_Singleton
    <3> QED
      BY <3>1, <3>2
  <2> QED
    BY <2>2, <2>3
<1> QED
  BY <1>1, PairInvariant, PTL

\* RiskMirrorsRows: between two events positions and open rows correspond, one
\* to one, after any number of fills, closes and restarts.
THEOREM MemoryMirrorsTable == Spec => []RiskMirrorsRows
<1>1. Typed /\ PairInv => RiskMirrorsRows
  <2> SUFFICES ASSUME Typed, PairInv, pc = "idle", Reconciled
               PROVE  \E held \in Bijection(OpenRows, DOMAIN risk.open) :
                         \A t \in OpenRows : StandsFor(risk.open[held[t]], t)
    BY DEF RiskMirrorsRows
  <2> DEFINE places == 1..Len(risk.open)
             held == [t \in OpenRows |->
                        CHOOSE n \in places : StandsFor(risk.open[n], t)]
  <2>1. DOMAIN risk.open = places
    BY LenProperties DEF Typed, Risk
  <2>2. /\ \A t \in OpenRows : \E n \in places : StandsFor(risk.open[n], t)
        /\ \A n \in places : \E t \in OpenRows : StandsFor(risk.open[n], t)
        /\ \A n, m \in places :
              risk.open[n].instrument = risk.open[m].instrument => n = m
    BY DEF PairInv, Mirror, Running
  <2>3. /\ held \in [OpenRows -> places]
        /\ \A t \in OpenRows : StandsFor(risk.open[held[t]], t)
    BY <2>2
  <2> HIDE DEF held, places
  <2>4. \A t, u \in OpenRows : held[t] = held[u] => t = u
    <3> SUFFICES ASSUME NEW t \in OpenRows, NEW u \in OpenRows, held[t] = held[u]
                 PROVE  t = u
      OBVIOUS
    <3>1. deal[t].instrument = deal[u].instrument
      BY <2>3 DEF StandsFor
    <3> QED
      BY <3>1 DEF PairInv, OnePerPair, InPlay, OpenRows
  <2>5. ASSUME NEW n \in places PROVE \E t \in OpenRows : held[t] = n
    <3>1. PICK t \in OpenRows : StandsFor(risk.open[n], t)
      BY <2>2
    <3>2. held[t] \in places /\ StandsFor(risk.open[held[t]], t)
      BY <2>3
    <3>3. held[t] = n
      BY <2>2, <3>1, <3>2 DEF StandsFor
    <3> QED
      BY <3>3
  <2>6. held \in Bijection(OpenRows, places)
    BY <2>3, <2>4, <2>5 DEF Bijection, Injection, Surjection, IsInjective
  <2> QED
    BY <2>1, <2>3, <2>6
<1> QED
  BY <1>1, TypedInvariant, PairInvariant, PTL
=============================================================================
