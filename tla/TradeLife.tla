------------------------------ MODULE TradeLife ------------------------------
(***************************************************************************)
(* What the persistent ledger promises of every trade, whoever closes it:  *)
(* it is filled, it ends at the broker, and then, once and for good, it is *)
(* booked.  Only a trade that was never written down may be lost instead,  *)
(* and only once the environment has failed: from then on it is not        *)
(* reliable.                                                               *)
(***************************************************************************)
CONSTANT Trades

VARIABLES stage, reliable

vars == <<stage, reliable>>

Stages == {"none", "live", "ended", "booked", "lost"}

Init == stage = [t \in Trades |-> "none"] /\ reliable = TRUE

Forward == {<<"none", "live">>, <<"live", "ended">>, <<"ended", "booked">>}
Lost == {<<"live", "lost">>, <<"ended", "lost">>}

Next ==
    /\ stage' \in [Trades -> Stages]
    /\ reliable' \in {reliable, FALSE}
    /\ \A t \in Trades :
          \/ stage'[t] = stage[t]
          \/ <<stage[t], stage'[t]>> \in Forward
          \/ <<stage[t], stage'[t]>> \in Lost /\ ~reliable'

Book(t) ==
    /\ stage[t] = "ended"
    /\ stage' = [stage EXCEPT ![t] = "booked"]

Spec == Init /\ [][Next]_vars /\ \A t \in Trades : WF_stage(Book(t))
=============================================================================
