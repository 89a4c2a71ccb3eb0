------------------------- MODULE MCCoreProverEngine -------------------------
(***************************************************************************)
(* Small instances of CoreProverEngine for TLC.  The windows are a few     *)
(* seconds long, so that every deadline can be met, hit exactly and missed *)
(* within the bounded clock.                                               *)
(***************************************************************************)
EXTENDS EngineView, TLC

CONSTANTS tx1, tx2, blank

Profile(accept, fulfill, claim, release, discount) ==
    [acceptance_window_secs |-> accept, fulfillment_window_secs |-> fulfill,
     claim_window_secs |-> claim, allows_timed_release |-> release,
     enables_late_discount |-> discount, late_discount_pct |-> 10,
     discount_expiration_days |-> 1]

(* PaymentProfile::pizza_delivery scaled down, and one without timed       *)
(* release and without discount.                                           *)
Pizza == Profile(1, 1, 1, TRUE, TRUE)
Goods == Profile(0, 1, 2, FALSE, FALSE)
Hasty == Profile(0, 0, 1, TRUE, TRUE)

OneTx == {tx1, blank}
TwoTxs == {tx1, tx2, blank}
PizzaAndGoods == {Pizza, Goods}
PizzaOnly == {Pizza}
HastyAndGoods == {Hasty, Goods}

OneSecond == {1}
OneOrTwoSeconds == {1, 2}
OneOrThreeSeconds == {1, 3}

(* The txids are interchangeable, the blank one apart. *)
TxSymmetry == Permutations({tx1, tx2})
=============================================================================
