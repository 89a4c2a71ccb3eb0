-------------------------- MODULE MCCoreProverEscrow --------------------------
(* Small instances of CoreProverEscrow for TLC. *)
EXTENDS CoreProverEscrow, TLC

CONSTANTS o1, o2, alice, bob, safe

OneOrder == {o1}
TwoOrders == {o1, o2}

(* Any account may be buyer or seller, both at once too; safe is a         *)
(* contract without a receive function.                                    *)
AllAccounts == {alice, bob, safe}
TwoAccounts == {alice, bob}
NoAccounts == {}
OnlySafe == {safe}

NoOrSomeEther == {0, 1, 2}
OneEther == {1}
NoOrOneEther == {0, 1}

(* A window of zero seconds closes in the block that opens it. *)
ZeroOrOneSecond == {0, 1}
OneOrTwoSeconds == {1, 2}
OneSecond == {1}

OrderSymmetry == Permutations(TwoOrders) \cup Permutations(TwoAccounts)
=============================================================================
