---------------------------- MODULE MCGrantPool ----------------------------
(* Small instances of the grant workflow for TLC.                             *)
EXTENDS GrantProperties, TLC

CONSTANTS p1, p2, v1

TwoPlan == 0 :> 0 @@ 1 :> 33 @@ 2 :> 100
Windows == [i \in 0..(Tranches - 1) |-> 1]

(* Bounds of the run: the posting is edited once, before its pool opens; the   *)
(* first grant reaches its second tranche, the second proposal is the one that *)
(* is edited; nothing else holds up the posting while it is paused; the token  *)
(* is delisted before the first grant is funded or not at all.               *)
DivisionOfLabour ==
    /\ pool'.created => posting'.revision = 1
    /\ proposals'[p1].revision = 0
    /\ escrows'[p2].evidence = NoEvidence
    /\ escrows'[p2].currentTranche <= 1
    /\ posting'.paused => listed' /\ ~posting'.withdrawn
    /\ listed' \/ \A p \in Proposals : escrows'[p].totalDeposited = 0
=============================================================================
