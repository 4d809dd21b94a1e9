------------------------ MODULE MCIndependentFunding ------------------------
(* Small instances of the independent escrow for TLC.  FundingEscrow's payment *)
(* plan is given the halves that this contract pays.                          *)
EXTENDS IndependentProperties, TLC

CONSTANTS f1, f2, v1, v2

Halves == 0 :> 0 @@ 1 :> 50 @@ 2 :> 100
Windows == [i \in 0..(Tranches - 1) |-> ReviewTime]
=============================================================================
