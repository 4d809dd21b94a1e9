---------------------------- MODULE MCEscrowMoney ----------------------------
(* The money of one escrow for TLC, and beside it the tree that holds its      *)
(* funders' intervals, with more wallets than the escrow itself can be given.  *)
EXTENDS MCEscrowWorkflow, Bitwise

(* The escrow.  This run leaves out what only the registry's owners do after    *)
(* the proposal is filed (edits, withdrawals, pauses, delisting).  A context    *)
(* that was read then never goes stale, so its deposit may as well follow at    *)
(* once.                                                                      *)
MoneyNext ==
    \/ \E p \in Proposals, r \in 0..MaxRevision : CommitProposalWithEscrow(p, r)
    \/ Funding \/ Settlement \/ Unwinding \/ Tick

NobodyReviews == \A f \in Funders, p \in Proposals : reviewed[f][p] = NoReview
DepositFollowsReview == NobodyReviews \/ NobodyReviews'

-----------------------------------------------------------------------------
(* The tree: eight wallets, so that nodes of up to four levels exist, and twelve *)
(* units in steps of one or three.  Wallets are numbers that join in order: a    *)
(* renaming, since the tree never looks at them.                               *)
VARIABLES fundingTree, funderIndex, funderCount, contributions, totalDeposited

treeVars == <<fundingTree, funderIndex, funderCount, contributions, totalDeposited>>

Wallets == 1..8
Units == 12

Tree == INSTANCE FenwickTree WITH Funders <- Wallets, Target <- Units

\* The code's expression on words of four bits, where ~index + 1 is 16 - index.
ASSUME LowBitIsTheCodes == \A i \in Wallets : Tree!LowBit[i] = i & (16 - i)

InOrder(f) == funderIndex[f] # 0 \/ f = funderCount + 1

TreeNext ==
    \E f \in Wallets, amount \in {1, 3} :
        /\ InOrder(f)
        /\ Tree!Contribute(f, amount)
        /\ Tree!Join(f, amount) \/ Tree!TopUp(f, amount)

\* What FenwickTree says of its tree.
ImplementsDeposit == Tree!ImplementsDeposit

-----------------------------------------------------------------------------
(* Neither reads the other's state: the tree grows while the escrow rests, and  *)
(* the escrow moves while the tree is empty.                                   *)
NothingFiled == \A p \in Proposals : ~proposals[p].submitted
TreeIsEmpty == funderCount = 0

MoneyInit == Init /\ Tree!TreeInit

MoneyAndTreeNext ==
    \/ TreeIsEmpty /\ MoneyNext /\ UNCHANGED treeVars
    \/ NothingFiled /\ TreeNext /\ UNCHANGED vars

MoneySpec == MoneyInit /\ [][MoneyAndTreeNext]_<<vars, treeVars>>
=============================================================================
