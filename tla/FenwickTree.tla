---------------------------- MODULE FenwickTree ----------------------------
(***************************************************************************)
(* The growing Fenwick tree in which FundingEscrow keeps the funders'        *)
(* intervals: wallets are numbered in the order of their first deposit, node *)
(* i holds what the wallets numbered i - LowBit[i] + 1 .. i deposited, and   *)
(* fundingPrefixEnd is a logarithmic walk.  Nothing else of the escrow is    *)
(* here; a contribution is any that _deposit can hand on.                    *)
(***************************************************************************)
EXTENDS FundingEscrow, FiniteSets

VARIABLES
    fundingTree,    \* _fundingTree, by node
    funderIndex,    \* _funderIndex: 0 until the first deposit
    funderCount,    \* _funderCount
    contributions,
    totalDeposited

treeVars == <<fundingTree, funderIndex, funderCount, contributions, totalDeposited>>

Nodes == 1..Cardinality(Funders)

\* index & (~index + 1), the lowest bit: that of an odd index is one, and halving an
\* even index moves it down by one place.
LowBit[i \in Nodes] == IF i % 2 = 1 THEN 1 ELSE 2 * LowBit[i \div 2]

\* _prefixSum: from the node down to zero, dropping the lowest bit each time.
PrefixSum(tree, index) ==
    LET sum[i \in 0..Cardinality(Funders)] ==
            IF i = 0 THEN 0 ELSE tree[i] + sum[i - LowBit[i]]
    IN  sum[index]

\* The nodes a top-up visits: the wallet's own and every existing ancestor.
\* The comparison is written as in the code, without computing the parent.
Ancestors(index, count) ==
    LET up[i \in 1..count] ==
            {i} \cup IF LowBit[i] > count - i THEN {} ELSE up[i + LowBit[i]]
    IN  up[index]

\* Mutant: a new node ignores the wallets its range takes over.
NewNodeAlone(tree, index, total, amount) == amount

\* A new node takes over every earlier wallet of its range with all top-ups.
NewNode(tree, index, total, amount) ==
    total - PrefixSum(tree, index - LowBit[index]) + amount

FundingPrefixEnd(f) == PrefixSum(fundingTree, funderIndex[f])

TreeInit ==
    /\ fundingTree = [i \in Nodes |-> 0]
    /\ funderIndex = [f \in Funders |-> 0]
    /\ funderCount = 0
    /\ contributions = [f \in Funders |-> 0]
    /\ totalDeposited = 0

\* _recordContribution, first deposit of a wallet
Join(f, amount) ==
    /\ funderIndex[f] = 0
    /\ funderCount' = funderCount + 1
    /\ funderIndex' = [funderIndex EXCEPT ![f] = funderCount + 1]
    /\ fundingTree' = [fundingTree EXCEPT ![funderCount + 1] =
                          NewNode(fundingTree, funderCount + 1, totalDeposited, amount)]

\* _recordContribution, top-up
TopUp(f, amount) ==
    /\ funderIndex[f] # 0
    /\ LET visited == Ancestors(funderIndex[f], funderCount)
       IN  fundingTree' = [i \in Nodes |->
                              fundingTree[i] + IF i \in visited THEN amount ELSE 0]
    /\ UNCHANGED <<funderIndex, funderCount>>

\* _deposit around it: the tree is updated before the totals are.
Contribute(f, amount) ==
    /\ totalDeposited + amount <= Target
    /\ contributions' = Credit(contributions, f, amount)
    /\ totalDeposited' = totalDeposited + amount

TreeNext ==
    \E f \in Funders, amount \in 1..Target :
        /\ Contribute(f, amount)
        /\ Join(f, amount) \/ TopUp(f, amount)

TreeSpec == TreeInit /\ [][TreeNext]_treeVars

-----------------------------------------------------------------------------
\* The part of an escrow that the abstract model keeps.
Ledger == [contributions |-> contributions, totalDeposited |-> totalDeposited,
           ends |-> [f \in Funders |-> FundingPrefixEnd(f)]]

\* The walks up and down the tree together are the interval arithmetic that the
\* escrow model uses in their place: a new wallet's interval starts where the
\* others end, a top-up shifts every later one.
ImplementsDeposit ==
    [][\/ UNCHANGED treeVars
       \/ \E f \in Funders, amount \in 1..Target :
             Ledger' = Deposit(Ledger, f, amount)]_Ledger
=============================================================================
