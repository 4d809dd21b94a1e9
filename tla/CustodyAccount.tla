--------------------------- MODULE CustodyAccount ---------------------------
(***************************************************************************)
(* What any custody contract promises about the money it holds: it collects *)
(* up to a target, pays only out of a completed collection, and once it      *)
(* starts giving money back it does nothing else; what it holds is always    *)
(* what came in less what went out.                                         *)
(***************************************************************************)
EXTENDS Naturals

CONSTANTS Accounts, Target

VARIABLES
    phase,      \* "collecting", "paying" or "refunding"
    held,       \* the tokens the account holds
    deposited,
    paid,
    returned

vars == <<phase, held, deposited, paid, returned>>

TypeOK ==
    /\ phase \in [Accounts -> {"collecting", "paying", "refunding"}]
    /\ held \in [Accounts -> Nat] /\ deposited \in [Accounts -> 0..Target]
    /\ paid \in [Accounts -> Nat] /\ returned \in [Accounts -> Nat]

Init ==
    /\ phase = [a \in Accounts |-> "collecting"]
    /\ held = [a \in Accounts |-> 0] /\ deposited = [a \in Accounts |-> 0]
    /\ paid = [a \in Accounts |-> 0] /\ returned = [a \in Accounts |-> 0]

Collect(a, amount) ==
    /\ phase[a] = "collecting"
    /\ deposited[a] + amount <= Target
    /\ deposited' = [deposited EXCEPT ![a] = @ + amount]
    /\ held' = [held EXCEPT ![a] = @ + amount]
    /\ UNCHANGED <<phase, paid, returned>>

Pay(a, amount) ==
    /\ phase[a] # "refunding"
    /\ deposited[a] = Target
    /\ amount <= held[a]
    /\ phase' = [phase EXCEPT ![a] = "paying"]
    /\ paid' = [paid EXCEPT ![a] = @ + amount]
    /\ held' = [held EXCEPT ![a] = @ - amount]
    /\ UNCHANGED <<deposited, returned>>

OpenRefunds(a) ==
    /\ phase[a] # "refunding"
    /\ phase' = [phase EXCEPT ![a] = "refunding"]
    /\ UNCHANGED <<held, deposited, paid, returned>>

\* A refund may be what opens the refunds.
Refund(a, amount) ==
    /\ amount <= held[a]
    /\ phase' = [phase EXCEPT ![a] = "refunding"]
    /\ returned' = [returned EXCEPT ![a] = @ + amount]
    /\ held' = [held EXCEPT ![a] = @ - amount]
    /\ UNCHANGED <<deposited, paid>>

Next ==
    \E a \in Accounts :
        \/ OpenRefunds(a)
        \/ \E amount \in 1..Target :
              Collect(a, amount) \/ Pay(a, amount) \/ Refund(a, amount)

Spec == Init /\ [][Next]_vars
=============================================================================
