--------------------------- MODULE AwardProtocol ---------------------------
(***************************************************************************)
(* What competing proposals promise a posting: at most one of them is under *)
(* selection at any time, a selection ends by being dropped or by a first    *)
(* payment, and the posting pays one proposal only.                         *)
(***************************************************************************)
CONSTANTS Postings, Proposals, None

VARIABLES
    pending,    \* the proposal under selection at each posting, or None
    paid        \* the proposals each posting has paid

vars == <<pending, paid>>

TypeOK ==
    /\ pending \in [Postings -> Proposals \cup {None}]
    /\ paid \in [Postings -> SUBSET Proposals]

Init ==
    /\ pending = [q \in Postings |-> None]
    /\ paid = [q \in Postings |-> {}]

Select(q, p) ==
    /\ pending[q] = None /\ paid[q] = {}
    /\ pending' = [pending EXCEPT ![q] = p]
    /\ UNCHANGED paid

Drop(q) ==
    /\ pending[q] # None
    /\ pending' = [pending EXCEPT ![q] = None]
    /\ UNCHANGED paid

Award(q, p) ==
    /\ pending[q] = p /\ paid[q] = {}
    /\ pending' = [pending EXCEPT ![q] = None]
    /\ paid' = [paid EXCEPT ![q] = {p}]

Next ==
    \E q \in Postings :
        \/ Drop(q)
        \/ \E p \in Proposals : Select(q, p) \/ Award(q, p)

Spec == Init /\ [][Next]_vars
=============================================================================
