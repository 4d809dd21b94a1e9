--------------------------- MODULE MCPostingPause ---------------------------
(* Small instances of the pause mirror for TLC.                               *)
EXTENDS PostingPause

CONSTANTS sweeper, call, pause, unpause, pay

(* Bounds of the run with a member's call.  It starts while its payment is not *)
(* on the chain, and never on a lease that the sweep let lapse: calls that     *)
(* come without end could keep the sweep from the signer.                     *)
CallsAreUseful ==
    worker[call].pc = "idle" /\ worker'[call].pc # "idle" =>
        ~Executed(pay, Chain) /\ outbox.token # sweeper

(* Nor does it clear the outbox of a pause that the sweep is about to ask for      *)
(* again: the second one would be one nonce more than the run has.             *)
NothingIsAskedTwice ==
    Concerns /\ outbox.tx # NoTx /\ outbox'.tx = NoTx => sweep.pc # "submit"

UsefulCalls == CallsAreUseful /\ SweepIsNotOvertaken /\ NothingIsAskedTwice
=============================================================================
