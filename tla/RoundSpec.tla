----------------------------- MODULE RoundSpec -----------------------------
(***************************************************************************)
(* What one voting round promises to those outside of the client, without  *)
(* locks, queues, verifiers and partly written fields: the round makes at  *)
(* most one choice, it does so before it closes, and whatever is built,    *)
(* signed or published afterwards is that choice, as a whole.              *)
(* RoundLife implements this specification (RoundLife!ImplementsRound).    *)
(***************************************************************************)
EXTENDS Naturals

CONSTANTS
    Requests,     \* requests the round may receive
    Verifiable,   \* those the client has a verifier for
    Signers,      \* callers who ask for the root
    Publishers    \* callers who ask for the attestations with proofs

VARIABLES
    made, choice, \* whether there is a choice, and the choice
    closed,       \* the time to choose is over
    root,         \* what the stored root covers, {} while there is none
    signed,       \* signed[h]: what the root last given to h covers
    published     \* published[h]: what was last given to h with proofs

vars == <<made, choice, closed, root, signed, published>>

Init ==
    /\ made = FALSE
    /\ choice = {}
    /\ closed = FALSE
    /\ root = {}
    /\ signed = [h \in Signers |-> {}]
    /\ published = [h \in Publishers |-> {}]

Choose(C) ==
    /\ ~made /\ ~closed
    /\ made' = TRUE
    /\ choice' = C
    /\ UNCHANGED <<closed, root, signed, published>>

Close ==
    /\ ~closed
    /\ closed' = TRUE
    /\ UNCHANGED <<made, choice, root, signed, published>>

\* There is something to sign, and every part of it was verified.
Signable == closed /\ made /\ choice # {} /\ choice \subseteq Verifiable

Build ==
    /\ Signable
    /\ root' = choice
    /\ UNCHANGED <<made, choice, closed, signed, published>>

\* The root is stored before or together with the first answer.
Sign(h) ==
    /\ Signable
    /\ root' = choice
    /\ signed' = [signed EXCEPT ![h] = choice]
    /\ UNCHANGED <<made, choice, closed, published>>

Publish(h) ==
    /\ Signable
    /\ root = choice
    /\ published' = [published EXCEPT ![h] = choice]
    /\ UNCHANGED <<made, choice, closed, root, signed>>

\* A caller asks again; the previous answer is of no interest any more.
AskRoot(h) ==
    /\ signed' = [signed EXCEPT ![h] = {}]
    /\ UNCHANGED <<made, choice, closed, root, published>>

AskProofs(h) ==
    /\ published' = [published EXCEPT ![h] = {}]
    /\ UNCHANGED <<made, choice, closed, root, signed>>

Next ==
    \/ \E C \in SUBSET Requests : Choose(C)
    \/ Close
    \/ Build
    \/ \E h \in Signers : Sign(h) \/ AskRoot(h)
    \/ \E h \in Publishers : Publish(h) \/ AskProofs(h)

Spec == Init /\ [][Next]_vars

=============================================================================
