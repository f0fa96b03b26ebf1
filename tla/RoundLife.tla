----------------------------- MODULE RoundLife -----------------------------
(***************************************************************************)
(* One voting round of the client, shared by four kinds of goroutines:     *)
(*                                                                         *)
(*  - the manager: adds requests to the round, computes the consensus      *)
(*    bitVote and retries the chosen requests that are not confirmed       *)
(*    (client/manager/manager.go, client/round/round.go);                  *)
(*  - the queue workers: pop a request, discard it or have a verifier      *)
(*    confirm it (client/manager/queues.go, attestation.go);               *)
(*  - the FSP handlers submit2 and submitSignatures                        *)
(*    (server/providerServices.go);                                        *)
(*  - the DA handler getAttestations (server/daServices.go).               *)
(*                                                                         *)
(* They share the round under Round.RWMutex, every attestation under       *)
(* Attestation.RWMutex and the round's status under RoundStatusMutex.      *)
(* A mutex is not a variable: it is held exactly while its owner is        *)
(* between two steps of its critical section (WriteLocked, Handled,        *)
(* HeldByRetry), or for good after a leak (leaked).                        *)
(*                                                                         *)
(* Data that is left out: a request is a number, its position in the       *)
(* emission order of its log; the hash of a confirmed request is the       *)
(* request, which is so when the verifier encodes it the same way every    *)
(* time (HashAgreement in Verification); a BitVote or a Merkle tree is the *)
(* set of requests it covers.  How the consensus is computed is the        *)
(* subject of module BitVotes: here it may be any set of the requests.     *)
(***************************************************************************)
EXTENDS Naturals, FiniteSets

CONSTANTS
    N,            \* number of distinct requests the round may receive
    Supported,    \* requests with a configured type, source and queue
    MaxAttempts,  \* max_attempts of the queues
    MaxWorkers,   \* max_workers of the queue
    Outcomes,     \* what a call of Handle may leave in Attestation.Status
    Submit2,      \* whether submit2 is called
    Fsp,          \* concurrent submitSignatures calls
    Da            \* concurrent getAttestations calls

Atts == 1..N

Kinds == {"regular", "fast"}

VerifierOutcomes ==
    {"Success", "WrongMIC", "InvalidLUT", "ProcessError", "Unconfirmed"}

Statuses == VerifierOutcomes \cup {"Waiting", "UnsupportedPair", "Processing"}

ItemStates == {"none", "queued", "checked", "handling", "gone"}

ASSUME ConstantsAssumption ==
    /\ N \in Nat
    /\ Supported \subseteq Atts
    /\ MaxAttempts \in Nat \ {0}
    /\ MaxWorkers \in Nat \ {0}
    /\ Outcomes \subseteq VerifierOutcomes
    /\ Submit2 \in BOOLEAN

VARIABLES
    added,        \* Round.Attestations
    status,       \* Attestation.Status
    consensus,    \* the requests with Attestation.Consensus
    roundStatus,  \* Round.Status.Value
    bitVector,    \* Round.ConsensusBitVote, meaningful once decided
    decided,      \* Round.ConsensusBitVote.BitVector # nil
    finished,     \* Round.ConsensusCalculationFinished
    tree,         \* Round.merkleTree, {} while it is not built
    leaked,       \* a read lock of the round was never released
    mgr,          \* the manager: "idle", "setting" (in setConsensusStatus),
                  \* "retry" (in retryUnsuccessfulChosen)
    mtodo,        \* requests the manager's loop has yet to visit
    item,         \* item[k][a]: the entry of a in the regular or fast queue
    attempts,     \* attempts[k][a]: failed calls of Handle for that entry
    voting,       \* submit2 is between Lock and Unlock of the round
    vtodo, vgot,  \* requests BitVoteFromAttestations has yet to read, bits set
    vote,         \* the last bitVote submit2 returned
    fspPc, fspBv, fspReply,          \* submitSignatures
    daPc, daTree, daTodo, daGot, daReply   \* getAttestations

roundVars == <<added, consensus, roundStatus, bitVector, decided, finished>>
treeVars  == <<tree, leaked>>
mgrVars   == <<mgr, mtodo>>
queueVars == <<item, attempts>>
voteVars  == <<voting, vtodo, vgot, vote>>
fspVars   == <<fspPc, fspBv, fspReply>>
daVars    == <<daPc, daTree, daTodo, daGot, daReply>>
vars == <<roundVars, treeVars, status, mgrVars, queueVars, voteVars,
          fspVars, daVars>>

NoReply == [st |-> "none", data |-> {}, bv |-> {}]

Replies == [st: {"none", "Retry", "Empty", "NotAvailable", "Ok"},
            data: SUBSET Atts, bv: SUBSET Atts]

TypeOK ==
    /\ added \subseteq Atts
    /\ status \in [Atts -> Statuses]
    /\ consensus \subseteq added
    /\ roundStatus \in {"PreConsensus", "Consensus", "Done"}
    /\ bitVector \subseteq added
    /\ decided \in BOOLEAN
    /\ finished \in BOOLEAN
    /\ tree \subseteq added
    /\ leaked \in BOOLEAN
    /\ mgr \in {"idle", "setting", "retry"}
    /\ mtodo \subseteq added
    /\ item \in [Kinds -> [Atts -> ItemStates]]
    /\ attempts \in [Kinds -> [Atts -> 0..MaxAttempts]]
    /\ voting \in BOOLEAN
    /\ vtodo \subseteq added
    /\ vgot \subseteq added
    /\ vote \subseteq added
    /\ fspPc \in [Fsp -> {"idle", "computed", "cached", "merkle"}]
    /\ fspBv \in [Fsp -> [has: BOOLEAN, bv: SUBSET Atts]]
    /\ fspReply \in [Fsp -> Replies]
    /\ daPc \in [Da -> {"idle", "merkle", "reading"}]
    /\ daTree \in [Da -> SUBSET Atts]
    /\ daTodo \in [Da -> SUBSET Atts]
    /\ daGot \in [Da -> SUBSET Atts]
    /\ daReply \in [Da -> Replies]

-----------------------------------------------------------------------------
(* Round.New and an empty set of queues.                                   *)

Init ==
    /\ added = {}
    /\ status = [a \in Atts |-> "Waiting"]
    /\ consensus = {}
    /\ roundStatus = "PreConsensus"
    /\ bitVector = {}
    /\ decided = FALSE
    /\ finished = FALSE
    /\ tree = {}
    /\ leaked = FALSE
    /\ mgr = "idle"
    /\ mtodo = {}
    /\ item = [k \in Kinds |-> [a \in Atts |-> "none"]]
    /\ attempts = [k \in Kinds |-> [a \in Atts |-> 0]]
    /\ voting = FALSE
    /\ vtodo = {} /\ vgot = {} /\ vote = {}
    /\ fspPc = [h \in Fsp |-> "idle"]
    /\ fspBv = [h \in Fsp |-> [has |-> FALSE, bv |-> {}]]
    /\ fspReply = [h \in Fsp |-> NoReply]
    /\ daPc = [h \in Da |-> "idle"]
    /\ daTree = [h \in Da |-> {}]
    /\ daTodo = [h \in Da |-> {}]
    /\ daGot = [h \in Da |-> {}]
    /\ daReply = [h \in Da |-> NoReply]

-----------------------------------------------------------------------------
(* The mutexes, derived from where their owners are.                       *)

\* The manager and submit2 are inside a critical section of Round.Lock.
WriteLocked == mgr = "setting" \/ voting

\* Round.Lock can be taken.  A leaked read lock is never given back.
CanLock == ~WriteLocked /\ ~leaked

\* Handle holds Attestation.Lock during the whole call of the verifier.
Handled(a) == \E k \in Kinds : item[k][a] = "handling"

\* retryUnsuccessfulChosen keeps the read locks it took until it returns.
HeldByRetry(a) == mgr = "retry" /\ a \in added \ mtodo

\* a is the next request of S in the order sortAttestations gives.
IsFirst(a, S) == a \in S /\ \A b \in S : a <= b

-----------------------------------------------------------------------------
(* The manager.                                                            *)

\* The status PrepareRequest leaves.  A request that names no type or source, or
\* a pair without verifier, stays unprepared; the queue may be missing as well.
PrepareRequest(a, s) ==
    IF a \in Supported THEN s = "Processing"
                       ELSE s \in {"ProcessError", "UnsupportedPair", "Processing"}

\* A request that was not in the round yet: AddAttestation, then AddToQueue, in
\* which only a prepared request whose queue exists is queued.  A request that
\* is in the round already changes neither status nor queues; its fee and its
\* indexes are not part of this model.
OnRequest(a, s) ==
    /\ mgr = "idle" /\ CanLock
    /\ a \notin added
    /\ PrepareRequest(a, s)
    /\ added' = added \cup {a}
    /\ status' = [status EXCEPT ![a] = s]
    /\ item' = IF a \in Supported
               THEN [item EXCEPT !["regular"][a] = "queued"]
               ELSE item
    /\ UNCHANGED <<consensus, roundStatus, bitVector, decided, finished,
                   treeVars, mgrVars, attempts, voteVars, fspVars, daVars>>

\* No consensus: only the deferred assignment of ComputeConsensusBitVote.
ComputeConsensusBitVoteFails ==
    /\ mgr = "idle" /\ CanLock
    /\ ~finished
    /\ finished' = TRUE
    /\ UNCHANGED <<added, consensus, roundStatus, bitVector, decided, status,
                   treeVars, mgrVars, queueVars, voteVars, fspVars, daVars>>

\* Mutant: a bit of the consensus may stand for no request of the round.
ComputeConsensusBitVoteTooLong(C) ==
    /\ mgr = "idle" /\ CanLock
    /\ ~finished
    /\ bitVector' = C
    /\ decided' = TRUE
    /\ roundStatus' = "Consensus"
    /\ mgr' = "setting"
    /\ mtodo' = added
    /\ UNCHANGED <<added, consensus, finished, status, treeVars, queueVars,
                   voteVars, fspVars, daVars>>

\* Consensus C: the round's lock is kept for the loop of setConsensusStatus.
ComputeConsensusBitVote(C) ==
    /\ mgr = "idle" /\ CanLock
    /\ ~finished
    /\ C \subseteq added
    /\ bitVector' = C
    /\ decided' = TRUE
    /\ roundStatus' = "Consensus"
    /\ mgr' = "setting"
    /\ mtodo' = added
    /\ UNCHANGED <<added, consensus, finished, status, treeVars, queueVars,
                   voteVars, fspVars, daVars>>

\* Mutant: the flag is not set on a request that is not confirmed yet.
setConsensusStatusOfConfirmed(a) ==
    /\ mgr = "setting"
    /\ IsFirst(a, mtodo)
    /\ ~Handled(a)
    /\ consensus' = IF a \in bitVector /\ status[a] = "Success"
                    THEN consensus \cup {a} ELSE consensus \ {a}
    /\ mtodo' = mtodo \ {a}
    /\ UNCHANGED <<added, roundStatus, bitVector, decided, finished, status,
                   treeVars, mgr, queueVars, voteVars, fspVars, daVars>>

setConsensusStatus(a) ==
    /\ mgr = "setting"
    /\ IsFirst(a, mtodo)
    /\ ~Handled(a)
    /\ consensus' = IF a \in bitVector THEN consensus \cup {a}
                                       ELSE consensus \ {a}
    /\ mtodo' = mtodo \ {a}
    /\ UNCHANGED <<added, roundStatus, bitVector, decided, finished, status,
                   treeVars, mgr, queueVars, voteVars, fspVars, daVars>>

\* The deferred calls of ComputeConsensusBitVote, then the retry starts.
ComputeConsensusBitVoteEnds ==
    /\ mgr = "setting"
    /\ mtodo = {}
    /\ finished' = TRUE
    /\ mgr' = "retry"
    /\ mtodo' = added
    /\ UNCHANGED <<added, consensus, roundStatus, bitVector, decided, status,
                   treeVars, queueVars, voteVars, fspVars, daVars>>

Unsuccessful(a) == a \in consensus /\ status[a] # "Success"

\* Mutant: the loop returns instead of continuing at a confirmed request.
retryReturnsEarly(a) ==
    /\ mgr = "retry"
    /\ IsFirst(a, mtodo)
    /\ ~Handled(a)
    /\ IF Unsuccessful(a)
       THEN /\ item' = [item EXCEPT !["fast"][a] = "queued"]
            /\ mtodo' = mtodo \ {a} /\ mgr' = mgr
       ELSE mgr' = "idle" /\ mtodo' = {} /\ item' = item
    /\ UNCHANGED <<roundVars, status, treeVars, attempts, voteVars, fspVars,
                   daVars>>

\* Mutant: a request in status Processing is taken to be still in its queue.
retrySkipsProcessing(a) ==
    /\ mgr = "retry"
    /\ IsFirst(a, mtodo)
    /\ ~Handled(a)
    /\ mtodo' = mtodo \ {a}
    /\ item' = IF Unsuccessful(a) /\ status[a] # "Processing"
               THEN [item EXCEPT !["fast"][a] = "queued"] ELSE item
    /\ UNCHANGED <<mgr, roundVars, status, treeVars, attempts, voteVars, fspVars,
                   daVars>>

\* One iteration of the loop of retryUnsuccessfulChosen.  A chosen request
\* that was never queued has no queue: the function returns at once.
retryUnsuccessfulChosen(a) ==
    /\ mgr = "retry"
    /\ IsFirst(a, mtodo)
    /\ ~Handled(a)
    /\ \/ /\ Unsuccessful(a) /\ a \in Supported
          /\ item' = [item EXCEPT !["fast"][a] = "queued"]
          /\ mtodo' = mtodo \ {a}
          /\ mgr' = mgr
       \/ /\ Unsuccessful(a) /\ a \notin Supported
          /\ mgr' = "idle" /\ mtodo' = {}
          /\ item' = item
       \/ /\ ~Unsuccessful(a)
          /\ mtodo' = mtodo \ {a}
          /\ mgr' = mgr /\ item' = item
    /\ UNCHANGED <<roundVars, status, treeVars, attempts, voteVars, fspVars,
                   daVars>>

retryUnsuccessfulChosenEnds ==
    /\ mgr = "retry"
    /\ mtodo = {}
    /\ mgr' = "idle"
    /\ UNCHANGED <<roundVars, status, treeVars, mtodo, queueVars, voteVars,
                   fspVars, daVars>>

-----------------------------------------------------------------------------
(* The queue workers.  The queue is a library: it pops an entry, calls     *)
(* discard and, unless that is true, handler; an error of handler puts the *)
(* entry back until max_attempts calls have failed.                        *)

Busy == {ka \in Kinds \X Atts : item[ka[1]][ka[2]] \in {"checked", "handling"}}

\* Mutant: the third case forgets to ask whether there is a consensus.
DiscardUnselected(a) ==
    status[a] = "Success" \/ roundStatus = "Done" \/ a \notin consensus

Discard(a) ==
    \/ status[a] = "Success"
    \/ roundStatus = "Done"
    \/ roundStatus = "Consensus" /\ a \notin consensus

\* Pop the entry and call Discard, which read-locks the attestation.
Dequeue(k, a) ==
    /\ item[k][a] = "queued"
    /\ ~Handled(a)
    /\ Cardinality(Busy) < MaxWorkers
    /\ item' = [item EXCEPT ![k][a] = IF Discard(a) THEN "gone" ELSE "checked"]
    /\ UNCHANGED <<roundVars, status, treeVars, mgrVars, attempts, voteVars,
                   fspVars, daVars>>

\* Handle takes Attestation.Lock and calls the verifier.
HandleStarts(k, a) ==
    /\ item[k][a] = "checked"
    /\ ~Handled(a) /\ ~HeldByRetry(a)
    /\ item' = [item EXCEPT ![k][a] = "handling"]
    /\ UNCHANGED <<roundVars, status, treeVars, mgrVars, attempts, voteVars,
                   fspVars, daVars>>

RetryLater(k, a, o) == o = "ProcessError" /\ attempts[k][a] + 1 < MaxAttempts

\* The verifier answered (or the call failed): the status is o.
HandleEnds(k, a, o) ==
    /\ item[k][a] = "handling"
    /\ status' = [status EXCEPT ![a] = o]
    /\ item' = [item EXCEPT
                 ![k][a] = IF RetryLater(k, a, o) THEN "queued" ELSE "gone"]
    /\ attempts' = IF RetryLater(k, a, o)
                   THEN [attempts EXCEPT ![k][a] = @ + 1]
                   ELSE attempts
    /\ UNCHANGED <<roundVars, treeVars, mgrVars, voteVars, fspVars, daVars>>

-----------------------------------------------------------------------------
(* submit2: Round.BitVote keeps the round's lock and reads the statuses    *)
(* one by one.  Calls exclude each other, so one set of variables is enough. *)

submit2 ==
    /\ CanLock
    /\ voting' = TRUE
    /\ vtodo' = added /\ vgot' = {}
    /\ UNCHANGED <<roundVars, status, treeVars, mgrVars, queueVars, vote,
                   fspVars, daVars>>

\* Mutant: a request that is still with its verifier counts as confirmed.
BitVoteOfNotFailed(a) ==
    /\ voting
    /\ IsFirst(a, vtodo)
    /\ ~Handled(a)
    /\ vgot' = IF status[a] \in {"Success", "Processing"} THEN vgot \cup {a}
                                                         ELSE vgot
    /\ vtodo' = vtodo \ {a}
    /\ UNCHANGED <<roundVars, status, treeVars, mgrVars, queueVars, voting, vote,
                   fspVars, daVars>>

BitVoteFromAttestations(a) ==
    /\ voting
    /\ IsFirst(a, vtodo)
    /\ ~Handled(a)
    /\ vgot' = IF status[a] = "Success" THEN vgot \cup {a} ELSE vgot
    /\ vtodo' = vtodo \ {a}
    /\ UNCHANGED <<roundVars, status, treeVars, mgrVars, queueVars, voting, vote,
                   fspVars, daVars>>

\* Mutant: the round's lock is not released.
submit2KeepsLock ==
    /\ voting /\ vtodo = {}
    /\ vote' = vgot
    /\ vgot' = {}
    /\ UNCHANGED <<roundVars, status, treeVars, mgrVars, queueVars, voting, vtodo,
                   fspVars, daVars>>

submit2Returns ==
    /\ voting /\ vtodo = {}
    /\ voting' = FALSE
    /\ vote' = vgot
    /\ vgot' = {}
    /\ UNCHANGED <<roundVars, status, treeVars, mgrVars, queueVars, vtodo,
                   fspVars, daVars>>

-----------------------------------------------------------------------------
(* Round.MerkleTree holds the round's lock and takes the read locks of the *)
(* attestations in their order, keeping them all until it returns: what it *)
(* reads is the state at the moment it has the last of them.               *)

\* It met a chosen request that is not confirmed.
MerkleTreeFails ==
    /\ CanLock
    /\ \E f \in added : /\ Unsuccessful(f)
                        /\ \A a \in added : a <= f => ~Handled(a)

\* Mutant: the tree is built without the round's lock.
MerkleTreeUnlocked ==
    /\ \A a \in added : ~Handled(a) /\ ~Unsuccessful(a)
    /\ tree' = consensus
    /\ roundStatus' = "Done"

\* Mutant: the tree is built over the flags alone.
MerkleTreeUnconfirmed ==
    /\ CanLock
    /\ \A a \in added : ~Handled(a)
    /\ tree' = consensus
    /\ roundStatus' = "Done"

\* Mutant: chosen requests that are not confirmed are left out of the tree.
MerkleTreeOfConfirmed ==
    /\ CanLock
    /\ \A a \in added : ~Handled(a)
    /\ tree' = {a \in consensus : status[a] = "Success"}
    /\ roundStatus' = "Done"

MerkleTree ==
    /\ CanLock
    /\ \A a \in added : ~Handled(a) /\ ~Unsuccessful(a)
    /\ tree' = consensus
    /\ roundStatus' = "Done"

-----------------------------------------------------------------------------
(* submitSignatures.                                                       *)

FspAnswers(h, r) ==
    /\ fspPc' = [fspPc EXCEPT ![h] = "idle"]
    /\ fspReply' = [fspReply EXCEPT ![h] = r]
    /\ fspBv' = [fspBv EXCEPT ![h] = [has |-> FALSE, bv |-> {}]]

NoData(st) == [st |-> st, data |-> {}, bv |-> {}]

\* GetConsensusBitVote takes no lock: first it looks at the bitVote ...
GetConsensusBitVote(h) ==
    /\ fspPc[h] = "idle"
    /\ fspBv' = [fspBv EXCEPT ![h] = [has |-> decided, bv |-> bitVector]]
    /\ fspPc' = [fspPc EXCEPT ![h] = "computed"]
    /\ fspReply' = [fspReply EXCEPT ![h] = NoReply]
    /\ UNCHANGED <<roundVars, status, treeVars, mgrVars, queueVars, voteVars,
                   daVars>>

\* ... and then at ConsensusCalculationFinished.
submitSignaturesChecks(h) ==
    /\ fspPc[h] = "computed"
    /\ \/ ~finished /\ FspAnswers(h, NoData("Retry"))
       \/ finished /\ ~fspBv[h].has /\ FspAnswers(h, NoData("Empty"))
       \/ /\ finished /\ fspBv[h].has
          /\ fspPc' = [fspPc EXCEPT ![h] = "cached"]
          /\ UNCHANGED <<fspBv, fspReply>>
    /\ UNCHANGED <<roundVars, status, treeVars, mgrVars, queueVars, voteVars,
                   daVars>>

\* The cached tree is returned with the read lock of the round still held.
MerkleTreeCached(h) ==
    /\ fspPc[h] = "cached"
    /\ ~WriteLocked
    /\ \/ /\ tree # {}
          /\ leaked' = TRUE
          /\ FspAnswers(h, [st |-> "Ok", data |-> tree, bv |-> fspBv[h].bv])
       \/ /\ tree = {}
          /\ fspPc' = [fspPc EXCEPT ![h] = "merkle"]
          /\ UNCHANGED <<leaked, fspBv, fspReply>>
    /\ UNCHANGED <<roundVars, status, tree, mgrVars, queueVars, voteVars, daVars>>

\* MerkleRoot of a tree that was not cached.  An empty tree has no root.
MerkleRoot(h) ==
    /\ fspPc[h] = "merkle"
    /\ \/ /\ MerkleTreeFails
          /\ FspAnswers(h, NoData("Retry"))
          /\ UNCHANGED <<tree, roundStatus>>
       \/ /\ MerkleTree
          /\ FspAnswers(h, IF tree' = {} THEN NoData("Retry")
                           ELSE [st |-> "Ok", data |-> tree', bv |-> fspBv[h].bv])
    /\ UNCHANGED <<added, consensus, bitVector, decided, finished, status, leaked,
                   mgrVars, queueVars, voteVars, daVars>>

-----------------------------------------------------------------------------
(* getAttestations of the DA layer.                                        *)

DaAnswers(h, r) ==
    /\ daPc' = [daPc EXCEPT ![h] = "idle"]
    /\ daReply' = [daReply EXCEPT ![h] = r]
    /\ daTree' = [daTree EXCEPT ![h] = {}]
    /\ daTodo' = [daTodo EXCEPT ![h] = {}]
    /\ daGot' = [daGot EXCEPT ![h] = {}]

GetAttestations(h) ==
    /\ daPc[h] = "idle"
    /\ daPc' = [daPc EXCEPT ![h] = "merkle"]
    /\ daReply' = [daReply EXCEPT ![h] = NoReply]
    /\ UNCHANGED <<roundVars, status, treeVars, mgrVars, queueVars, voteVars,
                   fspVars, daTree, daTodo, daGot>>

\* Nothing is asked about the consensus before the tree is built.
GetAttestationsMerkleTree(h) ==
    /\ daPc[h] = "merkle"
    /\ \/ /\ MerkleTreeFails
          /\ DaAnswers(h, NoData("NotAvailable"))
          /\ UNCHANGED <<tree, roundStatus>>
       \/ /\ MerkleTree
          /\ daPc' = [daPc EXCEPT ![h] = "reading"]
          /\ daTree' = [daTree EXCEPT ![h] = tree']
          /\ daTodo' = [daTodo EXCEPT ![h] = added]
          /\ UNCHANGED <<daGot, daReply>>
    /\ UNCHANGED <<added, consensus, bitVector, decided, finished, status, leaked,
                   mgrVars, queueVars, voteVars, fspVars>>

\* Mutant: a selected request that is not confirmed is skipped.
attestationToDASkips(h, a) ==
    /\ daPc[h] = "reading"
    /\ a \in daTodo[h]
    /\ ~Handled(a)
    /\ daGot' = [daGot EXCEPT
                   ![h] = IF a \in consensus /\ status[a] = "Success"
                          THEN @ \cup {a} ELSE @]
    /\ daTodo' = [daTodo EXCEPT ![h] = @ \ {a}]
    /\ UNCHANGED <<daPc, daTree, daReply, roundVars, status, treeVars, mgrVars,
                   queueVars, voteVars, fspVars>>

\* The loop reads the attestations without the round's lock; a selected one
\* needs a proof in the tree of this call.
attestationToDAAttestation(h, a) ==
    /\ daPc[h] = "reading"
    /\ a \in daTodo[h]
    /\ ~Handled(a)
    /\ \/ /\ \/ Unsuccessful(a)
             \/ a \in consensus /\ a \notin daTree[h]
          /\ DaAnswers(h, NoData("NotAvailable"))
       \/ /\ ~Unsuccessful(a)
          /\ a \in consensus => a \in daTree[h]
          /\ daGot' = [daGot EXCEPT
                         ![h] = IF a \in consensus THEN @ \cup {a} ELSE @]
          /\ daTodo' = [daTodo EXCEPT ![h] = @ \ {a}]
          /\ UNCHANGED <<daPc, daTree, daReply>>
    /\ UNCHANGED <<roundVars, status, treeVars, mgrVars, queueVars, voteVars,
                   fspVars>>

GetAttestationsReturns(h) ==
    /\ daPc[h] = "reading"
    /\ daTodo[h] = {}
    /\ DaAnswers(h, [st |-> "Ok", data |-> daGot[h], bv |-> daTree[h]])
    /\ UNCHANGED <<roundVars, status, treeVars, mgrVars, queueVars, voteVars,
                   fspVars>>

-----------------------------------------------------------------------------
ManagerNext ==
    \/ \E a \in Atts, s \in Statuses : OnRequest(a, s)
    \/ ComputeConsensusBitVoteFails
    \/ \E C \in SUBSET Atts : ComputeConsensusBitVote(C)
    \/ \E a \in Atts : setConsensusStatus(a)
    \/ ComputeConsensusBitVoteEnds
    \/ \E a \in Atts : retryUnsuccessfulChosen(a)
    \/ retryUnsuccessfulChosenEnds

WorkerNext ==
    \E k \in Kinds, a \in Atts :
        \/ Dequeue(k, a)
        \/ HandleStarts(k, a)
        \/ \E o \in Outcomes : HandleEnds(k, a, o)

VoteNext ==
    \/ Submit2 /\ submit2
    \/ \E a \in Atts : BitVoteFromAttestations(a)
    \/ submit2Returns

FspNext ==
    \E h \in Fsp :
        \/ GetConsensusBitVote(h)
        \/ submitSignaturesChecks(h)
        \/ MerkleTreeCached(h)
        \/ MerkleRoot(h)

DaNext ==
    \E h \in Da :
        \/ GetAttestations(h)
        \/ GetAttestationsMerkleTree(h)
        \/ \E a \in Atts : attestationToDAAttestation(h, a)
        \/ GetAttestationsReturns(h)

Next == ManagerNext \/ WorkerNext \/ VoteNext \/ FspNext \/ DaNext

Spec == Init /\ [][Next]_vars

\* What the Go scheduler, the HTTP server and the 5 s timeout of a verifier
\* call guarantee: a goroutine that started something and is not blocked goes
\* on.  A writer waiting for an RWMutex is served before later readers and
\* writers, which is strong fairness of taking the round's lock.  No fairness
\* of requests, of bitVotes or of calls of the endpoints.
Fairness ==
    /\ \A a \in Atts : WF_vars(setConsensusStatus(a))
    /\ WF_vars(ComputeConsensusBitVoteEnds)
    /\ \A a \in Atts : WF_vars(retryUnsuccessfulChosen(a))
    /\ WF_vars(retryUnsuccessfulChosenEnds)
    /\ \A k \in Kinds, a \in Atts :
          /\ WF_vars(Dequeue(k, a))
          /\ WF_vars(HandleStarts(k, a))
          /\ WF_vars(\E o \in Outcomes : HandleEnds(k, a, o))
    /\ \A a \in Atts : WF_vars(BitVoteFromAttestations(a))
    /\ WF_vars(submit2Returns)
    /\ \A h \in Fsp :
          /\ WF_vars(submitSignaturesChecks(h))
          /\ SF_vars(MerkleTreeCached(h))
          /\ SF_vars(MerkleRoot(h))
    /\ \A h \in Da :
          /\ SF_vars(GetAttestationsMerkleTree(h))
          /\ \A a \in Atts : WF_vars(attestationToDAAttestation(h, a))
          /\ WF_vars(GetAttestationsReturns(h))

FairSpec == Spec /\ Fairness

-----------------------------------------------------------------------------
(* Safety.                                                                 *)

\* The data submitSignatures signs: a root is only returned after the
\* consensus computation ended, it is the root over exactly the chosen
\* requests, and the bitVote sent along describes the same set -- whichever
\* handler built the tree, and whenever (MerkleRoot, GetConsensusBitVote).
SignedRootMatchesConsensus ==
    \A h \in Fsp :
        fspReply[h].st = "Ok" =>
            /\ finished
            /\ fspReply[h].data = bitVector
            /\ fspReply[h].bv = bitVector
            /\ bitVector # {}

\* A client never signs a root over a request it cannot verify: when a request
\* without verifier or queue is chosen, no order of retries, late handlers and
\* rebuilt trees gets it past the status check of Round.MerkleTree.
SignsOnlySupported ==
    \A h \in Fsp : fspReply[h].st = "Ok" => bitVector \subseteq Supported

\* What getAttestations publishes with proofs is either nothing or all the
\* chosen requests, proved against the root that is signed, even when the
\* loop of GetAttestations overlaps setConsensusStatus or a late Handle.
DaProofsMatchConsensus ==
    \A h \in Da :
        daReply[h].st = "Ok" /\ daReply[h].data # {} =>
            /\ finished
            /\ daReply[h].data = bitVector
            /\ daReply[h].bv = bitVector

\* Once a Merkle tree is stored (Round.MerkleTree) it never changes, although
\* any number of handlers may rebuild it and statuses may still change.
TreeStable == [][tree # {} => tree' = tree]_vars

\* Until the consensus is computed, the bitVote of submit2 only grows: an
\* answer the FSP client already sent is never contradicted by a later one,
\* although Round.BitVote reads the statuses while workers change them.
BitVoteGrows == [][~decided' => vote \subseteq vote']_vars

\* A request that is waiting for its verifier is not dropped by a queue
\* before the consensus is known (Attestation.Discard), unless an early call
\* of getAttestations has marked the round Done.
NotDroppedBeforeConsensus ==
    ~decided /\ roundStatus # "Done" =>
        \A a \in added : item["regular"][a] = "gone" => status[a] # "Processing"

\* retryUnsuccessfulChosen hands every chosen request that is not confirmed to
\* the fast queue ("the requests that were chosen but not confirmed are resent
\* to the verifiers"), however its loop meets the calls of Handle, when all of
\* the chosen have queues: at one without, it returns early.
RetryCoversChosen ==
    decided /\ mgr = "idle" /\ consensus \subseteq Supported =>
        \A a \in consensus : status[a] = "Success" \/ item["fast"][a] # "none"

\* submitSignatures answers EMPTY only if the consensus bitVote does not exist
\* (submitSignaturesService after GetConsensusBitVote).
EmptyOnlyWithoutConsensus ==
    \A h \in Fsp : fspReply[h].st = "Empty" => ~decided

-----------------------------------------------------------------------------
(* The round as its callers see it.  An answer counts when it has data.    *)

Answered(r) == IF r.st = "Ok" THEN r.data ELSE {}

R == INSTANCE RoundSpec WITH
        Requests   <- Atts,
        Verifiable <- Supported,
        Signers    <- Fsp,
        Publishers <- Da,
        made       <- decided,
        choice     <- bitVector,
        closed     <- finished,
        root       <- tree,
        signed     <- [h \in Fsp |-> Answered(fspReply[h])],
        published  <- [h \in Da |-> Answered(daReply[h])]

\* The round, with its locks, its flags set one by one and its handlers in the
\* middle of their loops, does nothing but choose once, close, and from then
\* on build, sign and publish all of the choice (ComputeConsensusBitVote,
\* MerkleTree, submitSignaturesService, GetAttestations).
ImplementsRound == R!Spec

-----------------------------------------------------------------------------
(* Liveness.                                                               *)

\* Every chosen request is eventually confirmed when its verifier confirms
\* what it is asked, whatever was in flight, discarded or waiting when the
\* consensus was computed (Discard and retryUnsuccessfulChosen together).
ChosenConfirmed ==
    \A a \in Atts : (decided /\ a \in bitVector) ~> (status[a] = "Success")

\* Every call of getAttestations returns.
DaAnswered == \A h \in Da : (daPc[h] # "idle") ~> (daPc[h] = "idle")

=============================================================================
