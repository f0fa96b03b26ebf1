-------------------------- MODULE RoundLifeProofs --------------------------
(***************************************************************************)
(* Proofs about RoundLife, for any number of requests, handlers, attempts  *)
(* and workers.  Inv is the inductive invariant; its parts follow.         *)
(***************************************************************************)
EXTENDS RoundLife, TLAPS

\* The flags of the attestations and the consensus bitVote: they agree except
\* while the manager, holding the round's lock, is setting the flags.
ConsensusInv ==
    /\ ~decided => consensus = {} /\ bitVector = {} /\ mgr = "idle"
    /\ decided /\ mgr # "setting" => consensus = bitVector /\ finished
    /\ mgr = "setting" => /\ decided /\ ~finished
                          /\ consensus = bitVector \ mtodo

\* A tree covers the chosen requests, all of which this client can verify.
TreeInv ==
    tree # {} => /\ decided /\ finished
                 /\ tree = bitVector
                 /\ tree \subseteq Supported

\* Only requests with a verifier have queue entries or can be confirmed, and
\* nothing is known of a request that is not in the round.
QueueInv ==
    \A a \in Atts :
        /\ \A k \in Kinds : item[k][a] # "none" => a \in Supported /\ a \in added
        /\ status[a] = "Success" => a \in Supported /\ a \in added

\* What a submitSignatures call has read is still true.
FspInv ==
    \A h \in Fsp :
        /\ fspBv[h].has => decided /\ fspBv[h].bv = bitVector
        /\ fspPc[h] \in {"cached", "merkle"} => fspBv[h].has /\ finished
        /\ fspReply[h].st = "Ok" =>
             /\ decided /\ finished
             /\ fspReply[h].data = bitVector
             /\ fspReply[h].bv = bitVector
             /\ bitVector # {}
             /\ bitVector \subseteq Supported

\* What a getAttestations call has collected, against the tree it built.
DaInv ==
    \A h \in Da :
        /\ daGot[h] \subseteq daTree[h]
        /\ daPc[h] # "reading" => daGot[h] = {} /\ daTree[h] = {}
        /\ daTree[h] # {} =>
             /\ decided /\ finished
             /\ daTree[h] = bitVector
             /\ bitVector \subseteq daGot[h] \cup daTodo[h]
        /\ daReply[h].st = "Ok" /\ daReply[h].data # {} =>
             /\ decided /\ finished
             /\ daReply[h].data = bitVector
             /\ daReply[h].bv = bitVector

\* Before the consensus a request has one queue entry, which is gone once the
\* request is confirmed: no later call of Handle can take the confirmation
\* away, and every bit that was read stays correct.
VoteInv ==
    ~decided =>
        /\ \A a \in Atts :
             /\ item["fast"][a] = "none"
             /\ status[a] = "Success" => item["regular"][a] = "gone"
        /\ \A a \in vote \cup vgot : status[a] = "Success"
        /\ voting => vote \subseteq vgot \cup vtodo

Inv ==
    /\ TypeOK
    /\ ConsensusInv
    /\ TreeInv
    /\ QueueInv
    /\ FspInv
    /\ DaInv
    /\ VoteInv

-----------------------------------------------------------------------------
USE DEF Kinds, roundVars, treeVars, mgrVars, queueVars, voteVars, fspVars, daVars

\* Init establishes the invariant.
LEMMA InitInv == Init => Inv
<1> SUFFICES ASSUME Init PROVE Inv
  OBVIOUS
<1>1. TypeOK
  <2>1. status \in [Atts -> Statuses]
    BY DEF Init, Statuses
  <2>2. item \in [Kinds -> [Atts -> ItemStates]]
    BY DEF Init, ItemStates
  <2>3. attempts \in [Kinds -> [Atts -> 0..MaxAttempts]]
    BY ConstantsAssumption DEF Init
  <2>4. NoReply \in Replies
    BY DEF NoReply, Replies
  <2>5. fspBv \in [Fsp -> [has: BOOLEAN, bv: SUBSET Atts]]
    BY DEF Init
  <2> QED
    BY <2>1, <2>2, <2>3, <2>4, <2>5 DEF Init, TypeOK
<1>2. ConsensusInv /\ TreeInv
  BY DEF Init, ConsensusInv, TreeInv
<1>3. QueueInv /\ VoteInv
  BY DEF Init, QueueInv, VoteInv
<1>4. FspInv /\ DaInv
  BY DEF Init, FspInv, DaInv, NoReply
<1> QED
  BY <1>1, <1>2, <1>3, <1>4 DEF Inv

-----------------------------------------------------------------------------
\* An answer of submitSignatures leaves the variables of its call in their
\* types, and so does one of getAttestations.
LEMMA FspAnswersType ==
    ASSUME TypeOK, NEW h \in Fsp, NEW r \in Replies, FspAnswers(h, r)
    PROVE  /\ fspPc' \in [Fsp -> {"idle", "computed", "cached", "merkle"}]
           /\ fspBv' \in [Fsp -> [has: BOOLEAN, bv: SUBSET Atts]]
           /\ fspReply' \in [Fsp -> Replies]
<1>1. [has |-> FALSE, bv |-> {}] \in [has: BOOLEAN, bv: SUBSET Atts]
  OBVIOUS
<1> QED
  BY <1>1 DEF FspAnswers, TypeOK

LEMMA DaAnswersType ==
    ASSUME TypeOK, NEW h \in Da, NEW r \in Replies, DaAnswers(h, r)
    PROVE  /\ daPc' \in [Da -> {"idle", "merkle", "reading"}]
           /\ daTree' \in [Da -> SUBSET Atts]
           /\ daTodo' \in [Da -> SUBSET Atts]
           /\ daGot' \in [Da -> SUBSET Atts]
           /\ daReply' \in [Da -> Replies]
BY DEF DaAnswers, TypeOK

\* The answers without data, and those with data, are replies.
LEMMA ReplyTypes ==
    /\ NoReply \in Replies
    /\ \A st \in {"Retry", "Empty", "NotAvailable"} : NoData(st) \in Replies
    /\ \A d, b \in SUBSET Atts : [st |-> "Ok", data |-> d, bv |-> b] \in Replies
BY DEF NoReply, NoData, Replies

\* Every action keeps the variables in their types.
LEMMA TypeOKStep == TypeOK /\ [Next]_vars => TypeOK'
<1> SUFFICES ASSUME TypeOK, [Next]_vars PROVE TypeOK'
  OBVIOUS
<1> USE ConstantsAssumption DEF TypeOK
<1>1. ASSUME NEW a \in Atts, NEW s \in Statuses, OnRequest(a, s) PROVE TypeOK'
  BY <1>1 DEF OnRequest, PrepareRequest, ItemStates
<1>2. CASE ComputeConsensusBitVoteFails
  BY <1>2 DEF ComputeConsensusBitVoteFails
<1>3. ASSUME NEW C \in SUBSET Atts, ComputeConsensusBitVote(C) PROVE TypeOK'
  BY <1>3 DEF ComputeConsensusBitVote
<1>4. ASSUME NEW a \in Atts, setConsensusStatus(a) PROVE TypeOK'
  BY <1>4 DEF setConsensusStatus, IsFirst
<1>5. CASE ComputeConsensusBitVoteEnds
  BY <1>5 DEF ComputeConsensusBitVoteEnds
<1>6. ASSUME NEW a \in Atts, retryUnsuccessfulChosen(a) PROVE TypeOK'
  BY <1>6 DEF retryUnsuccessfulChosen, ItemStates
<1>7. CASE retryUnsuccessfulChosenEnds
  BY <1>7 DEF retryUnsuccessfulChosenEnds
<1>8. ASSUME NEW k \in Kinds, NEW a \in Atts, Dequeue(k, a) PROVE TypeOK'
  BY <1>8 DEF Dequeue, ItemStates
<1>9. ASSUME NEW k \in Kinds, NEW a \in Atts, HandleStarts(k, a) PROVE TypeOK'
  BY <1>9 DEF HandleStarts, ItemStates
<1>10. ASSUME NEW k \in Kinds, NEW a \in Atts, NEW o \in Outcomes,
              HandleEnds(k, a, o)
       PROVE TypeOK'
  <2>1. o \in Statuses
    BY DEF Statuses
  <2>2. attempts' \in [Kinds -> [Atts -> 0..MaxAttempts]]
    BY <1>10 DEF HandleEnds, RetryLater
  <2>3. item' \in [Kinds -> [Atts -> ItemStates]]
    BY <1>10 DEF HandleEnds, ItemStates
  <2> QED
    BY <1>10, <2>1, <2>2, <2>3 DEF HandleEnds
<1>11. CASE submit2
  BY <1>11 DEF submit2
<1>12. ASSUME NEW a \in Atts, BitVoteFromAttestations(a) PROVE TypeOK'
  BY <1>12 DEF BitVoteFromAttestations, IsFirst
<1>13. CASE submit2Returns
  BY <1>13 DEF submit2Returns
<1>14. ASSUME NEW h \in Fsp, GetConsensusBitVote(h) PROVE TypeOK'
  BY <1>14, ReplyTypes DEF GetConsensusBitVote
<1>15. ASSUME NEW h \in Fsp, submitSignaturesChecks(h) PROVE TypeOK'
  <2>1. CASE FspAnswers(h, NoData("Retry"))
    BY <1>15, <2>1, FspAnswersType, ReplyTypes DEF submitSignaturesChecks
  <2>2. CASE FspAnswers(h, NoData("Empty"))
    BY <1>15, <2>2, FspAnswersType, ReplyTypes DEF submitSignaturesChecks
  <2>3. CASE /\ fspPc' = [fspPc EXCEPT ![h] = "cached"]
             /\ UNCHANGED <<fspBv, fspReply>>
    BY <1>15, <2>3 DEF submitSignaturesChecks
  <2> QED
    BY <1>15, <2>1, <2>2, <2>3 DEF submitSignaturesChecks
<1>16. ASSUME NEW h \in Fsp, MerkleTreeCached(h) PROVE TypeOK'
  <2> DEFINE r == [st |-> "Ok", data |-> tree, bv |-> fspBv[h].bv]
  <2>1. r \in Replies
    BY ReplyTypes
  <2>2. CASE FspAnswers(h, r) /\ leaked' = TRUE
    <3> HIDE DEF r
    <3> QED
      BY <1>16, <2>1, <2>2, FspAnswersType DEF MerkleTreeCached
  <2>3. CASE /\ fspPc' = [fspPc EXCEPT ![h] = "merkle"]
             /\ UNCHANGED <<leaked, fspBv, fspReply>>
    BY <1>16, <2>3 DEF MerkleTreeCached
  <2> QED
    BY <1>16, <2>2, <2>3 DEF MerkleTreeCached
<1>17. ASSUME NEW h \in Fsp, MerkleRoot(h) PROVE TypeOK'
  <2>1. /\ tree' \subseteq added
        /\ roundStatus' \in {"PreConsensus", "Consensus", "Done"}
    BY <1>17 DEF MerkleRoot, MerkleTree
  <2>2. PICK r \in Replies : FspAnswers(h, r)
    <3>1. CASE FspAnswers(h, NoData("Retry"))
      BY <3>1, ReplyTypes
    <3>2. CASE FspAnswers(h, [st |-> "Ok", data |-> tree', bv |-> fspBv[h].bv])
      BY <2>1, <3>2, ReplyTypes
    <3> QED
      BY <1>17, <3>1, <3>2 DEF MerkleRoot
  <2> QED
    BY <1>17, <2>1, <2>2, FspAnswersType DEF MerkleRoot
<1>18. ASSUME NEW h \in Da, GetAttestations(h) PROVE TypeOK'
  BY <1>18, ReplyTypes DEF GetAttestations
<1>19. ASSUME NEW h \in Da, GetAttestationsMerkleTree(h) PROVE TypeOK'
  <2>1. /\ tree' \subseteq added
        /\ roundStatus' \in {"PreConsensus", "Consensus", "Done"}
    BY <1>19 DEF GetAttestationsMerkleTree, MerkleTree
  <2>2. CASE DaAnswers(h, NoData("NotAvailable"))
    BY <1>19, <2>1, <2>2, DaAnswersType, ReplyTypes
    DEF GetAttestationsMerkleTree
  <2>3. CASE ~DaAnswers(h, NoData("NotAvailable"))
    BY <1>19, <2>1, <2>3 DEF GetAttestationsMerkleTree
  <2> QED
    BY <2>2, <2>3
<1>20. ASSUME NEW h \in Da, NEW a \in Atts, attestationToDAAttestation(h, a)
       PROVE TypeOK'
  <2>1. CASE DaAnswers(h, NoData("NotAvailable"))
    BY <1>20, <2>1, DaAnswersType, ReplyTypes DEF attestationToDAAttestation
  <2>2. CASE ~DaAnswers(h, NoData("NotAvailable"))
    <3>1. /\ daGot' = [daGot EXCEPT
                         ![h] = IF a \in consensus THEN @ \cup {a} ELSE @]
          /\ daTodo' = [daTodo EXCEPT ![h] = @ \ {a}]
          /\ UNCHANGED <<daPc, daTree, daReply>>
      BY <1>20, <2>2 DEF attestationToDAAttestation
    <3>2. daGot' \in [Da -> SUBSET Atts] /\ daTodo' \in [Da -> SUBSET Atts]
      BY <3>1
    <3> QED
      BY <1>20, <3>1, <3>2 DEF attestationToDAAttestation
  <2> QED
    BY <2>1, <2>2
<1>21. ASSUME NEW h \in Da, GetAttestationsReturns(h) PROVE TypeOK'
  BY <1>21, DaAnswersType, ReplyTypes DEF GetAttestationsReturns
<1>22. CASE UNCHANGED vars
  BY <1>22 DEF vars
<1> QED
  BY <1>1, <1>2, <1>3, <1>4, <1>5, <1>6, <1>7, <1>8, <1>9, <1>10, <1>11, <1>12,
     <1>13, <1>14, <1>15, <1>16, <1>17, <1>18, <1>19, <1>20, <1>21, <1>22
  DEF Next, ManagerNext, WorkerNext, VoteNext, FspNext, DaNext

-----------------------------------------------------------------------------
\* The bitVote is written once, before anybody could have read it, and the
\* flags follow it under the round's lock.
LEMMA ConsensusStep == Inv /\ [Next]_vars => ConsensusInv'
<1> SUFFICES ASSUME Inv, [Next]_vars PROVE ConsensusInv'
  OBVIOUS
<1> USE DEF Inv, TypeOK, ConsensusInv
<1>1. ASSUME NEW C \in SUBSET Atts, ComputeConsensusBitVote(C)
      PROVE ConsensusInv'
  BY <1>1 DEF ComputeConsensusBitVote
<1>2. ASSUME NEW a \in Atts, setConsensusStatus(a) PROVE ConsensusInv'
  BY <1>2 DEF setConsensusStatus, IsFirst
<1>3. CASE ComputeConsensusBitVoteEnds
  BY <1>3 DEF ComputeConsensusBitVoteEnds
<1>4. CASE ComputeConsensusBitVoteFails
  BY <1>4 DEF ComputeConsensusBitVoteFails
<1>5. ASSUME NEW a \in Atts, retryUnsuccessfulChosen(a) PROVE ConsensusInv'
  BY <1>5 DEF retryUnsuccessfulChosen
<1>6. CASE retryUnsuccessfulChosenEnds
  BY <1>6 DEF retryUnsuccessfulChosenEnds
<1>7. ASSUME NEW a \in Atts, NEW s \in Statuses, OnRequest(a, s)
      PROVE ConsensusInv'
  BY <1>7 DEF OnRequest, PrepareRequest
<1>8. CASE WorkerNext
  BY <1>8 DEF WorkerNext, Dequeue, HandleStarts, HandleEnds
<1>9. CASE VoteNext
  BY <1>9 DEF VoteNext, submit2, BitVoteFromAttestations, submit2Returns
<1>10. CASE FspNext
  BY <1>10 DEF FspNext, GetConsensusBitVote, submitSignaturesChecks,
               MerkleTreeCached, MerkleRoot
<1>11. CASE DaNext
  BY <1>11 DEF DaNext, GetAttestations, GetAttestationsMerkleTree,
               attestationToDAAttestation, GetAttestationsReturns
<1>12. CASE UNCHANGED vars
  BY <1>12 DEF vars
<1> QED
  BY <1>1, <1>2, <1>3, <1>4, <1>5, <1>6, <1>7, <1>8, <1>9, <1>10, <1>11, <1>12
  DEF Next, ManagerNext

\* Whoever builds the tree finds the flags complete: the round's lock keeps
\* it out of setConsensusStatus.  So it builds the empty tree or the tree of
\* the consensus, and a tree that exists is built again as it was.
LEMMA MerkleTreeOfConsensus ==
    ASSUME Inv, MerkleTree
    PROVE  /\ tree' = bitVector
           /\ tree # {} => tree' = tree
           /\ bitVector # {} => decided /\ finished
           /\ bitVector \subseteq Supported
<1>1. mgr # "setting"
  BY DEF MerkleTree, CanLock, WriteLocked
<1>2. consensus = bitVector
  BY <1>1 DEF Inv, ConsensusInv, TypeOK
<1>3. \A a \in consensus : status[a] = "Success"
  BY DEF Inv, TypeOK, MerkleTree, Unsuccessful
<1>4. consensus \subseteq Supported
  BY <1>3 DEF Inv, TypeOK, QueueInv
<1>5. bitVector # {} => decided /\ finished
  BY <1>1 DEF Inv, ConsensusInv
<1> QED
  BY <1>2, <1>4, <1>5 DEF MerkleTree, Inv, TreeInv

\* A step that is not the computation of the consensus keeps what was decided.
LEMMA DecisionStable ==
    ASSUME Inv, [Next]_vars
    PROVE  /\ decided => decided' /\ bitVector' = bitVector
           /\ finished => finished'
<1> USE DEF Inv, TypeOK, ConsensusInv
<1>1. CASE ManagerNext
  BY <1>1 DEF ManagerNext, OnRequest, PrepareRequest,
      ComputeConsensusBitVoteFails,
      ComputeConsensusBitVote, setConsensusStatus, ComputeConsensusBitVoteEnds,
      retryUnsuccessfulChosen, retryUnsuccessfulChosenEnds
<1>2. CASE WorkerNext
  BY <1>2 DEF WorkerNext, Dequeue, HandleStarts, HandleEnds
<1>3. CASE VoteNext
  BY <1>3 DEF VoteNext, submit2, BitVoteFromAttestations, submit2Returns
<1>4. CASE FspNext
  BY <1>4 DEF FspNext, GetConsensusBitVote, submitSignaturesChecks,
               MerkleTreeCached, MerkleRoot
<1>5. CASE DaNext
  BY <1>5 DEF DaNext, GetAttestations, GetAttestationsMerkleTree,
               attestationToDAAttestation, GetAttestationsReturns
<1>6. CASE UNCHANGED vars
  BY <1>6 DEF vars
<1> QED
  BY <1>1, <1>2, <1>3, <1>4, <1>5, <1>6 DEF Next

-----------------------------------------------------------------------------
\* Only Round.MerkleTree writes the tree.
LEMMA TreeWrites ==
    ASSUME Inv, [Next]_vars
    PROVE  tree' = tree \/ MerkleTree
<1>1. CASE ManagerNext
  BY <1>1 DEF ManagerNext, OnRequest, PrepareRequest,
      ComputeConsensusBitVoteFails,
      ComputeConsensusBitVote, setConsensusStatus, ComputeConsensusBitVoteEnds,
      retryUnsuccessfulChosen, retryUnsuccessfulChosenEnds
<1>2. CASE WorkerNext
  BY <1>2 DEF WorkerNext, Dequeue, HandleStarts, HandleEnds
<1>3. CASE VoteNext
  BY <1>3 DEF VoteNext, submit2, BitVoteFromAttestations, submit2Returns
<1>4. CASE FspNext
  BY <1>4 DEF FspNext, GetConsensusBitVote, submitSignaturesChecks,
               MerkleTreeCached, MerkleRoot
<1>5. CASE DaNext
  BY <1>5 DEF DaNext, GetAttestations, GetAttestationsMerkleTree,
               attestationToDAAttestation, GetAttestationsReturns
<1>6. CASE UNCHANGED vars
  BY <1>6 DEF vars
<1> QED
  BY <1>1, <1>2, <1>3, <1>4, <1>5, <1>6 DEF Next

\* A tree in the cache stays the tree of the consensus.
LEMMA TreeStep == Inv /\ [Next]_vars => TreeInv' /\ (tree # {} => tree' = tree)
<1> SUFFICES ASSUME Inv, [Next]_vars
             PROVE  TreeInv' /\ (tree # {} => tree' = tree)
  OBVIOUS
<1>1. CASE tree' = tree
  BY <1>1, DecisionStable DEF Inv, TreeInv
<1>2. CASE MerkleTree
  BY <1>2, MerkleTreeOfConsensus, DecisionStable DEF Inv, TreeInv
<1> QED
  BY <1>1, <1>2, TreeWrites

\* Entries and confirmations belong to requests with a verifier.
LEMMA QueueStep == Inv /\ [Next]_vars => QueueInv'
<1> SUFFICES ASSUME Inv, [Next]_vars PROVE QueueInv'
  OBVIOUS
<1> USE DEF Inv, TypeOK, QueueInv
<1>1. ASSUME NEW a \in Atts, NEW s \in Statuses, OnRequest(a, s) PROVE QueueInv'
  BY <1>1 DEF OnRequest, PrepareRequest
<1>2. ASSUME NEW a \in Atts, retryUnsuccessfulChosen(a) PROVE QueueInv'
  BY <1>2 DEF retryUnsuccessfulChosen, IsFirst
<1>3. ASSUME NEW k \in Kinds, NEW a \in Atts, Dequeue(k, a) PROVE QueueInv'
  BY <1>3 DEF Dequeue
<1>4. ASSUME NEW k \in Kinds, NEW a \in Atts, HandleStarts(k, a) PROVE QueueInv'
  BY <1>4 DEF HandleStarts
<1>5. ASSUME NEW k \in Kinds, NEW a \in Atts, NEW o \in Outcomes,
             HandleEnds(k, a, o)
      PROVE QueueInv'
  BY <1>5 DEF HandleEnds
<1>6. CASE UNCHANGED <<added, status, item>>
  BY <1>6
<1>7. CASE VoteNext
  BY <1>6, <1>7 DEF VoteNext, submit2, BitVoteFromAttestations, submit2Returns
<1>8. CASE FspNext
  BY <1>6, <1>8 DEF FspNext, GetConsensusBitVote, submitSignaturesChecks,
               MerkleTreeCached, MerkleRoot
<1>9. CASE DaNext
  BY <1>6, <1>9 DEF DaNext, GetAttestations, GetAttestationsMerkleTree,
               attestationToDAAttestation, GetAttestationsReturns
<1>10. CASE \/ ComputeConsensusBitVoteFails
            \/ \E C \in SUBSET Atts : ComputeConsensusBitVote(C)
            \/ \E a \in Atts : setConsensusStatus(a)
            \/ ComputeConsensusBitVoteEnds
            \/ retryUnsuccessfulChosenEnds
            \/ UNCHANGED vars
  BY <1>6, <1>10 DEF vars, ComputeConsensusBitVoteFails, ComputeConsensusBitVote,
     setConsensusStatus, ComputeConsensusBitVoteEnds, retryUnsuccessfulChosenEnds
<1> QED
  BY <1>1, <1>2, <1>3, <1>4, <1>5, <1>7, <1>8, <1>9, <1>10
  DEF Next, ManagerNext, WorkerNext

\* Facts about the decision that submitSignatures has read stay true, and its
\* answer combines the bitVote it read with the tree of the same bitVote.
LEMMA FspStep == Inv /\ [Next]_vars => FspInv'
<1> SUFFICES ASSUME Inv, [Next]_vars PROVE FspInv'
  OBVIOUS
<1> USE DEF Inv, FspInv
<1>1. CASE UNCHANGED fspVars
  BY <1>1, DecisionStable
<1>2. ASSUME NEW h \in Fsp, GetConsensusBitVote(h) PROVE FspInv'
  BY <1>2, DecisionStable DEF GetConsensusBitVote, NoReply, TypeOK
<1>3. ASSUME NEW h \in Fsp, submitSignaturesChecks(h) PROVE FspInv'
  BY <1>3, DecisionStable DEF submitSignaturesChecks, FspAnswers, NoData, TypeOK
<1>4. ASSUME NEW h \in Fsp, MerkleTreeCached(h) PROVE FspInv'
  BY <1>4, DecisionStable DEF MerkleTreeCached, FspAnswers, TypeOK, TreeInv
<1>5. ASSUME NEW h \in Fsp, MerkleRoot(h) PROVE FspInv'
  <2>1. CASE FspAnswers(h, NoData("Retry"))
    BY <2>1, DecisionStable DEF FspAnswers, NoData, TypeOK
  <2>2. CASE /\ MerkleTree
             /\ tree' # {}
             /\ FspAnswers(h, [st |-> "Ok", data |-> tree', bv |-> fspBv[h].bv])
    BY <1>5, <2>2, DecisionStable, MerkleTreeOfConsensus
    DEF FspAnswers, TypeOK, MerkleRoot
  <2> QED
    BY <1>5, <2>1, <2>2 DEF MerkleRoot
<1>6. CASE ManagerNext
  BY <1>1, <1>6 DEF ManagerNext, OnRequest, PrepareRequest,
      ComputeConsensusBitVoteFails,
      ComputeConsensusBitVote, setConsensusStatus, ComputeConsensusBitVoteEnds,
      retryUnsuccessfulChosen, retryUnsuccessfulChosenEnds
<1>7. CASE WorkerNext \/ VoteNext
  BY <1>1, <1>7 DEF WorkerNext, Dequeue, HandleStarts, HandleEnds,
      VoteNext, submit2, BitVoteFromAttestations, submit2Returns
<1>8. CASE DaNext
  BY <1>1, <1>8 DEF DaNext, GetAttestations, GetAttestationsMerkleTree,
      attestationToDAAttestation, GetAttestationsReturns
<1>9. CASE UNCHANGED vars
  BY <1>1, <1>9 DEF vars
<1> QED
  BY <1>2, <1>3, <1>4, <1>5, <1>6, <1>7, <1>8, <1>9 DEF Next, FspNext

\* getAttestations, reading without the round's lock, either covers the tree it
\* built or gives up.
LEMMA DaStep == Inv /\ [Next]_vars => DaInv'
<1> SUFFICES ASSUME Inv, [Next]_vars PROVE DaInv'
  OBVIOUS
<1> USE DEF Inv, DaInv
<1>1. CASE UNCHANGED daVars
  BY <1>1, DecisionStable
<1>2. ASSUME NEW h \in Da, GetAttestations(h) PROVE DaInv'
  BY <1>2, DecisionStable DEF GetAttestations, NoReply, TypeOK
<1>3. ASSUME NEW h \in Da, GetAttestationsMerkleTree(h) PROVE DaInv'
  <2>1. CASE DaAnswers(h, NoData("NotAvailable"))
    BY <2>1, DecisionStable DEF DaAnswers, NoData, TypeOK
  <2>2. CASE ~DaAnswers(h, NoData("NotAvailable"))
    <3>1. /\ MerkleTree
          /\ daPc' = [daPc EXCEPT ![h] = "reading"]
          /\ daTree' = [daTree EXCEPT ![h] = tree']
          /\ daTodo' = [daTodo EXCEPT ![h] = added]
          /\ UNCHANGED <<daGot, daReply>>
          /\ daPc[h] = "merkle"
      BY <1>3, <2>2 DEF GetAttestationsMerkleTree
    <3>2. daGot[h] = {}
      BY <3>1
    <3> QED
      BY <3>1, <3>2, DecisionStable, MerkleTreeOfConsensus DEF TypeOK
  <2> QED
    BY <2>1, <2>2
<1>4. ASSUME NEW h \in Da, NEW a \in Atts, attestationToDAAttestation(h, a)
      PROVE DaInv'
  <2>1. CASE DaAnswers(h, NoData("NotAvailable"))
    BY <2>1, DecisionStable DEF DaAnswers, NoData, TypeOK
  <2>2. CASE ~DaAnswers(h, NoData("NotAvailable"))
    <3>1. /\ a \in consensus => a \in daTree[h]
          /\ daGot' = [daGot EXCEPT
                         ![h] = IF a \in consensus THEN @ \cup {a} ELSE @]
          /\ daTodo' = [daTodo EXCEPT ![h] = @ \ {a}]
          /\ UNCHANGED <<daPc, daTree, daReply>>
      BY <1>4, <2>2 DEF attestationToDAAttestation
    <3>2. daTree[h] # {} => consensus = bitVector
      BY DEF ConsensusInv
    <3> QED
      BY <3>1, <3>2, DecisionStable DEF TypeOK
  <2> QED
    BY <2>1, <2>2
<1>5. ASSUME NEW h \in Da, GetAttestationsReturns(h) PROVE DaInv'
  <2> DEFINE r == [st |-> "Ok", data |-> daGot[h], bv |-> daTree[h]]
  <2>1. DaAnswers(h, r) /\ daTodo[h] = {}
    BY <1>5 DEF GetAttestationsReturns
  <2>2. r.data # {} => /\ decided /\ finished
                       /\ r.data = bitVector /\ r.bv = bitVector
    BY <2>1
  <2> HIDE DEF r
  <2> QED
    BY <2>1, <2>2, DecisionStable DEF DaAnswers, TypeOK
<1>6. CASE ManagerNext
  BY <1>1, <1>6 DEF ManagerNext, OnRequest, PrepareRequest,
      ComputeConsensusBitVoteFails,
      ComputeConsensusBitVote, setConsensusStatus, ComputeConsensusBitVoteEnds,
      retryUnsuccessfulChosen, retryUnsuccessfulChosenEnds
<1>7. CASE WorkerNext \/ VoteNext
  BY <1>1, <1>7 DEF WorkerNext, Dequeue, HandleStarts, HandleEnds,
      VoteNext, submit2, BitVoteFromAttestations, submit2Returns
<1>8. CASE FspNext
  BY <1>1, <1>8 DEF FspNext, GetConsensusBitVote, submitSignaturesChecks,
      MerkleTreeCached, MerkleRoot
<1>9. CASE UNCHANGED vars
  BY <1>1, <1>9 DEF vars
<1> QED
  BY <1>2, <1>3, <1>4, <1>5, <1>6, <1>7, <1>8, <1>9 DEF Next, DaNext

\* Before the consensus a confirmed request stays confirmed, so a bit that
\* submit2 has read or returned stays correct.
LEMMA VoteStep == Inv /\ [Next]_vars => VoteInv'
<1> SUFFICES ASSUME Inv, [Next]_vars, ~decided' PROVE VoteInv'
  BY DEF VoteInv
<1>0. ~decided /\ mgr = "idle"
  BY DecisionStable DEF Inv, ConsensusInv
<1> USE <1>0 DEF Inv, TypeOK, VoteInv
<1>1. ASSUME NEW a \in Atts, NEW s \in Statuses, OnRequest(a, s) PROVE VoteInv'
  BY <1>1 DEF OnRequest, PrepareRequest, QueueInv
<1>2. ASSUME NEW k \in Kinds, NEW a \in Atts, Dequeue(k, a) PROVE VoteInv'
  BY <1>2 DEF Dequeue
<1>3. ASSUME NEW k \in Kinds, NEW a \in Atts, HandleStarts(k, a) PROVE VoteInv'
  BY <1>3 DEF HandleStarts
<1>4. ASSUME NEW k \in Kinds, NEW a \in Atts, NEW o \in Outcomes,
             HandleEnds(k, a, o)
      PROVE VoteInv'
  <2>1. k = "regular" /\ status[a] # "Success"
    BY <1>4 DEF HandleEnds
  <2>2. o = "Success" => ~RetryLater(k, a, o)
    BY DEF RetryLater
  <2> QED
    BY <1>4, <2>1, <2>2 DEF HandleEnds
<1>5. CASE submit2
  BY <1>5 DEF submit2
<1>6. ASSUME NEW a \in Atts, BitVoteFromAttestations(a) PROVE VoteInv'
  BY <1>6 DEF BitVoteFromAttestations, IsFirst
<1>7. CASE submit2Returns
  BY <1>7 DEF submit2Returns
<1>8. CASE UNCHANGED <<status, item, voteVars>>
  BY <1>8
<1>9. CASE FspNext
  BY <1>8, <1>9 DEF FspNext, GetConsensusBitVote, submitSignaturesChecks,
      MerkleTreeCached, MerkleRoot
<1>10. CASE DaNext
  BY <1>8, <1>10 DEF DaNext, GetAttestations, GetAttestationsMerkleTree,
      attestationToDAAttestation, GetAttestationsReturns
<1>11. CASE \/ ComputeConsensusBitVoteFails
            \/ \E C \in SUBSET Atts : ComputeConsensusBitVote(C)
            \/ \E a \in Atts : setConsensusStatus(a)
            \/ ComputeConsensusBitVoteEnds
            \/ \E a \in Atts : retryUnsuccessfulChosen(a)
            \/ retryUnsuccessfulChosenEnds
            \/ UNCHANGED vars
  BY <1>8, <1>11 DEF vars, ComputeConsensusBitVoteFails, ComputeConsensusBitVote,
     setConsensusStatus, ComputeConsensusBitVoteEnds, retryUnsuccessfulChosen,
     retryUnsuccessfulChosenEnds
<1> QED
  BY <1>1, <1>2, <1>3, <1>4, <1>5, <1>6, <1>7, <1>9, <1>10, <1>11
  DEF Next, ManagerNext, WorkerNext, VoteNext

\* The invariant is inductive.
LEMMA InvStep == Inv /\ [Next]_vars => Inv'
BY TypeOKStep, ConsensusStep, TreeStep, QueueStep, FspStep, DaStep, VoteStep
DEF Inv

\* The invariant holds in every reachable state of the round.
THEOREM Invariance == Spec => []Inv
BY InitInv, InvStep, PTL DEF Spec

-----------------------------------------------------------------------------
\* Type correctness: no handler, worker or step of the manager leaves the
\* round, the queues or a call in a state outside their types; flags, bitVote
\* and tree only name requests of the round.
THEOREM TypeCorrect == Spec => []TypeOK
<1>1. Inv => TypeOK
  BY DEF Inv
<1> QED
  BY <1>1, Invariance, PTL

\* submitSignatures: for any number of requests and of concurrent calls, an Ok
\* answer carries the root over exactly the consensus and the same bitVote.
THEOREM SignedRootCorrect == Spec => []SignedRootMatchesConsensus
<1>1. Inv => SignedRootMatchesConsensus
  BY DEF Inv, FspInv, SignedRootMatchesConsensus
<1> QED
  BY <1>1, Invariance, PTL

\* submitSignatures never signs over a request without a verifier.
THEOREM SignsSupported == Spec => []SignsOnlySupported
<1>1. Inv => SignsOnlySupported
  BY DEF Inv, FspInv, SignsOnlySupported
<1> QED
  BY <1>1, Invariance, PTL

\* getAttestations publishes nothing or exactly what was signed.
THEOREM DaProofsCorrect == Spec => []DaProofsMatchConsensus
<1>1. Inv => DaProofsMatchConsensus
  BY DEF Inv, DaInv, DaProofsMatchConsensus
<1> QED
  BY <1>1, Invariance, PTL

\* Round.MerkleTree never replaces a tree by another one.
THEOREM TreeNeverChanges == Spec => TreeStable
<1>1. Inv /\ [Next]_vars => [tree # {} => tree' = tree]_vars
  BY TreeStep
<1> QED
  BY <1>1, Invariance, PTL DEF Spec, TreeStable

\* submit2: successive answers before the consensus only add bits.
THEOREM BitVotesGrow == Spec => BitVoteGrows
<1>1. Inv /\ [Next]_vars => [~decided' => vote \subseteq vote']_vars
  <2> SUFFICES ASSUME Inv, [Next]_vars, ~decided', vote' # vote
               PROVE  vote \subseteq vote'
    OBVIOUS
  <2>1. ~decided
    BY DecisionStable DEF Inv, TypeOK
  <2>2. submit2Returns
    <3>1. ~UNCHANGED vars
      BY DEF vars
    <3>2. ~ManagerNext
      BY DEF ManagerNext, OnRequest, PrepareRequest,
        ComputeConsensusBitVoteFails,
        ComputeConsensusBitVote, setConsensusStatus, retryUnsuccessfulChosen,
        ComputeConsensusBitVoteEnds, retryUnsuccessfulChosenEnds
    <3>3. ~WorkerNext
      BY DEF WorkerNext, Dequeue, HandleStarts, HandleEnds
    <3>4. ~FspNext /\ ~DaNext
      BY DEF FspNext, GetConsensusBitVote, submitSignaturesChecks,
        MerkleTreeCached, MerkleRoot, DaNext, GetAttestations,
        GetAttestationsMerkleTree, attestationToDAAttestation,
        GetAttestationsReturns
    <3> QED
      BY <3>1, <3>2, <3>3, <3>4
      DEF Next, VoteNext, submit2, BitVoteFromAttestations
  <2> QED
    BY <2>1, <2>2 DEF Inv, VoteInv, submit2Returns
<1> QED
  BY <1>1, Invariance, PTL DEF Spec, BitVoteGrows

-----------------------------------------------------------------------------
\* What the queues do with a request, on top of Inv: a request that has not
\* been in the fast queue has no open entry once it is confirmed, and none is
\* dropped in status Processing before the consensus.
EntryInv ==
    /\ roundStatus = "Consensus" => decided
    /\ \A a \in Atts :
         item["fast"][a] = "none" /\ status[a] = "Success" =>
             item["regular"][a] \in {"none", "gone"}
    /\ ~decided /\ roundStatus # "Done" =>
         \A a \in Atts : item["regular"][a] = "gone" => status[a] # "Processing"

\* The loop of the retry has the requests it has passed confirmed or queued.
RetryInv ==
    decided /\ mgr # "setting" /\ consensus \subseteq Supported =>
        \A a \in consensus :
            \/ status[a] = "Success"
            \/ item["fast"][a] # "none"
            \/ mgr = "retry" /\ a \in mtodo

\* A worker may drop a request only if it is confirmed, and only a call of
\* Handle that is still open can change a status.
LEMMA EntryStep == Inv /\ EntryInv /\ [Next]_vars => EntryInv'
<1> SUFFICES ASSUME Inv, EntryInv, [Next]_vars PROVE EntryInv'
  OBVIOUS
<1> USE DEF Inv, TypeOK, EntryInv
<1>1. ASSUME NEW a \in Atts, NEW s \in Statuses, OnRequest(a, s) PROVE EntryInv'
  BY <1>1 DEF OnRequest, PrepareRequest, QueueInv
<1>2. ASSUME NEW a \in Atts, retryUnsuccessfulChosen(a) PROVE EntryInv'
  BY <1>2 DEF retryUnsuccessfulChosen, ConsensusInv
<1>3. ASSUME NEW k \in Kinds, NEW a \in Atts, Dequeue(k, a) PROVE EntryInv'
  BY <1>3 DEF Dequeue, Discard
<1>4. ASSUME NEW k \in Kinds, NEW a \in Atts, HandleStarts(k, a) PROVE EntryInv'
  BY <1>4 DEF HandleStarts
<1>5. ASSUME NEW k \in Kinds, NEW a \in Atts, NEW o \in Outcomes,
             HandleEnds(k, a, o)
      PROVE EntryInv'
  <2>1. o # "Processing" /\ (o = "Success" => ~RetryLater(k, a, o))
    BY ConstantsAssumption DEF VerifierOutcomes, RetryLater
  <2> QED
    BY <1>5, <2>1 DEF HandleEnds
<1>6. ASSUME UNCHANGED <<status, item>>, roundStatus' = "Consensus" => decided',
             ~decided' => ~decided,
             roundStatus' # "Done" => roundStatus # "Done"
      PROVE EntryInv'
  BY <1>6
<1>7. CASE VoteNext
  BY <1>6, <1>7 DEF VoteNext, submit2, BitVoteFromAttestations, submit2Returns
<1>8. CASE FspNext
  BY <1>6, <1>8 DEF FspNext, GetConsensusBitVote, submitSignaturesChecks,
     MerkleTreeCached, MerkleRoot, MerkleTree
<1>9. CASE DaNext
  BY <1>6, <1>9 DEF DaNext, GetAttestations, GetAttestationsMerkleTree,
     attestationToDAAttestation, GetAttestationsReturns, MerkleTree
<1>10. ASSUME NEW C \in SUBSET Atts, ComputeConsensusBitVote(C) PROVE EntryInv'
  BY <1>10 DEF ComputeConsensusBitVote
<1>11. CASE \/ ComputeConsensusBitVoteFails
            \/ \E a \in Atts : setConsensusStatus(a)
            \/ ComputeConsensusBitVoteEnds
            \/ retryUnsuccessfulChosenEnds
            \/ UNCHANGED vars
  BY <1>6, <1>11 DEF vars, ComputeConsensusBitVoteFails, setConsensusStatus,
     ComputeConsensusBitVoteEnds, retryUnsuccessfulChosenEnds
<1> QED
  BY <1>1, <1>2, <1>3, <1>4, <1>5, <1>7, <1>8, <1>9, <1>10, <1>11
  DEF Next, ManagerNext, WorkerNext

\* A request the retry has passed stays confirmed or has its entry: a call of
\* Handle that takes a confirmation away is one of the fast queue.
LEMMA RetryStep == Inv /\ EntryInv /\ RetryInv /\ [Next]_vars => RetryInv'
<1> SUFFICES ASSUME Inv, EntryInv, RetryInv, [Next]_vars PROVE RetryInv'
  OBVIOUS
<1> USE DEF Inv, TypeOK, RetryInv
<1>1. ASSUME NEW a \in Atts, NEW s \in Statuses, OnRequest(a, s) PROVE RetryInv'
  BY <1>1 DEF OnRequest, PrepareRequest
<1>2. ASSUME NEW a \in Atts, retryUnsuccessfulChosen(a) PROVE RetryInv'
  BY <1>2 DEF retryUnsuccessfulChosen, Unsuccessful, IsFirst
<1>3. ASSUME NEW k \in Kinds, NEW a \in Atts,
             Dequeue(k, a) \/ HandleStarts(k, a)
      PROVE RetryInv'
  <2>1. \A b \in Atts : item["fast"][b] # "none" => item'["fast"][b] # "none"
    BY <1>3 DEF Dequeue, HandleStarts
  <2>2. UNCHANGED <<status, consensus, decided, mgrVars>>
    BY <1>3 DEF Dequeue, HandleStarts
  <2> QED
    BY <2>1, <2>2
<1>4. ASSUME NEW k \in Kinds, NEW a \in Atts, NEW o \in Outcomes,
             HandleEnds(k, a, o)
      PROVE RetryInv'
  <2>1. item["fast"][a] # "none" \/ status[a] # "Success"
    BY <1>4 DEF HandleEnds, EntryInv
  <2>2. \A b \in Atts : item["fast"][b] # "none" => item'["fast"][b] # "none"
    BY <1>4 DEF HandleEnds
  <2>3. \A b \in Atts : b # a => status'[b] = status[b]
    BY <1>4 DEF HandleEnds
  <2>4. UNCHANGED <<consensus, decided, mgrVars>>
    BY <1>4 DEF HandleEnds
  <2> QED
    BY <2>1, <2>2, <2>3, <2>4
<1>5. ASSUME NEW C \in SUBSET Atts, ComputeConsensusBitVote(C) PROVE RetryInv'
  BY <1>5 DEF ComputeConsensusBitVote
<1>6. ASSUME NEW a \in Atts, setConsensusStatus(a) PROVE RetryInv'
  BY <1>6 DEF setConsensusStatus
<1>7. CASE ComputeConsensusBitVoteEnds
  BY <1>7 DEF ComputeConsensusBitVoteEnds
<1>8. CASE retryUnsuccessfulChosenEnds
  BY <1>8 DEF retryUnsuccessfulChosenEnds
<1>9. CASE UNCHANGED <<status, item, consensus, decided, mgrVars>>
  BY <1>9
<1>10. CASE VoteNext
  BY <1>9, <1>10 DEF VoteNext, submit2, BitVoteFromAttestations, submit2Returns
<1>11. CASE FspNext
  BY <1>9, <1>11 DEF FspNext, GetConsensusBitVote, submitSignaturesChecks,
     MerkleTreeCached, MerkleRoot
<1>12. CASE DaNext
  BY <1>9, <1>12 DEF DaNext, GetAttestations, GetAttestationsMerkleTree,
     attestationToDAAttestation, GetAttestationsReturns
<1>13. CASE ComputeConsensusBitVoteFails \/ UNCHANGED vars
  BY <1>9, <1>13 DEF vars, ComputeConsensusBitVoteFails
<1> QED
  BY <1>1, <1>2, <1>3, <1>4, <1>5, <1>6, <1>7, <1>8, <1>10, <1>11, <1>12, <1>13
  DEF Next, ManagerNext, WorkerNext

\* Both hold in every reachable state.
LEMMA QueuesInvariance == Spec => [](EntryInv /\ RetryInv)
<1>1. Init => EntryInv /\ RetryInv
  BY DEF Init, EntryInv, RetryInv
<1>2. Inv /\ (EntryInv /\ RetryInv) /\ [Next]_vars => (EntryInv /\ RetryInv)'
  BY EntryStep, RetryStep
<1> QED
  BY <1>1, <1>2, Invariance, PTL DEF Spec

\* Discard: for any number of requests, workers and attempts, no queue drops a
\* request that waits for its verifier before the consensus, unless the round
\* was marked Done by getAttestations.
THEOREM NothingDropped == Spec => []NotDroppedBeforeConsensus
<1>1. Inv /\ EntryInv => NotDroppedBeforeConsensus
  BY DEF Inv, TypeOK, EntryInv, NotDroppedBeforeConsensus
<1> QED
  BY <1>1, Invariance, QueuesInvariance, PTL

\* retryUnsuccessfulChosen: when it has returned, every chosen request is
\* confirmed or has been given to the fast queue, if all of them have queues.
THEOREM RetryComplete == Spec => []RetryCoversChosen
<1>1. Inv /\ RetryInv => RetryCoversChosen
  BY DEF Inv, RetryInv, RetryCoversChosen
<1> QED
  BY <1>1, Invariance, QueuesInvariance, PTL

=============================================================================
