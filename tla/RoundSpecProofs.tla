-------------------------- MODULE RoundSpecProofs --------------------------
(***************************************************************************)
(* RoundLife implements RoundSpec, for any number of requests, handlers,   *)
(* attempts and workers.  Every action is a step of RoundSpec or leaves    *)
(* what RoundSpec speaks of unchanged; Inv of RoundLifeProofs supplies the *)
(* guards, and DaTreeInv, on top of it, the one of Publish.                *)
(***************************************************************************)
EXTENDS RoundLifeProofs

USE DEF Kinds, roundVars, treeVars, mgrVars, queueVars, voteVars, fspVars, daVars

\* The tree a getAttestations call works with is the one the round stores.
DaTreeInv == \A h \in Da : daTree[h] # {} => tree = daTree[h]

\* The answers, as RoundSpec sees them.
Signed == [h \in Fsp |-> Answered(fspReply[h])]

Published == [h \in Da |-> Answered(daReply[h])]

\* No call of getAttestations can hold a tree other than the stored one: the
\* stored one never changes, and a call takes the one it has just stored.
LEMMA DaTreeStep == Inv /\ DaTreeInv /\ [Next]_vars => DaTreeInv'
<1> SUFFICES ASSUME Inv, DaTreeInv, [Next]_vars PROVE DaTreeInv'
  OBVIOUS
<1>1. tree # {} => tree' = tree
  BY TreeStep
<1>2. CASE UNCHANGED daTree
  BY <1>1, <1>2 DEF DaTreeInv
<1>3. ASSUME NEW h \in Da, NEW r, DaAnswers(h, r) PROVE DaTreeInv'
  BY <1>1, <1>3 DEF DaTreeInv, DaAnswers, Inv, TypeOK
<1>4. ASSUME NEW h \in Da, GetAttestationsMerkleTree(h) PROVE DaTreeInv'
  BY <1>1, <1>3, <1>4 DEF GetAttestationsMerkleTree, DaTreeInv, Inv, TypeOK
<1>5. ASSUME NEW h \in Da, NEW a \in Atts, attestationToDAAttestation(h, a)
      PROVE DaTreeInv'
  BY <1>2, <1>3, <1>5 DEF attestationToDAAttestation
<1>6. ASSUME NEW h \in Da, GetAttestations(h) \/ GetAttestationsReturns(h)
      PROVE DaTreeInv'
  BY <1>2, <1>3, <1>6 DEF GetAttestations, GetAttestationsReturns
<1>7. CASE ManagerNext
  BY <1>2, <1>7 DEF ManagerNext, OnRequest, PrepareRequest,
      ComputeConsensusBitVoteFails,
      ComputeConsensusBitVote, setConsensusStatus, ComputeConsensusBitVoteEnds,
      retryUnsuccessfulChosen, retryUnsuccessfulChosenEnds
<1>8. CASE WorkerNext \/ VoteNext
  BY <1>2, <1>8 DEF WorkerNext, Dequeue, HandleStarts, HandleEnds,
      VoteNext, submit2, BitVoteFromAttestations, submit2Returns
<1>9. CASE FspNext
  BY <1>2, <1>9 DEF FspNext, GetConsensusBitVote, submitSignaturesChecks,
      MerkleTreeCached, MerkleRoot
<1>10. CASE UNCHANGED vars
  BY <1>2, <1>10 DEF vars
<1> QED
  BY <1>4, <1>5, <1>6, <1>7, <1>8, <1>9, <1>10 DEF Next, DaNext

\* Whatever a getAttestations call collects is from the stored tree, in every
\* reachable state.
LEMMA DaTreeInvariance == Spec => []DaTreeInv
<1>1. Init => DaTreeInv
  BY DEF Init, DaTreeInv
<1> QED
  BY <1>1, DaTreeStep, Invariance, PTL DEF Spec

-----------------------------------------------------------------------------
\* An answer changes what its caller was given, and nobody else.
LEMMA SignedAnswer ==
    ASSUME TypeOK, NEW h \in Fsp, NEW r, fspReply' = [fspReply EXCEPT ![h] = r]
    PROVE  Signed' = [Signed EXCEPT ![h] = Answered(r)]
BY DEF TypeOK, Signed

LEMMA PublishedAnswer ==
    ASSUME TypeOK, NEW h \in Da, NEW r, daReply' = [daReply EXCEPT ![h] = r]
    PROVE  Published' = [Published EXCEPT ![h] = Answered(r)]
BY DEF TypeOK, Published

\* What an answer without data counts for: nothing.
LEMMA NoDataAnswered ==
    /\ Answered(NoReply) = {}
    /\ \A st \in {"Retry", "Empty", "NotAvailable"} : Answered(NoData(st)) = {}
BY DEF Answered, NoReply, NoData

\* The steps of RoundSpec, in the variables of the round.
LEMMA RoundSteps ==
    /\ R!Next <=>
         \/ \E C \in SUBSET Atts : R!Choose(C)
         \/ R!Close
         \/ R!Build
         \/ \E h \in Fsp : R!Sign(h) \/ R!AskRoot(h)
         \/ \E h \in Da : R!Publish(h) \/ R!AskProofs(h)
    /\ R!Signable <=> finished /\ decided /\ bitVector # {}
                               /\ bitVector \subseteq Supported
BY DEF R!Next, R!Signable

\* The manager chooses once, closes, and does nothing else that a caller sees.
LEMMA ManagerSimulates ==
    ASSUME Inv, ManagerNext
    PROVE  R!Next \/ UNCHANGED R!vars
<1>1. CASE ComputeConsensusBitVoteFails
  BY <1>1, RoundSteps DEF ComputeConsensusBitVoteFails, R!Close
<1>2. ASSUME NEW C \in SUBSET Atts, ComputeConsensusBitVote(C) PROVE R!Next
  <2>1. ~decided /\ ~finished
    BY <1>2 DEF ComputeConsensusBitVote, Inv, ConsensusInv
  <2>2. R!Choose(C)
    BY <1>2, <2>1 DEF ComputeConsensusBitVote, R!Choose
  <2> QED
    BY <2>2, RoundSteps
<1>3. CASE ComputeConsensusBitVoteEnds
  <2>1. ~finished
    BY <1>3 DEF ComputeConsensusBitVoteEnds, Inv, ConsensusInv
  <2>2. R!Close
    BY <1>3, <2>1 DEF ComputeConsensusBitVoteEnds, R!Close
  <2> QED
    BY <2>2, RoundSteps
<1>4. CASE \/ \E a \in Atts, s \in Statuses : OnRequest(a, s)
           \/ \E a \in Atts : setConsensusStatus(a)
           \/ \E a \in Atts : retryUnsuccessfulChosen(a)
           \/ retryUnsuccessfulChosenEnds
  BY <1>4 DEF OnRequest, setConsensusStatus, retryUnsuccessfulChosen,
     retryUnsuccessfulChosenEnds, R!vars
<1> QED
  BY <1>1, <1>2, <1>3, <1>4 DEF ManagerNext

\* submitSignatures signs the whole choice or nothing.
LEMMA FspSimulates ==
    ASSUME Inv, FspNext
    PROVE  R!Next \/ UNCHANGED R!vars
<1>0. TypeOK
  BY DEF Inv
<1>1. ASSUME NEW h \in Fsp, NEW r, fspReply' = [fspReply EXCEPT ![h] = r],
             Answered(r) = {},
             UNCHANGED <<bitVector, decided, finished, tree, daReply>>
      PROVE  R!Next
  <2>1. R!AskRoot(h)
    BY <1>0, <1>1, SignedAnswer DEF R!AskRoot, Signed
  <2> QED
    BY <2>1, RoundSteps
<1>2. ASSUME NEW h \in Fsp, GetConsensusBitVote(h) PROVE R!Next
  BY <1>1, <1>2, NoDataAnswered DEF GetConsensusBitVote
<1>3. ASSUME NEW h \in Fsp, submitSignaturesChecks(h)
      PROVE  R!Next \/ UNCHANGED R!vars
  <2>1. ASSUME NEW st \in {"Retry", "Empty"}, FspAnswers(h, NoData(st))
        PROVE  R!Next
    BY <1>1, <1>3, <2>1, NoDataAnswered DEF FspAnswers, submitSignaturesChecks
  <2>2. CASE UNCHANGED fspReply
    BY <1>3, <2>2 DEF submitSignaturesChecks, R!vars
  <2> QED
    BY <1>3, <2>1, <2>2 DEF submitSignaturesChecks
<1>4. ASSUME NEW h \in Fsp, NEW b, R!Signable, tree' = bitVector,
             FspAnswers(h, [st |-> "Ok", data |-> tree', bv |-> b]),
             UNCHANGED <<bitVector, decided, finished, daReply>>
      PROVE  R!Next
  <2> DEFINE r == [st |-> "Ok", data |-> tree', bv |-> b]
  <2>1. Answered(r) = bitVector
    BY <1>4 DEF Answered
  <2>2. fspReply' = [fspReply EXCEPT ![h] = r]
    BY <1>4 DEF FspAnswers
  <2> HIDE DEF r
  <2>3. Signed' = [Signed EXCEPT ![h] = bitVector]
    BY <1>0, <2>1, <2>2, SignedAnswer
  <2>4. R!Sign(h)
    BY <1>4, <2>3 DEF R!Sign, Signed
  <2> QED
    BY <2>4, RoundSteps
<1>5. ASSUME NEW h \in Fsp, MerkleTreeCached(h)
      PROVE  R!Next \/ UNCHANGED R!vars
  <2>1. CASE tree # {}
    <3>1. R!Signable /\ tree' = bitVector
      BY <1>5, <2>1, RoundSteps DEF Inv, TreeInv, MerkleTreeCached
    <3> QED
      BY <1>4, <1>5, <2>1, <3>1 DEF MerkleTreeCached
  <2>2. CASE tree = {}
    BY <1>5, <2>2 DEF MerkleTreeCached, R!vars
  <2> QED
    BY <2>1, <2>2
<1>6. ASSUME NEW h \in Fsp, MerkleRoot(h) PROVE R!Next
  <2>1. CASE FspAnswers(h, NoData("Retry")) /\ tree' = tree
    BY <1>1, <1>6, <2>1, NoDataAnswered DEF FspAnswers, MerkleRoot
  <2>2. CASE MerkleTree /\ tree' = {}
    BY <1>6, <2>1, <2>2, MerkleTreeOfConsensus DEF MerkleRoot
  <2>3. CASE /\ MerkleTree /\ tree' # {}
             /\ FspAnswers(h, [st |-> "Ok", data |-> tree', bv |-> fspBv[h].bv])
    <3>1. R!Signable /\ tree' = bitVector
      BY <2>3, MerkleTreeOfConsensus, RoundSteps
    <3> QED
      BY <1>4, <1>6, <2>3, <3>1 DEF MerkleRoot
  <2> QED
    BY <1>6, <2>1, <2>2, <2>3 DEF MerkleRoot
<1> QED
  BY <1>2, <1>3, <1>5, <1>6 DEF FspNext

\* getAttestations publishes the whole choice or nothing, and only once the
\* root over it is stored.
LEMMA DaSimulates ==
    ASSUME Inv, DaTreeInv, DaNext
    PROVE  R!Next \/ UNCHANGED R!vars
<1>0. TypeOK
  BY DEF Inv
<1>1. ASSUME NEW h \in Da, NEW r, daReply' = [daReply EXCEPT ![h] = r],
             Answered(r) = {},
             UNCHANGED <<bitVector, decided, finished, tree, fspReply>>
      PROVE  R!Next
  <2>1. R!AskProofs(h)
    BY <1>0, <1>1, PublishedAnswer DEF R!AskProofs, Published
  <2> QED
    BY <2>1, RoundSteps
<1>2. ASSUME NEW h \in Da, GetAttestations(h) PROVE R!Next
  BY <1>1, <1>2, NoDataAnswered DEF GetAttestations
<1>3. ASSUME NEW h \in Da, GetAttestationsMerkleTree(h)
      PROVE  R!Next \/ UNCHANGED R!vars
  <2>1. CASE DaAnswers(h, NoData("NotAvailable")) /\ tree' = tree
    BY <1>1, <1>3, <2>1, NoDataAnswered DEF DaAnswers, GetAttestationsMerkleTree
  <2>2. CASE MerkleTree /\ UNCHANGED daReply
    <3>1. CASE bitVector = {}
      BY <1>3, <2>2, <3>1, MerkleTreeOfConsensus
      DEF GetAttestationsMerkleTree, R!vars
    <3>2. CASE bitVector # {}
      <4>1. R!Signable
        BY <2>2, <3>2, MerkleTreeOfConsensus, RoundSteps
      <4>2. R!Build
        BY <1>3, <2>2, <4>1, MerkleTreeOfConsensus
        DEF GetAttestationsMerkleTree, R!Build
      <4> QED
        BY <4>2, RoundSteps
    <3> QED
      BY <3>1, <3>2
  <2> QED
    BY <1>3, <2>1, <2>2 DEF GetAttestationsMerkleTree
<1>4. ASSUME NEW h \in Da, NEW a \in Atts, attestationToDAAttestation(h, a)
      PROVE  R!Next \/ UNCHANGED R!vars
  <2>1. CASE DaAnswers(h, NoData("NotAvailable"))
    BY <1>1, <1>4, <2>1, NoDataAnswered DEF DaAnswers, attestationToDAAttestation
  <2>2. CASE UNCHANGED daReply
    BY <1>4, <2>2 DEF attestationToDAAttestation, R!vars
  <2> QED
    BY <1>4, <2>1, <2>2 DEF attestationToDAAttestation
<1>5. ASSUME NEW h \in Da, GetAttestationsReturns(h) PROVE R!Next
  <2> DEFINE r == [st |-> "Ok", data |-> daGot[h], bv |-> daTree[h]]
  <2>1. /\ daReply' = [daReply EXCEPT ![h] = r]
        /\ UNCHANGED <<bitVector, decided, finished, tree, fspReply>>
        /\ daTodo[h] = {}
    BY <1>5 DEF GetAttestationsReturns, DaAnswers
  <2>2. Answered(r) = daGot[h]
    BY DEF Answered
  <2> HIDE DEF r
  <2>3. CASE daGot[h] = {}
    BY <1>1, <2>1, <2>2, <2>3
  <2>4. CASE daGot[h] # {}
    <3>1. /\ daTree[h] # {}
          /\ decided /\ finished
          /\ daGot[h] = bitVector
          /\ tree = bitVector
      BY <2>1, <2>4 DEF Inv, DaInv, DaTreeInv
    <3>2. R!Signable
      BY <2>4, <3>1, RoundSteps DEF Inv, TreeInv
    <3>3. Published' = [Published EXCEPT ![h] = bitVector]
      BY <1>0, <2>1, <2>2, <3>1, PublishedAnswer
    <3>4. R!Publish(h)
      BY <2>1, <3>1, <3>2, <3>3 DEF R!Publish, Published
    <3> QED
      BY <3>4, RoundSteps
  <2> QED
    BY <2>3, <2>4
<1> QED
  BY <1>2, <1>3, <1>4, <1>5 DEF DaNext

-----------------------------------------------------------------------------
\* The refinement: for any number of requests and concurrent calls, the round
\* with its locks, its flags written one by one and its interleaved handlers
\* does nothing but choose once, close, and build, sign and publish the whole
\* choice (ComputeConsensusBitVote, MerkleTree, submitSignatures and
\* getAttestations).
THEOREM RoundRefinement == Spec => ImplementsRound
<1>1. Init => R!Init
  BY DEF Init, R!Init, Answered, NoReply
<1>2. Inv /\ DaTreeInv /\ [Next]_vars => [R!Next]_(R!vars)
  <2> SUFFICES ASSUME Inv, DaTreeInv, [Next]_vars
               PROVE  R!Next \/ UNCHANGED R!vars
    OBVIOUS
  <2>1. CASE WorkerNext
    BY <2>1 DEF WorkerNext, Dequeue, HandleStarts, HandleEnds, R!vars
  <2>2. CASE VoteNext
    BY <2>2 DEF VoteNext, submit2, BitVoteFromAttestations, submit2Returns,
       R!vars
  <2>3. CASE UNCHANGED vars
    BY <2>3 DEF vars, R!vars
  <2> QED
    BY <2>1, <2>2, <2>3, ManagerSimulates, FspSimulates, DaSimulates DEF Next
<1> QED
  BY <1>1, <1>2, Invariance, DaTreeInvariance, PTL
  DEF Spec, ImplementsRound, R!Spec

=============================================================================
