----------------------------- MODULE MCBitVotes -----------------------------
(* Instances of BitVotes for TLC; the .cfg files choose one of the sets.    *)
EXTENDS BitVotes

Add(w) == MapThenSumSet(LAMBDA j : w[j], DOMAIN w)

\* Three voters and three requests, equal and different weights and fees; nobody
\* or one vote of weight is missing; the search is cut at once or never.
ThreeByThree ==
    {[weights |-> w, fees |-> f, total |-> Add(w) + m, maxOps |-> o] :
        w \in {<<1, 1, 1>>, <<2, 1, 1>>, <<1, 2, 2>>},
        f \in {<<1, 1, 1>>, <<1, 2, 1>>, <<2, 1, 2>>},
        m \in {0, 1}, o \in {4, 1000}}

\* Four voters and four requests: enough bits that differ between the votes
\* for the search over votes to go first; some searches end, some are cut.  With
\* four voters, three requests and five operations a solution is returned that
\* MaximizeVotes extended.
FourVoters ==
    {[weights |-> <<3, 2, 2, 2>>, fees |-> <<3, 1, 2, 1>>, total |-> 9,
      maxOps |-> 16],
     [weights |-> <<2, 3, 3, 1>>, fees |-> <<2, 3, 1>>, total |-> 9,
      maxOps |-> 5]}

SmallInstances == ThreeByThree \cup FourVoters

=============================================================================
