------------------------------ MODULE BitVotes ------------------------------
(***************************************************************************)
(* The consensus bitVote: client/attestation/bitVotes.  Given the weighted *)
(* bitVotes of a round and the fees of its requests, the code filters and  *)
(* aggregates votes and bits, searches with branch and bound over bits and *)
(* over votes within a bounded number of operations, and assembles the     *)
(* chosen bits.                                                            *)
(*                                                                         *)
(* A vote is a record [bits, weight]; a bit is its position; a bitVector   *)
(* is the set of bits that are 1.  A Value is the pair <<capped, uncapped>>. *)
(* Weights are uint16 in the code and their total fits (it is a uint16 of  *)
(* the signing policy), so sums do not wrap.  The two strategies of each   *)
(* search run in goroutines of their own, a step each; a search returns    *)
(* when it has been told to, without the second strategy's result if the   *)
(* first one's is optimal.                                                 *)
(***************************************************************************)
EXTENDS Integers, Sequences, SequencesExt, FiniteSets, FiniteSetsExt

CONSTANT
    Instances   \* voters and requests: the weights and the fees as sequences,
                \* the total weight, the bound on the number of operations

\* The sum of f over S.
SumOver(f, S) == MapThenSumSet(LAMBDA x : f[x], S)

ASSUME InstancesAssumption ==
    \A inst \in Instances :
        /\ inst.weights \in Seq(Nat \ {0}) /\ inst.fees \in Seq(Nat \ {0})
        /\ inst.total \in Nat /\ SumOver(inst.weights, DOMAIN inst.weights) <= inst.total
        /\ inst.maxOps \in Nat \ {0}

\* The weight of the votes in S, and the fees of the bits in S.
VotesWeight(votes, S) == SumOver([j \in DOMAIN votes |-> votes[j].weight], S)
BitsFee(fees, S) == SumOver(fees, S)

-----------------------------------------------------------------------------
(* Values.                                                                 *)

Greater(v, u) == v[1] > u[1] \/ (v[1] = u[1] /\ v[2] > u[2])

\* The support counts up to 4/5 of the total weight, rounded up.
CalcValue(feeSum, weight, total) ==
    LET cap == (4 * total + 4) \div 5
    IN  <<feeSum * (IF weight < cap THEN weight ELSE cap), feeSum * weight>>

-----------------------------------------------------------------------------
(* preprocess.go                                                           *)

\* Mutant: a bit with exactly half of the weight is not filtered out.
FilterBitsBelowHalf(votes, fees, total) ==
    LET all == DOMAIN votes
        support(i) == VotesWeight(votes, {j \in all : i \in votes[j].bits})
        inBits == {i \in DOMAIN fees : support(i) = VotesWeight(votes, all)}
        outBits == {i \in DOMAIN fees \ inBits : support(i) < total \div 2}
    IN  [inBits |-> inBits,
         remBits |-> DOMAIN fees \ (inBits \cup outBits),
         inVotes |-> {},
         remVotes |-> all]

\* FilterBits on the initial FilterResults: every vote and bit remains.
FilterBits(votes, fees, total) ==
    LET all == DOMAIN votes
        support(i) == VotesWeight(votes, {j \in all : i \in votes[j].bits})
        inBits == {i \in DOMAIN fees : support(i) = VotesWeight(votes, all)}
        outBits == {i \in DOMAIN fees \ inBits : support(i) <= total \div 2}
    IN  [inBits |-> inBits,
         remBits |-> DOMAIN fees \ (inBits \cup outBits),
         inVotes |-> {},
         remVotes |-> all]

\* Mutant: all zeros on the remaining bits is out even if some bit is in.
FilterVotesAllZeros(fr, votes) ==
    LET ones == {j \in fr.remVotes : fr.remBits \subseteq votes[j].bits}
        zeros == {j \in fr.remVotes \ ones : votes[j].bits \cap fr.remBits = {}}
    IN  [fr EXCEPT !.inVotes = @ \cup ones, !.remVotes = @ \ (ones \cup zeros)]

\* All ones on the remaining bits: in.  All zeros, and no bit is in yet: out.
FilterVotes(fr, votes) ==
    LET ones == {j \in fr.remVotes : fr.remBits \subseteq votes[j].bits}
        zeros == {j \in fr.remVotes \ ones : /\ fr.inBits = {}
                                            /\ votes[j].bits \cap fr.remBits = {}}
    IN  [fr EXCEPT !.inVotes = @ \cup ones, !.remVotes = @ \ (ones \cup zeros)]

FilterBitsOnes(fr, votes) ==
    LET ones == {i \in fr.remBits : \A j \in fr.remVotes : i \in votes[j].bits}
    IN  [fr EXCEPT !.inBits = @ \cup ones, !.remBits = @ \ ones]

Filter(votes, fees, total) ==
    LET fr0 == FilterBits(votes, fees, total)
        fr1 == FilterVotes(fr0, votes)
    IN  IF fr1.remVotes = fr0.remVotes THEN fr1 ELSE FilterBitsOnes(fr1, votes)

GuaranteedWeight(fr, votes) == VotesWeight(votes, fr.inVotes)
GuaranteedFees(fr, fees) == BitsFee(fees, fr.inBits)

\* Votes that agree on the remaining bits; first is the place of the earliest.
AggregateVotes(fr, votes, fees) ==
    {LET same == {i \in fr.remVotes :
                     votes[i].bits \cap fr.remBits = votes[j].bits \cap fr.remBits}
         bits == votes[j].bits \cap fr.remBits
     IN  [first |-> Min(same),
          bits |-> bits,
          weight |-> VotesWeight(votes, same),
          fees |-> GuaranteedFees(fr, fees) + BitsFee(fees, bits)]
     : j \in fr.remVotes}

\* Bits that agree on the remaining votes.
AggregateBits(fr, votes, fees) ==
    LET voters(i) == {j \in fr.remVotes : i \in votes[j].bits}
    IN  {LET same == {k \in fr.remBits : voters(k) = voters(i)}
         IN  [first |-> Min(same),
              indexes |-> same,
              fee |-> BitsFee(fees, same),
              support |-> GuaranteedWeight(fr, votes) + VotesWeight(votes, voters(i))]
         : i \in fr.remBits}

-----------------------------------------------------------------------------
(* The orders in which the two strategies explore: ascending or descending. *)

sortFees(bits, total, asc) ==
    LET val == [b \in bits |-> CalcValue(b.fee, b.support, total)]
        before(b, c) ==
            IF val[b] = val[c] THEN b.first < c.first
            ELSE IF asc THEN Greater(val[c], val[b]) ELSE Greater(val[b], val[c])
        place == [b \in bits |-> Cardinality({c \in bits : before(c, b)}) + 1]
    IN  [i \in 1..Cardinality(bits) |-> CHOOSE b \in bits : place[b] = i]

sortVotes(votes, asc) ==
    LET val(v) == v.fees * v.weight
        before(v, u) ==
            IF val(v) = val(u) THEN v.first < u.first
            ELSE IF asc THEN val(v) < val(u) ELSE val(v) > val(u)
        place == [v \in votes |-> Cardinality({u \in votes : before(u, v)}) + 1]
    IN  [j \in 1..Cardinality(votes) |-> CHOOSE v \in votes : place[v] = j]

-----------------------------------------------------------------------------
(* Branch and bound.  info is ProcessInfo.  A node of the search has the   *)
(* SharedStatus when it is reached, the bit or the vote to branch on, the  *)
(* votes or the bits that are still included, and the weight and the fees  *)
(* that are still possible.  A search returns the status and a set with at *)
(* most one partial solution (nil is {}).  Votes and bits are positions in *)
(* info.votes and info.bits.                                               *)

Nodes(n, others) ==
    [branch : 1..(n + 1), st : [bound : Int \X Int, ops : Nat],
     included : SUBSET others, weight : Int, feeSum : Int]

Supports(info, j, i) == info.bits[i].first \in info.votes[j].bits

FeesOf(info, S) == SumOver([i \in DOMAIN info.bits |-> info.bits[i].fee], S)

NoSolution(st) == [sol |-> {}, st |-> st]

\* The leaf: a solution better than the bound becomes the bound.
Leaf(info, st, a, votes, bits) ==
    LET v == CalcValue(a.feeSum, a.weight, info.total)
    IN  IF Greater(v, st.bound)
        THEN [sol |-> {[votes |-> votes, bits |-> bits, value |-> v]},
              st |-> [st EXCEPT !.bound = v]]
        ELSE NoSolution(st)

\* The search gives up on a branch.
Cut(info, st, a) ==
    \/ st.ops >= info.maxOps
    \/ ~Greater(CalcValue(a.feeSum, a.weight, info.total), st.bound)

\* joinResultsAttestations and joinResultsVotes: r1 is the result with the bit or
\* vote (kind) at branch included, and wins only if it is better.
Join(r0, r1, kind, branch) ==
    IF r1 # {} /\ \A s1 \in r1, s0 \in r0 : Greater(s1.value, s0.value)
    THEN {[s1 EXCEPT ![kind] = @ \cup {branch}] : s1 \in r1}
    ELSE r0

Tick(st, n) == [st EXCEPT !.ops = @ + n]

\* A branch is explored if a majority is left.
IfMajority(info, search, a) ==
    IF a.weight > info.total \div 2 THEN search[a] ELSE NoSolution(a.st)

\* The node without the bit to branch on.
BitExcluded(info, a, st) ==
    [a EXCEPT !.branch = @ + 1, !.st = Tick(st, 1),
              !.feeSum = @ - info.bits[a.branch].fee]

\* prepareDataForBranchWithOne: only the votes for the bit remain.
BitIncluded(info, a, st) ==
    LET yes == {j \in a.included : Supports(info, j, a.branch)}
    IN  [a EXCEPT !.branch = @ + 1, !.included = yes,
                  !.st = Tick(st, Cardinality(a.included) \div 2),
                  !.weight = @ - VotesWeight(info.votes, a.included \ yes)]

BranchBits(info) ==
    LET search[a \in Nodes(Len(info.bits), DOMAIN info.votes)] ==
        LET st == Tick(a.st, 1)
            first == IF info.excludeFirst THEN search[BitExcluded(info, a, st)]
                     ELSE IfMajority(info, search, BitIncluded(info, a, st))
            second == IF info.excludeFirst
                      THEN IfMajority(info, search, BitIncluded(info, a, first.st))
                      ELSE search[BitExcluded(info, a, first.st)]
            r0 == IF info.excludeFirst THEN first.sol ELSE second.sol
            r1 == IF info.excludeFirst THEN second.sol ELSE first.sol
        IN  IF a.branch > Len(info.bits) THEN Leaf(info, st, a, a.included, {})
            ELSE IF Cut(info, st, a) THEN NoSolution(st)
            ELSE [sol |-> Join(r0, r1, "bits", a.branch), st |-> second.st]
    IN  search

\* The node without the vote to branch on.
VoteExcluded(info, a, st) ==
    [a EXCEPT !.branch = @ + 1, !.st = st,
              !.weight = @ - info.votes[a.branch].weight]

\* prepareDataForBranchWithVote: only the bits of the vote remain.
VoteIncluded(info, a, st) ==
    LET yes == {i \in a.included : Supports(info, a.branch, i)}
        no == a.included \ yes
    IN  [a EXCEPT !.branch = @ + 1, !.included = yes,
                  !.st = Tick(st, Cardinality(no) + Cardinality(yes) \div 2),
                  !.feeSum = @ - FeesOf(info, no)]

BranchVotes(info) ==
    LET search[a \in Nodes(Len(info.votes), DOMAIN info.bits)] ==
        LET st == Tick(a.st, 1)
            first == IF info.excludeFirst
                     THEN IfMajority(info, search, VoteExcluded(info, a, st))
                     ELSE search[VoteIncluded(info, a, st)]
            second == IF info.excludeFirst
                      THEN search[VoteIncluded(info, a, first.st)]
                      ELSE IfMajority(info, search, VoteExcluded(info, a, first.st))
            r0 == IF info.excludeFirst THEN first.sol ELSE second.sol
            r1 == IF info.excludeFirst THEN second.sol ELSE first.sol
        IN  IF a.branch > Len(info.votes) THEN Leaf(info, st, a, {}, a.included)
            ELSE IF Cut(info, st, a) THEN NoSolution(st)
            ELSE [sol |-> Join(r0, r1, "votes", a.branch), st |-> second.st]
    IN  search

\* CalcValueFromFees: the value of a partial solution, from its parts.
CalcValueFromFees(info, sol) ==
    CalcValue(info.assumedFees + FeesOf(info, sol.bits),
              info.assumedWeight + VotesWeight(info.votes, sol.votes), info.total)

\* Mutant: a bit is added when one of the votes supports it.
MaximizeBitsOfAny(info, sol) ==
    LET more == {i \in DOMAIN info.bits : \E j \in sol.votes : Supports(info, j, i)}
        max == [sol EXCEPT !.bits = @ \cup more]
    IN  [max EXCEPT !.value = CalcValueFromFees(info, max)]

\* After a search that was cut short: every bit all its votes support, ...
MaximizeBits(info, sol) ==
    LET more == {i \in DOMAIN info.bits : \A j \in sol.votes : Supports(info, j, i)}
        max == [sol EXCEPT !.bits = @ \cup more]
    IN  [max EXCEPT !.value = CalcValueFromFees(info, max)]

\* Mutant: the value is not computed again.
MaximizeVotesKeepsValue(info, sol) ==
    LET more == {j \in DOMAIN info.votes : \A i \in sol.bits : Supports(info, j, i)}
    IN  [sol EXCEPT !.votes = @ \cup more]

\* ... or every vote that supports all its bits.
MaximizeVotes(info, sol) ==
    LET more == {j \in DOMAIN info.votes : \A i \in sol.bits : Supports(info, j, i)}
        max == [sol EXCEPT !.votes = @ \cup more]
    IN  [max EXCEPT !.value = CalcValueFromFees(info, max)]

\* Mutant: a solution that was found is taken to be optimal.
SolutionFoundIsOptimal(info, res, maximized) ==
    IF res.sol = {}
    THEN [bits |-> {}, value |-> <<0, 0>>, optimal |-> FALSE]
    ELSE LET sol == CHOOSE s \in res.sol : TRUE
         IN  [bits |-> {info.bits[i] : i \in sol.bits},
              value |-> sol.value,
              optimal |-> TRUE]

\* A ConsensusSolution from what a search returned, which is maximized if the
\* search was cut short.
Solution(info, res, maximized) ==
    IF res.sol = {}
    THEN [bits |-> {}, value |-> <<0, 0>>, optimal |-> FALSE]
    ELSE LET optimal == res.st.ops < info.maxOps
             sol == CHOOSE s \in (IF optimal THEN res.sol ELSE maximized) : TRUE
         IN  [bits |-> {info.bits[i] : i \in sol.bits},
              value |-> sol.value,
              optimal |-> optimal]

\* The search starts with all fees and all votes.
Root(info, bound, all) ==
    [branch |-> 1, st |-> [bound |-> bound, ops |-> 0], included |-> all,
     weight |-> info.weightVoted,
     feeSum |-> info.assumedFees + FeesOf(info, DOMAIN info.bits)]

BranchAndBoundBits(info, bound) ==
    LET res == BranchBits(info)[Root(info, bound, DOMAIN info.votes)]
    IN  Solution(info, res, {MaximizeBits(info, sol) : sol \in res.sol})

BranchAndBoundVotes(info, bound) ==
    LET res == BranchVotes(info)[Root(info, bound, DOMAIN info.bits)]
    IN  Solution(info, res, {MaximizeVotes(info, sol) : sol \in res.sol})

-----------------------------------------------------------------------------
(* ensemble.go: a round whose votes are all in, then the call.             *)

VARIABLES
    votes,    \* Round.bitVotes, in the order of their arrival
    fees,     \* the fees of Round.Attestations
    total,    \* Round.voterSet.TotalWeight
    maxOps,   \* BitVoteMaxNoOfOperations
    pc,       \* "start", "search" or "done"
    process,  \* what the searches are given: a set with one record
    methods,  \* the methods that have not returned, the first one is running
    best,     \* the solution of the first method once it has returned
    sols,     \* the solutions of the two strategies of the running method
    result    \* the result of EnsembleConsensusBitVote: a set with one record

input == <<votes, fees, total, maxOps>>
vars == <<input, pc, process, methods, best, sols, result>>

\* The first strategy takes the most valuable bits or votes first and includes
\* them first, the second one does the opposite.
Strategies == {"first", "second"}

NotEnded == [s \in Strategies |-> {}]

Init ==
    /\ \E inst \in Instances :
          /\ \E bv \in [DOMAIN inst.weights -> SUBSET DOMAIN inst.fees] :
                votes = [j \in DOMAIN bv |->
                            [bits |-> bv[j], weight |-> inst.weights[j]]]
          /\ fees = inst.fees
          /\ total = inst.total
          /\ maxOps = inst.maxOps
    /\ pc = "start"
    /\ process = {} /\ methods = <<>> /\ best = {} /\ sols = NotEnded
    /\ result = {}

\* FilterAndAggregate; an error if not more than half of the weight voted.  The
\* method with fewer things to branch on goes first.
ensemble ==
    /\ pc = "start"
    /\ LET fr == Filter(votes, fees, total)
           aggVotes == AggregateVotes(fr, votes, fees)
           aggBits == AggregateBits(fr, votes, fees)
           weightVoted == GuaranteedWeight(fr, votes) +
                              SumOver([v \in aggVotes |-> v.weight], aggVotes)
       IN  \/ /\ weightVoted <= total \div 2
              /\ pc' = "done"
              /\ result' = {[err |-> TRUE, bits |-> {}, value |-> <<0, 0>>,
                             optimal |-> FALSE]}
              /\ UNCHANGED <<process, methods>>
           \/ /\ weightVoted > total \div 2
              /\ pc' = "search"
              /\ process' = {[inBits |-> fr.inBits,
                              aggVotes |-> aggVotes,
                              aggBits |-> aggBits,
                              assumedWeight |-> GuaranteedWeight(fr, votes),
                              assumedFees |-> GuaranteedFees(fr, fees),
                              weightVoted |-> weightVoted]}
              /\ methods' = IF Cardinality(aggVotes) < Cardinality(aggBits)
                            THEN <<"votes", "bits">> ELSE <<"bits", "votes">>
              /\ UNCHANGED result
    /\ UNCHANGED <<input, best, sols>>

\* The first method starts with no bound, the second one has to beat the first.
initialBound == IF best = {} THEN <<0, 0>> ELSE (CHOOSE b \in best : TRUE).value

\* ProcessInfo, and what the searches are given besides.
ProcessInfo(p, aggVotes, aggBits, s) ==
    [votes |-> aggVotes, bits |-> aggBits, excludeFirst |-> s = "second",
     assumedWeight |-> p.assumedWeight, assumedFees |-> p.assumedFees,
     weightVoted |-> p.weightVoted, total |-> total, maxOps |-> maxOps]

\* A strategy of BranchAndBoundBitsDouble ends.
BranchAndBoundBitsDouble(s) ==
    /\ pc = "search" /\ Head(methods) = "bits"
    /\ sols[s] = {}
    /\ sols' = [sols EXCEPT ![s] =
                  {BranchAndBoundBits(
                      ProcessInfo(p, SetToSeq(p.aggVotes),
                                  sortFees(p.aggBits, total, s = "second"), s),
                      initialBound) : p \in process}]
    /\ UNCHANGED <<input, pc, process, methods, best, result>>

\* A strategy of BranchAndBoundVotesDouble ends.
BranchAndBoundVotesDouble(s) ==
    /\ pc = "search" /\ Head(methods) = "votes"
    /\ sols[s] = {}
    /\ sols' = [sols EXCEPT ![s] =
                  {BranchAndBoundVotes(
                      ProcessInfo(p, sortVotes(p.aggVotes, s = "second"),
                                  SetToSeq(p.aggBits), s),
                      initialBound) : p \in process}]
    /\ UNCHANGED <<input, pc, process, methods, best, result>>

\* What a Double returns: the first solution if it is optimal, and then without
\* waiting for the second strategy; else the better one, the first if equal.
Returned(sol) ==
    \E s0 \in sols["first"] :
        \/ s0.optimal /\ sol = s0
        \/ /\ ~s0.optimal
           /\ \E s1 \in sols["second"] :
                 sol = IF Greater(s1.value, s0.value) THEN s1 ELSE s0

\* A method that was cut short is followed by the other one.
NextMethod ==
    /\ pc = "search" /\ best = {}
    /\ \E sol \in sols["first"] \cup sols["second"] :
          /\ Returned(sol) /\ ~sol.optimal
          /\ best' = {sol}
    /\ methods' = Tail(methods)
    /\ sols' = NotEnded
    /\ UNCHANGED <<input, pc, process, result>>

\* AssembleSolution: of the only method if its solution is optimal, else of the
\* better one of the two.
EnsembleConsensusBitVote ==
    /\ pc = "search"
    /\ \E sol \in sols["first"] \cup sols["second"], p \in process :
          /\ Returned(sol)
          /\ best = {} => sol.optimal
          /\ \E won \in best \cup {sol} :
                /\ \A b \in best :
                      won = IF Greater(sol.value, b.value) THEN sol ELSE b
                /\ result' = {[err |-> FALSE,
                               bits |-> p.inBits \cup UNION {b.indexes : b \in won.bits},
                               value |-> won.value,
                               optimal |-> won.optimal]}
    /\ pc' = "done"
    /\ UNCHANGED <<input, process, methods, best, sols>>

Next ==
    \/ ensemble
    \/ \E s \in Strategies :
          BranchAndBoundBitsDouble(s) \/ BranchAndBoundVotesDouble(s)
    \/ NextMethod
    \/ EnsembleConsensusBitVote

Spec == Init /\ [][Next]_vars

-----------------------------------------------------------------------------
(* The reference: what the chosen set has to be, without any search.       *)

SupportOf(C) == VotesWeight(votes, {j \in DOMAIN votes : C \subseteq votes[j].bits})

ValueOf(C) == CalcValue(BitsFee(fees, C), SupportOf(C), total)

Feasible(C) == SupportOf(C) > total \div 2

\* Whatever the search did, and wherever it was cut short, the chosen requests
\* are confirmed together by voters with more than half of the total weight
\* (FilterBits, Cut, MaximizeBits, AssembleSolution).
MajorityConfirmsChosen ==
    \A r \in result : ~r.err => Feasible(r.bits)

\* A consensus fails exactly when not more than half of the weight voted
\* (ensemble), although FilterVotes removes votes before they are counted.
ErrorIffNoQuorum ==
    \A r \in result :
        r.err <=> VotesWeight(votes, DOMAIN votes) <= total \div 2

\* A solution that is reported as optimal has the best value any set of
\* requests with majority support has: filtering, aggregation, the bounds and
\* the stop of the second strategy lose nothing.
OptimalIsOptimal ==
    \A r \in result : r.optimal =>
        \A C \in SUBSET DOMAIN fees : Feasible(C) => ~Greater(ValueOf(C), ValueOf(r.bits))

\* "the first solution is optimal, hence never worse than the second solution":
\* a Double that does not wait for the second strategy returns what it would
\* have returned after waiting, so clients agree however they are scheduled.
FirstOptimalNeverWorse ==
    \A s0 \in sols["first"], s1 \in sols["second"] :
        s0.optimal => ~Greater(s1.value, s0.value)

\* The value that decides between the strategies is the value of the bits that
\* are returned, also after MaximizeBits and MaximizeVotes.
ReportedValueIsReal ==
    \A r \in result :
        ~r.err /\ r.value # <<0, 0>> => r.value = ValueOf(r.bits)

=============================================================================
