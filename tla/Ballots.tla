------------------------------ MODULE Ballots ------------------------------
(***************************************************************************)
(* What the bits of a bitVote mean, across clients.                        *)
(*                                                                         *)
(* A bitVote has one bit per request, in the order of the requests' first  *)
(* logs.  Every client finds this order for itself: it adds the logs of a  *)
(* round as they come (Round.AddAttestation), merges the logs of a         *)
(* repeated request, and sorts when it votes and when it counts            *)
(* (client/round/round.go, client/attestation/attestation.go).  A bitVote  *)
(* travels as bytes (bitVotes/bitvote.go).  The DA handler GetRequests     *)
(* reads the list while it may be sorted (server/daServices.go).           *)
(*                                                                         *)
(* One round whose requests are all on the chain: the time lock of submit2 *)
(* (submitXController) keeps bitVotes out of the collect phase.  How many  *)
(* of them a client has fetched when it votes is left open.  A byte has    *)
(* Base values, so that small numbers have several bytes.                  *)
(***************************************************************************)
EXTENDS Naturals, FiniteSets, Sequences, SequencesExt, FiniteSetsExt

CONSTANTS
    Logs,             \* the round's logs: [pos, block, log, request, fee], pos being
                      \* the position on the chain, which no client sees
    Clients,          \* clients that add the logs and vote
    Counter,          \* the client whose consensus is looked at
    SubmitToSigning,  \* voterSet.SubmitToSigningAddress
    VoterWeight,      \* weights in voterSet.VoterDataMap
    Noise,            \* messages [pos, from, tx, meant, payload], one of which is
                      \* on the chain besides the bitVotes of the clients
    TxIndexes,        \* [pos, tx] of the clients' bitVotes, in order
    Base,             \* number of values of a byte
    MaxServed         \* bound on the number of GetRequests calls

ASSUME BallotsAssumption ==
    /\ Counter \in Clients
    /\ Base \in Nat \ {0, 1}
    /\ MaxServed \in Nat

VARIABLES
    ordered,   \* the database returns the logs of a query in their order
    fetched,   \* fetched[c]: the last block the client's queries covered
    pending,   \* pending[c]: logs of the last query that are not added yet
    atts,      \* atts[c]: Round.Attestations, [request, indexes, fee]
    lock,      \* lock[c]: who sorts under Round.Lock: "free", "vote", "consensus"
    held,      \* held[c]: the second write of a swap, <<>> or <<[at, att]>>
    messages,  \* bitVote messages on the chain
    todo,      \* messages the Counter's manager has yet to process
    phase,     \* Counter: "choose", "count", "done"
    counted,   \* Counter's Round.bitVotes: [from, tx, bitVote]
    input,     \* what the consensus was computed from: order, fees
    server     \* the GetRequests call at the Counter

clientVars  == <<fetched, pending>>
countVars   == <<todo, phase, counted, input>>
vars == <<ordered, clientVars, atts, lock, held, messages, countVars, server>>

Requests == {l.request : l \in Logs}
LastBlock == Max({l.block : l \in Logs})
AllFetched(c) == fetched[c] = LastBlock /\ pending[c] = {}

\* The logs a client has added; whether there is none missing before one of them.
Added(c) == {l \in Logs : l.block <= fetched[c]} \ pending[c]
Gapless(A) == \A l \in A : \A m \in Logs : m.pos <= l.pos => m \in A

-----------------------------------------------------------------------------
(* Orders.                                                                 *)

EarlierLog(a, b) == a.block < b.block \/ (a.block = b.block /\ a.log < b.log)

\* Mutant: transactions are compared within a block only.
EarlierTxOnly(a, b) == a.txIndex < b.txIndex

EarlierTx(a, b) ==
    a.block < b.block \/ (a.block = b.block /\ a.txIndex < b.txIndex)

\* The order of the chain: by block, and by index in the block.
ChainOrder(b, i, c, j) == b < c \/ (b = c /\ i < j)

\* The position of a log on the chain: its block, and its index in the block.
ASSUME LogsAssumption ==
    /\ IsFiniteSet(Logs) /\ Logs # {}
    /\ \A l \in Logs : /\ l.pos \in Nat /\ l.block \in Nat \ {0}
                       /\ l.log \in Nat /\ l.fee \in Nat
    /\ \A l, m \in Logs : /\ l.pos = m.pos => l = m
                          /\ l.pos < m.pos <=> ChainOrder(l.block, l.log, m.block, m.log)

\* The position of a message: its block, and the index of its transaction.
ASSUME TxIndexesAssumption ==
    /\ TxIndexes \in Seq([pos : Nat, tx : [block : Nat, txIndex : Nat]])
    /\ \A i, j \in DOMAIN TxIndexes :
          TxIndexes[i].pos = TxIndexes[j].pos => i = j
    /\ \A n \in Noise : n.pos \in Nat /\ n.tx \in [block : Nat, txIndex : Nat]
    /\ \A n \in Noise : \A i \in DOMAIN TxIndexes : n.pos # TxIndexes[i].pos
    /\ \A n \in Noise :
          LET all == {TxIndexes[i] : i \in DOMAIN TxIndexes} \cup {n}
          IN  \A p, q \in all :
                 p.pos < q.pos
                    <=> ChainOrder(p.tx.block, p.tx.txIndex, q.tx.block, q.tx.txIndex)

IndexLog(l) == [block |-> l.block, log |-> l.log]
Index(att) == Head(att.indexes)

\* utils.Prepend: the replaced first element moves to the end.
Prepended(s, x) == <<x>> \o Tail(s) \o <<Head(s)>>

-----------------------------------------------------------------------------
(* The bytes of a bitVote: two for the length, then the bit vector without *)
(* leading zeros.                                                          *)

MaxUint16 == Base * Base - 1

Bytes[n \in Nat] == IF n = 0 THEN <<>> ELSE Append(Bytes[n \div Base], n % Base)

SetBytes(s) == FoldLeft(LAMBDA acc, b : acc * Base + b, 0, s)

EncodeBitVote(b) ==
    <<b.length \div Base, b.length % Base>> \o Bytes[b.bitVector]

\* Bits of a number: bit i is position i + 1 in the list.
BitsOf(n, length) == {i \in 1..length : (n \div 2^(i - 1)) % 2 = 1}
FromBits(S) == FoldSet(LAMBDA i, acc : acc + 2^(i - 1), 0, S)

\* BitLen(n) <= length.
Fits(n, length) == n < 2^length

\* {} stands for an error.
DecodeBitVoteBytes(s) ==
    IF Len(s) < 2 THEN {}
    ELSE LET length == s[1] * Base + s[2]
             vector == SetBytes(SubSeq(s, 3, Len(s)))
         IN  IF Fits(vector, length)
             THEN {[length |-> length, bitVector |-> vector]} ELSE {}

\* A bitVote of any length comes out of its bytes as it went in, although the
\* vector loses its leading zeros, and its bits are the requests that were set
\* (EncodeBitVote, DecodeBitVoteBytes).
CodecRoundTrip ==
    \A n \in 0..MaxUint16 : \A S \in SUBSET (1..n) :
        LET b == [length |-> n, bitVector |-> FromBits(S)]
        IN  /\ DecodeBitVoteBytes(EncodeBitVote(b)) = {b}
            /\ BitsOf(b.bitVector, n) = S

-----------------------------------------------------------------------------
NotServing == [pc |-> "idle", calls |-> 0, room |-> 0, todo |-> 0, out |-> <<>>,
               settled |-> FALSE]

Init ==
    /\ ordered \in BOOLEAN
    /\ fetched = [c \in Clients |-> 0]
    /\ pending = [c \in Clients |-> {}]
    /\ atts = [c \in Clients |-> <<>>]
    /\ lock = [c \in Clients |-> "free"]
    /\ held = [c \in Clients |-> <<>>]
    /\ \E m \in Noise : messages = {m}
    /\ todo = {} /\ phase = "choose" /\ counted = {}
    /\ input = [order |-> <<>>, fees |-> <<>>, complete |-> FALSE]
    /\ server = NotServing

-----------------------------------------------------------------------------
(* Logs.                                                                   *)

\* A query returns the logs of the blocks up to some block.
Query(c) ==
    /\ pending[c] = {}
    /\ \E b \in (fetched[c] + 1)..LastBlock :
          /\ fetched' = [fetched EXCEPT ![c] = b]
          /\ pending' = [pending EXCEPT
                ![c] = {l \in Logs : fetched[c] < l.block /\ l.block <= b}]
    /\ c = Counter => phase # "count"
    /\ UNCHANGED <<ordered, atts, lock, held, messages, countVars, server>>

\* Mutant: the earlier log is added at the end.
MergedAppended(att, l) ==
    [att EXCEPT !.fee = @ + l.fee, !.indexes = Append(@, IndexLog(l))]

Merged(att, l) ==
    [att EXCEPT !.fee = @ + l.fee,
                !.indexes = IF EarlierLog(IndexLog(l), Index(att))
                            THEN Prepended(@, IndexLog(l))
                            ELSE Append(@, IndexLog(l))]

\* OnRequest for the next log of a query.
AddAttestation(c, l) ==
    /\ l \in pending[c]
    /\ ordered => \A m \in pending[c] : ~EarlierLog(IndexLog(m), IndexLog(l))
    /\ lock[c] = "free"
    /\ pending' = [pending EXCEPT ![c] = @ \ {l}]
    /\ atts' = [atts EXCEPT ![c] =
          IF \E i \in DOMAIN @ : @[i].request = l.request
          THEN [i \in DOMAIN @ |-> IF @[i].request = l.request
                                   THEN Merged(@[i], l) ELSE @[i]]
          ELSE Append(@, [request |-> l.request,
                          indexes |-> <<IndexLog(l)>>, fee |-> l.fee])]
    /\ UNCHANGED <<ordered, fetched, lock, held, messages, countVars, server>>

-----------------------------------------------------------------------------
(* sortAttestations: a short list is sorted by swaps of neighbours; a swap *)
(* is two writes, and GetRequests may read between them.                   *)

Inverted(c, i) ==
    /\ i \in 1..(Len(atts[c]) - 1)
    /\ EarlierLog(Index(atts[c][i + 1]), Index(atts[c][i]))

Sorted(c) == held[c] = <<>> /\ \A i \in 1..(Len(atts[c]) - 1) : ~Inverted(c, i)

sortAttestations(c) ==
    /\ lock[c] # "free"
    /\ \/ /\ held[c] = <<>>
          /\ \E i \in 1..(Len(atts[c]) - 1) :
                /\ Inverted(c, i)
                /\ atts' = [atts EXCEPT ![c][i] = atts[c][i + 1]]
                /\ held' = [held EXCEPT ![c] = <<[at |-> i + 1, att |-> atts[c][i]]>>]
       \/ /\ held[c] # <<>>
          /\ atts' = [atts EXCEPT ![c][held[c][1].at] = held[c][1].att]
          /\ held' = [held EXCEPT ![c] = <<>>]
    /\ UNCHANGED <<ordered, clientVars, lock, messages, countVars, server>>

-----------------------------------------------------------------------------
(* submit2.                                                                *)

\* A bitVote may be asked for at any time, also between two logs of a query.
BitVote(c) ==
    /\ lock[c] = "free"
    /\ lock' = [lock EXCEPT ![c] = "vote"]
    /\ UNCHANGED <<ordered, clientVars, atts, held, messages, countVars, server>>

\* Mutant: BitVote does not sort.
BitVoteBytesUnsorted(c, S) ==
    /\ lock[c] = "vote"
    /\ held[c] = <<>>
    /\ Len(atts[c]) <= MaxUint16
    /\ S \subseteq {atts[c][i].request : i \in DOMAIN atts[c]}
    /\ lock' = [lock EXCEPT ![c] = "free"]
    /\ LET sent == Cardinality(messages \ Noise)
           bits == {i \in DOMAIN atts[c] : atts[c][i].request \in S}
       IN  IF phase = "choose" /\ sent < Len(TxIndexes)
           THEN messages' = messages \cup
                  {[pos |-> TxIndexes[sent + 1].pos, from |-> c,
                    tx |-> TxIndexes[sent + 1].tx, meant |-> S,
                    gapless |-> Gapless(Added(c)),
                    payload |-> EncodeBitVote([length |-> Len(atts[c]),
                                               bitVector |-> FromBits(bits)])]}
           ELSE S = {} /\ UNCHANGED messages
    /\ UNCHANGED <<ordered, clientVars, atts, held, countVars, server>>

\* S is what the client's verifiers confirmed so far.  The answer reaches the
\* chain in the next transaction, if the choose phase is not over by then.  What
\* the client meant and whether its logs had a gap is not in the transaction.
BitVoteBytes(c, S) ==
    /\ lock[c] = "vote"
    /\ Sorted(c)
    /\ Len(atts[c]) <= MaxUint16
    /\ S \subseteq {atts[c][i].request : i \in DOMAIN atts[c]}
    /\ lock' = [lock EXCEPT ![c] = "free"]
    /\ LET sent == Cardinality(messages \ Noise)
           bits == {i \in DOMAIN atts[c] : atts[c][i].request \in S}
       IN  IF phase = "choose" /\ sent < Len(TxIndexes)
           THEN messages' = messages \cup
                  {[pos |-> TxIndexes[sent + 1].pos, from |-> c,
                    tx |-> TxIndexes[sent + 1].tx, meant |-> S,
                    gapless |-> Gapless(Added(c)),
                    payload |-> EncodeBitVote([length |-> Len(atts[c]),
                                               bitVector |-> FromBits(bits)])]}
           ELSE S = {} /\ UNCHANGED messages
    /\ UNCHANGED <<ordered, clientVars, atts, held, countVars, server>>

-----------------------------------------------------------------------------
(* The Counter's manager.                                                  *)

\* The choose phase is over: the round's bitVotes, between two queries' logs.
OnBitVotes ==
    /\ phase = "choose"
    /\ pending[Counter] = {}
    /\ phase' = "count"
    /\ todo' = messages
    /\ UNCHANGED <<ordered, clientVars, atts, lock, held, messages, counted, input,
                   server>>

\* The checks of ProcessBitVote; the result is the bitVote, or {}.
Accepted(m) ==
    {b \in DecodeBitVoteBytes(m.payload) :
        /\ b.length = Len(atts[Counter])
        /\ Fits(b.bitVector, Len(atts[Counter]))
        /\ m.from \in DOMAIN SubmitToSigning
        /\ SubmitToSigning[m.from] \in DOMAIN VoterWeight
        /\ VoterWeight[SubmitToSigning[m.from]] > 0}

\* The messages of a payload.Round may come in any order.
ProcessBitVote(m) ==
    /\ phase = "count" /\ m \in todo
    /\ todo' = todo \ {m}
    /\ LET before == {v \in counted : v.from = m.from}
           new == {[from |-> m.from, tx |-> m.tx, bitVote |-> b] : b \in Accepted(m)}
       IN  counted' =
             IF \A v \in before : EarlierTx(v.tx, m.tx)
             THEN (IF new = {} THEN counted ELSE (counted \ before) \cup new)
             ELSE counted
    /\ UNCHANGED <<ordered, clientVars, atts, lock, held, messages, phase, input,
                   server>>

ComputeConsensusBitVote ==
    /\ phase = "count" /\ todo = {}
    /\ input.order = <<>>
    /\ lock[Counter] = "free"
    /\ lock' = [lock EXCEPT ![Counter] = "consensus"]
    /\ UNCHANGED <<ordered, clientVars, atts, held, messages, countVars, server>>

\* Mutant: the list is copied before it is sorted.
ConsensusOnCopy ==
    /\ phase = "count" /\ lock[Counter] = "consensus"
    /\ held[Counter] = <<>>
    /\ LET s == SortSeq(atts[Counter], LAMBDA a, b : EarlierLog(Index(a), Index(b)))
       IN  input' = [order |-> [i \in DOMAIN s |-> s[i].request],
                     fees  |-> [i \in DOMAIN s |-> s[i].fee],
                     complete |-> AllFetched(Counter)]
    /\ phase' = "done"
    /\ lock' = [lock EXCEPT ![Counter] = "free"]
    /\ UNCHANGED <<ordered, clientVars, atts, held, messages, todo, counted, server>>

\* The sorted requests and their fees go to EnsembleConsensusBitVote.
ConsensusInput ==
    /\ phase = "count" /\ lock[Counter] = "consensus"
    /\ Sorted(Counter)
    /\ LET s == atts[Counter]
       IN  input' = [order |-> [i \in DOMAIN s |-> s[i].request],
                     fees  |-> [i \in DOMAIN s |-> s[i].fee],
                     complete |-> AllFetched(Counter)]
    /\ phase' = "done"
    /\ lock' = [lock EXCEPT ![Counter] = "free"]
    /\ UNCHANGED <<ordered, clientVars, atts, held, messages, todo, counted, server>>

-----------------------------------------------------------------------------
(* GetRequests at the Counter: no lock of the round.  The room for the     *)
(* answer and the number of iterations are read one after the other.  A    *)
(* call may come at any time; what it lists is right if it comes after the *)
(* consensus of a client that has all logs (settled).                      *)

Settled == phase = "done" /\ input.complete

GetRequests ==
    /\ server.pc = "idle" /\ server.calls < MaxServed
    /\ server' = [server EXCEPT !.pc = "made", !.room = Len(atts[Counter]),
                                !.out = <<>>, !.settled = Settled]
    /\ UNCHANGED <<ordered, clientVars, atts, lock, held, messages, countVars>>

GetRequestsRange ==
    /\ server.pc = "made"
    /\ server' = [server EXCEPT !.pc = "read", !.todo = Len(atts[Counter])]
    /\ UNCHANGED <<ordered, clientVars, atts, lock, held, messages, countVars>>

\* A list that grew in between does not fit: the handler panics.
AttestationToDARequest ==
    /\ server.pc = "read"
    /\ Len(server.out) < server.todo
    /\ LET i == Len(server.out) + 1
       IN  server' = IF i <= server.room
                     THEN [server EXCEPT !.out = Append(@, atts[Counter][i].request)]
                     ELSE [server EXCEPT !.pc = "idle", !.calls = @ + 1, !.room = 0,
                              !.todo = 0, !.out = <<>>, !.settled = FALSE]
    /\ UNCHANGED <<ordered, clientVars, atts, lock, held, messages, countVars>>

GetRequestsReturns ==
    /\ server.pc = "read"
    /\ Len(server.out) = server.todo
    /\ server' = [server EXCEPT !.pc = "idle", !.calls = @ + 1, !.room = 0, !.todo = 0]
    /\ UNCHANGED <<ordered, clientVars, atts, lock, held, messages, countVars>>

-----------------------------------------------------------------------------
ClientNext(c) ==
    \/ Query(c)
    \/ \E l \in Logs : AddAttestation(c, l)
    \/ sortAttestations(c)
    \/ BitVote(c)
    \/ \E S \in SUBSET Requests : BitVoteBytes(c, S)

\* What the other clients do after the choose phase is of no interest here.
Next ==
    \/ \E c \in Clients : /\ phase = "choose" \/ c = Counter
                          /\ ClientNext(c)
    \/ OnBitVotes
    \/ \E m \in messages : ProcessBitVote(m)
    \/ ComputeConsensusBitVote
    \/ ConsensusInput
    \/ GetRequests
    \/ GetRequestsRange
    \/ AttestationToDARequest
    \/ GetRequestsReturns

Spec == Init /\ [][Next]_vars

-----------------------------------------------------------------------------
\* What the sender of a counted bitVote meant, if its logs had no gap, which is
\* so whenever queries return them in order.
Sender(v, m) == m.from = v.from /\ m.tx = v.tx /\ (ordered \/ m.gapless)
MeantBy(v) == {m.meant : m \in {x \in messages \ Noise : Sender(v, x)}}

\* A bitVote that was counted means to the counting client the requests its
\* voter meant, although the two added the logs in their own order, may not
\* have all of them, and the bitVote went through bytes: the i-th bit is the
\* i-th request on both sides (BitVoteFromAttestations, EncodeBitVote,
\* ProcessBitVote, ComputeConsensusBitVote).  Excepted is a bitVote that was given
\* when a log was missing before one that the client had: submit2 between
\* two logs of a query that does not return them in order.
BitsMeanTheSame ==
    phase = "done" =>
        \A v \in counted : \A meant \in MeantBy(v) :
            {input.order[i] : i \in BitsOf(v.bitVote.bitVector, v.bitVote.length)}
               = meant

FirstLog(r) ==
    CHOOSE l \in Logs : /\ l.request = r
                        /\ \A m \in Logs : m.request = r => l.pos <= m.pos

\* A client that has all logs computes the consensus on the requests in the
\* order of their first logs, each with the sum of the fees of all its logs
\* (AddAttestation with Prepend, sortAttestations).
ConsensusInputCorrect ==
    phase = "done" /\ input.complete =>
        /\ Len(input.order) = Cardinality(Requests)
        /\ \A i \in DOMAIN input.order :
              input.fees[i] = MapThenSumSet(LAMBDA l : l.fee,
                                 {l \in Logs : l.request = input.order[i]})
        /\ \A i, j \in DOMAIN input.order :
              i < j => FirstLog(input.order[i]).pos < FirstLog(input.order[j]).pos

\* Of each submit address the last message with a valid bitVote counts, in
\* the order of the chain and not of their arrival; an invalid one neither
\* counts nor replaces an earlier one (ProcessBitVote).
LastValidVoteCounts ==
    phase = "done" =>
        LET valid(from) ==
                {m \in messages : /\ m.from = from
                                  /\ \E b \in DecodeBitVoteBytes(m.payload) :
                                        b.length = Len(input.order)}
            voters == {a \in DOMAIN SubmitToSigning :
                          /\ SubmitToSigning[a] \in DOMAIN VoterWeight
                          /\ VoterWeight[SubmitToSigning[a]] > 0}
        IN  {<<v.from, v.tx>> : v \in counted} =
              UNION {{<<a, m.tx>> : m \in {x \in valid(a) :
                          \A y \in valid(a) : y.pos <= x.pos}} : a \in voters}

\* A GetRequests call that comes after the consensus of a client that has all
\* logs lists every request once, in order, although submit2 may sort the list
\* under its feet: there is nothing left to swap (sortAttestations, GetRequests).
\* A call that overlaps an earlier sort or log may list a request twice and
\* another one not at all.
GetRequestsExact ==
    server.pc = "idle" /\ server.settled => server.out = input.order

=============================================================================
