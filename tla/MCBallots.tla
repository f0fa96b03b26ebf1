------------------------------ MODULE MCBallots ------------------------------
(* Values for the constants of Ballots.                                    *)
EXTENDS Ballots

Log(p, b, i, r, f) ==
    [pos |-> p, block |-> b, log |-> i, request |-> r, fee |-> f]

\* Request A twice, around B; the log indexes start again in every block.
SomeLogs == {Log(1, 1, 2, "A", 1), Log(2, 2, 1, "B", 2), Log(3, 3, 1, "A", 4)}

Tx(b, i) == [block |-> b, txIndex |-> i]

\* The second bitVote has the smaller index in its block.
SomeTxIndexes == <<[pos |-> 1, tx |-> Tx(1, 2)], [pos |-> 2, tx |-> Tx(2, 1)]>>

\* Submit addresses: two clients, a voter without weight, and one whose
\* signing address is not in the policy.
Submit == [v |-> "sv", k |-> "sk", zero |-> "sz", gone |-> "sg"]
Weights == [sv |-> 2, sk |-> 1, sz |-> 0]

Message(a, p) == [pos |-> 3, from |-> a, tx |-> Tx(2, 2), meant |-> {}, payload |-> p]

\* Too short; a bit beyond the length; both bits set, by nobody who counts.
SomeNoise ==
    {Message("v", <<1>>), Message("v", <<1, 0, 1, 0, 0>>)}
    \cup {Message(a, <<1, 0, 1, 1>>) : a \in {"zero", "gone", "other"}}

\* GetRequests only reads the Counter's list, and messages of addresses that do
\* not count only meet the Counter's messages: they are combined with what the
\* Counter does, and not with the other clients.
OthersIdle == \A c \in Clients \ {Counter} : fetched[c] = 0 /\ lock[c] = "free"
Served     == server.pc # "idle" \/ server.calls > 0
Foreign    == \E m \in messages : m.from \notin Clients

Combinations == (Served \/ Foreign => OthersIdle) /\ ~(Served /\ Foreign)

\* The codec, for this Base: what BitsMeanTheSameProved takes from it.
ASSUME Codec == CodecRoundTrip

=============================================================================
