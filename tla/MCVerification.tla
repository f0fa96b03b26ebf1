--------------------------- MODULE MCVerification ---------------------------
(* Values for the constants of Verification.                               *)
EXTENDS Verification, TLC

CONSTANTS StaticType, DynamicType, OtherType, Chain, OtherChain, B1, B2

Types == {StaticType, DynamicType}

Struct(t, r, l, b) ==
    [type |-> t, source |-> Chain, round |-> r, lut |-> l, body |-> b]

\* Around the limits; the largest uint64, and one that is none.
LUTs == {2, 3, 15, 16}

\* Besides the structs that are asked for, one with another body.
SomeStructs ==
    {Struct(t, 0, l, B1) : t \in Types, l \in LUTs}
    \cup {Struct(t, 0, 3, B2) : t \in Types}

Request(t, c, l) == <<t, c, Pack(Struct(t, 0, l, B1), t = DynamicType)>>

\* Requests of each type; one that is too short, and some that the
\* configuration does not have.
SomeRequests ==
    {Request(t, Chain, l) : t \in Types, l \in LUTs}
    \cup {Request(DynamicType, OtherChain, 3), <<StaticType, Chain>>,
          Request(OtherType, Chain, 3), Request(StaticType, OtherChain, 3)}

\* One source has no limit.
Configs ==
    StaticType :> [dynamic |-> FALSE, sources |-> Chain :> 2]
    @@ DynamicType :> [dynamic |-> TRUE,
                       sources |-> Chain :> 2 @@ OtherChain :> MaxUint64]

ClientSymmetry == Permutations(Clients)

=============================================================================
