----------------------------- MODULE MCPolicies -----------------------------
(* Values for the constants of Policies.                                   *)
EXTENDS Policies

Reg(s, v) == [submit |-> s, signing |-> v]

\* Two voters who register, the first one twice; and a submit address that is
\* registered for both, so that the first voter has none.
SomeRegistrations ==
    {<<Reg("s1", "v1"), Reg("s2", "v2"), Reg("s1", "v1")>>,
     <<Reg("s1", "v1"), Reg("s1", "v2")>>}

=============================================================================
