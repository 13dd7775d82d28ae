--------------------------- MODULE MCRequestContext ---------------------------
(* Instances of RequestContext for TLC; the plans are those of the tools. *)
EXTENDS RequestContext, TLC

S == INSTANCE Surface

Kinds(requests) == [n \in DOMAIN requests |-> IF requests[n] = "merged" THEN "merged" ELSE "other"]
PlansOfTools == {Kinds(t.requests) : t \in S!registerTools}

Symmetric == Permutations(Calls) \cup Permutations(Sessions) \cup Permutations(Tokens)
=============================================================================
