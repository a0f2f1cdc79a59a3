------------------------------- MODULE MCRouter -------------------------------
(* Chains and caps for the runs of Router.                                   *)
EXTENDS Router

CONSTANTS groq, openai, m1

(* No caps, and two requests that meet at one provider, the second with a    *)
(* fallback.                                                                 *)
NoCap == [p \in {} |-> 0]
Fallback == {<< <<groq, m1>>, <<openai, m1>> >>}
Explicit == {<< <<groq, m1>> >>}

CapBoth == [p \in Providers |-> 1]
=============================================================================
