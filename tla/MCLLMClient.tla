---------------------------- MODULE MCLLMClient ----------------------------
(***************************************************************************)
(* LLMClient for TLC.  One translation fits the bucket and one is larger   *)
(* than it; the judge is called without max_tokens and may write any       *)
(* amount.                                                                 *)
(***************************************************************************)
EXTENDS LLMClient

CONSTANTS t1, t2, j1

Allowed == [k \in Keys |-> CASE k = t1 -> 3 [] k = t2 -> 5 [] k = j1 -> 0]

=============================================================================
