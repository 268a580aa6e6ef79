-------------------------- MODULE MCAccountWriters --------------------------
(***************************************************************************)
(* One account with its six writers and two statements, and the lane of a  *)
(* second account, where a call may hang for ever.                         *)
(***************************************************************************)
EXTENDS AccountWriters

\* No file of the batch parses; two statements; a statement and a Flex response.
MCPicks == {{}, {"s1", "s2"}, {"s2", "flex"}}

MCJob == MyJob \cup {"elsewhere"}
MCAccountOf == [j \in MCJob |-> IF j \in MyJob THEN "mine" ELSE "other"]
=============================================================================
