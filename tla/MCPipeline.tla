------------------------------ MODULE MCPipeline ------------------------------
(* The pipelines of the repository's tests, with a hash that is injective  *)
(* on the values used and does not respect their order.                    *)
EXTENDS Pipeline

(* What sorting means in Pipeline is what a sort returns.                  *)
Before(a, b) == a < b

ASSUME SortsLikeASort ==
  \A n \in 0..4 : \A s \in [1..n -> 0..3] : Sorted(s) = SortSeq(s, Before)

MCF(j, v) == (3 * v + j) % 7

pipeline(jobs, input) == [jobs |-> jobs, input |-> input]

(* TestSigner; TestPipeline, with and without stages between; TestByIlia;  *)
(* a last job that reads one of several values; a last job that sends      *)
pipelines == {
  pipeline(<<"source", "hash", "hash", "combine", "readOne">>, <<2, 1, 4, 1>>),
  pipeline(<<"lockstep", "collect">>, <<1, 3>>),
  pipeline(<<"lockstep", "hash", "map", "hash", "collect">>, <<1, 3, 4, 2>>),
  pipeline(<<"source", "map", "map", "collect">>, <<1, 3, 4>>),
  pipeline(<<"source", "hash", "map", "readOne">>, <<1, 3, 4>>),
  pipeline(<<"source", "hash", "combine">>, <<1, 3>>),
  pipeline(<<"source", "hash", "hash">>, <<1, 3, 4>>)}

(* TLC evaluates a definition once, but what a constant is replaced by at  *)
(* every use: hence a second name.                                         *)
MCPipelines == pipelines
===============================================================================
