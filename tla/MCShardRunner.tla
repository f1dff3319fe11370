---------------------------- MODULE MCShardRunner ---------------------------
(* Instances of ShardRunner for TLC: ordinary classes a, b, c and exclusive *)
(* classes x, y.                                                            *)
EXTENDS ShardRunner

CONSTANTS a, b, c, x, y

OrderABC == <<a, b, c>>
OrderXY  == <<x, y>>
=============================================================================
