------------------------ MODULE MCShardCoordinator ------------------------
EXTENDS ShardCoordinator, TLC

Two == 1 .. 2
Three == 1 .. 3
TwoShards == 0 .. 1

\* Contract ka hashes onto shard 0, kb onto shard 1.
TwoContracts == {"ka", "kb"}
EachItsShard == [k \in TwoContracts |-> IF k = "ka" THEN 0 ELSE 1]
OneContract == {"ka"}
ToShardZero == [k \in OneContract |-> 0]
\* Runs about the shard table alone track no contract.
NoContracts == {}
NoHash == [k \in {} |-> 0]

Symmetry == Permutations(Coordinators)
=============================================================================
