--------------------------- MODULE ShardOwnership ---------------------------
(***************************************************************************)
(* What the shard table promises to the indexer workers, whoever writes    *)
(* it: a shard is granted only out of the pool of unowned shards, and an   *)
(* owner gives up its shards together, when it is declared dead.  A shard  *)
(* therefore never passes straight from one worker to another.             *)
(*                                                                         *)
(* ShardCoordinator implements this specification (docs/indexer-sharding.md*)
(* "Ownership": every shard belongs to at most one live worker).           *)
(***************************************************************************)
CONSTANTS Shards, Workers, NoOne

VARIABLE owner

Init == owner = [s \in Shards |-> NoOne]

Grant(s, w) ==
    /\ owner[s] = NoOne
    /\ owner' = [owner EXCEPT ![s] = w]

Revoke(w) ==
    owner' = [s \in Shards |-> IF owner[s] = w THEN NoOne ELSE owner[s]]

Next ==
    \E w \in Workers :
        \/ Revoke(w)
        \/ \E s \in Shards : Grant(s, w)

Spec == Init /\ [][Next]_owner
=============================================================================
