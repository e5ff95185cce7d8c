---------------------------- MODULE MCNaryoClient ----------------------------
(* Instances of module NaryoClient for TLC. *)
EXTENDS NaryoClient

CONSTANTS t1, t2, x1

Topic(t) == [kind |-> "hedera_hcs_topic", target |-> t]
Transfer(c) == [kind |-> "erc20_transfer", target |-> c]

Of(t, u) == {<<Transfer(x1), Topic(t)>>, <<Topic(t), Topic(u)>>}

\* A topic after a contract, and before another topic; a contract; nothing.
RequestedAny == Of(t1, t2) \union Of(t2, t1) \union {<<Transfer(x1), Transfer(Unset)>>, <<>>}

RequestedTopic == {<<Topic(t1)>>}

Interchangeable ==
    Permutations(Sessions) \union Permutations(BroadcasterIds) \union Permutations(FilterIds)
        \union Permutations(ConfigIds \ Leftover) \union Permutations(Topics)
=============================================================================
