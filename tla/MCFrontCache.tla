---------------------------- MODULE MCFrontCache ----------------------------
(* Three scenarios of the frontend cache, one chosen for each behaviour: the *)
(* guest view under concurrent operations, the node view on Redis with every *)
(* operation and a request, and the node view in memory with several samples *)
(* of one node.                                                              *)
EXTENDS FrontCache, TLC

VARIABLE scenario       \* "guests", "nodes" or "memory"
mcvars == <<vars, scenario>>

ForGuests ==
    INSTANCE FrontCache WITH Backend <- "redis", Requested <- {"guests"}, Kinds <- {"create", "patch", "delete"},
                             Patches <- {{"guest"}, {"meta", "guest"}}, MaxSample <- 0, MaxVersion <- 3
OnRedis ==
    INSTANCE FrontCache WITH Backend <- "redis", Kinds <- {"create", "patch", "delete", "reorder"},
                             MaxSample <- 1, MaxVersion <- 1

OneAtATime == Cardinality({m \in Mutators : op[m].pc # "idle"}) <= 1
OneNode == Cardinality({n \in Nodes : rev[n] > 0 \/ (\E m \in Mutators : op[m].node = n)}) <= 1

MCInit ==
    /\ Init
    /\ scenario \in {"guests", "nodes", "memory"}
    /\ scenario = "memory" => OneNode
GuestsNext == scenario = "guests" /\ ForGuests!Next /\ UNCHANGED scenario
NodesNext == scenario = "nodes" /\ OnRedis!Next /\ UNCHANGED scenario /\ OneAtATime'
MemoryNext == scenario = "memory" /\ Next /\ UNCHANGED scenario /\ OneAtATime' /\ OneNode'
MCNext == GuestsNext \/ NodesNext \/ MemoryNext
MCSpec == MCInit /\ [][MCNext]_mcvars

Symmetry == Permutations(Nodes) \cup Permutations(Mutators)
=============================================================================
