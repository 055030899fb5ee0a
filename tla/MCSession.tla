------------------------------ MODULE MCSession ------------------------------
(* A keyspace with one node or two beside one that may be in disorder.      *)
EXTENDS Session, TLC

Node(point) == [object |-> TRUE, allow_all |-> TRUE, auth |-> FALSE, point |-> point]
Listed(nodes) == [array |-> TRUE, nodes |-> nodes]
Document(mine, other) ==
  [object |-> TRUE, keyspaces |-> ("ks" :> mine) @@ ("other" :> other)]

Two == Listed(<<Node("n1"), Node("n2")>>)
WithAuth == Listed(<<[Node("n1") EXCEPT !.allow_all = FALSE, !.auth = TRUE]>>)
Contradictory == Listed(<<[Node("n1") EXCEPT !.auth = TRUE]>>)

BadDocuments ==
  {Document(Two, Contradictory), Document(Listed(<<>>), Two),
   Document([array |-> FALSE, nodes |-> <<>>], Two),
   [object |-> TRUE, keyspaces |-> ("other" :> Two)],
   [object |-> FALSE, keyspaces |-> <<>>]}

Sizes(min, max) == ("min-pool-size" :> min) @@ ("max-pool-size" :> max)
\* One connection per node, and room for one id.
Small == ("min-pool-size" :> 1) @@ ("max-queue-size" :> 0)
           @@ ("prepared-statement-cache-ways" :> 1)
           @@ ("prepared-statement-cache-way-size" :> 1)
\* Two connections to one node, and two ways with room for one id each.
Double == Sizes(2, 2) @@ ("max-ttl-sec" :> 1) @@ ("sync-start" :> TRUE)
            @@ ("prepared-statement-cache-ways" :> 2)
            @@ ("prepared-statement-cache-way-size" :> 1)
BadConfigs == {Sizes(2, 1), Small @@ ("persistentprepared-statement" :> FALSE)}

Good == Document(Two, Listed(<<>>))
MCDeployments ==
  {[doc |-> Good, config |-> Small],
   [doc |-> Document(WithAuth, WithAuth), config |-> Double]}
  \cup [doc : BadDocuments, config : {Small}] \cup [doc : {Good}, config : BadConfigs]

MCControls == {CommandControl(0, 0, "kDisabled"), CommandControl(1, 0, "kEnabled")}
=============================================================================
