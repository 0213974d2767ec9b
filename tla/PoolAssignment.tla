--------------------------- MODULE PoolAssignment ---------------------------
(***************************************************************************)
(* Which nodes a NodeProfile owns: the pool key, the nodeAffinity rendered *)
(* into its DaemonSet, and the two membership tests the controllers use    *)
(* (nodeprofile_resources.go, nodeprofile_controller.go,                   *)
(* node_controller.go). A profile is the record of its spec.nodePool.      *)
(***************************************************************************)
EXTENDS Naturals, Sequences

CONSTANTS
    Node, Pool,
    PoolKey,           \* node label keys that can hold a pool name
    ProviderPoolKeys,  \* the provider's keys, in probe order
    Labels,            \* Labels[n][k]: node n's label k, or NoPool
    NoPool, NoKey

ASSUME PoolAssumption ==
    /\ ProviderPoolKeys \in Seq(PoolKey) /\ Len(ProviderPoolKeys) > 0
    /\ Labels \in [Node -> [PoolKey -> Pool \cup {NoPool}]]
    /\ NoPool \notin Pool /\ NoKey \notin PoolKey

NodePool == [key : PoolKey \cup {NoKey}, names : SUBSET Pool]

\* The provider keys some node of the fleet carries.
Probed(fleet) ==
    {i \in 1..Len(ProviderPoolKeys) : \E n \in fleet : Labels[n][ProviderPoolKeys[i]] # NoPool}

resolvePoolKey(p, fleet) ==
    IF p.key # NoKey THEN p.key
    ELSE IF Probed(fleet) = {} THEN NoKey
    ELSE ProviderPoolKeys[CHOOSE i \in Probed(fleet) : \A j \in Probed(fleet) : i <= j]

isDefaultProfile(p) == p.names = {}

nodeInPool(n, key, names) == key # NoKey /\ names # {} /\ Labels[n][key] \in names

\* The union of the names of the profiles in ps, without those of one of them.
namedPoolsExcept(ps, pool, p) == UNION {pool[q].names : q \in ps \ {p}}

nodeAssigned(p, key, others, n) ==
    IF isDefaultProfile(p) THEN ~nodeInPool(n, key, others) ELSE nodeInPool(n, key, p.names)

\* Variant: the default does not exclude the named pools.
profileAffinity_NoExclusion(p, key, others) ==
    IF ~isDefaultProfile(p)
    THEN [key |-> IF key = NoKey THEN ProviderPoolKeys[1] ELSE key, op |-> "In", values |-> p.names]
    ELSE [key |-> NoKey, op |-> "Any", values |-> {}]

profileAffinity(p, key, others) ==
    IF ~isDefaultProfile(p)
    THEN [key |-> IF key = NoKey THEN ProviderPoolKeys[1] ELSE key, op |-> "In", values |-> p.names]
    ELSE IF key # NoKey /\ others # {} THEN [key |-> key, op |-> "NotIn", values |-> others]
    ELSE [key |-> NoKey, op |-> "Any", values |-> {}]

\* The scheduler's reading of a required node affinity: a node without the label
\* satisfies NotIn and not In.
Selects(aff, n) ==
    CASE aff.op = "In" -> Labels[n][aff.key] \in aff.values
      [] aff.op = "NotIn" -> Labels[n][aff.key] \notin aff.values
      [] OTHER -> TRUE

\* The node controller's own copy of the test takes all names, the profile's too.
profileClaimsNode(p, key, allNamed, n) ==
    IF isDefaultProfile(p) THEN ~nodeInPool(n, key, allNamed) ELSE nodeInPool(n, key, p.names)

\* others is what namedPoolsExcept returns for the profile under validation.
ValidateNoPoolConflicts(p, others) == p.names \cap others = {}
=============================================================================
