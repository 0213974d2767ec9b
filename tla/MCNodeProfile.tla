---------------------------- MODULE MCNodeProfile ----------------------------
(* One default profile and two named ones that can be given the same pool.    *)
EXTENDS NodeProfile, TLC

CONSTANTS default, batch, edge, n1, gke, aks, x, y

Keys == <<gke, aks>>

\* Every node is in pool x, on the second provider's label.
NodeLabels == [n \in Node |-> (gke :> NoPool) @@ (aks :> x)]

Named(S) == [key |-> NoKey, names |-> S]

\* batch moves from pool y to x, which edge also asks for.
Specs == [p \in Profile |->
    CASE p = default -> <<Named({})>>
      [] p = batch -> <<Named({y}), Named({x})>>
      [] p = edge -> <<Named({x})>>]
=============================================================================
