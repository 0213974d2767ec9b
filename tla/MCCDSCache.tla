----------------------------- MODULE MCCDSCache -----------------------------
(* Instances of CDSCache: pod slots of one application, or of two that share  *)
(* the node's cache.                                                          *)
EXTENDS CDSCache

CONSTANTS app, other

OneApp == [l \in Launch |-> app]
TwoApps == [l \in Launch |-> IF l = 1 THEN app ELSE other]
OtherSeeded == [k \in CacheKey |-> IF k = other THEN "foreign" ELSE "none"]
AllForeign == [k \in CacheKey |-> "foreign"]
=============================================================================
