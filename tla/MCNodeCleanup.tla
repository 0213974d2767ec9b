--------------------------- MODULE MCNodeCleanup ---------------------------
(* Instances of NodeCleanup for TLC: one JDK per generation.               *)
EXTENDS NodeCleanup

MCJdk == {"temurin-21", "zulu-25"}
MCFeature == [j \in MCJdk |-> IF j = "temurin-21" THEN "21" ELSE "25"]
MCImage == {"v1"}
MCInventory == <<{"temurin-21"}, {"zulu-25"}>>
MCSource == <<[j \in MCJdk |-> "v1"], [j \in MCJdk |-> "v1"]>>
NoJaz == <<FALSE, FALSE>>

\* A drop-in directory makes a difference where the configuration is validated.
CleanupHosts ==
    {h \in [mode : Mode, validate : {TRUE}, dropins : BOOLEAN, verdict : {"serves"}] :
        h.dropins => h.mode = "validated"}
OneHost == [mode : {"validated"}, validate : {TRUE}, dropins : {TRUE}, verdict : {"serves"}]
=============================================================================
