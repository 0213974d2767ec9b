--------------------------- MODULE MCProvisioner ---------------------------
(* Instances of Provisioner for TLC: two JDKs of one feature version, two   *)
(* generations of the profile that change both the list and the images.     *)
EXTENDS Provisioner

MCJdk == {"temurin-21", "zulu-21"}
MCFeature == [j \in MCJdk |-> "21"]
MCImage == {"v1", "v2"}
MCInventory == <<{"temurin-21", "zulu-21"}, {"temurin-21"}>>
MCSource == <<[j \in MCJdk |-> "v1"], [j \in MCJdk |-> "v2"]>>

NoJaz == <<FALSE, FALSE>>
JazFirst == <<TRUE, FALSE>>
JazLast == <<FALSE, TRUE>>

Validated == [mode : {"validated"}, validate : {TRUE}, dropins : BOOLEAN, verdict : Verdict]
Unvalidated == [mode : {"sighup", "none"}, validate : BOOLEAN, dropins : {FALSE},
                verdict : {"serves", "broken"}]
AllHosts == Validated \cup Unvalidated
GoodHosts == [mode : Mode, validate : {TRUE}, dropins : BOOLEAN, verdict : {"serves"}]

=============================================================================
