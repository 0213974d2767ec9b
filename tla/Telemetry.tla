------------------------------ MODULE Telemetry ------------------------------
(***************************************************************************)
(* The telemetry contract between the shim and the node's metrics exporter *)
(* (core/internal/telemetry/telemetry.go): what an event says, and which   *)
(* events the exporter accepts. An error is the set of the words that      *)
(* Reason looks for in its message; no error is None.                      *)
(***************************************************************************)
EXTENDS Naturals

None == {"no error"}

Outcome(err) == IF err = None THEN "success" ELSE "error"

\* The first of these words that the message contains decides.
Reason_ArtifactFirst(err) ==
    IF err = None THEN "none"
    ELSE IF err \cap {"artifact", "manifest", "blob"} # {} THEN "ArtifactResolution"
    ELSE IF "no Brewlet artifact reference" \in err THEN "MissingArtifactReference"
    ELSE "BundlePreparation"
Reason(err) ==
    IF err = None THEN "none"
    ELSE IF "NoCompatibleJDK" \in err THEN "NoCompatibleJDK"
    ELSE IF "NoCompatibleLauncher" \in err THEN "NoCompatibleLauncher"
    ELSE IF "NoCompatibleArch" \in err THEN "NoCompatibleArch"
    ELSE IF "no Brewlet artifact reference" \in err THEN "MissingArtifactReference"
    ELSE IF err \cap {"artifact", "manifest", "blob"} # {} THEN "ArtifactResolution"
    ELSE IF "overlay" \in err THEN "OverlaySetup"
    ELSE IF "runc" \in err THEN "RuntimeCreate"
    ELSE "BundlePreparation"

\* Decode: the closed vocabulary of each kind of event; an event that does not
\* decode is only counted as invalid.
Decode(e) ==
    CASE e.kind = "launch_phase" ->
           /\ e.phase \in {"artifact_resolve", "bundle_prepare", "overlay_setup", "runc_create", "process_start"}
           /\ e.outcome \in {"success", "error"}
      [] e.kind = "launch" ->
           /\ e.outcome \in {"success", "error"}
           /\ e.reason \in {"none", "NoCompatibleJDK", "NoCompatibleLauncher", "NoCompatibleArch",
                            "MissingArtifactReference", "ArtifactResolution", "OverlaySetup",
                            "RuntimeCreate", "ProcessStart", "BundlePreparation"}
           /\ e.entryMode \in {"jar", "classpath", "module", "unknown"}
           /\ e.format \in {"native", "image", "unknown"}
      [] e.kind = "artifact_resolution" ->
           /\ e.backend \in {"layout", "containerd"}
           /\ e.format \in {"native", "image", "unknown"} /\ e.outcome \in {"success", "error"}
      [] e.kind = "cds" -> e.role \in {"consume", "write", "defer", "skip"}
      [] OTHER -> FALSE
=============================================================================
