---------------------------- MODULE NodeCleanup ----------------------------
(***************************************************************************)
(* Deleting a NodeProfile, on one of its nodes: entrypoint.sh in           *)
(* BREWLET_MODE=cleanup beside the provisioner pod of the same profile,    *)
(* which the operator leaves running, and the operator's finalizer         *)
(* (NodeProfileReconciler.reconcileDelete).                                *)
(***************************************************************************)
EXTENDS Provisioner

VARIABLES
    specGen,    \* metadata.generation of the NodeProfile
    deleting,   \* its deletionTimestamp is set
    finalizer,  \* it still holds node.brewlet.sh/cleanup
    cpc,        \* the cleanup pod's script
    overlap     \* history: the provisioner script ran beside the cleanup script

cleanupVars == <<specGen, deleting, finalizer, cpc, overlap>>
allVars == <<vars, cleanupVars>>

CleanupInit ==
    Init /\ specGen = 1 /\ deleting = FALSE /\ finalizer = TRUE /\ cpc = "absent" /\ overlap = FALSE

CAt(l) == cpc = l
CGoto(l) == cpc' = l /\ UNCHANGED <<specGen, deleting, finalizer, overlap>>

\* unpatch_containerd: the drop-in goes first, then an in-place block, by the
\* backup or by its fence.
Unpatched == Clean

CleanupUnpatch ==
    /\ CAt("unpatch")
    /\ IF host.mode = "none"
       THEN CGoto("removeShim") /\ UNCHANGED <<conf, bak>>
       ELSE CGoto("restart") /\ conf' = Unpatched /\ bak' = (bak /\ conf.primary = "none")
    /\ UNCHANGED <<shim, root, active, jaz, live, nodeVars, podVars, fixed, faults, misread>>

\* restart_containerd_service (its failure ends the script) or reload_containerd.
CleanupRestart ==
    /\ CAt("restart")
    /\ \/ Works /\ CGoto("removeShim")
          /\ live' \in IF host.mode = "sighup" THEN {live, Boot(conf)} ELSE {Boot(conf)}
       \/ host.mode = "validated" /\ Fails /\ CGoto("exited") /\ live' \in {live, Down}
    /\ UNCHANGED <<shim, root, active, jaz, conf, bak, nodeVars, podVars, fixed>>

RemoveShim ==
    /\ CAt("removeShim") /\ CGoto("unannotate") /\ shim' = FALSE
    /\ UNCHANGED <<root, active, jaz, conf, bak, live, nodeVars, podVars, fixed, faults, misread>>

\* unlabel_node: three kubectl calls whose failure is ignored.
Unannotate ==
    /\ CAt("unannotate") /\ CGoto("unready")
    /\ \/ Works /\ ann' = 0 /\ error' = "none"
       \/ Fails /\ UNCHANGED <<ann, error>>
    /\ UNCHANGED <<hostVars, ready, caps, podVars, fixed>>

Unready ==
    /\ CAt("unready") /\ CGoto("uncaps")
    /\ (Works /\ ready' = FALSE) \/ (Fails /\ UNCHANGED ready)
    /\ UNCHANGED <<hostVars, caps, ann, error, podVars, fixed>>

\* The labels come from the cleanup pod's own JDKS and LAUNCHERS.
ProfileCaps_NoFeature == CapsOf(specGen) \ {<<"jdk-feature", Feature[j]>> : j \in Jdk}
ProfileCaps == CapsOf(specGen)

Uncaps ==
    /\ CAt("uncaps") /\ CGoto("idle")
    /\ (Works /\ caps' = caps \ ProfileCaps) \/ (Fails /\ UNCHANGED caps)
    /\ UNCHANGED <<hostVars, ready, ann, error, podVars, fixed>>

CleanupScript ==
    CleanupUnpatch \/ CleanupRestart \/ RemoveShim \/ Unannotate \/ Unready \/ Uncaps

----------------------------------------------------------------------------
(* The operator and the kubelet.                                           *)

EditSpec ==
    /\ ~deleting /\ specGen < MaxGen /\ specGen' = specGen + 1
    /\ UNCHANGED <<vars, deleting, finalizer, cpc, overlap>>

\* Reconcile of a live profile renders its generation into the DaemonSet.
ReconcileDaemonSet ==
    /\ ~deleting /\ desired < specGen /\ desired' = specGen
    /\ UNCHANGED <<hostVars, nodeVars, podVars, host, crashes, found, faults, misread, cleanupVars>>

DeleteProfile ==
    /\ ~deleting /\ deleting' = TRUE
    /\ UNCHANGED <<vars, specGen, finalizer, cpc, overlap>>

\* ensureCleanupComplete creates the DaemonSet; its pod runs the script from the
\* top, and again after a failure.
StartCleanup ==
    /\ deleting /\ finalizer /\ live # Down /\ cpc \in {"absent", "exited"} /\ CGoto("unpatch")
    /\ UNCHANGED vars

\* The DaemonSet counts a pod as ready once its container runs: the template
\* has no readiness probe.
PodReady_Exited == cpc = "exited"
PodReady == cpc \notin {"absent", "exited"}

\* reconcileDelete: delete the cleanup DaemonSet, remove the finalizer.
ReleaseFinalizer ==
    /\ deleting /\ finalizer /\ PodReady
    /\ finalizer' = FALSE /\ UNCHANGED <<vars, specGen, deleting, cpc, overlap>>

\* The two DaemonSets are gone or garbage collected: their pods are stopped.
StopCleanupPod ==
    /\ ~finalizer /\ cpc # "stopped" /\ CGoto("stopped") /\ UNCHANGED vars

StopProvisionerPod == ~finalizer /\ StopPod /\ UNCHANGED <<crashes, cleanupVars>>

\* The provisioner's own steps, whatever the operator is doing with the profile.
Provisioning ==
    /\ Script \/ RolloutPod \/ KillPod \/ (finalizer /\ StartPod)
    /\ overlap' = (overlap \/ cpc \notin {"absent", "stopped"})
    /\ UNCHANGED <<specGen, deleting, finalizer, cpc>>

RecoverService == RestartService /\ UNCHANGED cleanupVars

Stopped == At("exited") /\ CAt("stopped") /\ UNCHANGED allVars

CleanupNext ==
    \/ Provisioning \/ CleanupScript
    \/ EditSpec \/ ReconcileDaemonSet \/ DeleteProfile \/ StartCleanup
    \/ ReleaseFinalizer \/ StopCleanupPod \/ StopProvisionerPod \/ RecoverService \/ Stopped

CleanupSpec == CleanupInit /\ [][CleanupNext]_allVars

\* The operator requeues a deletion until it is done, the DaemonSet controller
\* keeps its pod running and removes the pods of a deleted DaemonSet, and systemd
\* retries a failed unit.
FairCleanup ==
    /\ CleanupSpec
    /\ WF_allVars(CleanupScript) /\ WF_allVars(StartCleanup) /\ WF_allVars(ReleaseFinalizer)
    /\ WF_allVars(StopCleanupPod) /\ WF_allVars(StopProvisionerPod) /\ WF_allVars(RecoverService)

----------------------------------------------------------------------------
(* Properties.                                                             *)

\* The node shows no trace of the profile that a scheduler or containerd sees.
Bare ==
    /\ ~ready /\ caps = {} /\ ann = 0 /\ error = "none" /\ ~shim
    /\ host.mode = "validated" => conf = Clean /\ live = Clean

\* A cleanup script that reached its idle loop has reversed the provisioning,
\* if no command failed, the provisioner pod kept sleeping and the node had been
\* provisioned for the generation that is deleted.
CleanupReverses ==
    CAt("idle") /\ At("idle") /\ ~overlap /\ faults = 0 /\ env = specGen => Bare

\* The deletion of a profile completes: the finalizer is always released.
DeletionCompletes == deleting ~> ~finalizer

\* reconcileDelete removes the finalizer only once cleanup has completed on
\* every assigned node: when the profile and its pods are gone, and no command
\* failed, the node is not left labelled ready.
CleanBeforeRelease == CAt("stopped") /\ ~overlap /\ faults = 0 => ~ready
=============================================================================
