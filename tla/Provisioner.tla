---------------------------- MODULE Provisioner ----------------------------
(***************************************************************************)
(* The provisioning transaction of one node: provisioner/entrypoint.sh in  *)
(* BREWLET_MODE=provision, run by the pod of a NodeProfile's DaemonSet.    *)
(* The pod may be killed, and the host may reboot, between any two steps;  *)
(* the kubelet restarts the pod and the script runs from the top.          *)
(* A step is one externally visible effect: a kubectl call, a rename in    *)
(* the host's file system, or a (re)start of containerd.                   *)
(***************************************************************************)
EXTENDS Naturals

CONSTANTS
    Jdk,          \* JDK identifiers <dist>-<feature> that a profile may list
    Feature,      \* Feature[j]: the feature version in the name of j
    Image,        \* identities recorded in a JDK root's source metadata
    MaxGen,       \* bound: generations of the NodeProfile
    Inventory,    \* Inventory[g]: BREWLET_JDKS of generation g
    Source,       \* Source[g][j]: the image generation g installs j from
    WantsJaz,     \* WantsJaz[g]: generation g lists the launcher jaz
    Hosts,        \* the hosts considered, see HostType
    MaxFaults,    \* bound: commands that fail
    MaxCrashes    \* bound: pod kills and host reboots

Gen == 1 .. MaxGen

Mode == {"validated", "sighup", "none"}

\* What containerd makes of the block that this provisioner renders: it serves
\* the handler, runs without it, passes `config dump` but does not come up, or
\* fails `config dump`.
Verdict == {"serves", "ignored", "broken", "rejected"}

HostType == [mode : Mode, validate : BOOLEAN, dropins : BOOLEAN, verdict : Verdict]

ASSUME ConstantsAssumption ==
    /\ MaxGen \in Nat \ {0} /\ MaxFaults \in Nat /\ MaxCrashes \in Nat
    /\ Inventory \in [Gen -> SUBSET Jdk]
    /\ Source \in [Gen -> [Jdk -> Image]]
    /\ WantsJaz \in [Gen -> BOOLEAN]
    /\ Hosts \subseteq HostType

VARIABLES
    host,      \* the host's fixed traits and the profile's rollout settings
    desired,   \* generation of the DaemonSet's template
    \* the host's disk and its containerd
    shim,      \* the shim and its helpers are in $PREFIX/bin and $HOST_BIN
    root,      \* root[j]: source of the installed JDK root, or Absent
    active,    \* the active-JDK inventory file
    jaz,       \* the launcher binary
    conf,      \* brewlet's block in containerd's config file and drop-in
    bak,       \* config.toml.brewlet.bak exists
    live,      \* the configuration the running containerd has loaded, or Down
    \* the Node object
    ready,     \* label brewlet.sh/runtime=ready
    caps,      \* capability labels
    ann,       \* generation whose inventory is in the annotations, or 0
    error,     \* annotation brewlet.sh/provision-error, or "none"
    \* the script's process
    pc, env, dying, old, oldLaunchers, todo, cur, kept, kind,
    \* bounds and history
    faults, crashes,
    found,     \* conf when the script started
    misread    \* some `kubectl get` of the old inventory failed

hostVars == <<shim, root, active, jaz, conf, bak, live>>
nodeVars == <<ready, caps, ann, error>>
podVars == <<pc, env, dying, old, oldLaunchers, todo, cur, kept, kind>>
fixed == <<host, desired, crashes, found>>
vars == <<hostVars, nodeVars, podVars, fixed, faults, misread>>

----------------------------------------------------------------------------
(* The host.                                                               *)

CONSTANT Absent
ASSUME AbsentAssumption == Absent \notin Image \cup Jdk

Block == {"none", "old", "new"}
Conf == [primary : Block, dropin : Block]
Clean == [primary |-> "none", dropin |-> "none"]
Down == [primary |-> "down", dropin |-> "down"]

\* The block in force: the drop-in is imported over the primary file. "old" is
\* a block an earlier provisioner wrote and a running containerd has accepted.
InForce(c) == IF c.dropin # "none" THEN c.dropin ELSE c.primary

Serves(c) == InForce(c) = "old" \/ (InForce(c) = "new" /\ host.verdict = "serves")

\* What a (re)started containerd runs when it finds c on disk.
Boot(c) == IF InForce(c) = "new" /\ host.verdict \in {"broken", "rejected"}
           THEN Down ELSE c

HandlerLive_Healthy(l) == l # Down
HandlerLive(l) == l # Down /\ Serves(l)

\* Capability labels for generation g's inventory; the launcher java is always
\* part of it.
JdkCaps(g) == IF g = 0 THEN {} ELSE
    {<<"jdk", j>> : j \in Inventory[g]} \cup {<<"jdk-feature", Feature[j]>> : j \in Inventory[g]}
LauncherCaps(g) == IF g = 0 THEN {} ELSE
    {<<"launcher", "java">>} \cup (IF WantsJaz[g] THEN {<<"launcher", "jaz">>} ELSE {})
CapsOf(g) == JdkCaps(g) \cup LauncherCaps(g)

\* The labels clear_node_advertisement derives from the two annotations it read.
OldCaps_NoFeature == (JdkCaps(old) \cup LauncherCaps(oldLaunchers)) \ {<<"jdk-feature", Feature[j]>> : j \in Jdk}
OldCaps == JdkCaps(old) \cup LauncherCaps(oldLaunchers)

\* validate_launcher: the launcher answers its probe.
LauncherValid == WantsJaz[env] => jaz = "installed"

\* validate_runtime: every JDK answers -version and every launcher its probe.
RuntimeValid ==
    host.validate => (\A j \in Inventory[env] : root[j] # Absent) /\ LauncherValid

\* rollback_containerd_config, by the kind of change this run made.
RolledBack_NoBackup == [conf EXCEPT !.dropin = "none"]
RolledBack_Removed == [conf EXCEPT !.primary = "absent"]
RolledBack == CASE kind = "primary"       -> [conf EXCEPT !.primary = "none"]
                [] kind = "dropin"        -> [conf EXCEPT !.dropin = "none"]
                [] kind = "dropin-backup" -> [conf EXCEPT !.dropin = "old"]
                [] OTHER                  -> conf

----------------------------------------------------------------------------
Init ==
    /\ host \in Hosts
    /\ desired = 1
    /\ shim = FALSE /\ root = [j \in Jdk |-> Absent] /\ active = {} /\ jaz = "absent"
    /\ conf \in {c \in Conf : InForce(c) # "new" /\ "none" \in {c.primary, c.dropin}}
    /\ conf.dropin = "old" => host.dropins
    /\ bak = FALSE /\ live = conf
    /\ ready = FALSE /\ caps = {} /\ ann = 0 /\ error = "none"
    /\ pc = "exited" /\ env = 1 /\ dying = "none" /\ old = 0 /\ oldLaunchers = 0 /\ todo = {}
    /\ cur = Absent /\ kept = Absent /\ kind = "none"
    /\ faults = 0 /\ crashes = 0 /\ found = conf /\ misread = FALSE

At(l) == pc = l

\* The process goes on at l; Die is die(): withdraw the advertisement, then
\* record the reason, then exit; Exit is what `set -e` does.
Goto(l) == pc' = l /\ UNCHANGED dying
Die_Annotate(reason) == pc' = "annotateError" /\ dying' = reason
Die_Silent(reason) == pc' = "exited" /\ dying' = reason
Die(reason) == pc' = "clear" /\ dying' = reason
Exit == Goto("exited")

Works == UNCHANGED <<faults, misread>>
Fails == faults < MaxFaults /\ faults' = faults + 1 /\ UNCHANGED misread

locals == <<env, old, oldLaunchers, todo, cur, kept, kind>>

\* A failing step of clear_node_advertisement: fatal at the top of the script;
\* inside die(), `set -e` ends the process before the reason is recorded.
ClearFails == Fails /\ (IF dying = "none" THEN Die("stale-readiness") ELSE Exit)

\* A failed `kubectl get` reads as an empty annotation.
ReadAnnotation(value) ==
    \/ Works /\ value = ann
    \/ faults < MaxFaults /\ faults' = faults + 1 /\ misread' = TRUE /\ value = 0

ClearRead ==
    /\ At("clear") /\ Goto("clearLaunchers") /\ ReadAnnotation(old')
    /\ UNCHANGED <<hostVars, nodeVars, env, oldLaunchers, todo, cur, kept, kind, fixed>>

ClearReadLaunchers ==
    /\ At("clearLaunchers") /\ Goto("clearReady") /\ ReadAnnotation(oldLaunchers')
    /\ UNCHANGED <<hostVars, nodeVars, env, old, todo, cur, kept, kind, fixed>>

\* A failed kubectl write may or may not have reached the API server.
ClearReady ==
    /\ At("clearReady")
    /\ \/ Works /\ ready' = FALSE /\ Goto("clearCaps")
       \/ ClearFails /\ (UNCHANGED ready \/ ready' = FALSE)
    /\ UNCHANGED <<hostVars, caps, ann, error, locals, fixed>>

ClearCaps ==
    /\ At("clearCaps")
    /\ \/ Works /\ caps' = caps \ OldCaps /\ Goto("clearAnn")
       \/ OldCaps # {} /\ ClearFails /\ caps' \in {caps, caps \ OldCaps}
    /\ UNCHANGED <<hostVars, ready, ann, error, locals, fixed>>

ClearAnn ==
    /\ At("clearAnn")
    /\ \/ /\ Works /\ ann' = 0 /\ error' = "none"
          /\ Goto(IF dying = "none" THEN "install" ELSE "annotateError")
       \/ ClearFails /\ (UNCHANGED <<ann, error>> \/ (ann' = 0 /\ error' = "none"))
    /\ UNCHANGED <<hostVars, ready, caps, locals, fixed>>

AnnotateError ==
    /\ At("annotateError") /\ Exit
    /\ (Works /\ error' = dying) \/ (Fails /\ error' \in {error, dying})
    /\ UNCHANGED <<hostVars, ready, caps, ann, locals, fixed>>

----------------------------------------------------------------------------
(* JDKs and launchers.                                                     *)

InstallShim ==
    /\ At("install")
    /\ \/ Works /\ shim' = TRUE /\ todo' = Inventory[env] /\ Goto("jdk")
       \/ Fails /\ Die("preflight") /\ UNCHANGED <<shim, todo>>
    /\ UNCHANGED <<root, active, jaz, conf, bak, live, nodeVars>>
    /\ UNCHANGED <<env, old, oldLaunchers, cur, kept, kind, fixed>>

KeepRoot_AnySource(j) == root[j] # Absent
KeepRoot(j) == root[j] = Source[env][j]

\* install_jdk: an installed root of the same source is kept; otherwise the new
\* root is staged and renamed into place, after the old one was renamed away.
InstallJdk(j) ==
    /\ At("jdk") /\ j \in todo
    /\ \/ /\ KeepRoot(j)
          /\ Works /\ Goto("jdk") /\ todo' = todo \ {j} /\ UNCHANGED <<root, cur, kept>>
       \/ /\ root[j] = Absent
          /\ Works /\ Goto("jdk") /\ todo' = todo \ {j}
          /\ root' = [root EXCEPT ![j] = Source[env][j]] /\ UNCHANGED <<cur, kept>>
       \/ /\ root[j] # Absent /\ ~KeepRoot(j)
          /\ Works /\ Goto("swap") /\ cur' = j /\ kept' = root[j]
          /\ root' = [root EXCEPT ![j] = Absent] /\ UNCHANGED todo
       \/ /\ ~KeepRoot(j)      \* the pull fails, or a later step
          /\ Fails /\ (Exit \/ Die("jdk-install")) /\ UNCHANGED <<root, todo, cur, kept>>
    /\ UNCHANGED <<shim, active, jaz, conf, bak, live, nodeVars, env, old, oldLaunchers, kind, fixed>>

SwapJdk ==
    /\ At("swap")
    /\ \/ /\ Works /\ Goto("jdk") /\ todo' = todo \ {cur}
          /\ root' = [root EXCEPT ![cur] = Source[env][cur]]
       \/ /\ Fails /\ Die("jdk-activate") /\ UNCHANGED todo
          /\ root' \in {root, [root EXCEPT ![cur] = kept]}   \* the move back may fail too
    /\ UNCHANGED <<shim, active, jaz, conf, bak, live, nodeVars>>
    /\ UNCHANGED <<env, old, oldLaunchers, cur, kept, kind, fixed>>

WriteActiveInventory ==
    /\ At("jdk") /\ todo = {}
    /\ active' = Inventory[env] /\ Works /\ Goto("launcher")
    /\ UNCHANGED <<shim, root, jaz, conf, bak, live, nodeVars, locals, fixed>>

\* install_launcher: anything executable is kept; the binary is copied in place.
InstallLauncher ==
    /\ At("launcher")
    /\ \/ (~WantsJaz[env] \/ jaz # "absent") /\ Works /\ Goto("configure") /\ UNCHANGED jaz
       \/ WantsJaz[env] /\ jaz = "absent" /\ Works /\ Goto("copyJaz") /\ jaz' = "partial"
       \/ WantsJaz[env] /\ jaz = "absent" /\ Fails /\ Exit /\ UNCHANGED jaz
    /\ UNCHANGED <<shim, root, active, conf, bak, live, nodeVars, locals, fixed>>

CopyLauncher ==
    /\ At("copyJaz")
    /\ \/ Works /\ Goto("configure") /\ jaz' = "installed"
       \/ Fails /\ Exit /\ UNCHANGED jaz
    /\ UNCHANGED <<shim, root, active, conf, bak, live, nodeVars, locals, fixed>>

----------------------------------------------------------------------------
(* The containerd configuration.                                           *)

\* configure_containerd up to the first rename: none touches nothing, sighup
\* patches the primary file, validated first validates the runtime and then
\* keeps an in-place block, writes the drop-in or patches the primary file.
Configure ==
    /\ At("configure") /\ Works
    /\ \/ host.mode = "none" /\ Goto("activate") /\ UNCHANGED <<conf, bak, kind>>
       \/ /\ host.mode = "sighup" /\ UNCHANGED <<conf, kind>>
          /\ IF conf.primary # "none" THEN Goto("activate") /\ UNCHANGED bak
                                      ELSE Goto("patch") /\ bak' = TRUE
       \/ /\ host.mode = "validated" /\ ~RuntimeValid
          /\ Die("validation") /\ UNCHANGED <<conf, bak, kind>>
       \/ /\ host.mode = "validated" /\ RuntimeValid
          /\ \/ /\ conf.primary # "none" \/ (host.dropins /\ conf.dropin = "new")
                /\ Goto("dump") /\ UNCHANGED <<conf, bak, kind>>
             \/ /\ conf.primary = "none" /\ host.dropins /\ conf.dropin # "new"
                /\ conf' = [conf EXCEPT !.dropin = "new"]
                /\ kind' = IF conf.dropin = "old" THEN "dropin-backup" ELSE "dropin"
                /\ Goto("dump") /\ UNCHANGED bak
             \/ /\ conf.primary = "none" /\ ~host.dropins
                /\ Goto("patch") /\ bak' = TRUE /\ UNCHANGED <<conf, kind>>
    /\ UNCHANGED <<shim, root, active, jaz, live, nodeVars, env, old, oldLaunchers, todo, cur, kept, fixed>>

PatchInPlace ==
    /\ At("patch") /\ Works
    /\ conf' = [conf EXCEPT !.primary = "new"] /\ kind' = "primary"
    /\ Goto(IF host.mode = "validated" THEN "dump" ELSE "activate")
    /\ UNCHANGED <<shim, root, active, jaz, bak, live, nodeVars>>
    /\ UNCHANGED <<env, old, oldLaunchers, todo, cur, kept, fixed>>

\* validate_containerd_config; a rejected configuration is rolled back on disk.
DumpConfig ==
    /\ At("dump")
    /\ \/ /\ InForce(conf) = "old" \/ host.verdict # "rejected"
          /\ Works /\ Goto("activate")
       \/ /\ InForce(conf) = "new" /\ host.verdict = "rejected"
          /\ Works /\ Goto("restore")
       \/ Fails /\ Goto("restore")
    /\ UNCHANGED <<hostVars, nodeVars, locals, fixed>>

RestoreConfig ==
    /\ At("restore")
    /\ \/ Works /\ Die("config-rejected") /\ conf' = RolledBack
       \/ kind # "none" /\ Fails /\ Die("rollback-failed") /\ UNCHANGED conf
    /\ UNCHANGED <<shim, root, active, jaz, bak, live, nodeVars, locals, fixed>>

\* activate_containerd_config. A SIGHUP is not known to reload anything.
ActivateUnvalidated ==
    /\ At("activate") /\ host.mode # "validated"
    /\ Works /\ Goto("readiness")
    /\ live' \in IF host.mode = "sighup" /\ kind # "none" THEN {live, Boot(conf)} ELSE {live}
    /\ UNCHANGED <<shim, root, active, jaz, conf, bak, nodeVars, locals, fixed>>

\* validated_restart: what a failure leads to depends on whether this run of
\* the script changed the configuration.
RestartFailed == IF kind = "none" THEN Die("restart-failed") ELSE Goto("rollback")

ValidatedRestart ==
    /\ At("activate") /\ host.mode = "validated"
    /\ \/ /\ kind = "none" /\ HandlerLive(live)
          /\ Works /\ Goto("readiness") /\ UNCHANGED live
       \/ /\ kind # "none" \/ ~HandlerLive(live)
          /\ \/ /\ Works /\ live' = Boot(conf)
                /\ IF HandlerLive(Boot(conf)) THEN Goto("readiness") ELSE RestartFailed
             \/ Fails /\ live' \in {Boot(conf), Down} /\ RestartFailed
    /\ UNCHANGED <<shim, root, active, jaz, conf, bak, nodeVars, locals, fixed>>

RollbackConfig ==
    /\ At("rollback")
    /\ \/ Works /\ Goto("recover") /\ conf' = RolledBack
       \/ Fails /\ Die("rollback-failed") /\ UNCHANGED conf
    /\ UNCHANGED <<shim, root, active, jaz, bak, live, nodeVars, locals, fixed>>

Recover ==
    /\ At("recover")
    /\ \/ /\ Works /\ live' = Boot(conf)
          /\ Die(IF Boot(conf) = Down THEN "rollback-failed" ELSE "rolled-back")
       \/ Fails /\ live' \in {Boot(conf), Down} /\ Die("rollback-failed")
    /\ UNCHANGED <<shim, root, active, jaz, conf, bak, nodeVars, locals, fixed>>

----------------------------------------------------------------------------
(* Publication.                                                            *)

\* validate_readiness_after_activation (and, in mode none, the validation that
\* stands in for the activation), then verify_shim.
CheckReadiness ==
    /\ At("readiness") /\ Works
    /\ IF host.mode # "validated" /\ ~RuntimeValid THEN Die("validation")
       ELSE IF ~shim THEN Die("shim-missing")
       ELSE Goto("annotate")
    /\ UNCHANGED <<hostVars, nodeVars, locals, fixed>>

Annotate ==
    /\ At("annotate")
    /\ \/ Works /\ Goto("labelCaps") /\ ann' = env
       \/ Fails /\ Die("label") /\ ann' \in {ann, env}
    /\ UNCHANGED <<hostVars, ready, caps, error, locals, fixed>>

LabelCaps ==
    /\ At("labelCaps")
    /\ \/ Works /\ Goto("labelReady") /\ caps' = caps \cup CapsOf(env)
       \/ Fails /\ Die("label") /\ caps' \in {caps, caps \cup CapsOf(env)}
    /\ UNCHANGED <<hostVars, ready, ann, error, locals, fixed>>

LabelReady ==
    /\ At("labelReady")
    /\ \/ Works /\ Goto("clearError") /\ ready' = TRUE
       \/ Fails /\ Die("label") /\ (UNCHANGED ready \/ ready' = TRUE)
    /\ UNCHANGED <<hostVars, caps, ann, error, locals, fixed>>

ClearError ==
    /\ At("clearError") /\ Goto("idle")
    /\ (Works /\ error' = "none") \/ (Fails /\ error' \in {error, "none"})
    /\ UNCHANGED <<hostVars, ready, caps, ann, locals, fixed>>

----------------------------------------------------------------------------
(* The surroundings: kubelet, host and the NodeProfile.                    *)

FirstStep_NoClear == "install"
FirstStep == "clear"

\* The kubelet needs a running containerd to start a container.
StartPod ==
    /\ At("exited") /\ live # Down
    /\ pc' = FirstStep /\ env' = desired /\ dying' = "none" /\ kind' = "none"
    /\ todo' = {} /\ kept' = Absent /\ found' = conf
    /\ UNCHANGED <<hostVars, nodeVars, old, oldLaunchers, cur, host, desired, crashes, faults, misread>>

\* The script's pod is stopped from outside. The launcher's copy runs in a
\* container of its own, which finishes without it.
StopPod ==
    /\ ~At("exited") /\ Exit
    /\ jaz' = IF At("copyJaz") THEN "installed" ELSE jaz
    /\ UNCHANGED <<shim, root, active, conf, bak, live, nodeVars, locals, host, desired, found, faults, misread>>

\* The DaemonSet replaces a pod of an outdated template, whatever it is doing.
RolloutPod == env # desired /\ StopPod /\ UNCHANGED crashes

KillPod == crashes < MaxCrashes /\ crashes' = crashes + 1 /\ StopPod

RebootHost ==
    /\ crashes < MaxCrashes /\ crashes' = crashes + 1
    /\ Exit /\ live' = Boot(conf)
    /\ UNCHANGED <<shim, root, active, jaz, conf, bak, nodeVars, locals>>
    /\ UNCHANGED <<host, desired, found, faults, misread>>

\* systemd brings a failed containerd up again, if its configuration lets it.
RestartService ==
    /\ live = Down /\ Boot(conf) # Down /\ live' = Boot(conf)
    /\ UNCHANGED <<shim, root, active, jaz, conf, bak, nodeVars, podVars, fixed, faults, misread>>

EditProfile ==
    /\ desired < MaxGen /\ desired' = desired + 1
    /\ UNCHANGED <<hostVars, nodeVars, podVars, host, crashes, found, faults, misread>>

\* `exec sleep infinity`: a provisioned node's pod stays, doing nothing; so does
\* a node whose containerd cannot come up.
Sleep == (At("idle") \/ (At("exited") /\ live = Down)) /\ UNCHANGED vars

Script ==
    \/ ClearRead \/ ClearReadLaunchers \/ ClearReady \/ ClearCaps \/ ClearAnn \/ AnnotateError
    \/ InstallShim \/ (\E j \in Jdk : InstallJdk(j)) \/ SwapJdk
    \/ WriteActiveInventory \/ InstallLauncher \/ CopyLauncher
    \/ Configure \/ PatchInPlace \/ DumpConfig \/ RestoreConfig
    \/ ActivateUnvalidated \/ ValidatedRestart \/ RollbackConfig \/ Recover
    \/ CheckReadiness \/ Annotate \/ LabelCaps \/ LabelReady \/ ClearError

Next ==
    \/ Script \/ Sleep \/ StartPod \/ RolloutPod \/ KillPod
    \/ RebootHost \/ RestartService \/ EditProfile

Spec == Init /\ [][Next]_vars

\* The script runs on while its pod lives, the kubelet restarts an exited
\* container, the DaemonSet controller replaces an outdated pod and systemd
\* retries a failed unit.
FairSpec ==
    /\ Spec
    /\ WF_vars(Script) /\ WF_vars(StartPod) /\ WF_vars(RolloutPod) /\ WF_vars(RestartService)

----------------------------------------------------------------------------
(* Properties.                                                             *)

Reason == {"none", "stale-readiness", "preflight", "jdk-install", "jdk-activate",
           "validation", "config-rejected", "rollback-failed", "restart-failed",
           "rolled-back", "shim-missing", "label"}

Label == {"clear", "clearLaunchers", "clearReady", "clearCaps", "clearAnn", "annotateError", "install",
          "jdk", "swap", "launcher", "copyJaz", "configure", "patch", "dump", "restore",
          "activate", "rollback", "recover", "readiness", "annotate", "labelCaps",
          "labelReady", "clearError", "idle", "exited"}

AllCaps == UNION {CapsOf(g) : g \in Gen}

\* Type invariant of the node's disk, the Node object and the script's state.
TypeOK ==
    /\ host \in Hosts /\ desired \in Gen
    /\ shim \in BOOLEAN /\ root \in [Jdk -> Image \cup {Absent}] /\ active \in SUBSET Jdk
    /\ jaz \in {"absent", "partial", "installed"} /\ bak \in BOOLEAN
    /\ conf \in Conf /\ live \in Conf \cup {Down} /\ found \in Conf
    /\ ready \in BOOLEAN /\ caps \subseteq AllCaps
    /\ ann \in Gen \cup {0} /\ error \in Reason
    /\ pc \in Label /\ env \in Gen /\ dying \in Reason /\ old \in Gen \cup {0} /\ oldLaunchers \in Gen \cup {0}
    /\ todo \in SUBSET Jdk /\ cur \in Jdk \cup {Absent} /\ kept \in Image \cup {Absent}
    /\ kind \in {"none", "primary", "dropin", "dropin-backup"}
    /\ faults \in 0 .. MaxFaults /\ crashes \in 0 .. MaxCrashes /\ misread \in BOOLEAN

\* Whenever the node is labelled ready, its annotations name an inventory, the
\* shim reads exactly that inventory from the active-JDK file, and the shim and
\* every JDK root in it are on disk: main() withdraws the label before it
\* touches any of them, also after a crash in the middle of an earlier run.
ReadyMatchesInventory ==
    ready => /\ ann # 0 /\ shim /\ active = Inventory[ann]
             /\ \A j \in Inventory[ann] : root[j] # Absent

\* A node never carries runtime=ready and a provision-error at once: die()
\* withdraws the label before it records the error, and a run that gets as far
\* as label_node has removed the error of the run before.
ReadyExcludesError == ready => error = "none"

\* Unless a read of the old annotations failed, every capability label on the
\* node is derivable from its inventory annotations, so that a later
\* clear_node_advertisement finds and removes it; this holds in the middle of a
\* publication and of a withdrawal, wherever the script was killed.
CapsCovered == ~misread => caps \subseteq CapsOf(ann)

\* When validated_restart reports the failure of the configuration this run
\* wrote, and not a failed rollback, the files are back to what the run found
\* and containerd runs them.
RollbackRestores ==
    dying \in {"rolled-back", "config-rejected"} => conf = found /\ (dying = "rolled-back" => live = conf)

\* Validated mode is transactional: after a restart or health failure is
\* reported, other than a failed rollback, the configuration on disk is one
\* that containerd comes up with (activate_containerd_config's comment).
KnownGoodRestored ==
    error \in {"restart-failed", "rolled-back"} => Boot(conf) # Down

\* In validated mode the label runtime=ready is only ever added while the
\* running containerd serves the brewlet handler, and, with validation on,
\* while the advertised launcher is complete.
ReadyWhenServing ==
    [][~ready /\ ready' /\ host.mode = "validated"
         => /\ live # Down /\ Serves(live)
            /\ host.validate /\ WantsJaz[ann] => jaz = "installed"]_vars

\* A failure shows: once commands stop failing, the node again and again is ready
\* or carries a provision-error, whatever the host makes of the configuration,
\* unless containerd stays down and the whole node with it. (A pull that keeps
\* failing ends the script under `set -e` and shows nothing, see PullFailsSilently.)
NeverSilent == []<>(ready \/ error # "none") \/ <>[](live = Down)

\* The node is ready for the profile's last generation, with every JDK installed
\* from the source that generation names.
Converged ==
    /\ ready /\ ann = desired
    /\ \A j \in Inventory[desired] : root[j] = Source[desired][j]

\* The script is idempotent: on a host that accepts the configuration the node
\* converges, whatever failed, was killed or was cut short by a reboot before.
Converges == host.verdict = "serves" => <>[]Converged

\* The only thing a reboot or a failure can leave behind that stops later runs is
\* a launcher whose copy was cut short, and only where the profile still wants
\* it: every other half-done step of install, swap, configure and label is redone.
ConvergesUnlessCut ==
    host.verdict = "serves" => <>[]Converged \/ <>[](jaz = "partial" /\ WantsJaz[desired])
=============================================================================
