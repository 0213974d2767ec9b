# Brewlet: TLA+ models and proofs

Specifications of the parts of Brewlet whose correctness depends on the order of
steps, on failures between them, or on several processes sharing state. Every
definition is translated from the source; `PROJECT.json` (`map`) names the lines.

## The system

Brewlet runs Java applications on Kubernetes without per-application JDK images.

| Part | Source | State it owns | Talks to | Model |
|---|---|---|---|---|
| Node provisioner | `provisioner/entrypoint.sh` | host files, containerd configuration, node labels and annotations | containerd, API server | `Provisioner` |
| Cleanup mode | same | the same state, in reverse | same | `NodeCleanup` |
| NodeProfile controller | `kubernetes/internal/controller/nodeprofile_*.go` | DaemonSets, finalizer, status | API server | `PoolAssignment`, `NodeProfile`, `NodeCleanup` (deletion on a node) |
| Node controller | `.../node_controller.go` | `provision-state` | API server | `PodAdmission`, `PoolAssignment` (membership) |
| JavaApplication controller | `.../javaapplication_*.go` | Deployment, Service, HPA, status | API server | `JavaApplication` |
| Pod webhook | `kubernetes/internal/admission` | none: it stamps, steers or denies pods | API server | `PodAdmission`, composed in `Workload` |
| NodeProfile webhook | `.../admission/nodeprofile_webhook.go` | none | API server | `NodeProfile` (pool conflicts) |
| containerd shim | `core/shim/cmd/containerd-shim-brewlet-v2` | pending launches, bundles, stage directories | containerd, runc | `ShimTask`, over `LaunchPlan` |
| Launch plan | `core/internal/runtime/launch.go`, `bundle.go` | none | shim, CLI | `LaunchPlan` |
| AppCDS cache | `core/internal/runtime/cds_regen.go` | `/opt/brewlet/cds` | shims, JVMs | `CDSCache` |
| Telemetry, exporter | `core/internal/telemetry`, `core/cmd/brewlet-metrics-exporter` | datagram socket | shim, Prometheus | `Telemetry`, `MetricsExporter`, composed in `NodeRuntime` |
| Artifact store, CLI | `core/internal/artifact`, `core/cmd/brewlet` | an OCI layout | registry, shim | `Publication`, `ArtifactStore` |
| Supply chain | `core/internal/artifact/supply_chain.go`, `core/pkg/attest`, `admission/ratify-verifier` | referrers in the layout | registry, Ratify | `SupplyChain`, `ArtifactStore` |
| Doctor, inventory, Maven plugin, site | `core/internal`, `maven-plugin`, `site` | build outputs, reports | | not modelled |

The parts that change persistent state are the provisioner (host and node
object), the operator (API objects), the shim and the CDS cache (node
directories) and the CLI (the OCI layout). The node object is where the cluster's
parts meet: the provisioner writes the label `runtime=ready`, the capability labels
and the inventory annotations; the scheduler, the webhook and the operator act on
them, and the shim on the host's inventory behind them. The artifact is where the
CLI and the node meet: what `push` accepts, the shim has to launch.

`PROJECT.json` lists every component and every hazard with its source line.

## Modules

### Provisioner

One node, one run after another of `entrypoint.sh` in provision mode. Each
action is a stage of `main` up to its next externally visible effect.

* Host: `shim`, `root[j]` (the image a JDK root was copied from, or `Absent`),
  `active` (the active inventory file), `jaz` (the launcher), `conf` (the brewlet
  block in the primary configuration and in the drop-in), `bak` (the backup of the
  primary file), `live` (the configuration containerd runs with; `Down` if it does
  not run). `host` holds the host's traits: the restart mode, `BREWLET_VALIDATE`,
  whether drop-ins are supported, and what containerd makes of the rendered block
  (`verdict`).
* Node object: `ready`, `caps`, `ann` (the generation whose inventory is annotated,
  0 for none), `error` (the reason of `provision-error`).
* Script: `pc`, `env` (the generation in the pod's environment) and its shell
  variables `old`, `todo`, `cur`, `kept`, `kind`, `dying`.

A profile is a sequence of generations (`Inventory`, `Source`, `WantsJaz`), and
`desired` is the one in the DaemonSet. `die` is a path of its own: it clears the
advertisement with the same commands as `main` and then annotates, so each of
its commands can fail too; under `set -e` a failure inside `die` ends the script
before the annotation. `KillPod`, `RebootHost`, `EditProfile` and `RolloutPod`
interleave with every stage. A pod starts only while containerd runs; a containerd
that failed is brought up again by systemd if its configuration lets it
(`RestartService`). The launcher is copied in a container of its own, so killing the pod
does not cut the copy short; a reboot or a full disk does. Command failures and crashes
are bounded by `MaxFaults` and `MaxCrashes`.

JDK images, JSON and TOML texts, mirrors and log lines are abstracted: a JDK is a
token and the image it came from, a configuration is which block is in which file.

### NodeCleanup

Extends Provisioner with the deletion of the profile on that node: the NodeProfile's
generation, deletion timestamp and finalizer, the cleanup pod's script (`cpc`) and
the operator's steps. The provisioner keeps all its actions: the operator does not
stop its DaemonSet before the finalizer is released.

### PoolAssignment, NodeProfile

`PoolAssignment` holds the pure functions: `resolvePoolKey`, `profileAffinity`,
`nodeAssigned`, the node controller's `profileClaimsNode`, `ValidateNoPoolConflicts`. A
node is its pool labels, a profile its `spec.nodePool`.

`NodeProfile` is the controller over several profiles. `rev` and `uid` identify a
profile's spec and object (the generation is their distance), `deleting` and `fin` are
its deletion timestamp and finalizer. `Read` takes the snapshot a reconcile works from
(`view`); then follow, one API write each, `AddFinalizer`, `ensureProfileDaemonSet`,
`updateStatus`, or on deletion `ensureCleanupComplete` and `reconcileDelete`. Users
write, delete and recreate profiles and nodes come and go between any two of them. A
write of a changed object conflicts and ends the reconcile, as does any failed call
(`ReconcileFails`). The webhook's configuration covers UPDATE, so the controller's own
finalizer writes pass through it. It checks a profile against an informer cache: `known`
has the specs of each profile that a check may still go by, until `CatchUp`; when it cannot
list the others it lets the write in. The pods' work is one step (`Provisioner` and
`NodeCleanup` have the detail). What the worker reads in one `Read` is of one instant.

### CDSCache

Concurrent launches run `DecideCDSRegen` against one directory. Each step is one
system call: the eviction's stat and two removals, the stat of the archive, the
exclusive create, the stat and the refresh of an existing marker, the seed's stat,
create, copy. The JVM is external: a writer whose archive does not map at start
rewrites it at exit; a launch whose JVM only reads, or does without, is over with the
decision. Time is two ages, so no clock is bounded: a marker turns
stale, an archive old.

### LaunchPlan, Telemetry

Operators, without state. `LaunchPlan` has the launch config and its rules
(`Validate`), the choice of the node's JDK and launcher (`selectJDK`,
`selectLauncher`), `BuildJVMArgs`, and the launch that each of the three paths of
the code puts together: `ShimLaunch` (`applyBrewletLaunch`), `PortableLaunch`
(`GenerateBundleWithRegen`) and `LocalLaunch` (`brewlet run`). Arguments keep their
order and what they name; texts, environment and paths are abstracted. A JDK request
is the sequence of the texts around its last dash, a mount is its name, where it
comes from and whether it may be written.

`Telemetry` has the vocabulary that `Decode` accepts and `Reason`, which takes the
cause of a failure from words of its message: an error is the set of those words.

### ShimTask, MetricsExporter, NodeRuntime

`ShimTask` is the task service of the shims on one node. Create is cut where another
actor can interfere: resolving up to the staging of an image, the staging itself
(which truncates files the shims of the node share), preparing, overlay, layers and
`config.json`, runc, and the entry in the pending map. Two Start calls, a Delete and
the process's exit run beside it; `StartReport` is the section under the lock.
containerd creates a task anew only after the calls of the last one have returned,
but may delete a task whose Create it has given up on. `Fault` lets any system call
fail, `KillShim` ends a shim anywhere. `writer[d]` says who truncated the staged
layer of image `d` last and has not filled it. `reports`, `ran`, `overlap` and `bad`
are history. The errors of Create come in the code's order: config, the staged image's
files, layers, JDK, launcher.

The OCI spec that Create reads twice is taken not to change between the reads. runc
options are readable or refused.

`MetricsExporter` is the life of the socket path: unlink, bind, chmod, serve, close,
and the deferred removal, for two exporters that may run side by side; an exporter that
is killed leaves its socket in the path.
`NodeRuntime` composes the two; a launch never waits for an exporter.

`LaunchLedger` is the abstract specification of the launch metric: attempts are
opened, reported once or dropped. `ReportedOnce` says that `ShimTask` implements it,
with the open attempts being the Creates in progress and the unreported pending
entries, and the count the length of the reports.

### Publication, SupplyChain, ArtifactStore

`Publication` has what `brewlet push` and `brewlet dependency-bundle` accept and put
together: configs detected, given or rewritten for a managed bundle, architectures,
archives, locks and tars, and the blobs of each kind of artifact in the order in which
they are written. A digest is named by the content it addresses. A bundle's name
stands for its name, version, source BOM and JDKs.

`SupplyChain` has what readers make of an index and its blobs: resolution by ref,
referrers, SBOMs, statements, and the two implementations of managed verification (the
store's, and the one the Ratify plugin calls). A referrer has its kind, its subject, its
document and the statement type in its annotation, which only the CLI filters by. A
signature is who signed what.

`ArtifactStore` runs the commands on one layout that nothing locks. Blobs and index are
written in place: `OpenBlob` and `TruncateIndex` empty the file, `CloseBlob` and
`WriteIndex` fill it, and a process may be stopped anywhere and run again. An index is
read (`ReadIndex`), changed in memory and written back; a torn one decodes to nothing,
which a tagged push takes for an empty index and a referrer push refuses. Two writers
of the index may leave the tail of the longer text behind the shorter one. A verification
reads the index again in each of its steps (`FindSBOM` counts the SBOMs, `CheckSBOM` reads
the one there is, then come the provenance and the count of the attestations), and another
process may write between them; the blob reads of one step are one action. The
`oci-layout` marker is left out: nothing reads it.

### PodAdmission, JavaApplication, Workload

`PodAdmission` has the fleet as the webhook sees it (`fleet`, a cache), `CheckFleet`,
the stamped reference, the injected affinity and the fail-open path; then binding,
the shim's own choice (`CanRun`, from `LaunchPlan`), runs of the nodes' provisioners
(`Withdraw`, then `Publish` as a success or a failure) and the node controller with its
cached copy. Its list of the pods may fail, which the code swallows: the node's state is
then decided as if no pod were crash-looping (`outages`). A pod that loops restarts, and
each restart is an event. A pod's affinity is a set of alternative terms, each a set of
requirements.
A denied pod is not created and tried again by its ReplicaSet.

`JavaApplication` is the reconciliation of one application, one call on an object per
step, from cached copies (`seen`). The API server refuses a write whose copy is not the
live object, and a Deployment whose selector is another (`Unselected`: a selector cannot
be changed); a failing call does not take effect. The autoscaler scales, users edit and
delete, other controllers hold names, the operator restarts.

`Workload` composes them with the Deployment controller: a spec becomes a template,
pods pass the webhook, are bound and launched, and their count returns to the status.

Pool membership of a node does not change here (`pooled`; `PoolAssignment` has it).
The launcher binary of an earlier profile stays on the host, as the provisioner never
removes one. Without a JDK request the shim wants its default version, which the webhook
does not check; of a request that names no feature version it makes the same default.

## Runs

| Run | Question | Answer |
|---|---|---|
| `provision` | does the advertisement ever claim more than is installed and live, does a reported failure restore what it found, in every restart mode, and does the node always end ready or in error? | holds; two faults, two crashes, one profile edit. Only a launcher whose copy was cut short stops convergence |
| `provision_idempotent` | does it also converge after a cut launcher copy? | violated: a partial launcher is kept |
| `provision_transactional` | is a bad configuration always rolled back? | violated after a kill before the restart |
| `cleanup` | does a completed cleanup reverse the provisioning, and is the finalizer always released? | holds |
| `cleanup_release` | is it released only after the cleanup? | violated |
| `cds` | does a key whose writer died get an archive, and is what double elections, cut seeds and evictions under a writer leave behind replaced? | holds, the second as long as the node launches other artifacts, whose launches evict |
| `cds_heal` | does the archive become usable again and again? | violated: any non-empty archive is consumed |
| `nodeprofile` | is a DaemonSet never out without its finalizer, and does everything settle when changes stop? | holds; settling while no two profiles name one pool |
| `nodeprofile_overlap` | do the DaemonSets never select one node twice? | violated: two profiles of one pool pass the webhook, whose cache is behind, and no reconcile refuses |
| `node` | is every launch reported once and truthfully, can what reaches runc run and is it what the other paths launch, does a restarted exporter get its socket? | holds, with the exceptions below |
| `store` | does the index list only what is there, lose nothing, verify after retries; is trust deserved, and given where it is due; does what is accepted launch? | holds, with the exceptions below |
| `workload` | do steered pods run, are foreign objects and the autoscaler's count left alone, and do objects, status and node states settle? | holds, with the exceptions below |

The findings in `PROJECT.json` quote the sentence each violated property states.

The exceptions are part of the properties, where a reader should look for them:

* `ReportIsTrue` leaves out tasks for which a Start met another Start or a Delete: who
  takes the pending entry first reports, and the other's outcome is lost.
* `NeverSilent` speaks of the time after the last fault, and of nodes whose containerd comes
  back. While pulls keep failing, nothing shows (`PullFailsSilently`, below).
* `LaunchIsWhole` says nothing of the times of the layers' files (`LayerTimesDiffer`, below).
* `RestartBinds` leaves out exporters that ran side by side: the one that leaves removes
  the path of the other.
* `NothingLost`, `PublishedVerifies` and `ManagedAdmitted` hold while no two updates of the
  index overlap, no torn index is started afresh over another process's work, and a bundle's
  ref is not moved while its SBOM is published. The last two also need the blobs whole,
  `ManagedAdmitted` that the ref was not published again.
* `AdmissionAgrees` speaks of referrers that the CLI pushed. Another tool could sign a
  statement and leave the annotation out; the plugin would go by it and `inspect` not.
* `PublishedLaunches` asks for every file on the paths only where the CLI wrote the entry
  itself. A given config without a main JAR is outside (`DefaultJarMissing`, below).
* `WebhookAgrees` speaks of requests that name a feature version (`NamesFeature`).
* `SteeredRuns` and `AppServed` leave out nodes provisioned anew after a pod was bound, and
  pods that came through while the webhook could not list the nodes.
* `ForeignKept` is about taking over and changing. The code also removes by name alone: a
  spec that wants no Service or no autoscaler deletes the one of the application's name,
  whoever owns it (`ForeignDeleted`, below).
* `AppSettles` ends in `Ready=False` while another controller holds a needed name.

### Bounds

* Provisioner: two JDKs of one feature version (so that one feature label stands for
  two JDKs and losing one must not be confused with losing both), two generations
  that change the list and the images, the launcher in one of them. One profile edit
  covers a rollout in the middle of a run. Two faults are enough to fail a stage and
  then a command of `die`; two crashes to kill a run and the run that repairs it.
* NodeCleanup: one JDK per generation with different feature versions, so that no
  label of one generation is a label of the other. Drop-ins only where the configuration
  is validated, as the other modes do not look at them.
* NodeProfile: a default and two named profiles that can ask for the same pool, one
  node in it; the second of two provider keys is the one the node carries. Three user
  operations allow create, delete, create again, or a conflict between an edit and a
  creation that the webhook's cache does not have yet; one node event makes the pool key
  unresolvable and back; one failed webhook read, one failed call or provisioning run.
* CDSCache: two slots of one application and one of another, so that a race and an
  eviction can overlap; one fault or kill.
* NodeRuntime: a scenario varies one thing at a time. One task takes every config (each
  entry mode, right and wrong), every missing part and backend, every JDK and launcher
  request, and every combination of archive, regeneration and layers; one task is
  created twice, so that a late entry of the first attempt meets the second; two tasks
  of one image share a stage directory. Two Start calls and a Delete are the calls that
  can meet; one fault is a failed call or a killed shim. Two exporters with three
  starts: one is replaced and comes back.
* ArtifactStore: up to three processes. Single commands take every combination of
  config, JAR contents, layers, format, archive and training, and of lock, tar, JDK list
  and key; pairs and triples bring a build, a push on its bundle and an inspection
  together, two builds under one ref, two images on one bundle signed with different keys,
  and a command that is stopped once and run again.
* Workload: two nodes of different architectures, JDKs and launchers, two pods, and
  eleven starting points, each with the few edits, faults, loads or provisioner runs that
  bring one group of hazards about. The node controller's events are followed for the
  nodes of the starting point that is about them (`followed`).

Deadlock is not checked where the system may rest: an operator without profiles or a
settled application, a node whose calls have returned, a layout whose commands have
ended. An idle provisioner sleeps and a deleted profile ends in `Stopped`, so it is
checked in the provisioner, cleanup and cache runs.

### Fairness

* Provisioner: weak fairness of the script, of restarting an exited pod (the
  DaemonSet's restart policy), of the rollout (the DaemonSet controller) and of restarting
  containerd (its systemd unit). Nothing obliges a command to fail or a pod to be killed.
* NodeCleanup: weak fairness of the cleanup script, of its start and of the release
  (the operator requeues until it is done), and of stopping deleted pods.
* NodeProfile: weak fairness of the worker, the pods, garbage collection and the webhook's
  cache; strong fairness of taking up each profile. A node's heartbeat is a Node event and
  `nodeToProfiles` enqueues every profile on each, and the work queue is first in,
  first out. For the same reason the queue itself is not modelled.
* CDSCache: weak fairness of each launch, strong fairness of launching an application
  again rather than skipping (its pods are rolled and restarted; the JDK of a slot
  stays supported), weak fairness of the ageing of markers and archives. That launches of
  another artifact begin again and again is a premise of `EvictionHeals`. The JVM of a launch is
  assumed to exit in the end, as rollouts make it.
* Workload: weak fairness of the informers, of the work queues (an error requeues), of
  the Deployment, ReplicaSet and autoscaling controllers, the scheduler, the kubelet,
  garbage collection, a provisioner run that has begun, and the events of a provisioner pod
  that crash-loops (the kubelet restarts it). Users, failing calls, restarts, changes of
  load, outages of the lists and new provisioner runs owe nothing, and other owners need not
  let go of a name.

The `node` and `store` runs check safety only and assume no fairness.

## Proofs

Every safety property and action property of a passing run is also a theorem, for every
value of the constants that the named assumptions admit; TLC evaluates the assumptions on
the runs. Hardly any of the properties is inductive as it stands, so each section names the
strengthening and why it is needed.

### HostProofs

About the host: `Provisioner` and `NodeCleanup` (`ConstantsAssumption`, `AbsentAssumption`:
the constants have their types, `Absent` is not an image or a JDK).

The six safety properties of `provision` follow from `IInv`, which adds, by stage:

* `AdvertInv`: past `clear_node_advertisement` the label is down and there is no
  error annotation; each stage has left its part of the inventory behind. The label
  is set last, so everything it claims is already there.
* `CapsInv`: unless an annotation was misread, the labels on the node are among those
  the annotation lists, because `label_node` annotates before it labels.
* `RollbackInv`: between mutation and activation, undoing the recorded mutation
  gives the configuration the run found; this is what makes the rollback right
  whichever of the stages fails.
* `ServeInv`, `LauncherInv`: what the health checks and the launcher probe
  established stays true until the label is set.

`CleanupSound` is `CleanupReverses`: `CleanInv` says what each stage of the cleanup script has
already taken off the node, as long as no command fails and the provisioner beside it
sleeps; `SleeperInv` says that a sleeping provisioner has annotated the generation it ran
for, which is what the cleanup goes by.

`PullFailsSilently` is a consequence of `AdvertInv` (see the divergences below).

### NodeProfileProofs

The lemmas on `PoolAssignment` hold for any labels, fleet and profiles (`PoolAssumption`):
the affinity selects exactly the assigned nodes, the two controllers' membership tests
agree, profiles with disjoint names share no node, and a default leaves none without owner.
`DisjointSelections` puts them together: while no two profiles name one pool, the DaemonSets
rendered from the present objects select no node twice. What `nodeprofile_overlap` shows is
therefore due to the conflict that was let in, or to a template that is behind the objects.
The first needs that `resolvePoolKey` finds a key whenever a node carries one, hence that a
non-empty set of indices has a least element.

The two invariants of `nodeprofile` hold for any number of profiles, nodes and failures
(`ProfileAssumption`). `ViewInv` (past `AddFinalizer` the snapshot is of the object that has
the finalizer) and `DaemonSetInv` (no DaemonSet is owned by an object still to be created)
make `CleanupNotSkipped` inductive.

The module also has the proof on `CDSCache`, for any launches and keys (`CDSAssumption`):
`CDSTypeOK`, in which a launch never evicts the entry it is about to use, follows from
`ScanInv`, that an eviction never scans its own key.

### LaunchPlanProofs, NodeRuntimeProofs

`LaunchPlanProofs` has the lemmas on lists and on the operators of `LaunchPlan` and
`Publication`: which archive options end up on a command line and where the entry point is
(`ArgvIs`), which files the arguments name (`ArgsWithin`), that every accepted input gives a
whole launch in every role (`LaunchWhole`), which blobs each kind of artifact needs
(`BlobsList`), what is left of an index when a ref is replaced (`LoopKeeps`), and that what a
push puts together and accepts launches (`AppRuns`). `Without`, the loop of `upsertIndex`, is
a recursive function; what it computes is proved by a least counterexample (`LeastOf`).

`LayerTimesDiffer` and `DefaultJarMissing` are among its results (see the divergences below).

`NodeRuntimeProofs` proves the six properties of `node` for any tasks, inputs, calls,
faults and exporters (`TaskAssumption`, `InputsAssumption`, `ExporterAssumption`):

* `ReportedOnce`, that `ShimTask` implements `LaunchLedger`. `HandlerEffect` sorts the twenty
  handlers into eight kinds of steps by what they do to `pc`, `pending`, `start` and
  `reports`; `OthersKept`, `OwnKept` and `OwnEntry` say how each kind moves the open
  attempts. `LedgerInv` is the strengthening: an attempt that can still be reported has not
  been, and no Start of the task is in flight while its Create is. The second part is what
  makes a pending entry left behind by an earlier attempt harmless.
* `ReportIsTrue` from `TruthInv`: for a task whose calls did not meet, where it is between
  runc's answer and the report determines what will be reported.
* `BlameIsTrue` and `EventsDecode` from `TellInv`: past resolving, an artifact has a reference
  and a valid config, and a failed Create has blamed what its input lacks.
* `LaunchIsWhole` from `PlanInv` (a launch has an elected role and, if it waits or runs, a
  valid config) and `LaunchWhole`.
* `RestartBinds` from `SocketInv`: an exporter that never ran beside another is alone, finds
  the path free once it has unlinked it, and owns it from the bind on.
* `StagedAnew`, an action property of every Create of an image (see the divergences below).

### ArtifactStoreProofs, TrustProofs, SupplyChainProofs

The seven properties of `store`, for any commands, interleaved and stopped anywhere
(`ScenariosAssumption` of `ArtifactStore`: a published ref and a JAR have names, a config
file decodes to all fields, sorting a valid lock twice is sorting it once).

* `Shape` types the memory of the processes; a few kinds of effects (`Effect`) stand for all
  actions in the proofs that follow.
* `IndexClosed` from `WrittenInv`: what is listed, and what a process is about to list, has
  been written, because every path writes its blobs before it reads the index.
* `TrustSound` from `OriginInv` and `TrustInv`: every digest that is listed or on its way into
  the index was put together by a command that was run and accepted (`Good`, `Own`), so a
  signature found there was made by the holder of its key over what the subject really is.
* `PublishedLaunches` from `OriginInv` and `AppRuns`.
* `AdmissionAgrees` from `OriginInv`: `inspect` only looks at referrers with the annotation,
  the plugin at all of them. They decide alike because every referrer in the index was put
  together by a command, with the annotation of the statement that it carries.
* `NothingLost` and `PublishedVerifies` from `OnceInv` and `DutyInv`. A command has duties: its
  ref, its SBOM, its attestation. `DutyInv` says that, while no updates overlap, at most one
  process is between reading and writing the index (`Alone`), it left it as the truncation
  does (`Blank`), what is due is listed and is in every list about to be written (`Paid`),
  and an SBOM is the one its subject's builder generates (`Honest`). `OnceInv` says that no
  referrer is listed twice, so the verifier finds one of each kind.
* `ManagedAdmitted` from these and `PairInv`: once the attestation of a push is written, every
  list that is or is about to be the index has, with the image under the ref of the push,
  its attestation.

### SteeringProofs

The six safety properties of `workload`, for any fleet, pods, edits and failures
(`DistAssumption`: distributions have an order; `NodeAssumption`; `PodAssumption`: the pods are
finitely many; `ScenariosAssumption` of `Workload`: the starting points have their types, a
node's own labels are not brewlet's, specs pass the schema of the custom resource).

* `SteeredRuns` from `SteerInv`: a ready node's labels are those of its active inventory, a
  steered pod carries its requirements in every alternative, and the node of a pod still is
  ready and fits unless it was provisioned anew. The heart is `LabelledJDK`: a label that
  matches a request, bare feature or full name, means that `selectJDK` finds a JDK; for a bare
  feature this needs that one of several distributions comes first (`FirstDist`).
* `WebhookAgrees` from the same invariant and `JDKAgrees`, for requests that name a feature
  version (`NamesFeature`). For any other text the two sides differ: the shim falls back to
  its default and the webhook looks for a distribution of that name.
* `ScalingKept` and `ForeignKept` from `AppInv`. `Effects` sorts all steps by what they do to
  the API server's objects. A write that was built from a cached copy only lands on an
  object equal to that copy, so an autoscaled count is written back as it is, and an object
  with another controller is not written at all.
* `OptionsReach` from `FitInv`: the options in a template are for the version that it requests
  (`TemplateFits`), and the shim selects that version and one JDK of it (`SelectFits`).
* `WorkloadTypeOK` from these and `StateInv`. The bounds of the autoscaler are in order
  because a reconciliation that got past `Begin` has a valid spec.

`ForeignDeleted` is about the same reconciliation (see the divergences below).

### Where the code departs from what is said of it

Besides the five violated runs, five theorems state what the code does, for all values of
the constants, where a comment or a document says otherwise:

* `PullFailsSilently`: a script that ends in the pull or the copy of a JDK or a launcher
  leaves the node neither ready nor with an error, as `set -e` ends it there without `die`
  (`entrypoint.sh:378`, `:421`); the comment of `die` (`entrypoint.sh:104-108`) has the reason
  of a fatal error on the Node.
* `LayerTimesDiffer`: with regeneration on and no archive shipped the shim mounts layers with
  the times of staging, where the portable bundle and `brewlet run` pin them
  (`service_linux.go:601`, `:629`); `docs/appcds.md:333-335` has all three do the same. In
  every other case they do.
* `StagedAnew`: every Create of an image truncates and writes the directory that tasks of the
  same image run from, and nobody else mends a staging that was cut short;
  `blobs.go:144-145` and `resolver.go:73-74` say that it is staged once and reused.
* `DefaultJarMissing`: an image pushed from a JAR of another name with a config that leaves
  `mainJar` out has no `app.jar`, although the native artifact of the same push launches;
  `docs/reference.md:133` says that `mainJar` defaults to `app.jar`.
* `ForeignDeleted`: a reconciliation that wants no Service or no autoscaler deletes one that
  another controller owns; `javaapplication_controller.go:91`, `:146` and
  `docs/deploying-workloads.md:235` speak of managed ones.

### Only model-checked

* Liveness, which needs fairness and `ENABLED`: `NeverSilent`, `ConvergesUnlessCut`,
  `DeletionCompletes`, `NoKeyAbandoned`, `EvictionHeals`, `OwnershipSettles`, `DeletionEnds`, `AppSettles`,
  `AppServed`, `NodeStateSettles`.
* That `sortLock` is idempotent, and other facts about what a recursive definition computes
  for every input beyond `LoopKeeps`: they need induction over data. The first is an
  assumption on the scenarios, which TLC evaluates.
* The violated properties of the five `violation` runs, whose counterexamples TLC gives.

## Not modelled

* Doctor, inventory, `brewlet jdks` and `keygen`: reports and key generation by one process,
  without shared state. `brewlet bundle` only passes its flags to what `LaunchPlan` models.
* The parsing of class files, zip directories, TOML, JSON and quantities; what is decided on
  the parsed values is modelled.
* The exporter's counters and inventory collector, the regeneration counter, Kubernetes events
  and log lines: nothing is decided on them.
* The normalisation of runc options, the RuntimeClass object (always the same) and the checks
  of a single NodeProfile spec.
* Bytes, hashes and signatures: a hash is taken to identify its content and a signature its key.
* The wiring in `cmd/manager` and `cmd/admission`; generated deep-copy code and API types, which
  are declarations.
* The Maven plugin and the site: build-time packaging and an upload by one process.

One promise is not checked: `specs/proposals/0001-node-profiles.md:357` has the nodes cleaned
"On profile deletion (or pool reassignment)". The code has no step for the second: a
reconcile only rewrites the DaemonSet, and a deletion cleans the nodes assigned now
(`nodeprofile_controller.go:95`), so a node that left its pool keeps the profile's labels and
configuration. There is nothing to model of a cleanup that is not there.

Situations that the models reach or border on and that no property speaks of, because the
repository promises nothing about them:

* the cleanup script removes the runtime before the label that schedules pods onto it
  (`entrypoint.sh:1002`);
* releasing a finalizer is an update that the webhook checks: of two profiles let into one pool
  neither is released while the other exists (`nodeprofile_controller.go:110`);
* a profile created again under its name starts at generation 1, so a node still annotated by
  the first object counts as ready for the second (`nodeprofile_controller.go:200`);
* a node that no profile claims any more and that stops advertising keeps its last provision
  state (`node_controller.go:78`).
