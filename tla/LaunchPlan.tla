----------------------------- MODULE LaunchPlan -----------------------------
(***************************************************************************)
(* How an artifact's launch config becomes a JVM launch: the config's      *)
(* rules, the choice of the node's JDK and launcher, the JVM's argv, and   *)
(* what is mounted under /app. Three paths of the code build a launch: the *)
(* containerd shim (service_linux.go), the portable bundle (bundle.go) and *)
(* `brewlet run` (launch.go). A file under /app is named by its base name; *)
(* texts are abstracted to the parts that the code tells apart.            *)
(***************************************************************************)
EXTENDS Naturals, Sequences, FiniteSets, Functions

CONSTANTS
    Feature,   \* the numerals of JDK feature versions; "21" is the default
    DistRank   \* DistRank[d]: the place of distribution d in lexical order

ASSUME FeatureAssumption == "21" \in Feature

\* The list s ends in the list e.
EndsIn(s, e) == Len(e) <= Len(s) /\ \A n \in DOMAIN e : e[n] = s[(Len(s) - Len(e)) + n]

----------------------------------------------------------------------------
(* The launch config.                                                      *)

KnownArch == {"amd64", "arm64"}

\* A `<name>.jar` entry without a directory or a wildcard.
isBareJarRef(e) == e \in {"app.jar", "other.jar"}

\* JVMConfig.Validate: an entry mode owns its fields and refuses the others'.
ModeOwns(c) ==
    CASE c.mode \in {"", "jar"} -> ~c.mainClass /\ c.classPath = <<>> /\ ~c.module /\ c.modulePath = <<>>
      [] c.mode = "classpath" -> c.mainClass /\ ~c.module /\ c.modulePath = <<>>
      [] c.mode = "module" -> c.module
      [] OTHER -> FALSE

Validate(c) ==
    /\ ModeOwns(c) /\ "" \notin c.flags
    /\ Range(c.arch) \subseteq KnownArch /\ IsInjective(c.arch)
    /\ c.mainJar # "" =>
         \A e \in Range(c.classPath \o c.modulePath) : isBareJarRef(e) => e = c.mainJar
    /\ c.cds # "malformed"

MainJar(c) == IF c.mainJar = "" THEN "app.jar" ELSE c.mainJar

----------------------------------------------------------------------------
(* The JVM's arguments.                                                    *)

joinAppPaths(entries, c) == IF entries = <<>> THEN <<MainJar(c)>> ELSE entries

\* The entry point: what the JVM runs, and where it finds the classes.
Entry(c) ==
    CASE c.mode \in {"", "jar"} -> << <<"-jar", MainJar(c)>> >>
      [] c.mode = "classpath" -> << <<"-cp", joinAppPaths(c.classPath, c)>>, <<"main class">> >>
      [] c.mode = "module" ->
           (IF c.classPath = <<>> THEN <<>> ELSE << <<"-cp", joinAppPaths(c.classPath, c)>> >>)
             \o << <<"-p", joinAppPaths(c.modulePath, c)>>, <<"-m">> >>

Flag(c, f) == IF f \in c.flags THEN << <<f>> >> ELSE <<>>
Flags(c) == Flag(c, "--enable-preview") \o Flag(c, "--add-modules") \o Flag(c, "--add-opens")
              \o Flag(c, "--add-exports") \o Flag(c, "-D")

Share(archive) == << <<"-Xshare:auto">>, <<"-XX:SharedArchiveFile", archive>> >>

\* BuildJVMArgs; an invalid config is an error and gives no argument at all.
BuildJVMArgs_Unguarded(c, extra, regen) ==
    (IF c.cds # "none" THEN Share(c.cds) ELSE <<>>)
      \o Flags(c) \o extra \o Entry(c)
BuildJVMArgs(c, extra, regen) ==
    IF ~Validate(c) THEN <<>> ELSE
    (IF c.cds # "none" /\ ~regen THEN Share(c.cds) ELSE <<>>)
      \o Flags(c) \o extra \o Entry(c)

\* What DecideCDSRegen hands back for each role (module CDSCache elects it).
Role == {"consume", "write", "defer", "skip"}
RegenArgs(role) ==
    CASE role = "consume" -> Share("cache")
      [] role = "write" -> << <<"-XX:+AutoCreateSharedArchive">> >> \o Share("cache")
      [] OTHER -> <<>>
RegenMount(role) ==
    IF role \in {"consume", "write"}
    THEN {<<"cache", "node", IF role = "write" THEN "rw" ELSE "ro">>} ELSE {}

----------------------------------------------------------------------------
(* The node's JDK and launcher. A JDK root is named <<dist, feature>>. A   *)
(* request is the sequence of the texts around its last dash.              *)

IsVanillaLauncher(l) == l \in {"", "java"}
LauncherName(l) == IF IsVanillaLauncher(l) THEN "java" ELSE l

parseJDKRequest(r) ==
    IF Len(r) = 2 /\ r[1] # "" /\ r[2] \in Feature THEN r
    ELSE IF Len(r) = 1 /\ r[1] \in Feature THEN <<"", r[1]>>
    ELSE <<"", "21">>

\* Roots whose Java home resolves inside the root and has a bin/java, and which
\* the active inventory lists, where the provisioner has written one.
Usable(node) == {j \in node.homes : node.inventory = "listed" => j \in node.active}

\* selectJDK: the distribution asked for and no other; for a bare feature the
\* lexically first. {} stands for NoCompatibleJDK.
selectJDK(node, request) ==
    LET want == parseJDKRequest(request)
        fits == {j \in Usable(node) : j[2] = want[2]}
    IN  IF node.inventory = "unreadable" THEN {}
        ELSE IF want[1] # "" THEN fits \cap {want}
        ELSE {j \in fits : \A k \in fits : DistRank[j[1]] <= DistRank[k[1]]}

selectLauncher(node, l) == IsVanillaLauncher(l) \/ l \in node.launchers

----------------------------------------------------------------------------
(* The three launches of input i: its config, its layers, whether it ships *)
(* an archive, and the deployment's regeneration and launcher choices. A   *)
(* mount is <<name, source, mode>>; a "pinned" source has the canonical    *)
(* modification time that an archive records.                              *)

Keyed(i) == i.regen /\ (i.digest # "" \/ i.ref # "")
Seed(i) == i.archive /\ i.cfg.cds # "none"
LauncherMount(i) == IF IsVanillaLauncher(i.launcher) THEN {} ELSE {<<"launcher", "node", "ro">>}
ArchiveMount(i) == IF ~i.regen /\ Seed(i) THEN {<<i.cfg.cds, "blob", "ro">>} ELSE {}

\* Where an archive is in play the app JAR is a copy with the pinned time, and
\* so is what the layers unpack to, where the caller asks for it.
shipsCDS(c) == c.cds # "none"
StageCDSJar(i, plain) == IF shipsCDS(i.cfg) \/ i.regen THEN "pinned" ELSE plain
PinCDSModTimesUnder(pin) == IF pin THEN "pinned" ELSE "staged"

\* mountClasspathLayers, mountModulepathLayers: pinned for a shipped archive.
LayerMounts(i, pin) == {<<d, PinCDSModTimesUnder(pin), "ro">> : d \in i.layers}

\* applyBrewletLaunch, which drops the error of BuildJVMArgs, and the layers.
ShimLaunch(i, role) ==
    LET r == IF Keyed(i) THEN role ELSE "skip"
    IN  [argv |-> << <<LauncherName(i.launcher)>> >> \o RegenArgs(r) \o BuildJVMArgs(i.cfg, <<>>, i.regen),
         mounts |-> {<<"/opt/jdk", "home", "ro">>, <<MainJar(i.cfg), StageCDSJar(i, "blob"), "ro">>}
                      \cup ArchiveMount(i) \cup RegenMount(r) \cup LauncherMount(i)
                      \cup LayerMounts(i, shipsCDS(i.cfg))]

\* GenerateBundleWithRegen, for a config that BuildJVMArgs accepts.
PortableLaunch(i, role) ==
    LET r == IF Keyed(i) THEN role ELSE "skip"
    IN  [argv |-> << <<LauncherName(i.launcher)>> >> \o RegenArgs(r) \o BuildJVMArgs(i.cfg, <<>>, i.regen),
         mounts |-> {<<"/opt/jdk", "home", "ro">>, <<MainJar(i.cfg), StageCDSJar(i, "blob"), "ro">>}
                      \cup LayerMounts(i, shipsCDS(i.cfg) \/ i.regen) \cup ArchiveMount(i) \cup RegenMount(r)
                      \cup LauncherMount(i)]

\* `brewlet run`: BuildPlan's arguments; copies in a sandbox directory
\* (AssembleSandboxWithCDS); and cmdRun, which puts the archive's arguments,
\* naming the node cache directly, in front.
BuildPlan(i, extra) == [bin |-> LauncherName(i.launcher), args |-> BuildJVMArgs(i.cfg, extra, i.regen)]

AssembleSandbox(i) ==
    {<<MainJar(i.cfg), StageCDSJar(i, "copied")>>}
      \cup {<<d, PinCDSModTimesUnder(shipsCDS(i.cfg) \/ i.regen)>> : d \in i.layers}
      \cup (IF Seed(i) /\ ~i.regen THEN {<<i.cfg.cds, "copied">>} ELSE {})

LocalLaunch(i, role, extra) ==
    LET plan == BuildPlan(i, extra)
    IN  [argv |-> << <<plan.bin>> >> \o RegenArgs(IF i.regen THEN role ELSE "skip") \o plan.args,
         files |-> AssembleSandbox(i)]
=============================================================================
