---------------------------- MODULE Publication ----------------------------
(***************************************************************************)
(* What the CLI's publishing commands accept and what they put together:   *)
(* `brewlet push` (a native artifact, a runnable image, or an image on a   *)
(* managed dependency bundle) and `brewlet dependency-bundle`. A digest is *)
(* named by the content it addresses, so two contents share a digest       *)
(* exactly when they are equal; the first component of a digest says what  *)
(* it addresses.                                                           *)
(***************************************************************************)
EXTENDS LaunchPlan, TLC

NoConfig == [mode |-> "absent"]
NoBundle == [name |-> "", lock |-> <<>>]

----------------------------------------------------------------------------
(* The application JAR, by the entries the CLI looks at.                   *)

ValidateThinJar(entries) == entries \cap {"corrupt", "nested.jar"} = {}

\* A root descriptor makes the JAR a module.
InspectModuleJar(entries) == "module-info.class" \in entries

\* archOf: what the path of a native library says about its architecture.
archOf(e) ==
    CASE e = "so-amd64" -> {"amd64"} [] e = "so-arm64" -> {"arm64"}
      [] e = "so-both" -> KnownArch [] OTHER -> {}
ScanNativeArch(entries) ==
    SelectSeq(<<"amd64", "arm64">>, LAMBDA a : \E e \in entries : a \in archOf(e))

----------------------------------------------------------------------------
(* Dependency locks: sequences of [coord, file, sum, complete]; a tar is a *)
(* sequence of [file, sum, flat].                                          *)

FieldOf(s, Field(_)) == [n \in DOMAIN s |-> Field(s[n])]

LockValid(lock) ==
    /\ lock # <<>> /\ \A n \in DOMAIN lock : lock[n].complete
    /\ IsInjective(FieldOf(lock, LAMBDA e : e.coord))
    /\ IsInjective(FieldOf(lock, LAMBDA e : e.file))

sortLock(lock) == SortSeq(lock, LAMBDA a, b : a.coord < b.coord)

VerifyDependencyLock(expected, actual) == sortLock(expected) = sortLock(actual)

\* The tar holds each JAR of the lock once, with its checksum, and nothing else.
validateDependencyTar(tar, lock) ==
    /\ \A n \in DOMAIN tar : tar[n].flat
    /\ IsInjective(FieldOf(tar, LAMBDA t : t.file))
    /\ {<<tar[n].file, tar[n].sum>> : n \in DOMAIN tar}
         = {<<lock[n].file, lock[n].sum>> : n \in DOMAIN lock}

\* canonicalDependencyTar: the lock's files in the order of their names, with
\* fixed headers: what the layer holds is decided by the lock alone.
canonicalTar(lock) == {<<lock[n].file, lock[n].sum>> : n \in DOMAIN lock}

\* The bundle that a `dependency-bundle` command builds (its name stands for the
\* name, version, source BOM and JDKs), and DependencyBundleConfig.Validate.
BundleOf(j) == [name |-> j.name, lock |-> sortLock(j.lock)]
BundleConfigValid(j) == j.name # "" /\ IsInjective(j.jdks) /\ \A n \in DOMAIN j.jdks : j.jdks[n] > 0

\* cmdDependencyBundle up to its first write: usage, lock, JDK list, tar.
BundleAccepted(j) ==
    /\ (j.sign = "") = (j.ident = "")
    /\ LockValid(j.lock) /\ \A n \in DOMAIN j.jdks : j.jdks[n] > 0
    /\ validateDependencyTar(j.tar, j.lock)

----------------------------------------------------------------------------
(* `brewlet push`.                                                         *)

Managed(j) == j.bundle # ""
Layered(j) == j.libs \/ j.mods

\* The config a push writes when it is given none.
DetectedConfig(j) ==
    LET modular == InspectModuleJar(j.entries)
    IN  [mode |-> IF modular THEN "module" ELSE "jar", mainClass |-> FALSE, module |-> modular,
         modulePath |-> IF modular /\ j.mods THEN <<j.jar, "mods">> ELSE <<>>,
         classPath |-> IF modular /\ j.libs THEN <<"lib/*">> ELSE <<>>,
         flags |-> {}, arch |-> <<>>, mainJar |-> j.jar, cds |-> "none"]

GivenConfig(j) == IF j.config = NoConfig THEN DetectedConfig(j) ELSE j.config

MainClassKnown(j) == j.mainClass \/ (GivenConfig(j).mode = "classpath" /\ GivenConfig(j).mainClass)

\* The config on a managed bundle: the entry is rewritten to a class path.
ManagedEntry(j, c) ==
    LET main == IF c.mainJar = "" THEN j.jar ELSE c.mainJar
    IN  [c EXCEPT !.mainJar = main, !.mode = "classpath", !.mainClass = TRUE, !.module = FALSE,
                  !.modulePath = <<>>, !.classPath = <<main, "lib/*">>]

\* --arch wins over --no-arch, which wins over the scan; a scan that recognizes
\* nothing leaves the architectures of the config.
WithArch(j, c) ==
    [c EXCEPT !.arch = IF j.archFlag # <<>> THEN j.archFlag ELSE IF j.noArch THEN <<>>
                       ELSE IF ScanNativeArch(j.entries) # <<>> THEN ScanNativeArch(j.entries) ELSE @]

\* The archive that is shipped: a given one, or the trained one, named after the
\* JAR.
ArchiveOf(j) ==
    IF j.train = "no" THEN j.archive ELSE IF j.jar = "app.jar" THEN "app.jsa" ELSE "other.jsa"
WithHint(j, c) == [c EXCEPT !.cds = IF ArchiveOf(j) # "none" /\ @ = "none" THEN ArchiveOf(j) ELSE @]

PushConfig(j) ==
    LET c == GivenConfig(j)
    IN  WithHint(j, WithArch(j, IF Managed(j) THEN ManagedEntry(j, c) ELSE c))

\* A non-empty archive counts whatever the exit code; a timeout never does. Only
\* a fat JAR can be trained.
GenerateAppCDSArchive(j, c) == c.mode \in {"", "jar"} /\ j.train \in {"archive", "archive, exit 1"}

validateCDSPairing(c, archive) == c.cds = archive

\* The refusals of a managed push that look at nothing but its flags and JAR,
\* before and after the store is read.
ManagedFlags(j) ==
    /\ j.format \in {"", "image"} /\ ~Layered(j) /\ j.train = "no" /\ j.archive = "none"
    /\ ValidateThinJar(j.entries)
ManagedKeys(j) ==
    /\ (j.sign = "") = (j.ident = "")
    /\ (j.trust = "") = (j.trustIdent = "")

\* A config file is decoded and validated; a JAR that is not a zip is refused by
\* whatever has to look into it.
ConfigReadable(j) ==
    IF j.config = NoConfig THEN "corrupt" \notin j.entries ELSE Validate(j.config)

\* The rest of cmdPush up to its first write.
PushAccepted_AnyArchive(j) ==
    LET c == PushConfig(j) IN
    /\ (j.archFlag = <<>> /\ ~j.noArch) => "corrupt" \notin j.entries
    /\ j.train # "no" => j.archive = "none" /\ ~Layered(j)
    /\ j.format \in {"", "image", "artifact"}
    /\ Validate(c)
PushAccepted(j) ==
    LET c == PushConfig(j) IN
    /\ (j.archFlag = <<>> /\ ~j.noArch) => "corrupt" \notin j.entries
    /\ j.train # "no" => j.archive = "none" /\ ~Layered(j) /\ GenerateAppCDSArchive(j, c)
    /\ j.format \in {"", "image", "artifact"}
    /\ Validate(c) /\ validateCDSPairing(c, ArchiveOf(j))

\* What is published: the evidence of a managed image names its bundle, the
\* bundle's SBOM and the builder.
AppOf(j, bundle, sbom) ==
    [jar |-> j.jar, code |-> j.code, cfg |-> PushConfig(j), archive |-> ArchiveOf(j),
     layers |-> (IF j.libs THEN <<"lib/*">> ELSE <<>>) \o (IF j.mods THEN <<"mods">> ELSE <<>>),
     bundle |-> bundle, sbom |-> sbom, ident |-> j.ident]

----------------------------------------------------------------------------
(* The blobs of a digest, in the order in which they are written; the last *)
(* is the digest's own. A managed image reuses the layer of its bundle.    *)

\* In the order of their names; a valid config names no other, and none twice.
Targets(c, arch) == c.arch = <<>> \/ arch \in Range(c.arch)
targetArches(c) ==
    (IF Targets(c, "amd64") THEN <<"amd64">> ELSE <<>>) \o (IF Targets(c, "arm64") THEN <<"arm64">> ELSE <<>>)

mainJarName(c, jar) == IF c.mainJar = "" THEN jar ELSE c.mainJar
LayerBlobs(a, kind) == [n \in DOMAIN a.layers |-> <<kind, a.layers[n]>>]
Archived(a) == a.archive # "none"

\* PushWithCDS
NativeBlobs(a) ==
    << <<"config", a.cfg>>, <<"jar", a.code>> >> \o LayerBlobs(a, "tar")
      \o (IF Archived(a) THEN << <<"cds", a.archive>> >> ELSE <<>>) \o << <<"native", a>> >>

\* For each architecture: an image config and a manifest.
writeRunnableManifest(a, arch) ==
    IF Targets(a.cfg, arch) THEN << <<"image config", a, arch>>, <<"platform", a, arch>> >> ELSE <<>>
PlatformBlobs(a) == writeRunnableManifest(a, "amd64") \o writeRunnableManifest(a, "arm64")

\* PushRunnableImageWithOptions
ImageBlobs(a) ==
    << <<"app layer", mainJarName(a.cfg, a.jar), a.code, a.archive>> >> \o LayerBlobs(a, "gzip")
      \o PlatformBlobs(a) \o << <<"index", a>> >>

\* PushDependencyBundle
BundleBlobs(b) ==
    << <<"lock", b.lock>>, <<"bundle layer", canonicalTar(b.lock)>>, <<"bundle config", b>>, <<"bundle", b>> >>

\* PublishReferrer: the empty config, the document, and the manifest with its
\* type, its subject, the document and the annotated predicate type ("" without).
Referrer(type, subject, document, predicateType) == <<"referrer", type, subject, document, predicateType>>
ReferrerBlobs(d) == << <<"{}">>, <<"document", d[2], d[4]>>, d >>

Blobs(d) ==
    CASE d[1] = "native" -> NativeBlobs(d[2]) [] d[1] = "index" -> ImageBlobs(d[2])
      [] d[1] = "bundle" -> BundleBlobs(d[2]) [] d[1] = "referrer" -> ReferrerBlobs(d)

\* Everything that a reader of the digest needs.
Needs(d) ==
    Range(Blobs(d)) \cup (IF d[1] = "index" /\ d[2].bundle # NoBundle
                          THEN {<<"bundle layer", canonicalTar(d[2].bundle.lock)>>} ELSE {})

\* What the node finds under /app: mainJarName names the JAR in an image's app
\* layer, while a native artifact's JAR blob is mounted under the name asked for.
Shipped(d) ==
    LET a == d[2] IN
    {IF d[1] = "index" THEN mainJarName(a.cfg, a.jar) ELSE MainJar(a.cfg)}
      \cup Range(a.layers) \cup (IF Archived(a) THEN {a.archive} ELSE {})
      \cup (IF a.bundle # NoBundle THEN {"lib/*"} ELSE {})
=============================================================================
