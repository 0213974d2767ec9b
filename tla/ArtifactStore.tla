--------------------------- MODULE ArtifactStore ---------------------------
(***************************************************************************)
(* An OCI layout directory on which several `brewlet` commands work at the *)
(* same time. Nothing locks it. A blob and the index are written in place: *)
(* the file is truncated, then filled, and the process may be killed or    *)
(* its disk may fail at any point. The index is read, changed in memory    *)
(* and written back. The layout marker is not modelled: nothing reads it.  *)
(***************************************************************************)
EXTENDS SupplyChain

CONSTANTS
    Proc,       \* the processes
    Scenarios,  \* what to try: each gives every process a job, with a bound on
                \* how often it is run, and whether it may be stopped (once)
    Host        \* the architecture of the machine

\* A published ref and a JAR have a name; a config file is decoded into all of the
\* config's fields; and sorting a valid lock twice is sorting it once.
ASSUME ScenariosAssumption ==
    \A jobs \in Scenarios : \A p \in Proc :
        /\ jobs[p].cmd \in {"push", "dependency-bundle"} => jobs[p].ref # Untagged
        /\ jobs[p].cmd = "push" =>
             /\ jobs[p].jar # ""
             /\ jobs[p].config # NoConfig => DOMAIN jobs[p].config = DOMAIN DetectedConfig(jobs[p])
        /\ jobs[p].cmd = "dependency-bundle" /\ LockValid(jobs[p].lock) =>
             sortLock(sortLock(jobs[p].lock)) = sortLock(jobs[p].lock)

VARIABLES
    job,      \* job[p]: the command of process p
    pc,       \* pc[p]: where p is in it
    todo,     \* todo[p]: the blobs p has still to write
    entry,    \* entry[p]: the descriptor p is publishing, or None
    base,     \* base[p]: the index p is about to write
    got,      \* got[p]: the digests p has resolved and goes on with
    whole,    \* the blobs that are complete on disk
    torn,     \* the blobs truncated by a process that has not filled them
    index,    \* [state, list] of index.json
    runs,     \* runs[p]: how often p has run its command
    killed,   \* the processes that have been stopped
    verdicts, \* history: what verifying commands have reported
    raced     \* history: two updates of the index have overlapped, an index
              \* was started afresh over another process's work, or a bundle's
              \* ref was moved while its supply chain was published

vars == <<job, pc, todo, entry, base, got, whole, torn, index, runs, killed, verdicts, raced>>

None == [digest |-> <<"none">>, ref |-> ""]
Resting == {"idle", "done", "failed", "down"}

Init ==
    /\ job \in Scenarios /\ runs = [p \in Proc |-> 0] /\ killed = {}
    /\ pc = [p \in Proc |-> "idle"] /\ todo = [p \in Proc |-> <<>>]
    /\ entry = [p \in Proc |-> None] /\ base = [p \in Proc |-> <<>>] /\ got = [p \in Proc |-> {}]
    /\ whole = {} /\ torn = {} /\ index = [state |-> "absent", list |-> <<>>]
    /\ verdicts = {} /\ raced = FALSE

store == <<whole, torn, index>>
Goto(p, l) == pc' = [pc EXCEPT ![p] = l]

\* The process ends, with or without an error; its memory is gone.
Exit(p, l) ==
    /\ Goto(p, l) /\ todo' = [todo EXCEPT ![p] = <<>>] /\ entry' = [entry EXCEPT ![p] = None]
    /\ base' = [base EXCEPT ![p] = <<>>] /\ got' = [got EXCEPT ![p] = {}]

\* The process turns to publishing a digest, under a ref or as a referrer.
Publish(p, digest, ref) ==
    /\ Goto(p, "blob") /\ todo' = [todo EXCEPT ![p] = Blobs(digest)]
    /\ entry' = [entry EXCEPT ![p] = [digest |-> digest, ref |-> ref]]
    /\ UNCHANGED base

\* The index as a reader sees it: an absent or undecodable file is an error.
Readable == index.state = "ok"

----------------------------------------------------------------------------
(* Writing.                                                                *)

\* writeBlob: os.WriteFile truncates the file, whether or not it was complete.
OpenBlob(p) ==
    /\ pc[p] = "blob" /\ Goto(p, "fill")
    /\ whole' = whole \ {Head(todo[p])}
    /\ torn' = {t \in torn : t[1] # Head(todo[p])} \cup {<<Head(todo[p]), p>>}
    /\ UNCHANGED <<job, todo, entry, base, got, index, runs, killed, verdicts, raced>>

\* ... and the last process to truncate it completes it. The config of a bundle
\* is validated after its lock and its layer have been written.
CloseBlob_Early(p) ==
    /\ pc[p] = "fill"
    /\ LET b == Head(todo[p]) IN
       IF <<b, p>> \in torn
       THEN whole' = whole \cup {b} /\ torn' = torn \ {<<b, p>>}
       ELSE UNCHANGED <<whole, torn>>
    /\ todo' = [todo EXCEPT ![p] = Tail(@)]
    /\ Goto(p, IF Len(todo[p]) <= 2 THEN "index" ELSE "blob")
    /\ UNCHANGED <<job, entry, base, got, index, runs, killed, verdicts, raced>>
CloseBlob(p) ==
    /\ pc[p] = "fill"
    /\ LET b == Head(todo[p]) IN
       IF <<b, p>> \in torn
       THEN whole' = whole \cup {b} /\ torn' = torn \ {<<b, p>>}
       ELSE UNCHANGED <<whole, torn>>
    /\ IF Head(todo[p])[1] = "bundle layer" /\ ~BundleConfigValid(job[p])
       THEN Exit(p, "failed")
       ELSE /\ todo' = [todo EXCEPT ![p] = Tail(@)]
            /\ Goto(p, IF Len(todo[p]) = 1 THEN "index" ELSE "blob")
            /\ UNCHANGED <<entry, base, got>>
    /\ UNCHANGED <<job, index, runs, killed, verdicts, raced>>

\* Another process is between its reading and its writing of the index.
Updating(p) == \E q \in Proc \ {p} : pc[q] \in {"update", "rewrite"}

\* upsertIndex goes through the index, drops the entry of the same ref, and starts
\* afresh from an index it cannot read or decode.
Without(list, ref) ==
    LET out[n \in 0 .. Len(list)] ==
          IF n = 0 THEN <<>>
          ELSE IF list[n].ref # ref THEN Append(out[n - 1], list[n]) ELSE out[n - 1]
    IN  out[Len(list)]
upsertIndex_Forgets(e) == <<e>>
upsertIndex(e) == Append(Without(index.list, e.ref), e)

\* appendIndex does nothing for a digest that is already there.
Appends_Always(e) == TRUE
Appends(e) == ~Indexed(index.list, e.digest)

\* upsertIndex for a tagged descriptor; appendIndex for a referrer, which is an
\* error on an undecodable index.
ReadIndex(p) ==
    /\ pc[p] = "index"
    /\ LET e == entry[p] IN
       CASE e.ref # Untagged ->
              base' = [base EXCEPT ![p] = upsertIndex(e)] /\ Goto(p, "update")
                /\ UNCHANGED <<todo, entry, got>>
         [] e.ref = Untagged /\ index.state = "bad" -> Exit(p, "failed")
         [] e.ref = Untagged /\ index.state # "bad" /\ ~Appends(e) ->
              Goto(p, "published") /\ UNCHANGED <<todo, entry, base, got>>
         [] OTHER ->
              base' = [base EXCEPT ![p] = Append(index.list, e)] /\ Goto(p, "update")
                /\ UNCHANGED <<todo, entry, got>>
    /\ raced' = (raced \/ Updating(p) \/ (index.state = "bad" /\ \E q \in Proc \ {p} : runs[q] > 0))
    /\ UNCHANGED <<job, whole, torn, index, runs, killed, verdicts>>

TruncateIndex(p) ==
    /\ pc[p] = "update" /\ Goto(p, "rewrite")
    /\ index' = [state |-> "bad", list |-> <<>>]
    /\ UNCHANGED <<job, todo, entry, base, got, whole, torn, runs, killed, verdicts, raced>>

\* The new index overwrites the file from its start. What another process wrote
\* after the truncation and is no shorter may stick out behind it.
WriteIndex(p) ==
    /\ pc[p] = "rewrite" /\ Goto(p, "published")
    /\ \/ index' = [state |-> "ok", list |-> base[p]]
       \/ /\ index.list # base[p] /\ Len(index.list) >= Len(base[p])
          /\ index' = [state |-> "bad", list |-> <<>>]
    /\ base' = [base EXCEPT ![p] = <<>>]
    /\ UNCHANGED <<job, todo, entry, got, whole, torn, runs, killed, verdicts, raced>>

----------------------------------------------------------------------------
(* brewlet dependency-bundle                                               *)

BundleBegin(p) ==
    /\ job[p].cmd = "dependency-bundle" /\ pc[p] = "begin"
    /\ IF BundleAccepted(job[p])
       THEN Publish(p, <<"bundle", BundleOf(job[p])>>, job[p].ref) /\ UNCHANGED got
       ELSE Exit(p, "failed")
    /\ UNCHANGED <<job, store, runs, killed, verdicts, raced>>

\* The bundle is read back by its ref, which another process may have moved; the
\* SBOM of what is found there becomes a referrer of what was pushed. A signing
\* key is loaded before.
PublishSBOM(p) ==
    LET found == IF Readable THEN ResolveDependencyBundle(index.list, whole, job[p].ref) ELSE {}
    IN  /\ job[p].cmd = "dependency-bundle" /\ pc[p] = "published" /\ entry[p].digest[1] = "bundle"
        /\ IF found = {} \/ (job[p].sign # "" /\ ~job[p].keyLoads)
           THEN Exit(p, "failed")
           ELSE \E b \in found :
                  /\ got' = [got EXCEPT ![p] = {b}]
                  /\ Publish(p, Referrer("sbom", entry[p].digest, GenerateCycloneDX(b), ""), Untagged)
        /\ raced' = (raced \/ found # {BundleOf(job[p])})
        /\ UNCHANGED <<job, store, runs, killed, verdicts>>

\* PublishBundleSupplyChain, once the SBOM is there.
BundleStatement(p, b) ==
    SignStatement(job[p].sign, "bundle",
        [digest |-> entry[p].digest[3], code |-> "", bundle |-> b, sbom |-> GenerateCycloneDX(b),
         ident |-> job[p].ident], <<p, runs[p]>>)
AttestBundle(p) ==
    /\ job[p].cmd = "dependency-bundle" /\ pc[p] = "published"
    /\ entry[p].digest[1] = "referrer" /\ entry[p].digest[2] = "sbom" /\ job[p].sign # ""
    /\ \E b \in got[p] :
         Publish(p, Referrer("attestation", entry[p].digest[3], BundleStatement(p, b), "bundle"), Untagged)
    /\ UNCHANGED <<job, got, store, runs, killed, verdicts, raced>>

----------------------------------------------------------------------------
(* brewlet push                                                            *)

PushBegin(p) ==
    /\ job[p].cmd = "push" /\ pc[p] = "begin"
    /\ CASE ~ConfigReadable(job[p]) -> Exit(p, "failed")
         [] ConfigReadable(job[p]) /\ Managed(job[p]) ->
              IF ManagedFlags(job[p]) THEN Goto(p, "resolve") /\ UNCHANGED <<todo, entry, base, got>>
                                      ELSE Exit(p, "failed")
         [] OTHER ->
              IF ~PushAccepted(job[p]) THEN Exit(p, "failed")
              ELSE /\ Publish(p, <<IF job[p].format = "artifact" THEN "native" ELSE "index",
                                   AppOf(job[p], NoBundle, <<>>)>>, job[p].ref)
                   /\ UNCHANGED got
    /\ UNCHANGED <<job, store, runs, killed, verdicts, raced>>

\* The bundle is resolved, and must have exactly the application's lock.
PushResolve(p) ==
    LET found == IF Readable THEN ResolveDependencyBundle(index.list, whole, job[p].bundle) ELSE {}
    IN  /\ job[p].cmd = "push" /\ pc[p] = "resolve"
        /\ IF /\ \E b \in found : VerifyDependencyLock(b.lock, job[p].lock)
              /\ LockValid(job[p].lock) /\ ManagedKeys(job[p])
           THEN Goto(p, "sbom") /\ got' = [got EXCEPT ![p] = found] /\ UNCHANGED <<todo, entry, base>>
           ELSE Exit(p, "failed")
        /\ UNCHANGED <<job, store, runs, killed, verdicts, raced>>

\* VerifyBundleSupplyChain, here and in `inspect`, reads the index for each step.
FindSBOM(p) ==
    /\ pc[p] = "sbom"
    /\ IF Readable /\ \A b \in got[p] : CountSBOM(index.list, b)
       THEN Goto(p, "document") /\ UNCHANGED <<todo, entry, base, got>>
       ELSE Exit(p, "failed")
    /\ UNCHANGED <<job, store, runs, killed, verdicts, raced>>
CheckSBOM(p) ==
    /\ pc[p] = "document"
    /\ IF Readable /\ \A b \in got[p] : VerifySBOM(index.list, whole, b)
       THEN Goto(p, "provenance") /\ UNCHANGED <<todo, entry, base, got>>
       ELSE Exit(p, "failed")
    /\ UNCHANGED <<job, store, runs, killed, verdicts, raced>>

Provenance(p, b) ==
    IF ~Readable THEN "refused"
    ELSE IF pc[p] = "count" THEN CountAttestations(index.list, b)
    ELSE VerifyProvenance(index.list, whole, b, job[p].trust, job[p].trustIdent)
FindNone(p) ==
    /\ pc[p] = "provenance" /\ \E b \in got[p] : Provenance(p, b) = "bare"
    /\ Goto(p, "count")
    /\ UNCHANGED <<job, todo, entry, base, got, store, runs, killed, verdicts, raced>>
Verdict(p, d, kind) ==
    verdicts' = verdicts \cup {[of |-> d, kind |-> kind, key |-> job[p].trust, ident |-> job[p].trustIdent]}

\* The image is then put together from the layer of the bundle that was verified.
PushVerified(p) ==
    /\ job[p].cmd = "push" /\ pc[p] \in {"provenance", "count"}
    /\ \E b \in got[p] :
         LET a == AppOf(job[p], b, GenerateCycloneDX(b)) IN
         /\ Provenance(p, b) # "bare" /\ Verdict(p, <<"bundle", b>>, Provenance(p, b))
         /\ IF /\ Provenance(p, b) # "refused" /\ (job[p].sign # "" => job[p].keyLoads)
               /\ MainClassKnown(job[p]) /\ PushAccepted(job[p])
            THEN Publish(p, <<"index", a>>, job[p].ref) /\ UNCHANGED got
            ELSE Exit(p, "failed")
    /\ UNCHANGED <<job, store, runs, killed, raced>>

\* PublishManagedAttestation, on the digest that was pushed.
ImageStatement_Platform(p, a) ==
    SignStatement(job[p].sign, "managed",
        [digest |-> <<"platform", a, Host>>, code |-> a.code, bundle |-> a.bundle, sbom |-> a.sbom,
         ident |-> job[p].ident], <<p, runs[p]>>)
ImageStatement(p, a) ==
    SignStatement(job[p].sign, "managed",
        [digest |-> <<"index", a>>, code |-> a.code, bundle |-> a.bundle, sbom |-> a.sbom,
         ident |-> job[p].ident], <<p, runs[p]>>)
AttestImage_Plain(p) ==
    /\ job[p].cmd = "push" /\ pc[p] = "published"
    /\ entry[p].digest[1] = "index" /\ Managed(job[p]) /\ job[p].sign # ""
    /\ LET e == ImageStatement(p, entry[p].digest[2])
       IN  Publish(p, Referrer("attestation", entry[p].digest, e, ""), Untagged)
    /\ UNCHANGED <<job, got, store, runs, killed, verdicts, raced>>
AttestImage(p) ==
    /\ job[p].cmd = "push" /\ pc[p] = "published"
    /\ entry[p].digest[1] = "index" /\ Managed(job[p]) /\ job[p].sign # ""
    /\ LET e == ImageStatement(p, entry[p].digest[2])
       IN  Publish(p, Referrer("attestation", entry[p].digest, e, "managed"), Untagged)
    /\ UNCHANGED <<job, got, store, runs, killed, verdicts, raced>>

\* A publishing command has nothing more to publish.
Finish(p) ==
    LET d == entry[p].digest IN
    /\ pc[p] = "published"
    /\ \/ job[p].cmd = "push" /\ (d[1] = "referrer" \/ ~Managed(job[p]) \/ job[p].sign = "")
       \/ job[p].cmd = "dependency-bundle" /\ d[1] = "referrer" /\ (d[2] = "attestation" \/ job[p].sign = "")
    /\ Exit(p, "done")
    /\ UNCHANGED <<job, store, runs, killed, verdicts, raced>>

----------------------------------------------------------------------------
(* brewlet inspect                                                         *)

\* The manifest of the ref, and the launch config of a native artifact.
InspectManifest(p) ==
    LET found == IF Readable THEN ResolveManifestByRef(index.list, whole, job[p].ref, Host) ELSE {}
    IN  /\ job[p].cmd = "inspect" /\ pc[p] = "begin"
        /\ IF /\ found # {}
              /\ \A d \in found : d[1] = "native" => <<"config", d[2].cfg>> \in whole
           THEN /\ got' = [got EXCEPT ![p] = found] /\ UNCHANGED <<todo, entry, base>>
                /\ Goto(p, IF \E d \in found : d[1] = "bundle" THEN "bundle" ELSE "descriptor")
           ELSE Exit(p, "failed")
        /\ UNCHANGED <<job, store, runs, killed, verdicts, raced>>

\* A bundle is resolved by the ref once more, and verified if a key was given.
InspectBundle(p) ==
    LET found == IF Readable THEN ResolveDependencyBundle(index.list, whole, job[p].ref) ELSE {}
    IN  /\ job[p].cmd = "inspect" /\ pc[p] = "bundle"
        /\ CASE found = {} -> Exit(p, "failed")
             [] found # {} /\ job[p].trust = "" /\ job[p].trustIdent = "" -> Exit(p, "done")
             [] found # {} /\ (job[p].trust = "") # (job[p].trustIdent = "") -> Exit(p, "failed")
             [] OTHER -> Goto(p, "sbom") /\ got' = [got EXCEPT ![p] = found] /\ UNCHANGED <<todo, entry, base>>
        /\ UNCHANGED <<job, store, runs, killed, verdicts, raced>>

InspectProvenance(p) ==
    /\ job[p].cmd = "inspect" /\ pc[p] \in {"provenance", "count"}
    /\ \E b \in got[p] :
         /\ Provenance(p, b) # "bare" /\ Verdict(p, <<"bundle", b>>, Provenance(p, b))
         /\ Exit(p, IF Provenance(p, b) = "refused" THEN "failed" ELSE "done")
    /\ UNCHANGED <<job, store, runs, killed, raced>>

\* For an attestation the ref is looked up again: DescriptorByRef.
InspectDescriptor(p) ==
    LET found == IF Readable THEN DescriptorByRef(index.list, job[p].ref) ELSE {}
    IN  /\ job[p].cmd = "inspect" /\ pc[p] = "descriptor"
        /\ CASE job[p].trust = "" /\ job[p].trustIdent = "" -> Exit(p, "done")
             [] (job[p].trust = "") # (job[p].trustIdent = "") -> Exit(p, "failed")
             [] job[p].trust # "" /\ job[p].trustIdent # "" /\ found = {} -> Exit(p, "failed")
             [] OTHER -> Goto(p, "managed") /\ got' = [got EXCEPT ![p] = found] /\ UNCHANGED <<todo, entry, base>>
        /\ UNCHANGED <<job, store, runs, killed, verdicts, raced>>

InspectAttestation(p) ==
    /\ job[p].cmd = "inspect" /\ pc[p] = "managed"
    /\ \E d \in got[p] :
         LET v == IF Readable
                  THEN VerifyManagedAttestation(index.list, whole, d, job[p].trust, job[p].trustIdent)
                  ELSE "refused"
         IN  Verdict(p, d, v) /\ Exit(p, IF v = "refused" THEN "failed" ELSE "done")
    /\ UNCHANGED <<job, store, runs, killed, raced>>

----------------------------------------------------------------------------

\* The command is run, or run again.
Run(p) ==
    /\ pc[p] \in Resting /\ runs[p] < job[p].runs
    /\ Goto(p, "begin") /\ runs' = [runs EXCEPT ![p] = @ + 1]
    /\ UNCHANGED <<job, todo, entry, base, got, store, killed, verdicts, raced>>

\* A kill, or an error of the file system, ends it where it is.
Stop(p) ==
    /\ pc[p] \notin Resting /\ job[p].stops /\ p \notin killed
    /\ killed' = killed \cup {p} /\ Exit(p, "down")
    /\ UNCHANGED <<job, store, runs, verdicts, raced>>

Step(p) ==
    \/ Run(p) \/ Stop(p)
    \/ OpenBlob(p) \/ CloseBlob(p) \/ ReadIndex(p) \/ TruncateIndex(p) \/ WriteIndex(p)
    \/ BundleBegin(p) \/ PublishSBOM(p) \/ AttestBundle(p)
    \/ PushBegin(p) \/ PushResolve(p) \/ PushVerified(p) \/ AttestImage(p) \/ Finish(p)
    \/ FindSBOM(p) \/ CheckSBOM(p) \/ FindNone(p)
    \/ InspectManifest(p) \/ InspectBundle(p) \/ InspectProvenance(p)
    \/ InspectDescriptor(p) \/ InspectAttestation(p)

Next == \E p \in Proc : Step(p)

Spec == Init /\ [][Next]_vars

----------------------------------------------------------------------------
(* Properties.                                                             *)

\* The digests of the index.
Published == {index.list[n].digest : n \in DOMAIN index.list}

\* What the index lists has been written: each blob of each entry is on disk,
\* complete, or torn by a process that is writing the same blob again or that
\* was stopped while it did. Every publishing path writes the blobs, the
\* manifest last, before it touches the index.
IndexClosed ==
    \A d \in Published : \A b \in Needs(d) :
        \/ b \in whole
        \/ \E t \in torn : /\ t[1] = b
                           /\ t[2] \in killed \/ (pc[t[2]] = "fill" /\ Head(todo[t[2]]) = b)

\* Updates of the index that do not overlap lose nothing: what a finished
\* command published stays listed until its ref is published again, and also
\* after a process was stopped, unless the index was torn and started afresh
\* (upsertIndex, appendIndex: a read-modify-write without a lock).
Publishes(p) == job[p].cmd \in {"push", "dependency-bundle"}
Retagged(p) == \E q \in Proc \ {p} : runs[q] > 0 /\ Publishes(q) /\ job[q].ref = job[p].ref
Builds(p, d) ==
    \/ job[p].cmd = "dependency-bundle" /\ d = <<"bundle", BundleOf(job[p])>>
    \/ /\ job[p].cmd = "push" /\ d[1] = (IF job[p].format = "artifact" THEN "native" ELSE "index")
       /\ d[2] = AppOf(job[p], d[2].bundle, d[2].sbom)
       /\ Managed(job[p]) => /\ d[2].bundle.lock = sortLock(job[p].lock)
                              /\ d[2].sbom = GenerateCycloneDX(d[2].bundle)
NothingLost ==
    \A p \in Proc :
        pc[p] = "done" /\ Publishes(p) /\ ~raced /\ index.state = "ok"
        => \/ Retagged(p)
           \/ \E n \in DOMAIN index.list : index.list[n].ref = job[p].ref /\ Builds(p, index.list[n].digest)

\* A bundle that is listed when its builder has finished verifies for whoever
\* trusts that builder, however often it was built, stopped and built again,
\* unless updates overlapped or a blob of it was torn (dependency-bundle: the
\* SBOM is published once, whatever is retried).
BundleWhole(d) ==
    \A e \in Published : (e = d \/ (e[1] = "referrer" /\ e[3] = d)) => Needs(e) \subseteq whole
Provenances(b, key, ident) ==
    LET v == VerifyProvenance(index.list, whole, b, key, ident)
    IN  IF v = "bare" THEN CountAttestations(index.list, b) ELSE v
PublishedVerifies ==
    \A p \in Proc :
        job[p].cmd = "dependency-bundle" /\ pc[p] = "done" /\ ~raced =>
          LET b == BundleOf(job[p]) IN
          <<"bundle", b>> \in Published /\ BundleWhole(<<"bundle", b>>) =>
            /\ CountSBOM(index.list, b) /\ VerifySBOM(index.list, whole, b)
            /\ Provenances(b, job[p].sign, job[p].ident)
                 = IF job[p].sign # "" THEN "signed"
                   ELSE IF Claims(index.list, <<"bundle", b>>, "attestation") # {} THEN "refused"
                   ELSE "unsigned"

\* A verdict of trust is true: a bundle reported as signed, and an image
\* reported as managed, were put together, bit for bit, by a command that held
\* the trusted key under the trusted identity, whatever else was published to
\* the layout meanwhile; and an image is only ever published on a bundle that
\* some push has verified (VerifyBundleSupplyChain, VerifyManagedAttestation).
TrustSound ==
    /\ \A v \in verdicts : v.kind \in {"signed", "managed"} =>
         \E p \in Proc : runs[p] > 0 /\ job[p].sign = v.key /\ job[p].ident = v.ident /\ Builds(p, v.of)
    /\ \A d \in Published : d[1] = "index" /\ d[2].bundle # NoBundle =>
         \E v \in verdicts : v.of = <<"bundle", d[2].bundle>> /\ v.kind \in {"signed", "unsigned"}

\* Admission and the CLI agree: the Ratify plugin allows some referrer of an
\* image exactly when `inspect` reports the image as managed, for every key and
\* identity in use. The one looks at the signed statement only, the other also at the
\* annotation (verify.go:117-119, supply_chain.go:473), so that it takes every
\* publisher to annotate what it signs.
Signers == {<<job[p].sign, job[p].ident>> : p \in {q \in Proc : Publishes(q)}}
AdmissionAgrees ==
    \A d \in {e \in Published : e[1] = "index"}, k \in Signers, i \in Signers :
        k[1] # "" /\ i[2] # "" =>
          ((VerifyManagedAttestation(index.list, whole, d, k[1], i[2]) = "managed")
            <=> \E n \in {m \in Claims(index.list, d, "attestation") :
                            Needs(index.list[m].digest) \subseteq whole} :
                  VerifyReference(whole, d, index.list[n].digest, k[1], i[2]) = "allow")

\* ... and both accept the image of a signed managed push that has finished, for who
\* trusts its signer, however often it was pushed, stopped and pushed again, unless
\* updates overlapped, the ref was published again or a blob was torn
\* (PublishManagedAttestation, VerifyManagedAttestation, verifyManaged).
ManagedAdmitted ==
    \A p \in Proc, n \in DOMAIN index.list :
        LET d == index.list[n].digest IN
        /\ job[p].cmd = "push" /\ Managed(job[p]) /\ job[p].sign # "" /\ pc[p] = "done"
        /\ index.list[n].ref = job[p].ref /\ ~Retagged(p) /\ ~raced /\ BundleWhole(d)
        => /\ VerifyManagedAttestation(index.list, whole, d, job[p].sign, job[p].ident) = "managed"
           /\ \E r \in Referrers(index.list, whole, d, "attestation") :
                VerifyReference(whole, d, r, job[p].sign, job[p].ident) = "allow"

\* What is published launches: the JVM gets arguments, an archive they name is
\* shipped, and when the CLI wrote the entry itself (a detected module, a managed
\* class path) every file they name is among the ones the layers ship. (The files
\* of a given config are its author's to ship; what becomes of one without a main
\* JAR says DefaultJarMissing of LaunchPlanProofs.)
ArgFiles(c) ==
    UNION {IF a[1] \in {"-cp", "-p"} THEN Range(a[2])
           ELSE IF a[1] \in {"-jar", "-XX:SharedArchiveFile"} THEN {a[2]} ELSE {} :
             a \in Range(BuildJVMArgs(c, <<>>, FALSE))}
PublishedLaunches ==
    \A d \in Published, p \in Proc :
        d[1] \in {"native", "index"} /\ job[p].cmd = "push" /\ Builds(p, d) =>
          LET c == d[2].cfg IN
          /\ BuildJVMArgs(c, <<>>, FALSE) # <<>>
          /\ c.cds # "none" => c.cds \in Shipped(d)
          /\ job[p].config = NoConfig \/ Managed(job[p]) => ArgFiles(c) \subseteq Shipped(d)
=============================================================================
