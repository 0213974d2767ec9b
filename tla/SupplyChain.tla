---------------------------- MODULE SupplyChain ----------------------------
(***************************************************************************)
(* What a reader of the OCI layout makes of its index and its blobs: how a *)
(* ref, a dependency bundle, the referrers of a digest and the signed      *)
(* statements are resolved and verified, by the CLI and by the Ratify      *)
(* verifier. An index is a sequence of [digest, ref]; `whole` is the set   *)
(* of the blobs that are complete on disk, the ones that a verified read   *)
(* accepts. An error is the empty set, or "refused".                       *)
(***************************************************************************)
EXTENDS Publication

\* Descriptors of referrers carry no ref.
Untagged == ""

\* DescriptorByRef: the first descriptor with the ref.
DescriptorByRef(idx, ref) ==
    LET hits == {n \in DOMAIN idx : idx[n].ref = ref}
    IN  {idx[n].digest : n \in {h \in hits : \A g \in hits : h <= g}}

\* ResolveDependencyBundle: every blob verified, the layers and config bound to
\* each other, the lock and the tar validated.
ResolveDependencyBundle(idx, whole, ref) ==
    {d[2] : d \in {e \in DescriptorByRef(idx, ref) :
        e[1] = "bundle" /\ Range(Blobs(e)) \subseteq whole /\ LockValid(e[2].lock)}}

\* ResolveManifestByRef follows an image index to the manifest of the host's
\* architecture, or to the first one.
ResolveManifestByRef(idx, whole, ref, arch) ==
    {d \in DescriptorByRef(idx, ref) :
        /\ d \in whole
        /\ d[1] = "index" =>
             LET arches == targetArches(d[2].cfg)
                 host == IF arch \in Range(arches) THEN arch ELSE arches[1]
             IN  <<"platform", d[2], host>> \in whole}

----------------------------------------------------------------------------
(* Signed statements: [key, type, subject, pred], with a predicate [digest,*)
(* code, bundle, sbom, ident] that names the documents it binds.           *)

\* SignStatement draws a fresh nonce for each signature.
SignStatement(key, type, pred, nonce) ==
    [key |-> key, type |-> type, subject |-> pred.digest, pred |-> pred, nonce |-> nonce]

VerifyStatement_AnyKey(e, key, type, subject) == e.type = type /\ e.subject = subject
VerifyStatement(e, key, type, subject) == e.key = key /\ e.type = type /\ e.subject = subject

\* ManagedDependencyPredicate.Validate: the digest is the subject's, the other
\* digests are there, the identity is not blank.
PredicateValid(pred, subject) == pred.digest = subject /\ pred.bundle # NoBundle /\ pred.ident # ""

\* attest.VerifyManagedAttestation
VerifyManagedStatement(e, key, ident, subject) ==
    /\ key # "" /\ ident # ""
    /\ VerifyStatement(e, key, "managed", subject)
    /\ PredicateValid(e.pred, subject) /\ e.pred.ident = ident

----------------------------------------------------------------------------
(* Referrers.                                                              *)

\* referrerDescriptorCount: the descriptors that claim the subject, readable or
\* not. A subject that is not indexed is an error.
Indexed(idx, d) == \E n \in DOMAIN idx : idx[n].digest = d
Claims(idx, subject, type) ==
    {n \in DOMAIN idx :
        idx[n].digest[1] = "referrer" /\ idx[n].digest[2] = type /\ idx[n].digest[3] = subject}

\* The ones of them whose manifest, config and document verify.
readReferrer(whole, d) == Range(Blobs(d)) \subseteq whole
Referrers(idx, whole, subject, type) ==
    {idx[n].digest : n \in {m \in Claims(idx, subject, type) : readReferrer(whole, idx[m].digest)}}

\* GenerateCycloneDX lists the lock's components under the bundle's name;
\* validateCycloneDX compares all of it.
GenerateCycloneDX(b) == [name |-> b.name, components |-> b.lock]
validateCycloneDX(doc, b) == doc.name = b.name /\ doc.components = b.lock

\* VerifyBundleSupplyChain reads the index up to four times. There is one SBOM
\* descriptor,
CountSBOM(idx, b) ==
    LET claims == Claims(idx, <<"bundle", b>>, "sbom")
    IN  Indexed(idx, <<"bundle", b>>) /\ \E n \in claims : claims = {n}

\* ... and one valid document.
VerifySBOM(idx, whole, b) ==
    LET valid == Referrers(idx, whole, <<"bundle", b>>, "sbom")
    IN  /\ Indexed(idx, <<"bundle", b>>) /\ \E d \in valid : valid = {d}
        /\ \A d \in valid : validateCycloneDX(d[4], b)

\* If there are attestations, some statement that is annotated as a bundle's must be
\* signed by the trusted key and bind this bundle, its layer, lock, SBOM and identity.
VerifyProvenance(idx, whole, b, key, ident) ==
    LET subject == <<"bundle", b>>
        valid == Referrers(idx, whole, subject, "attestation")
        trusted == {d \in valid :
            /\ d[5] = "bundle" /\ VerifyStatement(d[4], key, "bundle", subject)
            /\ d[4].pred.ident = ident /\ d[4].pred.digest = subject
            /\ d[4].pred.bundle = b /\ d[4].pred.sbom = GenerateCycloneDX(b)}
    IN  IF ~Indexed(idx, subject) THEN "refused"
        ELSE IF valid = {} THEN "bare"
        ELSE IF key = "" \/ ident = "" THEN "refused"
        ELSE IF trusted # {} THEN "signed" ELSE "refused"

\* Without a valid one there must not be an invalid one either.
CountAttestations(idx, b) ==
    IF Indexed(idx, <<"bundle", b>>) /\ Claims(idx, <<"bundle", b>>, "attestation") = {} THEN "unsigned" ELSE "refused"

\* Store.VerifyManagedAttestation: the first statement that is annotated as a managed
\* image's and verifies.
VerifyManagedAttestation(idx, whole, image, key, ident) ==
    IF /\ Indexed(idx, image)
       /\ \E d \in Referrers(idx, whole, image, "attestation") :
            /\ d[5] = "managed" /\ VerifyStatement(d[4], key, "managed", image)
            /\ PredicateValid(d[4].pred, image) /\ d[4].pred.ident = ident
    THEN "managed" ELSE "refused"

\* The Ratify plugin's verdict on one referrer of an image, in a registry that
\* serves the blobs `held`; any error is a denial, and the annotation does not
\* matter. The image's registry is outside the repository: it lists the referrers
\* of a digest.
VerifyReference(held, image, referrer, key, ident) ==
    IF /\ key # "" /\ ident # ""
       /\ referrer[2] = "attestation" /\ referrer \in held
       /\ <<"document", referrer[2], referrer[4]>> \in held
       /\ VerifyManagedStatement(referrer[4], key, ident, image)
    THEN "allow" ELSE "deny"
=============================================================================
