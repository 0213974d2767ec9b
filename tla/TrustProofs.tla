---------------------------- MODULE TrustProofs ----------------------------
(***************************************************************************)
(* Theorems about where what is published on one OCI layout comes from: a  *)
(* verdict of trust is true, what is published launches, and admission and *)
(* the CLI agree.                                                          *)
(***************************************************************************)
EXTENDS ArtifactStoreProofs

----------------------------------------------------------------------------
\* The digests that are listed, or on their way into the index.
Seen == Published \cup {entry[p].digest : p \in Proc} \cup UNION {Digests(base[p]) : p \in Proc}

----------------------------------------------------------------------------
(* Where a digest comes from.                                              *)

\* The application that a push of q put together and was allowed to.
AppBy(q, d) ==
    /\ job[q].cmd = "push" /\ runs[q] > 0 /\ PushAccepted(job[q])
    /\ d[1] = (IF job[q].format = "artifact" THEN "native" ELSE "index") /\ d = <<d[1], d[2]>>
    /\ \/ ~Managed(job[q]) /\ d[2] = AppOf(job[q], NoBundle, <<>>)
       \/ /\ Managed(job[q]) /\ ManagedKeys(job[q]) /\ d[1] = "index"
          /\ \E b : /\ b.lock # <<>> /\ b.lock = sortLock(job[q].lock)
                    /\ d[2] = AppOf(job[q], b, GenerateCycloneDX(b))
                    /\ \E v \in verdicts : v.of = <<"bundle", b>> /\ v.kind \in {"signed", "unsigned"}

BundleBy(q, d) ==
    /\ job[q].cmd = "dependency-bundle" /\ runs[q] > 0 /\ BundleAccepted(job[q])
    /\ d = <<"bundle", BundleOf(job[q])>>

\* The statement is one that q signed, about what q built; an attestation is annotated
\* with the type of its statement.
SignedBy(q, s) ==
    runs[q] > 0 /\ s.key = job[q].sign /\ s.pred.ident = job[q].ident /\ Builds(q, s.subject)

Good(d) ==
    /\ d[1] = "bundle" => \E q \in Proc : BundleBy(q, d)
    /\ d[1] \in {"native", "index"} => \E q \in Proc : AppBy(q, d)
    /\ d[1] = "referrer" /\ d[2] = "attestation" => d[5] = d[4].type /\ \E q \in Proc : SignedBy(q, d[4])

\* What a process is publishing is its own; a push has checked what it goes on
\* with.
Own(p) ==
    /\ entry[p].digest[1] = "bundle" => BundleBy(p, entry[p].digest)
    /\ entry[p].digest[1] \in {"native", "index"} => AppBy(p, entry[p].digest)
    /\ entry[p].digest[1] = "referrer" /\ entry[p].digest[2] = "sbom" => BundleBy(p, entry[p].digest[3])
    /\ entry[p].digest[1] \in {"bundle", "native", "index"} => entry[p].ref = job[p].ref
    /\ entry[p].digest[1] \notin {"bundle", "native", "index"} => entry[p].ref = Untagged
    /\ job[p].cmd = "push" /\ pc[p] \in {"resolve"} \cup Reading => Managed(job[p]) /\ ManagedFlags(job[p])
    /\ job[p].cmd = "push" /\ pc[p] \in Reading =>
         ManagedKeys(job[p]) /\ \A b \in got[p] : b.lock # <<>> /\ b.lock = sortLock(job[p].lock)

OriginInv == (\A d \in Seen : Good(d)) /\ \A p \in Proc : Own(p)

----------------------------------------------------------------------------
(* The origin of what is seen.                                             *)

\* A step brings one digest at most: the one that its process turns to.
LEMMA SeenFrom ==
    ASSUME Shape, NEW p \in Proc, Frame(p), Effect(p), NEW d \in Seen'
    PROVE  d \in Seen \/ d = entry'[p].digest
<1>1. CASE d \in Published'
  <2>1. Published' \subseteq Published \cup Digests(base[p])
    BY PublishedFrom, Zenon
  <2>. QED BY <1>1, <2>1, Zenon DEF Seen
<1>2. ASSUME NEW q \in Proc, d = entry'[q].digest PROVE d \in Seen \/ d = entry'[p].digest
  BY <1>2, Zenon DEF Frame, Seen
<1>3. ASSUME NEW q \in Proc, d \in Digests(base[q])' PROVE d \in Seen
  <2>1. CASE q # p
    <3>1. Digests(base[q])' = Digests(base[q])
      BY <2>1 DEF Frame, Digests
    <3>. QED BY <1>3, <3>1, Zenon DEF Seen
  <2>2. CASE base'[p] = base[p]
    <3>1. Digests(base[p])' = Digests(base[p])
      BY <2>2, Zenon DEF Digests
    <3>. QED BY <1>3, <2>1, <3>1, Zenon DEF Seen
  <2>3. CASE base'[p] = <<>>
    <3>1. Digests(base[p])' = {}
      BY <2>3 DEF Digests
    <3>. QED BY <1>3, <2>1, <3>1, Zenon
  <2>4. CASE Lists(p)
    <3>1. Digests(base[p])' = Digests(base'[p])
      BY Zenon DEF Digests
    <3>2. d \in Published \cup {entry[p].digest} \/ q # p
      BY <1>3, <2>4, <3>1, ListedFrom, Zenon
    <3>. QED BY <2>1, <3>2, Zenon DEF Seen
  <2>5. base'[p] = base[p] \/ base'[p] = <<>> \/ Lists(p)
    BY BaseFrom, Zenon
  <2>. QED BY <2>1, <2>2, <2>3, <2>4, <2>5, Zenon
<1>. QED BY <1>1, <1>2, <1>3, Zenon DEF Seen

\* A process that has run has run.
LEMMA RunsOn ==
    ASSUME Shape, NEW p \in Proc, Frame(p), Effect(p), NEW q \in Proc
    PROVE  runs'[q] \in Nat /\ runs[q] \in Nat /\ runs'[q] >= runs[q]
<1>1. runs[q] \in Nat /\ runs'[q] \in Nat
  BY Zenon DEF Shape, Frame
<1>2. CASE q # p
  BY <1>1, <1>2 DEF Frame
<1>3. runs'[p] = runs[p] \/ runs'[p] = runs[p] + 1
  <2>1. CASE Begins(p) \/ Leaves(p) \/ Looks(p)
    BY <2>1, Zenon DEF Begins, Leaves, Looks, Exits
  <2>2. CASE Puts(p) \/ Opens(p) \/ Closes(p)
    BY <2>2, Zenon DEF Puts, Opens, Closes, Exits, Keeps
  <2>3. CASE Lists(p) \/ Skips(p) \/ Truncates(p) \/ Rewrites(p)
    BY <2>3, Zenon DEF Lists, Skips, ReadsAlone, Truncates, Rewrites, Keeps
  <2>. QED BY <2>1, <2>2, <2>3, Zenon DEF Effect
<1>. QED BY <1>1, <1>2, <1>3

\* A good origin stays one.
LEMMA GoodStays ==
    ASSUME Shape, NEW p \in Proc, Frame(p), Effect(p), NEW d
    PROVE  /\ \A q \in Proc : (AppBy(q, d) => AppBy(q, d)') /\ (BundleBy(q, d) => BundleBy(q, d)')
           /\ \A q \in Proc : SignedBy(q, d) => SignedBy(q, d)'
<1>. SUFFICES ASSUME NEW q \in Proc
     PROVE  (AppBy(q, d) => AppBy(q, d)') /\ (BundleBy(q, d) => BundleBy(q, d)') /\ (SignedBy(q, d) => SignedBy(q, d)')
  BY Zenon
<1>1. job' = job /\ verdicts \subseteq verdicts' /\ (runs[q] > 0 => runs'[q] > 0)
  BY RunsOn DEF Frame
<1>2. AppBy(q, d) => AppBy(q, d)'
  BY <1>1, Zenon DEF AppBy
<1>3. BundleBy(q, d) => BundleBy(q, d)'
  BY <1>1, Zenon DEF BundleBy
<1>4. SignedBy(q, d) => SignedBy(q, d)'
  BY <1>1, Zenon DEF SignedBy, Builds
<1>. QED BY <1>2, <1>3, <1>4, Zenon

\* What a process turns to has a good origin, and is its own.
LEMMA SourceOrigin ==
    ASSUME Shape, OriginInv, NEW p \in Proc, Frame(p), Effect(p), NEW d, NEW ref, Source(p, d, ref), runs[p] > 0
    PROVE  /\ d[1] = "bundle" => BundleBy(p, d)' /\ ref = job[p].ref
           /\ d[1] \in {"native", "index"} => AppBy(p, d)' /\ ref = job[p].ref
           /\ d[1] = "referrer" => ref = Untagged
           /\ d[1] \in {"bundle", "native", "index", "referrer"}
           /\ d[1] = "referrer" /\ d[2] = "sbom" => BundleBy(p, d[3])'
           /\ d[1] = "referrer" /\ d[2] = "attestation" => SignedBy(p, d[4])' /\ d[5] = d[4].type
<1>1. Own(p)
  BY Zenon DEF OriginInv
<1>2. job' = job /\ verdicts \subseteq verdicts' /\ runs'[p] > 0
  BY RunsOn DEF Frame
<1>3. \A e : (AppBy(p, e) => AppBy(p, e)') /\ (BundleBy(p, e) => BundleBy(p, e)') /\ (SignedBy(p, e) => SignedBy(p, e)')
  BY GoodStays, Zenon
<1>4. CASE job[p].cmd = "dependency-bundle" /\ BundleAccepted(job[p]) /\ d = <<"bundle", BundleOf(job[p])>> /\ ref = job[p].ref
  <2>1. BundleBy(p, d)
    BY <1>4, Zenon DEF BundleBy
  <2>2. d[1] = "bundle"
    BY <1>4, Zenon
  <2>. QED BY <1>3, <1>4, <2>1, <2>2, Zenon
<1>5. ASSUME NEW b, entry[p].digest[1] = "bundle", ref = Untagged, d = Referrer("sbom", entry[p].digest, GenerateCycloneDX(b), "")
      PROVE  d[1] = "referrer" /\ d[2] = "sbom" /\ BundleBy(p, d[3])' /\ ref = Untagged
  <2>1. d[1] = "referrer" /\ d[2] = "sbom" /\ d[3] = entry[p].digest
    BY <1>5, Zenon DEF Referrer
  <2>. QED BY <1>1, <1>3, <1>5, <2>1, Zenon DEF Own
<1>6. ASSUME NEW b, About(p, "sbom"), ref = Untagged, d = Referrer("attestation", entry[p].digest[3], BundleStatement(p, b), "bundle")
      PROVE  d[1] = "referrer" /\ d[2] = "attestation" /\ SignedBy(p, d[4])' /\ d[5] = d[4].type /\ ref = Untagged
  <2>1. d[1] = "referrer" /\ d[2] = "attestation" /\ d[4] = BundleStatement(p, b) /\ d[5] = "bundle"
    BY <1>6, Zenon DEF Referrer
  <2>2. d[4].key = job[p].sign /\ d[4].pred.ident = job[p].ident /\ d[4].subject = entry[p].digest[3] /\ d[4].type = "bundle"
    <3>. DEFINE x == entry[p].digest[3]
                pred == [digest |-> x, code |-> "", bundle |-> b, sbom |-> GenerateCycloneDX(b), ident |-> job[p].ident]
                nonce == <<p, runs[p]>>
    <3>1. d[4] = SignStatement(job[p].sign, "bundle", pred, nonce)
      BY <2>1, Zenon DEF BundleStatement
    <3>. HIDE DEF nonce, x
    <3>3. pred.digest = x /\ pred.ident = job[p].ident
      BY Zenon
    <3>. HIDE DEF pred
    <3>2. d[4].key = job[p].sign /\ d[4].pred.ident = job[p].ident /\ d[4].subject = x /\ d[4].type = "bundle"
      BY <3>1, <3>3 DEF SignStatement
    <3>. QED BY <3>2, Zenon DEF x
  <2>3. BundleBy(p, entry[p].digest[3])
    BY <1>1, <1>6, Zenon DEF Own, About
  <2>4. Builds(p, entry[p].digest[3])
    BY <2>3, Zenon DEF BundleBy, Builds
  <2>5. SignedBy(p, d[4])
    BY <2>2, <2>4, Zenon DEF SignedBy
  <2>. QED BY <1>3, <1>6, <2>1, <2>2, <2>5, Zenon
<1>7. ASSUME job[p].cmd = "push", ~Managed(job[p]), PushAccepted(job[p]), ref = job[p].ref,
             d = <<IF job[p].format = "artifact" THEN "native" ELSE "index", AppOf(job[p], NoBundle, <<>>)>>
      PROVE  d[1] \in {"native", "index"} /\ AppBy(p, d)' /\ ref = job[p].ref
  <2>1. d[1] = (IF job[p].format = "artifact" THEN "native" ELSE "index") /\ d[2] = AppOf(job[p], NoBundle, <<>>) /\ d = <<d[1], d[2]>>
    BY <1>7, Zenon
  <2>2. AppBy(p, d)
    BY <1>7, <2>1, Zenon DEF AppBy
  <2>. QED BY <1>3, <1>7, <2>1, <2>2, Zenon
<1>8. ASSUME job[p].cmd = "push", pc[p] \in Reading, PushAccepted(job[p]), ref = job[p].ref, NEW b \in got[p],
             d = <<"index", AppOf(job[p], b, GenerateCycloneDX(b))>>,
             \E v \in verdicts' : v.of = <<"bundle", b>> /\ v.kind \in {"signed", "unsigned"}
      PROVE  d[1] = "index" /\ AppBy(p, d)' /\ ref = job[p].ref
  <2>1. d[1] = "index" /\ d[2] = AppOf(job[p], b, GenerateCycloneDX(b)) /\ d = <<d[1], d[2]>>
    BY <1>8, Zenon
  <2>2. Managed(job[p]) /\ ManagedFlags(job[p]) /\ ManagedKeys(job[p]) /\ b.lock # <<>> /\ b.lock = sortLock(job[p].lock)
    BY <1>1, <1>8, Zenon DEF Own
  <2>3. job[p].format # "artifact"
    BY <2>2, Zenon DEF ManagedFlags
  <2>. QED BY <1>2, <1>8, <2>1, <2>2, <2>3, Zenon DEF AppBy
<1>9. ASSUME job[p].cmd = "push", entry[p].digest[1] = "index", Managed(job[p]), ref = Untagged,
             d = Referrer("attestation", entry[p].digest, ImageStatement(p, entry[p].digest[2]), "managed")
      PROVE  d[1] = "referrer" /\ d[2] = "attestation" /\ SignedBy(p, d[4])' /\ d[5] = d[4].type /\ ref = Untagged
  <2>. DEFINE a == entry[p].digest[2]
              e == <<"index", a>>
  <2>1. d[1] = "referrer" /\ d[2] = "attestation" /\ d[4] = ImageStatement(p, a) /\ d[5] = "managed"
    BY <1>9, Zenon DEF Referrer
  <2>2. d[4].key = job[p].sign /\ d[4].pred.ident = job[p].ident /\ d[4].subject = e /\ d[4].type = "managed"
    BY <2>1 DEF ImageStatement, SignStatement
  <2>3. AppBy(p, entry[p].digest)
    BY <1>1, <1>9, Zenon DEF Own
  <2>4. PICK b : /\ b.lock = sortLock(job[p].lock) /\ a = AppOf(job[p], b, GenerateCycloneDX(b))
    BY <1>9, <2>3, Zenon DEF AppBy
  <2>5. a.bundle = b /\ a.sbom = GenerateCycloneDX(b)
    BY <2>4 DEF AppOf
  <2>6. e[1] = (IF job[p].format = "artifact" THEN "native" ELSE "index") /\ e[2] = a
    BY <1>9, <2>3, Zenon DEF AppBy
  <2>. HIDE DEF e, a
  <2>7. Builds(p, e)
    BY <1>9, <2>4, <2>5, <2>6, Zenon DEF Builds
  <2>8. SignedBy(p, d[4])
    BY <2>2, <2>7, Zenon DEF SignedBy
  <2>. QED BY <1>3, <1>9, <2>1, <2>2, <2>8, Zenon
<1>. QED BY <1>4, <1>5, <1>6, <1>7, <1>8, <1>9, Zenon DEF Source

\* The bundle that a ref resolves to is one, and a builder's: a lock that agrees
\* with its lock up to the order sorts into it.
LEMMA ResolvedLock ==
    ASSUME Shape, OriginInv, NEW p \in Proc, NEW ref,
           \E b \in ResolveDependencyBundle(index.list, whole, ref) : VerifyDependencyLock(b.lock, job[p].lock),
           NEW c \in ResolveDependencyBundle(index.list, whole, ref)
    PROVE  c.lock # <<>> /\ c.lock = sortLock(job[p].lock)
<1>. DEFINE D == DescriptorByRef(index.list, ref)
<1>1. D \subseteq Published /\ \A x, y \in D : x = y
  <2>1. DOMAIN index.list \subseteq Nat
    BY ListAppend DEF Shape
  <2>. QED BY <2>1 DEF DescriptorByRef, Published
<1>2. PICK e \in D : e[1] = "bundle" /\ LockValid(e[2].lock) /\ c = e[2]
  BY Zenon DEF ResolveDependencyBundle
<1>3. PICK b \in ResolveDependencyBundle(index.list, whole, ref) : VerifyDependencyLock(b.lock, job[p].lock)
  BY Zenon
<1>4. PICK f \in D : b = f[2]
  BY <1>3, Zenon DEF ResolveDependencyBundle
<1>. HIDE DEF D
<1>5. sortLock(c.lock) = sortLock(job[p].lock)
  BY <1>1, <1>2, <1>3, <1>4, Zenon DEF VerifyDependencyLock
<1>6. PICK q \in Proc : BundleBy(q, e)
  BY <1>1, <1>2, Zenon DEF OriginInv, Seen, Good
<1>7. c.lock = sortLock(job[q].lock)
  <2>1. e = <<"bundle", BundleOf(job[q])>>
    BY <1>6, Zenon DEF BundleBy
  <2>. QED BY <1>2, <2>1, Zenon DEF BundleOf
<1>8. sortLock(sortLock(job[q].lock)) = sortLock(job[q].lock)
  BY <1>6, ScenariosAssumption, Zenon DEF Shape, BundleBy, BundleAccepted
<1>9. c.lock # <<>>
  BY <1>2, Zenon DEF LockValid
<1>. QED BY <1>5, <1>7, <1>8, <1>9, Zenon

\* None is no digest of anything.
LEMMA NoneIs == None.digest[1] = "none" /\ None.ref = Untagged
<1>. DEFINE x == <<"none">>
<1>1. x[1] = "none"
  BY Zenon
<1>. HIDE DEF x
<1>. QED BY <1>1, Zenon DEF None, Untagged, x

\* Every step keeps the origins good.
LEMMA OriginStep ==
    ASSUME Shape, OriginInv, NEW p \in Proc, Step(p) PROVE OriginInv'
<1>1. Frame(p) /\ Effect(p)
  BY StepFrame, StepEffect, Zenon
<1>2. \A q \in Proc : \A d :
         (AppBy(q, d) => AppBy(q, d)') /\ (BundleBy(q, d) => BundleBy(q, d)') /\ (SignedBy(q, d) => SignedBy(q, d)')
  BY <1>1, GoodStays, Zenon
<1>3. \A d : Good(d) => Good(d)'
  BY <1>2, Zenon DEF Good
<1>4. ASSUME NEW q \in Proc, pc'[q] = pc[q], entry'[q] = entry[q], got'[q] = got[q] PROVE Own(q)'
  <2>1. Own(q) /\ job' = job
    BY <1>1, Zenon DEF OriginInv, Frame
  <2>. QED BY <1>2, <1>4, <2>1, Zenon DEF Own
<1>5. Own(p) /\ job' = job
  BY <1>1, Zenon DEF OriginInv, Frame
<1>6. ASSUME entry'[p] = entry[p], pc'[p] \notin {"resolve"} \cup Reading PROVE Own(p)' /\ \A d : d = entry'[p].digest => Good(d)'
  <2>1. Good(entry[p].digest)
    BY Zenon DEF OriginInv, Seen
  <2>. QED BY <1>2, <1>3, <1>5, <1>6, <2>1, Zenon DEF Own
<1>7. ASSUME NEW l \in {"done", "failed", "down"}, Exits(p, l) PROVE Own(p)' /\ \A d : d = entry'[p].digest => Good(d)'
  <2>1. entry'[p].digest[1] = "none" /\ entry'[p].ref = Untagged /\ pc'[p] = l
    BY <1>7, NoneIs, Zenon DEF Exits
  <2>. QED BY <2>1, Zenon DEF Own, Good, Reading
<1>8. Own(p)' /\ \A d : d = entry'[p].digest => Good(d)'
  <2>1. CASE Begins(p)
    <3>1. entry'[p] = entry[p] /\ pc'[p] = "begin"
      BY <2>1, Zenon DEF Begins
    <3>. QED BY <1>6, <3>1, Zenon DEF Reading
  <2>2. CASE Leaves(p)
    BY <1>7, <2>2, Zenon DEF Leaves
  <2>3. CASE Looks(p)
    <3>1. entry'[p] = entry[p] /\ Good(entry[p].digest)
      BY <2>3, Zenon DEF Looks, OriginInv, Seen
    <3>2. ASSUME job[p].cmd = "push"
          PROVE  /\ Managed(job[p]) /\ ManagedFlags(job[p])
                 /\ pc'[p] \in Reading => ManagedKeys(job[p]) /\ \A b \in got'[p] : b.lock # <<>> /\ b.lock = sortLock(job[p].lock)
      <4>1. CASE pc'[p] = "resolve" /\ Managed(job[p]) /\ ManagedFlags(job[p])
        BY <4>1, Zenon DEF Reading
      <4>2. CASE /\ pc[p] = "resolve" /\ pc'[p] = "sbom" /\ ManagedKeys(job[p])
                 /\ got'[p] = ResolveDependencyBundle(index.list, whole, job[p].bundle)
                 /\ \E b \in got'[p] : VerifyDependencyLock(b.lock, job[p].lock)
        <5>1. Managed(job[p]) /\ ManagedFlags(job[p])
          BY <1>5, <3>2, <4>2, Zenon DEF Own
        <5>2. \A b \in got'[p] : b.lock # <<>> /\ b.lock = sortLock(job[p].lock)
          BY <4>2, ResolvedLock, Zenon
        <5>. QED BY <4>2, <5>1, <5>2, Zenon
      <4>3. CASE pc[p] \in Reading /\ pc'[p] \in Reading /\ got'[p] = got[p]
        BY <1>5, <3>2, <4>3, Zenon DEF Own
      <4>. QED BY <2>3, <3>2, <4>1, <4>2, <4>3, Zenon DEF Looks
    <3>. QED BY <1>2, <1>3, <1>5, <3>1, <3>2, Zenon DEF Own
  <2>4. CASE Puts(p)
    <3>1. PICK d, ref : Source(p, d, ref) /\ pc'[p] = "blob" /\ entry'[p] = [digest |-> d, ref |-> ref]
      BY <2>4, Zenon DEF Puts
    <3>2. entry'[p].digest = d /\ entry'[p].ref = ref /\ runs[p] > 0
      <4>1. pc[p] # "idle"
        BY <3>1, Zenon DEF Source, Reading
      <4>. QED BY <3>1, <4>1 DEF Shape
    <3>3. /\ d[1] = "bundle" => BundleBy(p, d)' /\ ref = job[p].ref
          /\ d[1] \in {"native", "index"} => AppBy(p, d)' /\ ref = job[p].ref
          /\ d[1] = "referrer" => ref = Untagged
          /\ d[1] \in {"bundle", "native", "index", "referrer"}
          /\ d[1] = "referrer" /\ d[2] = "sbom" => BundleBy(p, d[3])'
          /\ d[1] = "referrer" /\ d[2] = "attestation" => SignedBy(p, d[4])' /\ d[5] = d[4].type
      BY <1>1, <3>1, <3>2, SourceOrigin, Zenon
    <3>4. Own(p)'
      BY <1>5, <3>1, <3>2, <3>3, Zenon DEF Own, Reading
    <3>5. Good(d)'
      BY <3>3, Zenon DEF Good
    <3>. QED BY <3>2, <3>4, <3>5, Zenon
  <2>5. CASE Closes(p)
    <3>1. Exits(p, "failed") \/ (entry'[p] = entry[p] /\ pc'[p] \in {"index", "blob"})
      BY <2>5, Zenon DEF Closes, Keeps
    <3>. QED BY <1>6, <1>7, <3>1, Zenon DEF Reading
  <2>6. CASE Opens(p) \/ Lists(p) \/ Skips(p) \/ Truncates(p) \/ Rewrites(p)
    <3>1. entry'[p] = entry[p] /\ pc'[p] \in {"fill", "update", "published", "rewrite"}
      BY <2>6, Zenon DEF Opens, Lists, Skips, ReadsAlone, Truncates, Rewrites, Keeps
    <3>. QED BY <1>6, <3>1, Zenon DEF Reading
  <2>. QED BY <1>1, <2>1, <2>2, <2>3, <2>4, <2>5, <2>6, Zenon DEF Effect
<1>9. \A q \in Proc : Own(q)'
  BY <1>1, <1>4, <1>8, Zenon DEF Frame
<1>10. \A d \in Seen' : Good(d)'
  BY <1>1, <1>3, <1>8, SeenFrom, Zenon DEF OriginInv
<1>. QED BY <1>9, <1>10, Zenon DEF OriginInv

----------------------------------------------------------------------------
(* Trust.                                                                  *)

TrueVerdict(v) ==
    v.kind \in {"signed", "managed"} =>
      \E q \in Proc : runs[q] > 0 /\ job[q].sign = v.key /\ job[q].ident = v.ident /\ Builds(q, v.of)
TrustInv == \A v \in verdicts : TrueVerdict(v)

\* A referrer that is read back as an attestation was signed.
LEMMA ReadSigned ==
    ASSUME OriginInv, NEW subject, NEW held, NEW d \in Referrers(index.list, held, subject, "attestation")
    PROVE  d[5] = d[4].type /\ \E q \in Proc : SignedBy(q, d[4])
<1>1. d \in Published /\ d[1] = "referrer" /\ d[2] = "attestation"
  BY Zenon DEF Referrers, Claims, Published
<1>. QED BY <1>1, Zenon DEF OriginInv, Seen, Good

\* A bundle is reported as signed on an attestation of the key and the identity.
LEMMA SignedBundle ==
    ASSUME OriginInv, NEW b, NEW key, NEW ident, VerifyProvenance(index.list, whole, b, key, ident) = "signed"
    PROVE  \E q \in Proc : \E x : SignedBy(q, x) /\ x.key = key /\ x.subject = <<"bundle", b>> /\ x.pred.ident = ident
<1>1. PICK r \in Referrers(index.list, whole, <<"bundle", b>>, "attestation") :
        r[4].key = key /\ r[4].subject = <<"bundle", b>> /\ r[4].pred.ident = ident
  <2>1. PICK r \in Referrers(index.list, whole, <<"bundle", b>>, "attestation") : Binds(r, b, key, ident)
    BY ProvenanceIs, Zenon
  <2>. QED BY <2>1, Zenon DEF Binds
<1>2. PICK q \in Proc : SignedBy(q, r[4])
  BY <1>1, ReadSigned, Zenon
<1>. QED BY <1>1, <1>2, Zenon

\* What VerifyBundleSupplyChain and VerifyManagedAttestation report is true.
LEMMA ReportSigned ==
    ASSUME OriginInv, NEW p \in Proc, NEW d, NEW kind, NEW v,
           v = [of |-> d, kind |-> kind, key |-> job[p].trust, ident |-> job[p].trustIdent],
           \/ \E b : d = <<"bundle", b>> /\ kind = Provenance(p, b)
           \/ kind \in {"refused", VerifyManagedAttestation(index.list, whole, d, job[p].trust, job[p].trustIdent)}
    PROVE  TrueVerdict(v)
<1>1. v.of = d /\ v.kind = kind /\ v.key = job[p].trust /\ v.ident = job[p].trustIdent
  BY Zenon
<1>2. SUFFICES ASSUME kind \in {"signed", "managed"}
               PROVE  \E x : \E q \in Proc : /\ SignedBy(q, x) /\ x.key = job[p].trust /\ x.subject = d
                                             /\ x.pred.ident = job[p].trustIdent
  BY <1>1, Zenon DEF TrueVerdict, SignedBy
<1>3. ASSUME NEW b, d = <<"bundle", b>>, kind = Provenance(p, b)
      PROVE  \E x : \E q \in Proc : SignedBy(q, x) /\ x.key = job[p].trust /\ x.subject = d /\ x.pred.ident = job[p].trustIdent
  <2>. DEFINE key == job[p].trust
              ident == job[p].trustIdent
  <2>1. /\ VerifyProvenance(index.list, whole, b, key, ident) \in {"signed", "bare", "refused"}
        /\ kind \in {"unsigned", "refused", VerifyProvenance(index.list, whole, b, key, ident)}
    BY <1>3, ProvenanceIs, Zenon DEF Provenance, CountAttestations
  <2>2. VerifyProvenance(index.list, whole, b, key, ident) = "signed"
    BY <1>2, <2>1, Zenon
  <2>. QED BY <1>3, <2>2, SignedBundle
<1>4. ASSUME kind = VerifyManagedAttestation(index.list, whole, d, job[p].trust, job[p].trustIdent)
      PROVE  \E x : \E q \in Proc : SignedBy(q, x) /\ x.key = job[p].trust /\ x.subject = d /\ x.pred.ident = job[p].trustIdent
  <2>1. PICK e \in Referrers(index.list, whole, d, "attestation") :
          e[4].key = job[p].trust /\ e[4].subject = d /\ e[4].pred.ident = job[p].trustIdent
    BY <1>2, <1>4, Zenon DEF VerifyManagedAttestation, VerifyStatement
  <2>. QED BY <2>1, ReadSigned, Zenon
<1>. QED BY <1>2, <1>3, <1>4, Zenon

\* The steps that report a verdict.
LEMMA VerdictStep ==
    ASSUME OriginInv, TrustInv, NEW p \in Proc, Step(p), NEW v \in verdicts' PROVE TrueVerdict(v)
<1>1. CASE verdicts' = verdicts
  BY <1>1, Zenon DEF TrustInv
<1>2. ASSUME NEW b, Verdict(p, <<"bundle", b>>, Provenance(p, b)) PROVE TrueVerdict(v)
  <2>. DEFINE d == <<"bundle", b>>
              w == [of |-> d, kind |-> Provenance(p, b), key |-> job[p].trust, ident |-> job[p].trustIdent]
  <2>1. v \in verdicts \/ v = w
    BY <1>2, Zenon DEF Verdict
  <2>2. v = w => TrueVerdict(v)
    <3>. HIDE DEF w
    <3>1. \A k : w = [of |-> d, kind |-> k, key |-> job[p].trust, ident |-> job[p].trustIdent] /\ k = Provenance(p, b)
                   => TrueVerdict(w)
      BY ReportSigned, Zenon
    <3>. QED BY <3>1, Zenon DEF w
  <2>. QED BY <2>1, <2>2, Zenon DEF TrustInv
<1>3. ASSUME NEW d, NEW k, Verdict(p, d, k),
             k = IF Readable THEN VerifyManagedAttestation(index.list, whole, d, job[p].trust, job[p].trustIdent) ELSE "refused"
      PROVE  TrueVerdict(v)
  <2>1. v \in verdicts \/ v = [of |-> d, kind |-> k, key |-> job[p].trust, ident |-> job[p].trustIdent]
    BY <1>3, Zenon DEF Verdict
  <2>2. k \in {"refused", VerifyManagedAttestation(index.list, whole, d, job[p].trust, job[p].trustIdent)}
    BY <1>3, Zenon
  <2>. QED BY <2>1, <2>2, ReportSigned, Zenon DEF TrustInv
<1>4. CASE PushVerified(p)
  BY <1>2, <1>4, Zenon DEF PushVerified
<1>5. CASE InspectProvenance(p)
  BY <1>2, <1>5, Zenon DEF InspectProvenance
<1>6. CASE InspectAttestation(p)
  BY <1>3, <1>6, Zenon DEF InspectAttestation
<1>7. CASE Run(p) \/ Stop(p) \/ OpenBlob(p) \/ CloseBlob(p)
  BY <1>1, <1>7, Zenon DEF Run, Stop, OpenBlob, CloseBlob
<1>8. CASE ReadIndex(p) \/ TruncateIndex(p) \/ WriteIndex(p)
  BY <1>1, <1>8, Zenon DEF ReadIndex, TruncateIndex, WriteIndex
<1>9. CASE BundleBegin(p) \/ PublishSBOM(p) \/ AttestBundle(p)
  BY <1>1, <1>9, Zenon DEF BundleBegin, PublishSBOM, AttestBundle
<1>10. CASE PushBegin(p) \/ PushResolve(p) \/ AttestImage(p) \/ Finish(p)
  BY <1>1, <1>10, Zenon DEF PushBegin, PushResolve, AttestImage, Finish
<1>11. CASE InspectManifest(p) \/ InspectBundle(p) \/ InspectDescriptor(p)
  BY <1>1, <1>11, Zenon DEF InspectManifest, InspectBundle, InspectDescriptor
<1>12. CASE FindSBOM(p) \/ CheckSBOM(p) \/ FindNone(p)
  BY <1>1, <1>12, Zenon DEF FindSBOM, CheckSBOM, FindNone
<1>. QED BY <1>4, <1>5, <1>6, <1>7, <1>8, <1>9, <1>10, <1>11, <1>12 DEF Step

\* Every step keeps the verdicts true.
LEMMA TrustStep ==
    ASSUME Shape, OriginInv, TrustInv, NEW p \in Proc, Step(p) PROVE TrustInv'
<1>1. Frame(p) /\ Effect(p)
  BY StepFrame, StepEffect, Zenon
<1>2. job' = job /\ \A q \in Proc : runs[q] > 0 => runs'[q] > 0
  BY <1>1, RunsOn DEF Frame
<1>3. \A v : TrueVerdict(v) => TrueVerdict(v)'
  BY <1>2 DEF TrueVerdict, Builds
<1>. QED BY <1>3, VerdictStep, Zenon DEF TrustInv

----------------------------------------------------------------------------
(* Launching.                                                              *)

\* What was put together and accepted launches.
LEMMA AppLaunches ==
    ASSUME Shape, NEW d, NEW p \in Proc, NEW q \in Proc, d[1] \in {"native", "index"},
           job[p].cmd = "push", Builds(p, d), AppBy(q, d)
    PROVE  LET c == d[2].cfg IN
           /\ BuildJVMArgs(c, <<>>, FALSE) # <<>>
           /\ c.cds # "none" => c.cds \in Shipped(d)
           /\ job[p].config = NoConfig \/ Managed(job[p]) => ArgFiles(c) \subseteq Shipped(d)
<1>. DEFINE a == d[2]
            j == job[p]
            c == a.cfg
            args == BuildJVMArgs(c, <<>>, FALSE)
<1>1. a = AppOf(j, a.bundle, a.sbom)
  BY Zenon DEF Builds
<1>2. Validate(c) /\ c.cds = a.archive
  <2>1. PICK b, x : a = AppOf(job[q], b, x)
    BY Zenon DEF AppBy
  <2>2. c = PushConfig(job[q]) /\ a.archive = ArchiveOf(job[q])
    BY <2>1 DEF AppOf
  <2>. QED BY <2>2, Zenon DEF AppBy, PushAccepted, validateCDSPairing
<1>3. Managed(j) => a.bundle # NoBundle
  <2>. SUFFICES ASSUME Managed(j) PROVE a.bundle # NoBundle
    BY Zenon
  <2>1. a.sbom = GenerateCycloneDX(a.bundle)
    BY Zenon DEF Builds
  <2>2. a.sbom # <<>>
    BY <2>1 DEF GenerateCycloneDX
  <2>3. ASSUME a = AppOf(job[q], NoBundle, <<>>) PROVE FALSE
    BY <2>2, <2>3 DEF AppOf
  <2>4. PICK b : b.lock # <<>> /\ a = AppOf(job[q], b, GenerateCycloneDX(b))
    BY <2>3, Zenon DEF AppBy
  <2>5. a.bundle = b
    BY <2>4 DEF AppOf
  <2>6. NoBundle.lock = <<>>
    BY Zenon DEF NoBundle
  <2>. QED BY <2>4, <2>5, <2>6, Zenon
<1>4. j.jar # "" /\ (j.config # NoConfig => DOMAIN j.config = DOMAIN DetectedConfig(j))
  BY ScenariosAssumption, Zenon DEF Shape
<1>0. a = d[2] /\ c = a.cfg /\ args = BuildJVMArgs(c, <<>>, FALSE)
  BY Zenon
<1>. HIDE DEF a, j, c, args
<1>5. /\ args # <<>> /\ (c.cds # "none" => c.cds \in Shipped(d))
      /\ j.config = NoConfig \/ Managed(j) => \A x \in Range(args) : Files(x) \subseteq Shipped(d)
  BY <1>0, <1>1, <1>2, <1>3, <1>4, AppRuns, Zenon
<1>6. ArgFiles(c) = UNION {Files(x) : x \in Range(args)}
  BY Zenon DEF ArgFiles, Files, args
<1>7. j.config = NoConfig \/ Managed(j) => ArgFiles(c) \subseteq Shipped(d)
  BY <1>5, <1>6, Zenon
<1>. QED BY <1>5, <1>7, Zenon DEF a, c, j, args

\* Every application that is listed launches.
LEMMA LaunchesHeld == Shape /\ OriginInv => PublishedLaunches
<1>. SUFFICES ASSUME Shape, OriginInv, NEW d \in Published, NEW p \in Proc,
                     d[1] \in {"native", "index"}, job[p].cmd = "push", Builds(p, d)
              PROVE  LET c == d[2].cfg IN
                     /\ BuildJVMArgs(c, <<>>, FALSE) # <<>>
                     /\ c.cds # "none" => c.cds \in Shipped(d)
                     /\ job[p].config = NoConfig \/ Managed(job[p]) => ArgFiles(c) \subseteq Shipped(d)
  BY Zenon DEF PublishedLaunches
<1>1. PICK q \in Proc : AppBy(q, d)
  BY Zenon DEF OriginInv, Seen, Good
<1>. QED BY <1>1, AppLaunches, Zenon

----------------------------------------------------------------------------
(* Admission.                                                              *)

\* The CLI and the admission plugin accept the same referrers of an image: what the CLI
\* asks for in the annotation every publisher has put there.
LEMMA AdmissionHeld == OriginInv => AdmissionAgrees
<1>. SUFFICES ASSUME OriginInv, NEW d \in Published, NEW k \in Signers, NEW i \in Signers, k[1] # "", i[2] # ""
     PROVE  (VerifyManagedAttestation(index.list, whole, d, k[1], i[2]) = "managed")
              <=> \E n \in {m \in Claims(index.list, d, "attestation") : Needs(index.list[m].digest) \subseteq whole} :
                    VerifyReference(whole, d, index.list[n].digest, k[1], i[2]) = "allow"
  BY Zenon DEF AdmissionAgrees
<1>. DEFINE key == k[1]
            ident == i[2]
            s == index.list
            C == Claims(s, d, "attestation")
            Fits(r) == /\ r[5] = "managed" /\ VerifyStatement(r[4], key, "managed", d)
                       /\ PredicateValid(r[4].pred, d) /\ r[4].pred.ident = ident
<1>1. Indexed(s, d)
  BY Zenon DEF Published, Indexed
<1>2. VerifyManagedAttestation(s, whole, d, key, ident) = "managed" <=> \E r \in Referrers(s, whole, d, "attestation") : Fits(r)
  BY <1>1, Zenon DEF VerifyManagedAttestation
<1>3. \A n \in C : s[n].digest \in Published /\ s[n].digest[1] = "referrer" /\ s[n].digest[2] = "attestation"
  BY Zenon DEF Claims, Published
<1>4. \A n \in C : Needs(s[n].digest) \subseteq whole <=> readReferrer(whole, s[n].digest)
  BY <1>3, FewBlobs, Zenon DEF readReferrer
<1>5. ASSUME NEW n \in C, readReferrer(whole, s[n].digest)
      PROVE  VerifyReference(whole, d, s[n].digest, key, ident) = "allow" <=> Fits(s[n].digest)
  <2>. DEFINE r == s[n].digest
  <2>1. r[1] = "referrer" /\ r[2] = "attestation" /\ r[5] = r[4].type
    BY <1>3, Zenon DEF OriginInv, Seen, Good
  <2>. HIDE DEF r
  <2>2. r \in whole /\ <<"document", r[2], r[4]>> \in whole
    BY <1>5, <2>1, FewBlobs, Zenon DEF readReferrer, r
  <2>3. VerifyReference(whole, d, r, key, ident) = "allow" <=> VerifyManagedStatement(r[4], key, ident, d)
    BY <2>1, <2>2, Zenon DEF VerifyReference
  <2>4. VerifyManagedStatement(r[4], key, ident, d) <=> Fits(r)
    BY <2>1, Zenon DEF VerifyManagedStatement, VerifyStatement
  <2>. QED BY <2>3, <2>4, Zenon DEF r
<1>6. Referrers(s, whole, d, "attestation") = {s[n].digest : n \in {m \in C : readReferrer(whole, s[m].digest)}}
  BY Zenon DEF Referrers
<1>. HIDE DEF key, ident, s, C, Fits
<1>7. (\E r \in Referrers(s, whole, d, "attestation") : Fits(r))
        <=> \E n \in {m \in C : Needs(s[m].digest) \subseteq whole} : VerifyReference(whole, d, s[n].digest, key, ident) = "allow"
  BY <1>4, <1>5, <1>6, Zenon
<1>. QED BY <1>2, <1>7, Zenon DEF key, ident, s, C

----------------------------------------------------------------------------
(* What is published.                                                      *)

\* The origins stay good, and the verdicts true.
LEMMA OriginKept == Spec => [](Shape /\ OriginInv /\ TrustInv)
<1>1. Init => Shape /\ OriginInv /\ TrustInv
  <2>. SUFFICES ASSUME Init PROVE Shape /\ OriginInv /\ TrustInv
    BY Zenon
  <2>. DEFINE x == <<"none">>
  <2>1. x[1] = "none"
    BY Zenon
  <2>. HIDE DEF x
  <2>2. None.digest = x /\ None.ref = Untagged
    BY Zenon DEF None, Untagged, x
  <2>3. Published = {} /\ Digests(<<>>) = {}
    BY DEF Init, Published, Digests
  <2>4. ASSUME NEW p \in Proc PROVE pc[p] = "idle" /\ entry[p] = None /\ base[p] = <<>>
    BY Zenon DEF Init
  <2>5. \A d \in Seen : d = x
    BY <2>2, <2>3, <2>4, Zenon DEF Seen
  <2>6. \A d \in Seen : Good(d)
    BY <2>1, <2>5, Zenon DEF Good
  <2>7. \A p \in Proc : Own(p)
    BY <2>1, <2>2, <2>4, Zenon DEF Own, Reading
  <2>8. TrustInv
    BY Zenon DEF Init, TrustInv
  <2>. QED BY <2>6, <2>7, <2>8, ShapeInit, Zenon DEF OriginInv
<1>2. Shape /\ OriginInv /\ TrustInv /\ [Next]_vars => (Shape /\ OriginInv /\ TrustInv)'
  <2>1. ASSUME UNCHANGED vars PROVE Shape /\ OriginInv /\ TrustInv => (Shape /\ OriginInv /\ TrustInv)'
    <3>1. Shape => Shape'
      BY <2>1, Zenon DEF Shape, vars
    <3>2. /\ job' = job /\ pc' = pc /\ entry' = entry /\ base' = base /\ got' = got
          /\ index' = index /\ runs' = runs /\ verdicts' = verdicts
      BY <2>1, Zenon DEF vars
    <3>3. OriginInv => OriginInv'
      <4>1. Seen' = Seen
        BY <3>2 DEF Seen, Published, Digests
      <4>2. \A q, d : AppBy(q, d)' <=> AppBy(q, d)
        BY <3>2 DEF AppBy
      <4>3. \A q, d : BundleBy(q, d)' <=> BundleBy(q, d)
        BY <3>2, Zenon DEF BundleBy
      <4>4. \A q, d : SignedBy(q, d)' <=> SignedBy(q, d)
        BY <3>2 DEF SignedBy, Builds
      <4>5. \A d : Good(d) => Good(d)'
        BY <4>2, <4>3, <4>4, Zenon DEF Good
      <4>6. \A p \in Proc : Own(p) => Own(p)'
        BY <3>2, <4>2, <4>3 DEF Own
      <4>. QED BY <4>1, <4>5, <4>6, Zenon DEF OriginInv
    <3>4. TrustInv => TrustInv'
      BY <3>2 DEF TrustInv, TrueVerdict, Builds
    <3>. QED BY <3>1, <3>3, <3>4, Zenon
  <2>2. ASSUME Shape, OriginInv, TrustInv, Next PROVE (Shape /\ OriginInv /\ TrustInv)'
    BY <2>2, ShapeStep, OriginStep, TrustStep, Zenon DEF Next
  <2>. QED BY <2>1, <2>2, Zenon
<1>. QED BY <1>1, <1>2, PTL DEF Spec

\* An image on a bundle was put together from a bundle that some push verified.
LEMMA TrustHeld == OriginInv /\ TrustInv => TrustSound
<1>. SUFFICES ASSUME OriginInv, TrustInv PROVE TrustSound
  BY Zenon
<1>1. ASSUME NEW d \in Published, d[1] = "index", d[2].bundle # NoBundle
      PROVE  \E v \in verdicts : v.of = <<"bundle", d[2].bundle>> /\ v.kind \in {"signed", "unsigned"}
  <2>1. PICK q \in Proc : AppBy(q, d)
    BY <1>1, Zenon DEF OriginInv, Seen, Good
  <2>2. d[2] # AppOf(job[q], NoBundle, <<>>)
    BY <1>1 DEF AppOf
  <2>3. PICK b : /\ d[2] = AppOf(job[q], b, GenerateCycloneDX(b))
                 /\ \E v \in verdicts : v.of = <<"bundle", b>> /\ v.kind \in {"signed", "unsigned"}
    BY <2>1, <2>2, Zenon DEF AppBy
  <2>4. d[2].bundle = b
    BY <2>3 DEF AppOf
  <2>. QED BY <2>3, <2>4, Zenon
<1>. QED BY <1>1, Zenon DEF TrustSound, TrustInv, TrueVerdict

\* Whatever runs on the layout, a bundle that is reported as signed and an image
\* that is reported as managed were put together by a command that held the
\* trusted key under the trusted identity, and an image is published only on a
\* bundle that a push has verified.
THEOREM TrustSafe == Spec => []TrustSound
BY OriginKept, TrustHeld, PTL

\* Whatever is listed launches, for every config that `brewlet push` accepts.
THEOREM LaunchesSafe == Spec => []PublishedLaunches
BY OriginKept, LaunchesHeld, PTL

\* The admission plugin, which looks at the signed statement, and `brewlet inspect`,
\* which also looks at its annotation, agree on every listed image, because no command
\* publishes a statement under the annotation of another.
THEOREM AdmissionSafe == Spec => []AdmissionAgrees
BY OriginKept, AdmissionHeld, PTL

============================================================================
