-------------------------- MODULE SupplyChainProofs --------------------------
(***************************************************************************)
(* Theorems about what stays published on one OCI layout: updates of the   *)
(* index that do not overlap lose nothing, so that a finished bundle       *)
(* verifies.                                                               *)
(***************************************************************************)
EXTENDS TrustProofs

----------------------------------------------------------------------------
(* What must be listed.                                                    *)

SBOMOf(q) ==
    Referrer("sbom", <<"bundle", BundleOf(job[q])>>, GenerateCycloneDX(BundleOf(job[q])), "")
AttestationOf(q, nonce) ==
    Referrer("attestation", <<"bundle", BundleOf(job[q])>>,
        SignStatement(job[q].sign, "bundle",
            [digest |-> <<"bundle", BundleOf(job[q])>>, code |-> "", bundle |-> BundleOf(job[q]),
             sbom |-> GenerateCycloneDX(BundleOf(job[q])), ident |-> job[q].ident], nonce), "bundle")

Duty == {"ref", "sbom", "attestation"}

\* q has published what the duty is about, and relies on its staying listed.
Due(q, k) ==
    \/ /\ k = "ref" /\ Publishes(q) /\ ~Retagged(q)
       /\ pc[q] \in {"done", "published"} \/ entry[q].digest[1] = "referrer"
    \/ /\ k = "sbom" /\ job[q].cmd = "dependency-bundle"
       /\ \/ pc[q] = "done" \/ About(q, "attestation")
          \/ pc[q] = "published" /\ About(q, "sbom")
    \/ /\ k = "attestation" /\ job[q].cmd = "dependency-bundle" /\ job[q].sign # ""
       /\ pc[q] = "done" \/ (pc[q] = "published" /\ About(q, "attestation"))

Meets(q, k, e) ==
    \/ k = "ref" /\ e.ref = job[q].ref /\ Builds(q, e.digest)
    \/ k = "sbom" /\ e.ref = Untagged /\ e.digest = SBOMOf(q)
    \/ k = "attestation" /\ e.ref = Untagged /\ \E nonce \in Proc \X Nat : e.digest = AttestationOf(q, nonce)

Has(s, q, k) == \E n \in DOMAIN s : Meets(q, k, s[n])

\* A referrer is listed once, and without a ref.
Plain(s) == \A n \in DOMAIN s : s[n].digest[1] = "referrer" => s[n].ref = Untagged

\* A process has something to publish from its first blob on, and no longer.
Writing == {"blob", "fill", "index", "published"} \cup Updates
Busy(p) ==
    /\ entry[p].digest[1] # "none" <=> pc[p] \in Writing
    /\ entry[p].digest[1] \in {"none", "bundle", "native", "index", "referrer"}
    /\ entry[p].digest[1] = "referrer" => entry[p].digest[2] \in {"sbom", "attestation"}
    /\ pc[p] \in Writing => Publishes(p)
    /\ job[p].cmd = "dependency-bundle" /\ pc[p] \in Writing \cup {"done"} => BundleAccepted(job[p])

OnceInv ==
    /\ Plain(index.list) /\ Once(index.list) /\ (index.state = "bad" => index.list = <<>>)
    /\ \A p \in Proc : Plain(base[p]) /\ Once(base[p]) /\ Busy(p)

\* What p is publishing is its own, and goes in.
Carries(p) ==
    /\ pc[p] \in Updates => \E n \in DOMAIN base[p] : base[p][n] = entry[p]
    /\ job[p].cmd = "dependency-bundle" /\ About(p, "sbom") => got[p] = {BundleOf(job[p])} /\ Meets(p, "sbom", entry[p])
    /\ job[p].cmd = "dependency-bundle" /\ About(p, "attestation") => Meets(p, "attestation", entry[p])

\* While no updates overlap: one process updates the index at a time, and finds
\* it as the truncation left it; what is due is listed, and about to be listed;
\* and an SBOM is one that its subject's builder generates.
Alone == \A p, q \in Proc : pc[p] \in Updates /\ pc[q] \in Updates => p = q
Blank == \A p \in Proc : pc[p] = "rewrite" => index = [state |-> "bad", list |-> <<>>]
Paid(q, k) ==
    /\ index.state # "bad" => Has(index.list, q, k)
    /\ \A p \in Proc : pc[p] \in Updates => Has(base[p], q, k)
Honest == \A d \in Seen : d[1] = "referrer" /\ d[2] = "sbom" => \E q \in Proc : d = SBOMOf(q)
DutyInv ==
    ~raced => /\ Alone /\ Blank /\ Honest
              /\ \A p \in Proc : Carries(p)
              /\ \A q \in Proc, k \in Duty : Due(q, k) => Paid(q, k)

----------------------------------------------------------------------------
(* What is listed is listed once.                                          *)

\* What is published as a referrer.
ForSBOM(p, d) ==
    /\ job[p].cmd = "dependency-bundle" /\ entry[p].digest[1] = "bundle" /\ d[2] = "sbom"
    /\ \E b : /\ d = Referrer("sbom", entry[p].digest, GenerateCycloneDX(b), "") /\ got'[p] = {b}
              /\ raced' \/ b = BundleOf(job[p])
ForBundle(p, d) ==
    /\ job[p].cmd = "dependency-bundle" /\ About(p, "sbom") /\ d[2] = "attestation"
    /\ \E b \in got[p] : d = Referrer("attestation", entry[p].digest[3], BundleStatement(p, b), "bundle")
ForImage(p, d) ==
    /\ job[p].cmd = "push" /\ Managed(job[p]) /\ entry[p].digest[1] = "index" /\ d[2] = "attestation"
    /\ d = Referrer("attestation", entry[p].digest, ImageStatement(p, entry[p].digest[2]), "managed")

\* The kinds of what is published next.
LEMMA SourceKind ==
    ASSUME NEW p, NEW d, NEW ref, Source(p, d, ref)
    PROVE  /\ d[1] \in {"bundle", "native", "index", "referrer"} /\ Publishes(p)
           /\ d[1] = "referrer" => d[2] \in {"sbom", "attestation"} /\ pc[p] = "published" /\ ref = Untagged
           /\ job[p].cmd = "dependency-bundle" => BundleAccepted(job[p]) \/ pc[p] = "published"
           /\ d[1] = "referrer" => ForSBOM(p, d) \/ ForBundle(p, d) \/ ForImage(p, d)
<1>1. CASE \E b : d = <<"bundle", b>> /\ job[p].cmd = "dependency-bundle" /\ BundleAccepted(job[p])
  <2>0. PICK b : d = <<"bundle", b>>
    BY <1>1, Zenon
  <2>1. d[1] = "bundle"
    BY <2>0
  <2>. QED BY <1>1, <2>1, Zenon DEF Publishes
<1>2. CASE /\ job[p].cmd = "dependency-bundle" /\ pc[p] = "published" /\ entry[p].digest[1] = "bundle" /\ ref = Untagged
           /\ \E b : /\ d = Referrer("sbom", entry[p].digest, GenerateCycloneDX(b), "") /\ got'[p] = {b}
                     /\ raced' \/ b = BundleOf(job[p])
  <2>0. PICK b : d = Referrer("sbom", entry[p].digest, GenerateCycloneDX(b), "")
    BY <1>2, Zenon
  <2>1. d[1] = "referrer" /\ d[2] = "sbom"
    BY <2>0, Zenon DEF Referrer
  <2>. QED BY <1>2, <2>1, Zenon DEF Publishes, ForSBOM
<1>3. CASE /\ job[p].cmd = "dependency-bundle" /\ pc[p] = "published" /\ About(p, "sbom") /\ ref = Untagged
           /\ \E b \in got[p] : d = Referrer("attestation", entry[p].digest[3], BundleStatement(p, b), "bundle")
  <2>0. PICK b \in got[p] : d = Referrer("attestation", entry[p].digest[3], BundleStatement(p, b), "bundle")
    BY <1>3, Zenon
  <2>1. d[1] = "referrer" /\ d[2] = "attestation"
    BY <2>0, Zenon DEF Referrer
  <2>. QED BY <1>3, <2>1, Zenon DEF Publishes, ForBundle
<1>4. CASE job[p].cmd = "push" /\ \E k \in {"native", "index"} : \E y : d = <<k, y>>
  <2>0. PICK k \in {"native", "index"} : \E y : d = <<k, y>>
    BY <1>4, Zenon
  <2>1. d[1] \in {"native", "index"}
    BY <2>0
  <2>. QED BY <1>4, <2>1, Zenon DEF Publishes
<1>5. CASE /\ job[p].cmd = "push" /\ pc[p] = "published" /\ Managed(job[p]) /\ entry[p].digest[1] = "index" /\ ref = Untagged
           /\ d = Referrer("attestation", entry[p].digest, ImageStatement(p, entry[p].digest[2]), "managed")
  <2>1. d[1] = "referrer" /\ d[2] = "attestation"
    BY <1>5, Zenon DEF Referrer
  <2>. QED BY <1>5, <2>1, Zenon DEF Publishes, ForImage
<1>. QED BY <1>1, <1>2, <1>3, <1>4, <1>5, Zenon DEF Source

\* A process keeps something to publish while it writes.
LEMMA BusyStep ==
    ASSUME NEW p \in Proc, Frame(p), Effect(p), Busy(p) PROVE Busy(p)'
<1>1. job' = job /\ (Publishes(p)' <=> Publishes(p))
  BY Zenon DEF Frame, Publishes
<1>2. \A l : Exits(p, l) => entry'[p].digest[1] = "none" /\ pc'[p] = l
  BY NoneIs, Zenon DEF Exits
<1>3. CASE Begins(p) \/ Looks(p)
  <2>1. entry'[p] = entry[p] /\ pc[p] \notin Writing /\ pc'[p] \notin Writing \cup {"done"}
    BY <1>3, Zenon DEF Begins, Looks, Resting, Writing, Updates, Reading
  <2>. QED BY <1>1, <2>1, Zenon DEF Busy
<1>4. CASE Leaves(p)
  <2>1. PICK l \in {"done", "failed", "down"} : Exits(p, l) /\ (l = "done" /\ Publishes(p) => pc[p] = "published")
    BY <1>4, Zenon DEF Leaves, Final
  <2>. QED BY <1>1, <1>2, <2>1, Zenon DEF Busy, Publishes, Writing, Updates
<1>5. CASE Puts(p)
  <2>1. PICK d, ref : Source(p, d, ref) /\ pc'[p] = "blob" /\ entry'[p] = [digest |-> d, ref |-> ref]
    BY <1>5, Zenon DEF Puts
  <2>2. /\ d[1] \in {"bundle", "native", "index", "referrer"} /\ Publishes(p)
        /\ d[1] = "referrer" => d[2] \in {"sbom", "attestation"}
        /\ job[p].cmd = "dependency-bundle" => BundleAccepted(job[p]) \/ pc[p] = "published"
    BY <2>1, SourceKind, Zenon
  <2>3. entry'[p].digest = d
    BY <2>1
  <2>. QED BY <1>1, <2>1, <2>2, <2>3, Zenon DEF Busy, Writing
<1>6. CASE Closes(p) /\ Exits(p, "failed")
  BY <1>1, <1>2, <1>6 DEF Busy, Writing, Updates
<1>7. CASE Opens(p) \/ (Closes(p) /\ ~Exits(p, "failed")) \/ Lists(p) \/ Skips(p) \/ Truncates(p) \/ Rewrites(p)
  <2>1. entry'[p] = entry[p] /\ pc[p] \in Writing /\ pc'[p] \in Writing
    BY <1>7, Zenon DEF Opens, Closes, Lists, Skips, ReadsAlone, Truncates, Rewrites, Keeps, Writing, Updates
  <2>. QED BY <1>1, <2>1, Zenon DEF Busy
<1>. QED BY <1>3, <1>4, <1>5, <1>6, <1>7, Zenon DEF Effect

\* What is about to be listed: referrers once, and without a ref.
LEMMA OnceListed ==
    ASSUME Shape, NEW p \in Proc, Lists(p), Own(p), Plain(index.list), Once(index.list)
    PROVE  Plain(base'[p]) /\ Once(base'[p])
<1>. DEFINE s == index.list
            e == entry[p]
            w == Without(s, e.ref)
<1>1. IsList(s) /\ Once(s)
  BY Zenon DEF Shape
<1>2. IsList(w) /\ Once(w)
  BY <1>1, WithoutIs, Zenon
<1>3. e.digest[1] = "referrer" => e.ref = Untagged
  BY Zenon DEF Own
<1>4. \/ base'[p] = Append(w, e) /\ e.digest[1] # "referrer"
      \/ base'[p] = Append(s, e) /\ \A n \in DOMAIN s : s[n].digest # e.digest
  BY <1>3, Zenon DEF Lists, upsertIndex, Appends, Indexed
<1>5. \A t : Plain(t) <=> \A x \in Range(t) : x.digest[1] = "referrer" => x.ref = Untagged
  BY Zenon DEF Plain, Range
<1>6. Range(base'[p]) \subseteq Range(s) \cup {e}
  BY ListedFrom, Zenon
<1>. HIDE DEF s, e, w
<1>7. Once(base'[p])
  BY <1>1, <1>2, <1>4, OnceAppend, Zenon
<1>8. Plain(s)
  BY Zenon DEF s
<1>. QED BY <1>3, <1>5, <1>6, <1>7, <1>8, Zenon

\* Every step keeps the lists so.
LEMMA OnceStep ==
    ASSUME Shape, OriginInv, OnceInv, NEW p \in Proc, Step(p) PROVE OnceInv'
<1>1. Frame(p) /\ Effect(p)
  BY StepFrame, StepEffect, Zenon
<1>. DEFINE Fit(s) == Plain(s) /\ Once(s)
<1>2. Fit(<<>>)
  BY DEF Plain, Once
<1>3. Fit(index.list) /\ Fit(base[p]) /\ (index.state = "bad" => index.list = <<>>) /\ Busy(p) /\ Own(p)
  BY Zenon DEF OnceInv, OriginInv
<1>4. Fit(base'[p])
  <2>1. base'[p] = base[p] \/ base'[p] = <<>> \/ Lists(p)
    BY <1>1, BaseFrom, Zenon
  <2>2. Lists(p) => Fit(base'[p])
    BY <1>3, OnceListed, Zenon
  <2>. QED BY <1>2, <1>3, <2>1, <2>2, Zenon
<1>5. Fit(index'.list) /\ (index'.state = "bad" => index'.list = <<>>)
  <2>1. \/ index' = index \/ index' = [state |-> "bad", list |-> <<>>]
        \/ index' = [state |-> "ok", list |-> base[p]]
    BY <1>1, IndexFrom, Zenon
  <2>. QED BY <1>2, <1>3, <2>1
<1>6. Busy(p)'
  BY <1>1, <1>3, BusyStep, Zenon
<1>7. ASSUME NEW q \in Proc, q # p PROVE Busy(q)' /\ base'[q] = base[q]
  <2>1. pc'[q] = pc[q] /\ entry'[q] = entry[q] /\ base'[q] = base[q] /\ job' = job /\ Busy(q)
    BY <1>1, <1>7, Zenon DEF Frame, OnceInv
  <2>. QED BY <2>1, Zenon DEF Busy, Publishes
<1>. HIDE DEF Fit
<1>8. \A q \in Proc : Fit(base'[q]) /\ Busy(q)'
  <2>1. \A q \in Proc : Fit(base[q])
    BY Zenon DEF OnceInv, Fit
  <2>. QED BY <1>4, <1>6, <1>7, <2>1, Zenon
<1>. QED BY <1>5, <1>8, Zenon DEF OnceInv, Fit

----------------------------------------------------------------------------
(* What is due is listed.                                                  *)

\* What a push built, it may attest.
LEMMA BuiltBy ==
    ASSUME NEW q \in Proc, NEW d, AppBy(q, d) \/ BundleBy(q, d)
    PROVE  Builds(q, d) /\ Publishes(q) /\ runs[q] > 0
<1>1. BundleBy(q, d) => Builds(q, d) /\ Publishes(q) /\ runs[q] > 0
  BY Zenon DEF BundleBy, Builds, Publishes
<1>2. ASSUME AppBy(q, d) PROVE Builds(q, d) /\ Publishes(q) /\ runs[q] > 0
  <2>1. PICK b, x : d[2] = AppOf(job[q], b, x) /\ (Managed(job[q]) => b.lock = sortLock(job[q].lock) /\ x = GenerateCycloneDX(b))
    BY <1>2, Zenon DEF AppBy
  <2>2. d[2].bundle = b /\ d[2].sbom = x
    BY <2>1 DEF AppOf
  <2>. QED BY <1>2, <2>1, <2>2, Zenon DEF AppBy, Builds, Publishes
<1>. QED BY <1>1, <1>2, Zenon

\* One process updates the index at a time.
LEMMA AloneStep ==
    ASSUME NEW p \in Proc, Frame(p), Effect(p), ~raced', Alone, Blank
    PROVE  Alone' /\ Blank'
<1>1. \A q \in Proc \ {p} : pc'[q] = pc[q]
  BY Zenon DEF Frame
<1>2. /\ pc'[p] \notin Updates \/ pc[p] \in Updates \/ \A q \in Proc \ {p} : pc[q] \notin Updates
      /\ pc'[p] = "rewrite" => index' = [state |-> "bad", list |-> <<>>]
      /\ index' = index \/ pc[p] \in Updates
  <2>1. Begins(p) \/ Leaves(p) \/ Looks(p) \/ Puts(p) => index' = index /\ pc'[p] \notin Updates
    BY Zenon DEF Begins, Leaves, Looks, Puts, Exits, Updates, Reading
  <2>2. Opens(p) \/ Closes(p) \/ Skips(p) => index' = index /\ pc'[p] \notin Updates
    BY Zenon DEF Opens, Closes, Exits, Skips, ReadsAlone, Updates
  <2>3. Lists(p) => index' = index /\ pc'[p] = "update" /\ \A q \in Proc \ {p} : pc[q] \notin Updates
    BY Zenon DEF Lists, ReadsAlone, Updating, Updates
  <2>4. Truncates(p) \/ Rewrites(p) =>
          /\ pc[p] \in Updates /\ (pc'[p] = "rewrite" => index' = [state |-> "bad", list |-> <<>>])
    BY Zenon DEF Truncates, Rewrites, Updates
  <2>. QED BY <2>1, <2>2, <2>3, <2>4, Zenon DEF Effect, Updates
<1>3. Alone'
  BY <1>1, <1>2, Zenon DEF Alone
<1>4. Blank'
  BY <1>1, <1>2, Zenon DEF Alone, Blank, Updates
<1>. QED BY <1>3, <1>4, Zenon

\* What a builder publishes besides its bundle is the SBOM, then the attestation,
\* that are due.
LEMMA SourceDue ==
    ASSUME Shape, NEW p \in Proc, NEW d, NEW ref, Source(p, d, ref), ~raced', Own(p), Carries(p)
    PROVE  /\ d[1] = "referrer" /\ d[2] = "sbom" =>
                job[p].cmd = "dependency-bundle" /\ got'[p] = {BundleOf(job[p])} /\ ref = Untagged /\ d = SBOMOf(p)
           /\ job[p].cmd = "dependency-bundle" /\ d[1] = "referrer" /\ d[2] = "attestation" =>
                ref = Untagged /\ \E nonce \in Proc \X Nat : d = AttestationOf(p, nonce)
<1>. DEFINE B == BundleOf(job[p])
            x == <<"bundle", B>>
<1>1. d[1] = "referrer" => ref = Untagged /\ (ForSBOM(p, d) \/ ForBundle(p, d) \/ ForImage(p, d))
  BY SourceKind
<1>2. /\ d[1] = "referrer" /\ d[2] = "sbom" => ref = Untagged /\ ForSBOM(p, d)
      /\ d[1] = "referrer" /\ d[2] = "attestation" /\ job[p].cmd = "dependency-bundle" => ref = Untagged /\ ForBundle(p, d)
  BY <1>1, Zenon DEF ForSBOM, ForBundle, ForImage
<1>3. entry[p].digest[1] = "bundle" => entry[p].digest = x
  BY Zenon DEF Own, BundleBy
<1>4. SBOMOf(p) = Referrer("sbom", x, GenerateCycloneDX(B), "")
  BY Zenon DEF SBOMOf
<1>5. job[p].cmd = "dependency-bundle" /\ About(p, "sbom") => got[p] = {B} /\ entry[p].digest = SBOMOf(p)
  BY Zenon DEF Carries, Meets
<1>6. <<p, runs[p]>> \in Proc \X Nat
  BY Zenon DEF Shape
<1>7. entry[p].digest[3] = x => Referrer("attestation", entry[p].digest[3], BundleStatement(p, B), "bundle") = AttestationOf(p, <<p, runs[p]>>)
  BY Zenon DEF BundleStatement, AttestationOf
<1>. HIDE DEF B, x
<1>8. d[1] = "referrer" /\ d[2] = "sbom" =>
        job[p].cmd = "dependency-bundle" /\ got'[p] = {B} /\ ref = Untagged /\ d = SBOMOf(p)
  BY <1>2, <1>3, <1>4, Zenon DEF B, ForSBOM
<1>9. ASSUME job[p].cmd = "dependency-bundle", d[1] = "referrer", d[2] = "attestation"
      PROVE  ref = Untagged /\ \E nonce \in Proc \X Nat : d = AttestationOf(p, nonce)
  <2>1. /\ About(p, "sbom") /\ ref = Untagged
        /\ \E b \in got[p] : d = Referrer("attestation", entry[p].digest[3], BundleStatement(p, b), "bundle")
    BY <1>2, <1>9, Zenon DEF ForBundle
  <2>2. d = Referrer("attestation", entry[p].digest[3], BundleStatement(p, B), "bundle")
    BY <1>5, <1>9, <2>1, Zenon
  <2>3. entry[p].digest[3] = x
    <3>. DEFINE y == Referrer("sbom", x, GenerateCycloneDX(B), "")
    <3>1. y[3] = x
      BY Zenon DEF Referrer
    <3>. HIDE DEF y
    <3>. QED BY <1>4, <1>5, <1>9, <2>1, <3>1, Zenon DEF y
  <2>. QED BY <1>6, <1>7, <2>1, <2>2, <2>3, Zenon
<1>. QED BY <1>8, <1>9, Zenon DEF B

\* What a process carries stays its own; an SBOM that it turns to is the one due.
LEMMA CarriesStep ==
    ASSUME Shape, NEW p \in Proc, Frame(p), Effect(p), ~raced', Own(p), Busy(p), Carries(p)
    PROVE  /\ Carries(p)'
           /\ \A d : d = entry'[p].digest /\ d[1] = "referrer" /\ d[2] = "sbom" => d = entry[p].digest \/ d = SBOMOf(p)
<1>1. job' = job /\ \A k, e : Meets(p, k, e)' <=> Meets(p, k, e)
  BY DEF Frame, Meets, SBOMOf, AttestationOf, Builds
<1>2. ASSUME entry'[p].digest[1] = "none", pc'[p] \notin Updates PROVE Carries(p)'
  BY <1>2, Zenon DEF Carries, About
<1>3. \A l \in {"done", "failed", "down"} : Exits(p, l) => entry'[p].digest[1] = "none" /\ pc'[p] \notin Updates
  BY NoneIs, Zenon DEF Exits, Updates
<1>4. Begins(p) \/ Looks(p) => entry'[p].digest = entry[p].digest /\ entry[p].digest[1] = "none" /\ pc'[p] \notin Updates
  BY Zenon DEF Begins, Looks, Busy, Resting, Writing, Updates, Reading
<1>5. CASE Puts(p)
  <2>1. PICK d, ref : Source(p, d, ref) /\ pc'[p] = "blob" /\ entry'[p] = [digest |-> d, ref |-> ref]
    BY <1>5, Zenon DEF Puts
  <2>2. /\ d[1] = "referrer" /\ d[2] = "sbom" =>
             job[p].cmd = "dependency-bundle" /\ got'[p] = {BundleOf(job[p])} /\ ref = Untagged /\ d = SBOMOf(p)
        /\ job[p].cmd = "dependency-bundle" /\ d[1] = "referrer" /\ d[2] = "attestation" =>
             ref = Untagged /\ \E nonce \in Proc \X Nat : d = AttestationOf(p, nonce)
    BY <2>1, SourceDue, Zenon
  <2>3. entry'[p].digest = d /\ entry'[p].ref = ref
    BY <2>1
  <2>4. /\ d[1] = "referrer" /\ d[2] = "sbom" => Meets(p, "sbom", entry'[p])
        /\ job[p].cmd = "dependency-bundle" /\ d[1] = "referrer" /\ d[2] = "attestation" => Meets(p, "attestation", entry'[p])
    BY <2>2, <2>3, Zenon DEF Meets
  <2>5. Carries(p)'
    BY <1>1, <2>1, <2>2, <2>3, <2>4, Zenon DEF Carries, About, Updates
  <2>. QED BY <2>2, <2>3, <2>5, Zenon
<1>6. CASE Lists(p)
  <2>1. entry'[p] = entry[p] /\ got'[p] = got[p]
    BY <1>6, Zenon DEF Lists, ReadsAlone, Keeps
  <2>2. \E n \in DOMAIN base'[p] : base'[p][n] = entry[p]
    <3>1. entry[p] \in Range(base'[p])
      BY <1>6, ListedFrom, Zenon
    <3>. QED BY <3>1, Zenon DEF Range
  <2>. QED BY <1>1, <2>1, <2>2, Zenon DEF Carries, About
<1>7. ASSUME entry'[p] = entry[p], got'[p] = got[p], pc'[p] \in Updates => pc[p] \in Updates /\ base'[p] = base[p]
      PROVE  Carries(p)'
  BY <1>1, <1>7, Zenon DEF Carries, About
<1>8. Opens(p) \/ (Closes(p) /\ ~Exits(p, "failed")) \/ Skips(p) \/ Truncates(p) \/ Rewrites(p) =>
        entry'[p] = entry[p] /\ got'[p] = got[p] /\ (pc'[p] \in Updates => pc[p] \in Updates /\ base'[p] = base[p])
  BY Zenon DEF Opens, Closes, Skips, ReadsAlone, Truncates, Rewrites, Keeps, Updates
<1>9. CASE ~Puts(p) /\ ~Lists(p)
  <2>1. \/ entry'[p] = entry[p] /\ got'[p] = got[p] /\ (pc'[p] \in Updates => pc[p] \in Updates /\ base'[p] = base[p])
        \/ entry'[p].digest[1] = "none" /\ pc'[p] \notin Updates
    BY <1>3, <1>4, <1>8, <1>9, Zenon DEF Effect, Leaves
  <2>. QED BY <1>2, <1>7, <2>1, Zenon
<1>. QED BY <1>5, <1>6, <1>9, <1>1, Zenon DEF Lists, ReadsAlone, Keeps

\* For the other processes nothing new is due.
LEMMA DueOthers ==
    ASSUME Shape, NEW p \in Proc, Frame(p), Effect(p), NEW q \in Proc \ {p}, NEW k, Due(q, k)'
    PROVE  Due(q, k)
<1>1. job' = job /\ pc'[q] = pc[q] /\ entry'[q] = entry[q]
  BY Zenon DEF Frame
<1>2. \A r \in Proc : runs[r] > 0 => runs'[r] > 0
  BY RunsOn
<1>3. Retagged(q) => Retagged(q)'
  BY <1>1, <1>2, Zenon DEF Retagged, Publishes
<1>. QED BY <1>1, <1>3, Zenon DEF Due, About, Publishes

\* For a process itself, what it has just listed.
LEMMA DueOwn ==
    ASSUME Shape, NEW p \in Proc, Frame(p), Effect(p), Own(p), Busy(p), Carries(p), NEW k \in Duty, Due(p, k)'
    PROVE  \/ Due(p, k)
           \/ (Rewrites(p) \/ Skips(p)) /\ Meets(p, k, entry[p])
<1>1. job' = job
  BY Zenon DEF Frame
<1>2. Retagged(p) => Retagged(p)'
  <2>1. \A r \in Proc : runs[r] > 0 => runs'[r] > 0
    BY RunsOn
  <2>. QED BY <1>1, <2>1, Zenon DEF Retagged, Publishes
<1>3. \A l : Exits(p, l) => entry'[p].digest[1] = "none" /\ pc'[p] = l
  BY NoneIs, Zenon DEF Exits
<1>4. ~Begins(p) /\ ~Looks(p)
  <2>1. Begins(p) \/ Looks(p) => entry'[p].digest[1] = "none" /\ pc'[p] \notin {"done", "published"}
    BY Zenon DEF Begins, Looks, Busy, Resting, Writing, Updates, Reading
  <2>. QED BY <2>1, Zenon DEF Due, About
<1>5. CASE Leaves(p)
  <2>1. PICK l \in {"done", "failed", "down"} : Exits(p, l) /\ (l = "done" /\ Publishes(p) => Final(p))
    BY <1>5, Zenon DEF Leaves
  <2>2. pc'[p] = "done" /\ Publishes(p) /\ Final(p) /\ entry'[p].digest[1] = "none"
    BY <1>1, <1>3, <2>1, Zenon DEF Due, About, Publishes
  <2>3. entry[p].digest[1] = "referrer" => entry[p].digest[2] \in {"sbom", "attestation"}
    BY Zenon DEF Busy
  <2>. QED BY <1>1, <1>2, <2>2, <2>3, Zenon DEF Due, Final, About, Publishes
<1>6. CASE Puts(p)
  <2>1. PICK d, ref : Source(p, d, ref) /\ pc'[p] = "blob" /\ entry'[p] = [digest |-> d, ref |-> ref]
    BY <1>5, <1>6, Zenon DEF Puts
  <2>2. d[1] = "referrer" => d[2] \in {"sbom", "attestation"} /\ pc[p] = "published"
    BY <2>1, SourceKind, Zenon
  <2>3. ASSUME job[p].cmd = "dependency-bundle", d[1] = "referrer", d[2] = "attestation" PROVE About(p, "sbom")
    BY <2>1, <2>3, SourceKind, Zenon DEF ForSBOM, ForBundle, ForImage
  <2>4. entry'[p].digest = d
    BY <2>1
  <2>. QED BY <1>1, <1>2, <2>1, <2>2, <2>3, <2>4, Zenon DEF Due, About, Publishes
<1>7. CASE Closes(p) /\ Exits(p, "failed")
  <2>1. pc'[p] = "failed" /\ entry'[p].digest[1] = "none"
    BY <1>3, <1>7, Zenon
  <2>. QED BY <2>1, Zenon DEF Due, About
<1>8. ASSUME entry'[p] = entry[p], pc'[p] \notin {"done", "published"} PROVE Due(p, k)
  BY <1>1, <1>2, <1>8, Zenon DEF Due, About, Publishes
<1>9. Opens(p) \/ (Closes(p) /\ ~Exits(p, "failed")) \/ Lists(p) \/ Truncates(p)
        => entry'[p] = entry[p] /\ pc'[p] \notin {"done", "published"}
  BY Zenon DEF Opens, Closes, Lists, ReadsAlone, Truncates, Keeps
<1>10. CASE Rewrites(p) \/ Skips(p)
  <2>1. entry'[p] = entry[p] /\ pc'[p] = "published" /\ pc[p] \in Writing
    BY <1>10, Zenon DEF Rewrites, Skips, ReadsAlone, Keeps, Writing, Updates
  <2>2. entry[p].digest[1] \in {"bundle", "native", "index", "referrer"}
    BY <2>1, Zenon DEF Busy
  <2>3. entry[p].digest[1] \in {"bundle", "native", "index"} => Meets(p, "ref", entry[p])
    BY BuiltBy, Zenon DEF Own, Meets
  <2>. QED BY <1>1, <1>2, <1>10, <2>1, <2>2, <2>3, Zenon DEF Due, Carries, About, Publishes
<1>. QED BY <1>4, <1>5, <1>6, <1>7, <1>8, <1>9, <1>10, Zenon DEF Effect

\* What is due outlives the update of another: it has another ref, or the update
\* adds without dropping, or none but this process has run on a lost index.
LEMMA ListedDue ==
    ASSUME Shape, NEW p \in Proc, Lists(p), ~raced', Own(p), \A r \in Proc : Busy(r),
           NEW q \in Proc, NEW k \in Duty, Due(q, k), Paid(q, k)
    PROVE  Has(base'[p], q, k)
<1>1. entry[p].ref # Untagged => /\ entry[p].digest[1] # "referrer" /\ entry[p].ref = job[p].ref
                                 /\ Publishes(p) /\ runs[p] > 0
  BY BuiltBy, Zenon DEF Own
<1>2. pc[p] = "index"
  BY Zenon DEF Lists, ReadsAlone
<1>3. index.state # "bad"
  <2>1. ASSUME index.state = "bad" PROVE FALSE
    <3>1. entry[p].ref # Untagged /\ \A r \in Proc \ {p} : ~(runs[r] > 0)
      BY <2>1, Zenon DEF Lists, ReadsAlone
    <3>2. q # p
      BY <1>1, <1>2, <3>1, Zenon DEF Due, About
    <3>3. pc[q] = "idle"
      BY <3>1, <3>2, Zenon DEF Shape
    <3>4. entry[q].digest[1] = "none"
      BY <3>3, Zenon DEF Busy, Writing, Updates
    <3>. QED BY <3>3, <3>4, Zenon DEF Due, About
  <2>. QED BY <2>1, Zenon
<1>4. PICK n \in DOMAIN index.list : Meets(q, k, index.list[n])
  BY <1>3, Zenon DEF Paid, Has
<1>. DEFINE x == index.list[n]
<1>5. x \in Range(index.list) /\ Meets(q, k, x)
  BY <1>4, Zenon DEF Range
<1>. HIDE DEF x
<1>6. entry[p].ref = Untagged \/ x.ref # entry[p].ref
  <2>1. ASSUME entry[p].ref # Untagged, x.ref = entry[p].ref PROVE FALSE
    <3>1. k = "ref" /\ job[q].ref = job[p].ref
      BY <1>1, <1>5, <2>1, Zenon DEF Meets
    <3>2. q # p
      BY <1>1, <1>2, <2>1, <3>1, Zenon DEF Due
    <3>3. Retagged(q)
      BY <1>1, <2>1, <3>1, <3>2 DEF Retagged
    <3>. QED BY <3>1, <3>3, Zenon DEF Due
  <2>. QED BY <2>1, Zenon
<1>7. x \in Range(base'[p])
  BY <1>5, <1>6, ListedFrom, Zenon
<1>. QED BY <1>5, <1>7, Zenon DEF Has, Range

\* A step that leaves the lists alone leaves what is due in them.
LEMMA DueLists ==
    ASSUME Shape, OnceInv, NEW p \in Proc, Frame(p), Effect(p), ~raced', Own(p), Alone, Carries(p),
           NEW q \in Proc, NEW k \in Duty, Due(q, k) => Paid(q, k),
           Due(q, k) \/ (q = p /\ (Rewrites(p) \/ Skips(p)) /\ Meets(p, k, entry[p]))
    PROVE  /\ index'.state # "bad" => Has(index'.list, q, k)
           /\ \A r \in Proc : pc'[r] \in Updates => Has(base'[r], q, k)
<1>1. \A r \in Proc \ {p} : pc'[r] = pc[r] /\ base'[r] = base[r]
  BY Zenon DEF Frame
<1>2. CASE Lists(p)
  <2>1. /\ index' = index /\ pc'[p] = "update" /\ ~Rewrites(p) /\ ~Skips(p)
        /\ \A r \in Proc \ {p} : pc[r] \notin Updates
    BY <1>2, Zenon DEF Lists, ReadsAlone, Updating, Updates, Rewrites, Skips
  <2>2. Has(base'[p], q, k)
    BY <1>2, <2>1, ListedDue DEF OnceInv
  <2>. QED BY <1>1, <2>1, <2>2, Zenon DEF Paid
<1>3. CASE Rewrites(p)
  <2>1. /\ pc[p] \in Updates /\ pc'[p] \notin Updates
        /\ index' = [state |-> "ok", list |-> base[p]] \/ index' = [state |-> "bad", list |-> <<>>]
    BY <1>3, Zenon DEF Rewrites, Updates
  <2>2. \A r \in Proc \ {p} : pc[r] \notin Updates
    BY <2>1, Zenon DEF Alone
  <2>3. Has(base[p], q, k)
    BY <2>1, Zenon DEF Paid, Carries, Has
  <2>4. index'.state # "bad" => index'.list = base[p]
    BY <2>1
  <2>. QED BY <1>1, <2>1, <2>2, <2>3, <2>4, Zenon
<1>4. CASE Skips(p)
  <2>1. /\ index' = index /\ pc'[p] \notin Updates /\ entry[p].ref = Untagged
        /\ \A r \in Proc \ {p} : pc[r] \notin Updates
    BY <1>4, Zenon DEF Skips, ReadsAlone, Updating, Updates
  <2>2. PICK n \in DOMAIN index.list : index.list[n].digest = entry[p].digest
    BY <1>4, Zenon DEF Skips, Appends, Indexed
  <2>3. ASSUME q = p, Meets(p, k, entry[p]) PROVE Has(index.list, q, k)
    <3>1. entry[p].digest[1] = "referrer" /\ job[p].ref # Untagged
      <4>1. job[p].ref # Untagged /\ entry[p].digest[1] \in {"bundle", "native", "index", "referrer"}
        <5>1. pc[p] \in Writing /\ Busy(p)
          BY <1>4, Zenon DEF Skips, ReadsAlone, OnceInv, Writing
        <5>. QED BY <5>1, ScenariosAssumption, Zenon DEF Busy, Shape, Publishes
      <4>. QED BY <2>1, <4>1, Zenon DEF Own
    <3>2. index.list[n].ref = Untagged
      BY <2>2, <3>1, Zenon DEF OnceInv, Plain
    <3>. QED BY <2>1, <2>2, <2>3, <3>1, <3>2, Zenon DEF Meets, Has
  <2>4. index.state # "bad" => Has(index.list, q, k)
    BY <2>3, Zenon DEF Paid
  <2>. QED BY <1>1, <2>1, <2>4, Zenon
<1>5. CASE ~Lists(p) /\ ~Rewrites(p) /\ ~Skips(p)
  <2>1. Begins(p) \/ Leaves(p) \/ Looks(p) \/ Puts(p) => index' = index /\ pc'[p] \notin Updates
    BY Zenon DEF Begins, Leaves, Looks, Puts, Exits, Updates, Reading
  <2>2. Opens(p) \/ Closes(p) => index' = index /\ pc'[p] \notin Updates
    BY Zenon DEF Opens, Closes, Exits, Updates
  <2>3. Truncates(p) => index'.state = "bad" /\ pc[p] \in Updates /\ base'[p] = base[p]
    BY DEF Truncates, Updates
  <2>4. (index' = index /\ pc'[p] \notin Updates) \/ (index'.state = "bad" /\ pc[p] \in Updates /\ base'[p] = base[p])
    BY <1>5, <2>1, <2>2, <2>3, Zenon DEF Effect
  <2>. QED BY <1>1, <1>5, <2>4, Zenon DEF Paid
<1>. QED BY <1>2, <1>3, <1>4, <1>5, Zenon

\* Every step pays what is due, as long as no updates overlap.
LEMMA DutyStep ==
    ASSUME Shape, OriginInv, OnceInv, DutyInv, NEW p \in Proc, Step(p) PROVE DutyInv'
<1>1. Frame(p) /\ Effect(p)
  BY StepFrame, StepEffect, Zenon
<1>2. SUFFICES ASSUME ~raced'
               PROVE  /\ Alone' /\ Blank' /\ Honest'
                      /\ \A q \in Proc : Carries(q)'
                      /\ \A q \in Proc, k \in Duty : Due(q, k)' => Paid(q, k)'
  BY Zenon DEF DutyInv
<1>3. ~raced /\ job' = job
  BY <1>1, <1>2, Zenon DEF Frame
<1>4. /\ Alone /\ Blank /\ Honest
      /\ \A q \in Proc : Carries(q)
      /\ \A q \in Proc, k \in Duty : Due(q, k) => Paid(q, k)
  BY <1>3, Zenon DEF DutyInv
<1>5. Own(p) /\ Busy(p)
  BY Zenon DEF OriginInv, OnceInv
<1>6. Alone' /\ Blank'
  BY <1>1, <1>2, <1>4, AloneStep, Zenon
<1>7. /\ Carries(p)'
      /\ \A d : d = entry'[p].digest /\ d[1] = "referrer" /\ d[2] = "sbom" => d = entry[p].digest \/ d = SBOMOf(p)
  BY <1>1, <1>2, <1>4, <1>5, CarriesStep, Zenon
<1>8. \A q, k, e : (Meets(q, k, e)' <=> Meets(q, k, e)) /\ SBOMOf(q)' = SBOMOf(q)
  BY <1>3 DEF Meets, SBOMOf, AttestationOf, Builds
<1>9. ASSUME NEW q \in Proc PROVE Carries(q)'
  <2>1. q # p => Carries(q) /\ pc'[q] = pc[q] /\ entry'[q] = entry[q] /\ base'[q] = base[q] /\ got'[q] = got[q]
    BY <1>1, <1>4, Zenon DEF Frame
  <2>2. q # p => Carries(q)'
    BY <1>3, <1>8, <2>1, Zenon DEF Carries, About
  <2>. QED BY <1>7, <2>2, Zenon
<1>10. Honest'
  <2>1. ASSUME NEW d \in Seen', d[1] = "referrer", d[2] = "sbom" PROVE \E q \in Proc : d = SBOMOf(q)
    <3>1. d \in Seen \/ d = entry'[p].digest
      BY <1>1, SeenFrom, Zenon
    <3>2. d \in Seen \/ d = SBOMOf(p)
      BY <1>7, <2>1, <3>1, Zenon DEF Seen
    <3>. QED BY <1>4, <2>1, <3>2, Zenon DEF Honest
  <2>. QED BY <1>8, <2>1, Zenon DEF Honest
<1>11. ASSUME NEW q \in Proc, NEW k \in Duty, Due(q, k)' PROVE Paid(q, k)'
  <2>1. Due(q, k) \/ (q = p /\ (Rewrites(p) \/ Skips(p)) /\ Meets(p, k, entry[p]))
    <3>1. q # p => Due(q, k)
      BY <1>1, <1>11, DueOthers, Zenon
    <3>2. Carries(p)
      BY <1>4, Zenon
    <3>3. q = p => Due(p, k) \/ ((Rewrites(p) \/ Skips(p)) /\ Meets(p, k, entry[p]))
      BY <1>1, <1>5, <1>11, <3>2, DueOwn, Zenon
    <3>. QED BY <3>1, <3>3, Zenon
  <2>2. (Due(q, k) => Paid(q, k)) /\ Carries(p)
    BY <1>4, Zenon
  <2>3. /\ index'.state # "bad" => Has(index'.list, q, k)
        /\ \A r \in Proc : pc'[r] \in Updates => Has(base'[r], q, k)
    BY <1>1, <1>2, <1>4, <1>5, <2>1, <2>2, DueLists, Zenon
  <2>. QED BY <1>8, <2>3, Zenon DEF Paid, Has
<1>. QED BY <1>6, <1>9, <1>10, <1>11, Zenon

\* What a command owes, and what it has, hold together in every run of the store.
LEMMA DutyKept == Spec => [](Shape /\ OriginInv /\ OnceInv /\ DutyInv)
<1>1. Init => OnceInv /\ DutyInv
  <2>. SUFFICES ASSUME Init PROVE OnceInv /\ DutyInv
    BY Zenon
  <2>1. index.list = <<>> /\ Published = {} /\ Digests(<<>>) = {} /\ Plain(<<>>) /\ Once(<<>>)
    BY DEF Init, Published, Digests, Plain, Once
  <2>2. ASSUME NEW p \in Proc
        PROVE  pc[p] = "idle" /\ entry[p] = None /\ base[p] = <<>> /\ entry[p].digest[1] = "none"
    BY NoneIs, Zenon DEF Init
  <2>3. \A p \in Proc : Busy(p)
    BY <2>2, Zenon DEF Busy, Writing, Updates
  <2>4. OnceInv
    BY <2>1, <2>2, <2>3, Zenon DEF OnceInv
  <2>5. \A p \in Proc : Carries(p) /\ pc[p] \notin Updates /\ \A k : ~Due(p, k)
    BY <2>2, Zenon DEF Carries, About, Due, Updates
  <2>6. Alone /\ Blank
    BY <2>2, <2>5, Zenon DEF Alone, Blank
  <2>7. \A d \in Seen : d[1] = "none"
    BY <2>1, <2>2 DEF Seen
  <2>. QED BY <2>4, <2>5, <2>6, <2>7, Zenon DEF DutyInv, Honest
<1>2. OriginInv /\ OnceInv /\ DutyInv /\ Shape /\ Shape' /\ [Next]_vars => (OnceInv /\ DutyInv)'
  <2>1. ASSUME UNCHANGED vars PROVE (OnceInv => OnceInv') /\ (DutyInv => DutyInv')
    <3>1. /\ job' = job /\ pc' = pc /\ entry' = entry /\ base' = base /\ got' = got /\ index' = index
          /\ runs' = runs /\ raced' = raced
      BY <2>1, Zenon DEF vars
    <3>2. OnceInv => OnceInv'
      BY <3>1, Zenon DEF OnceInv, Busy, Publishes
    <3>3. Seen' = Seen
      BY <3>1 DEF Seen, Published, Digests
    <3>4. \A q, k, e : (Meets(q, k, e)' <=> Meets(q, k, e)) /\ SBOMOf(q)' = SBOMOf(q)
      BY <3>1 DEF Meets, SBOMOf, AttestationOf, Builds
    <3>5. \A q, k : Due(q, k)' <=> Due(q, k)
      BY <3>1 DEF Due, About, Retagged, Publishes
    <3>6. \A q, k : (Paid(q, k)' <=> Paid(q, k)) /\ (Carries(q)' <=> Carries(q))
      BY <3>1, <3>4 DEF Paid, Has, Carries, About
    <3>7. (Alone' <=> Alone) /\ (Blank' <=> Blank) /\ (Honest' <=> Honest)
      BY <3>1, <3>3, <3>4, Zenon DEF Alone, Blank, Honest
    <3>. QED BY <3>1, <3>2, <3>5, <3>6, <3>7, Zenon DEF DutyInv
  <2>2. ASSUME Shape, OriginInv, OnceInv, DutyInv, Next PROVE (OnceInv /\ DutyInv)'
    BY <2>2, OnceStep, DutyStep, Zenon DEF Next
  <2>. QED BY <2>1, <2>2, Zenon
<1>. QED BY <1>1, <1>2, OriginKept, PTL DEF Spec

\* What a command has published under a ref stays listed, unless another command
\* published under the ref, whatever runs and stops meanwhile, as long as no two
\* updates of the index overlap (upsertIndex, appendIndex).
THEOREM NothingSafe == Spec => []NothingLost
<1>1. DutyInv => NothingLost
  <2>. SUFFICES ASSUME DutyInv, NEW p \in Proc, pc[p] = "done", Publishes(p), ~raced, index.state = "ok", ~Retagged(p)
       PROVE  \E n \in DOMAIN index.list : index.list[n].ref = job[p].ref /\ Builds(p, index.list[n].digest)
    BY Zenon DEF NothingLost
  <2>1. Due(p, "ref")
    BY Zenon DEF Due
  <2>2. Has(index.list, p, "ref")
    BY <2>1, Zenon DEF DutyInv, Paid, Duty
  <2>. QED BY <2>2, Zenon DEF Has, Meets
<1>. QED BY <1>1, DutyKept, PTL

\* The SBOM of a bundle whose builder has finished is the only one that claims it.
LEMMA SBOMVerifies ==
    ASSUME OnceInv, Honest, NEW p \in Proc, Has(index.list, p, "sbom"),
           <<"bundle", BundleOf(job[p])>> \in Published, BundleWhole(<<"bundle", BundleOf(job[p])>>)
    PROVE  CountSBOM(index.list, BundleOf(job[p])) /\ VerifySBOM(index.list, whole, BundleOf(job[p]))
<1>. DEFINE B == BundleOf(job[p])
            x == <<"bundle", B>>
            s == index.list
            y == SBOMOf(p)
            C == Claims(s, x, "sbom")
<1>1. \A q : LET r == SBOMOf(q) IN /\ r[1] = "referrer" /\ r[2] = "sbom" /\ r[3] = <<"bundle", BundleOf(job[q])>>
                                   /\ r[4] = GenerateCycloneDX(BundleOf(job[q]))
  BY Zenon DEF SBOMOf, Referrer
<1>2. \A q : <<"bundle", BundleOf(job[q])>> = x => SBOMOf(q) = y
  BY Zenon DEF SBOMOf
<1>3. PICK n \in DOMAIN s : s[n].digest = y
  BY Zenon DEF Has, Meets
<1>4. VerifySBOM(s, whole, B) <=>
        /\ Indexed(s, x)
        /\ \E r \in Referrers(s, whole, x, "sbom") : Referrers(s, whole, x, "sbom") = {r}
        /\ \A r \in Referrers(s, whole, x, "sbom") : validateCycloneDX(r[4], B)
  BY Zenon DEF VerifySBOM
<1>5. /\ y[1] = "referrer" /\ y[2] = "sbom" /\ y[3] = x /\ y[4] = GenerateCycloneDX(B)
      /\ \A q : SBOMOf(q)[3] = x => SBOMOf(q) = y
  BY <1>1, <1>2, Zenon
<1>6. Indexed(s, x) /\ (\A m \in DOMAIN s : s[m].digest \in Seen) /\ y \in Published
  BY <1>3, Zenon DEF Published, Indexed, Seen
<1>7. BundleWhole(x) /\ Once(s)
  BY Zenon DEF OnceInv
<1>. HIDE DEF B, x, s, y, C
<1>8. C = {n}
  <2>1. n \in C
    BY <1>3, <1>5, Zenon DEF C, Claims
  <2>2. ASSUME NEW m \in C PROVE m = n
    <3>1. m \in DOMAIN s /\ s[m].digest[1] = "referrer" /\ s[m].digest[2] = "sbom" /\ s[m].digest[3] = x
      BY Zenon DEF C, Claims
    <3>2. PICK q \in Proc : s[m].digest = SBOMOf(q)
      BY <1>6, <3>1, Zenon DEF Honest
    <3>3. s[m].digest = y
      BY <1>5, <3>1, <3>2, Zenon
    <3>. QED BY <1>3, <1>7, <3>1, <3>3, Zenon DEF Once
  <2>. QED BY <2>1, <2>2, Zenon
<1>9. readReferrer(whole, y)
  BY <1>5, <1>6, <1>7, Zenon DEF BundleWhole, Needs, readReferrer
<1>10. Referrers(s, whole, x, "sbom") = {y}
  BY <1>3, <1>8, <1>9, Zenon DEF Referrers, C
<1>11. validateCycloneDX(y[4], B)
  BY <1>5 DEF validateCycloneDX, GenerateCycloneDX
<1>12. CountSBOM(s, B)
  BY <1>6, <1>8, Zenon DEF CountSBOM, C, x
<1>. QED BY <1>4, <1>6, <1>10, <1>11, <1>12, Zenon DEF B, s

\* ... and the attestation that is due names the key, the identity and the bundle.
LEMMA AttestationVerifies ==
    ASSUME NEW p \in Proc, BundleAccepted(job[p]), job[p].sign # "" => Has(index.list, p, "attestation"),
           <<"bundle", BundleOf(job[p])>> \in Published, BundleWhole(<<"bundle", BundleOf(job[p])>>)
    PROVE  Provenances(BundleOf(job[p]), job[p].sign, job[p].ident)
             = IF job[p].sign # "" THEN "signed"
               ELSE IF Claims(index.list, <<"bundle", BundleOf(job[p])>>, "attestation") # {} THEN "refused"
               ELSE "unsigned"
<1>. DEFINE B == BundleOf(job[p])
            x == <<"bundle", B>>
            s == index.list
            v == Provenances(B, job[p].sign, job[p].ident)
<1>1. Indexed(s, x)
  BY Zenon DEF Published, Indexed
<1>2. /\ job[p].sign # "" /\ job[p].ident # "" /\ (\E r \in Referrers(s, whole, x, "attestation") : Binds(r, B, job[p].sign, job[p].ident))
           => v = "signed"
      /\ job[p].sign = "" => v = IF Claims(s, x, "attestation") = {} THEN "unsigned" ELSE "refused"
  BY <1>1, ProvenanceAnswers, ZenonT(60)
<1>3. ASSUME job[p].sign # "" PROVE v = "signed"
  <2>1. PICK n \in DOMAIN s : \E nonce \in Proc \X Nat : s[n].digest = AttestationOf(p, nonce)
    BY <1>3, Zenon DEF Has, Meets
  <2>2. PICK nonce \in Proc \X Nat : s[n].digest = AttestationOf(p, nonce)
    BY <2>1, Zenon
  <2>. DEFINE r == s[n].digest
              pred == [digest |-> x, code |-> "", bundle |-> B, sbom |-> GenerateCycloneDX(B), ident |-> job[p].ident]
              e == SignStatement(job[p].sign, "bundle", pred, nonce)
  <2>3. r = Referrer("attestation", x, e, "bundle")
    BY <2>2, Zenon DEF AttestationOf
  <2>4. BundleWhole(x) /\ r \in Published
    BY Zenon DEF Published
  <2>. HIDE DEF x, B, r
  <2>5. pred.digest = x /\ pred.bundle = B /\ pred.sbom = GenerateCycloneDX(B) /\ pred.ident = job[p].ident
    BY Zenon
  <2>. HIDE DEF pred
  <2>6. e.type = "bundle" /\ e.key = job[p].sign /\ e.subject = x /\ e.pred = pred
    BY <2>5, Zenon DEF SignStatement
  <2>. HIDE DEF e
  <2>7. r[1] = "referrer" /\ r[2] = "attestation" /\ r[3] = x /\ r[4] = e /\ r[5] = "bundle"
    BY <2>3, Zenon DEF Referrer
  <2>8. r \in Referrers(s, whole, x, "attestation")
    <3>1. readReferrer(whole, r)
      BY <2>4, <2>7, Zenon DEF BundleWhole, Needs, readReferrer
    <3>2. n \in Claims(s, x, "attestation")
      BY <2>7, Zenon DEF Claims, r
    <3>. QED BY <3>1, <3>2, Zenon DEF Referrers, r
  <2>9. job[p].ident # ""
    BY <1>3, Zenon DEF BundleAccepted
  <2>10. Binds(r, B, job[p].sign, job[p].ident)
    BY <2>5, <2>6, <2>7, Zenon DEF Binds, x
  <2>. QED BY <1>2, <1>3, <2>8, <2>9, <2>10, Zenon
<1>. HIDE DEF x, B, s, v
<1>4. v = IF job[p].sign # "" THEN "signed" ELSE IF Claims(s, x, "attestation") # {} THEN "refused" ELSE "unsigned"
  BY <1>2, <1>3, Zenon
<1>. QED BY <1>4, Zenon DEF x, B, s, v

\* A bundle that is listed and readable when its builder has finished verifies
\* for whoever trusts the builder, however often it was built, stopped and built
\* again, as long as no two updates of the index overlap (dependency-bundle,
\* VerifyBundleSupplyChain).
THEOREM VerifiesSafe == Spec => []PublishedVerifies
<1>1. OnceInv /\ DutyInv => PublishedVerifies
  <2>. SUFFICES ASSUME OnceInv, DutyInv, NEW p \in Proc, job[p].cmd = "dependency-bundle", pc[p] = "done", ~raced,
                       <<"bundle", BundleOf(job[p])>> \in Published, BundleWhole(<<"bundle", BundleOf(job[p])>>)
       PROVE  /\ CountSBOM(index.list, BundleOf(job[p])) /\ VerifySBOM(index.list, whole, BundleOf(job[p]))
              /\ Provenances(BundleOf(job[p]), job[p].sign, job[p].ident)
                   = IF job[p].sign # "" THEN "signed"
                     ELSE IF Claims(index.list, <<"bundle", BundleOf(job[p])>>, "attestation") # {} THEN "refused"
                     ELSE "unsigned"
    BY Zenon DEF PublishedVerifies
  <2>1. index.state # "bad"
    BY DEF OnceInv, Published
  <2>2. Due(p, "sbom") /\ (job[p].sign # "" => Due(p, "attestation"))
    BY Zenon DEF Due
  <2>3. Has(index.list, p, "sbom") /\ (job[p].sign # "" => Has(index.list, p, "attestation")) /\ Honest
    BY <2>1, <2>2, Zenon DEF DutyInv, Paid, Duty
  <2>4. BundleAccepted(job[p])
    BY Zenon DEF OnceInv, Busy
  <2>5. CountSBOM(index.list, BundleOf(job[p])) /\ VerifySBOM(index.list, whole, BundleOf(job[p]))
    BY <2>3, SBOMVerifies, Zenon
  <2>. QED BY <2>3, <2>4, <2>5, AttestationVerifies, Zenon
<1>. QED BY <1>1, DutyKept, PTL

----------------------------------------------------------------------------
(* An image and its attestation.                                           *)

\* The attestation that q publishes for an image that it has pushed.
ImageAttestation(q, d, nonce) ==
    Referrer("attestation", d,
        SignStatement(job[q].sign, "managed",
            [digest |-> <<"index", d[2]>>, code |-> d[2].code, bundle |-> d[2].bundle, sbom |-> d[2].sbom,
             ident |-> job[q].ident], nonce), "managed")
Attests(q, d, y) ==
    /\ y.ref = Untagged /\ AppBy(q, d) /\ d[1] = "index" /\ Managed(job[q])
    /\ \E nonce \in Proc \X Nat : y.digest = ImageAttestation(q, d, nonce)

\* The index, and the ones that are about to be written.
Current == {index.list} \cup {base[r] : r \in {x \in Proc : pc[x] \in Updates}}

\* From its listing until its attestation's, a push knows the digest under its ref;
\* then the digest has its attestation.
Image(q) == IF About(q, "attestation") THEN entry[q].digest[3] ELSE entry[q].digest
Tagged(q) == pc[q] = "published" \/ About(q, "attestation")
Settled(q) ==
    /\ Managed(job[q]) /\ job[q].sign # ""
    /\ pc[q] = "done" \/ (pc[q] = "published" /\ About(q, "attestation"))
Only(s, q, d) == \A x \in Range(s) : x.ref = job[q].ref => x.digest = d
Backed(s, q) == \A x \in Range(s) : x.ref = job[q].ref => \E y \in Range(s) : Attests(q, x.digest, y)

Mine(q) ==
    job[q].cmd = "push" =>
      /\ entry[q].digest[1] = "referrer" => About(q, "attestation") /\ Attests(q, entry[q].digest[3], entry[q])
      /\ pc[q] \in Updates /\ entry[q].digest[1] # "referrer" => Only(base[q], q, entry[q].digest)
Fits(s, q) ==
    job[q].cmd = "push" /\ ~Retagged(q) =>
      /\ Tagged(q) => Only(s, q, Image(q))
      /\ Settled(q) => Backed(s, q)
PairInv ==
    /\ \A q \in Proc : Mine(q)
    /\ ~raced => \A q \in Proc, s \in Current : Fits(s, q)

\* An index after a step: one from before, none, or the one that the process adds to.
LEMMA CurrentFrom ==
    ASSUME NEW p \in Proc, Frame(p), Effect(p), NEW s \in Current'
    PROVE  s \in Current \/ s = <<>> \/ (Lists(p) /\ s = base'[p])
<1>1. \A q \in Proc \ {p} : pc'[q] = pc[q] /\ base'[q] = base[q]
  BY Zenon DEF Frame
<1>2. CASE s = index'.list
  <2>1. \/ index' = index \/ index' = [state |-> "bad", list |-> <<>>]
        \/ pc[p] \in Updates /\ index' = [state |-> "ok", list |-> base[p]]
    BY IndexFrom, Zenon
  <2>2. index'.list = index.list \/ index'.list = <<>> \/ (pc[p] \in Updates /\ index'.list = base[p])
    BY <2>1
  <2>. QED BY <1>2, <2>2, Zenon DEF Current
<1>3. ASSUME NEW r \in Proc, pc'[r] \in Updates, s = base'[r] PROVE s \in Current \/ (Lists(p) /\ s = base'[p])
  <2>1. r # p => s \in Current
    BY <1>1, <1>3, Zenon DEF Current
  <2>2. Begins(p) \/ Leaves(p) \/ Looks(p) \/ Puts(p) => pc'[p] \notin Updates
    BY Zenon DEF Begins, Leaves, Looks, Puts, Exits, Updates, Reading
  <2>3. Opens(p) \/ Closes(p) \/ Skips(p) \/ Rewrites(p) => pc'[p] \notin Updates
    BY Zenon DEF Opens, Closes, Exits, Skips, Rewrites, Updates
  <2>4. Truncates(p) => base'[p] = base[p] /\ pc[p] \in Updates
    BY Zenon DEF Truncates, Updates
  <2>5. r = p => Lists(p) \/ (base'[p] = base[p] /\ pc[p] \in Updates)
    BY <1>3, <2>2, <2>3, <2>4, Zenon DEF Effect
  <2>. QED BY <1>3, <2>1, <2>5, Zenon DEF Current
<1>. QED BY <1>2, <1>3, Zenon DEF Current

\* What a push publishes besides its image is the image's attestation.
LEMMA MineStep ==
    ASSUME Shape, NEW p \in Proc, Frame(p), Effect(p), Own(p), Busy(p), Mine(p),
           \A d, y : Attests(p, d, y) => Attests(p, d, y)'
    PROVE  Mine(p)'
<1>1. job' = job /\ \A s, d : Only(s, p, d)' <=> Only(s, p, d)
  BY Zenon DEF Frame, Only
<1>2. \A l : Exits(p, l) => entry'[p].digest[1] = "none" /\ pc'[p] = l
  BY NoneIs, Zenon DEF Exits
<1>3. ASSUME entry'[p].digest[1] # "referrer", pc'[p] \notin Updates PROVE Mine(p)'
  BY <1>3, Zenon DEF Mine
<1>4. CASE Begins(p) \/ Looks(p)
  <2>1. entry'[p].digest[1] = "none" /\ pc'[p] \notin Updates
    BY <1>4, Zenon DEF Begins, Looks, Busy, Resting, Writing, Updates, Reading
  <2>. QED BY <1>3, <2>1, Zenon
<1>5. CASE Leaves(p) \/ (Closes(p) /\ Exits(p, "failed"))
  <2>1. entry'[p].digest[1] = "none" /\ pc'[p] \notin Updates
    <3>1. \E l \in {"done", "failed", "down"} : Exits(p, l)
      BY <1>5, Zenon DEF Leaves
    <3>. QED BY <1>2, <3>1, Zenon DEF Updates
  <2>. QED BY <1>3, <2>1, Zenon
<1>6. CASE Puts(p)
  <2>1. PICK d, ref : Source(p, d, ref) /\ pc'[p] = "blob" /\ entry'[p] = [digest |-> d, ref |-> ref] /\ runs'[p] = runs[p]
    BY <1>6, Zenon DEF Puts
  <2>2. entry'[p].digest = d /\ entry'[p].ref = ref /\ pc'[p] \notin Updates
    BY <2>1 DEF Updates
  <2>3. ASSUME job[p].cmd = "push", d[1] = "referrer" PROVE d[2] = "attestation" /\ Attests(p, d[3], entry'[p])
    <3>1. ref = Untagged /\ (ForSBOM(p, d) \/ ForBundle(p, d) \/ ForImage(p, d))
      BY <2>1, <2>3, SourceKind
    <3>2. /\ entry[p].digest[1] = "index" /\ d[2] = "attestation"
          /\ Managed(job[p])
          /\ d = Referrer("attestation", entry[p].digest, ImageStatement(p, entry[p].digest[2]), "managed")
      BY <2>3, <3>1, Zenon DEF ForSBOM, ForBundle, ForImage
    <3>. DEFINE i == entry[p].digest
                nonce == <<p, runs[p]>>
    <3>3. d[3] = i
      BY <3>2, Zenon DEF Referrer
    <3>4. nonce \in Proc \X Nat
      BY Zenon DEF Shape
    <3>5. d = ImageAttestation(p, i, nonce)
      BY <3>2, Zenon DEF ImageStatement, ImageAttestation
    <3>6. AppBy(p, i)
      BY <3>2, Zenon DEF Own
    <3>. HIDE DEF i, nonce
    <3>8. i[1] = "index"
      BY <3>2, Zenon DEF i
    <3>. QED BY <2>2, <3>1, <3>2, <3>3, <3>4, <3>5, <3>6, <3>8, Zenon DEF Attests
  <2>4. \A y : Attests(p, d[3], y) => Attests(p, d[3], y)'
    BY Zenon
  <2>. QED BY <1>1, <2>2, <2>3, <2>4, Zenon DEF Mine, About
<1>7. CASE Lists(p)
  <2>1. entry'[p] = entry[p]
    BY <1>7, Zenon DEF Lists, ReadsAlone, Keeps
  <2>2. ASSUME job[p].cmd = "push", entry[p].digest[1] # "referrer" PROVE Only(base'[p], p, entry[p].digest)
    <3>1. entry[p].ref = job[p].ref /\ entry[p].ref # Untagged
      <4>1. pc[p] \in Writing
        BY <1>7, Zenon DEF Lists, ReadsAlone, Writing
      <4>2. entry[p].digest[1] \in {"bundle", "native", "index"} /\ Publishes(p)
        BY <2>2, <4>1, Zenon DEF Busy
      <4>3. job[p].ref # Untagged
        BY <4>2, ScenariosAssumption, Zenon DEF Shape, Publishes
      <4>. QED BY <4>2, <4>3, Zenon DEF Own
    <3>2. base'[p] = Append(Without(index.list, entry[p].ref), entry[p])
      BY <1>7, <3>1, Zenon DEF Lists, upsertIndex
    <3>. DEFINE w == Without(index.list, entry[p].ref)
    <3>3. IsList(w) /\ Range(w) = {x \in Range(index.list) : x.ref # entry[p].ref}
      <4>1. IsList(index.list)
        BY Zenon DEF Shape
      <4>. QED BY <4>1, WithoutIs
    <3>. HIDE DEF w
    <3>4. Range(Append(w, entry[p])) = Range(w) \cup {entry[p]}
      BY <3>3, ListAppend, Zenon
    <3>5. Range(base'[p]) = Range(w) \cup {entry[p]}
      BY <3>2, <3>4, Zenon DEF w
    <3>. QED BY <3>1, <3>3, <3>5, Zenon DEF Only
  <2>. QED BY <1>1, <2>1, <2>2, Zenon DEF Mine, About
<1>8. ASSUME entry'[p] = entry[p], pc'[p] \in Updates => pc[p] \in Updates /\ base'[p] = base[p] PROVE Mine(p)'
  BY <1>1, <1>8, Zenon DEF Mine, About
<1>9. Opens(p) \/ (Closes(p) /\ ~Exits(p, "failed")) \/ Skips(p) \/ Truncates(p) \/ Rewrites(p) =>
        entry'[p] = entry[p] /\ (pc'[p] \in Updates => pc[p] \in Updates /\ base'[p] = base[p])
  BY Zenon DEF Opens, Closes, Skips, ReadsAlone, Truncates, Rewrites, Keeps, Updates
<1>. QED BY <1>4, <1>5, <1>6, <1>7, <1>8, <1>9, Zenon DEF Effect

\* An update of another, or of a referrer, keeps what is known of a ref.
LEMMA ListedPair ==
    ASSUME Shape, NEW p \in Proc, Lists(p), Own(p), NEW q \in Proc, job[q].cmd = "push", ~Retagged(q),
           q # p \/ entry[p].ref = Untagged
    PROVE  /\ \A d : Only(index.list, q, d) => Only(base'[p], q, d)
           /\ Backed(index.list, q) => Backed(base'[p], q)
<1>1. entry[p].ref # job[q].ref
  <2>1. job[q].ref # Untagged
    BY ScenariosAssumption, Zenon DEF Shape
  <2>2. entry[p].ref # Untagged => entry[p].ref = job[p].ref /\ Publishes(p) /\ runs[p] > 0
    BY BuiltBy, Zenon DEF Own
  <2>. QED BY <2>1, <2>2, Zenon DEF Retagged
<1>2. /\ Range(base'[p]) \subseteq Range(index.list) \cup {entry[p]}
      /\ \A x \in Range(index.list) : x.ref # entry[p].ref => x \in Range(base'[p])
      /\ entry[p].ref = Untagged => Range(index.list) \subseteq Range(base'[p])
  BY ListedFrom, Zenon
<1>3. ASSUME NEW d, Only(index.list, q, d) PROVE Only(base'[p], q, d)
  BY <1>1, <1>2, <1>3, Zenon DEF Only
<1>4. ASSUME Backed(index.list, q) PROVE Backed(base'[p], q)
  <2>1. ASSUME NEW y \in Range(index.list), y.ref = Untagged PROVE y \in Range(base'[p])
    BY <1>2, <2>1, Zenon
  <2>. QED BY <1>1, <1>2, <1>4, <2>1, Zenon DEF Backed, Attests
<1>. QED BY <1>3, <1>4, Zenon

\* When its image is listed a push knows what is under its ref; when its attestation
\* is, the image has it.
LEMMA OwnPair ==
    ASSUME Shape, OnceInv, NEW p \in Proc, Frame(p), Effect(p), Own(p), Mine(p), Carries(p), Alone, ~raced',
           Rewrites(p) \/ Skips(p), job[p].cmd = "push", \A t \in Current : Tagged(p) => Only(t, p, Image(p)),
           NEW s \in Current'
    PROVE  /\ Only(s, p, Image(p))
           /\ About(p, "attestation") => Backed(s, p)
<1>1. \A q \in Proc \ {p} : pc[q] \notin Updates /\ pc'[q] = pc[q]
  BY Zenon DEF Frame, Rewrites, Skips, ReadsAlone, Updating, Updates, Alone
<1>2. pc'[p] = "published"
  BY Zenon DEF Rewrites, Skips
<1>3. s = index'.list
  BY <1>1, <1>2, Zenon DEF Current, Updates
<1>4. Range(<<>>) = {}
  BY DEF Range
<1>5. About(p, "attestation") => Attests(p, Image(p), entry[p]) /\ Tagged(p) /\ entry[p].ref = Untagged
  BY Zenon DEF Mine, About, Image, Tagged, Attests
<1>6. ASSUME NEW t, Only(t, p, Image(p)), \E y \in Range(t) : Attests(p, Image(p), y) PROVE Backed(t, p)
  BY <1>6, Zenon DEF Only, Backed
<1>7. CASE Rewrites(p)
  <2>1. /\ pc[p] \in Updates
        /\ index' = [state |-> "ok", list |-> base[p]] \/ index' = [state |-> "bad", list |-> <<>>]
    BY <1>7, Zenon DEF Rewrites, Updates
  <2>2. s = base[p] \/ s = <<>>
    BY <1>3, <2>1
  <2>3. base[p] \in Current /\ entry[p] \in Range(base[p])
    BY <2>1, Zenon DEF Current, Carries, Range
  <2>4. Only(base[p], p, Image(p))
    <3>1. CASE About(p, "attestation")
      BY <1>5, <2>3, <3>1, Zenon
    <3>2. CASE ~About(p, "attestation")
      BY <2>1, <3>2, Zenon DEF Mine, Image
    <3>. QED BY <3>1, <3>2, Zenon
  <2>5. About(p, "attestation") => Backed(base[p], p)
    BY <1>5, <1>6, <2>3, <2>4, Zenon
  <2>6. Only(<<>>, p, Image(p)) /\ Backed(<<>>, p)
    BY <1>4, Zenon DEF Only, Backed
  <2>. QED BY <2>2, <2>4, <2>5, <2>6, Zenon
<1>8. CASE Skips(p)
  <2>1. index' = index /\ pc[p] = "index" /\ entry[p].ref = Untagged
    BY <1>8, Zenon DEF Skips, ReadsAlone
  <2>2. s = index.list /\ index.list \in Current
    BY <1>3, <2>1, Zenon DEF Current
  <2>3. entry[p].digest[1] = "referrer" /\ About(p, "attestation")
    <3>1. entry[p].digest[1] \in {"bundle", "native", "index", "referrer"} /\ job[p].ref # Untagged
      <4>1. pc[p] \in Writing /\ Busy(p)
        BY <2>1, Zenon DEF OnceInv, Writing
      <4>. QED BY <4>1, ScenariosAssumption, Zenon DEF Busy, Shape, Publishes
    <3>. QED BY <2>1, <3>1, Zenon DEF Own, Mine
  <2>4. PICK n \in DOMAIN index.list : index.list[n].digest = entry[p].digest
    BY <1>8, Zenon DEF Skips, Appends, Indexed
  <2>5. index.list[n].ref = Untagged /\ index.list[n] \in Range(index.list)
    BY <2>3, <2>4, Zenon DEF OnceInv, Plain, Range
  <2>6. Attests(p, Image(p), index.list[n])
    BY <1>5, <2>3, <2>4, <2>5, Zenon DEF Attests
  <2>7. Only(index.list, p, Image(p))
    BY <1>5, <2>2, <2>3, Zenon
  <2>. QED BY <1>6, <2>2, <2>5, <2>6, <2>7, Zenon
<1>. QED BY <1>7, <1>8, Zenon

\* What a push has listed and goes on with, or has finished, it knew before, unless it
\* has just listed it.
LEMMA OwnKnown ==
    ASSUME NEW p \in Proc, Frame(p), Effect(p), Own(p), Busy(p), Mine(p), job[p].cmd = "push",
           ~Rewrites(p), ~Skips(p)
    PROVE  /\ Tagged(p)' => Tagged(p) /\ Image(p)' = Image(p) /\ (Lists(p) => entry[p].ref = Untagged)
           /\ Settled(p)' => Settled(p) /\ ~Lists(p)
<1>1. job' = job
  BY Zenon DEF Frame
<1>2. \A l : Exits(p, l) => entry'[p].digest[1] = "none" /\ pc'[p] = l
  BY NoneIs, Zenon DEF Exits
<1>3. CASE Begins(p) \/ Looks(p)
  <2>1. entry'[p].digest[1] = "none" /\ pc'[p] \notin {"done", "published"}
    BY <1>3, Zenon DEF Begins, Looks, Busy, Resting, Writing, Updates, Reading
  <2>. QED BY <2>1, Zenon DEF Tagged, Settled, About
<1>4. CASE Leaves(p)
  <2>1. PICK l \in {"done", "failed", "down"} : Exits(p, l) /\ (l = "done" /\ Publishes(p) => Final(p))
    BY <1>4, Zenon DEF Leaves
  <2>2. entry'[p].digest[1] = "none" /\ pc'[p] = l
    BY <1>2, <2>1, Zenon
  <2>3. ~Tagged(p)'
    BY <2>2, Zenon DEF Tagged, About
  <2>4. ASSUME Settled(p)' PROVE Settled(p) /\ ~Lists(p)
    <3>1. l = "done" /\ Managed(job[p]) /\ job[p].sign # ""
      BY <1>1, <2>2, <2>4, Zenon DEF Settled
    <3>2. pc[p] = "published" /\ entry[p].digest[1] = "referrer"
      BY <2>1, <3>1, Zenon DEF Final, Publishes
    <3>3. About(p, "attestation")
      BY <3>2, Zenon DEF Mine
    <3>. QED BY <3>1, <3>2, <3>3, Zenon DEF Settled, Lists, ReadsAlone
  <2>. QED BY <2>3, <2>4, Zenon
<1>5. CASE Puts(p)
  <2>1. PICK d, ref : Source(p, d, ref) /\ pc'[p] = "blob" /\ entry'[p] = [digest |-> d, ref |-> ref]
    BY <1>5, Zenon DEF Puts
  <2>2. entry'[p].digest = d
    BY <2>1
  <2>3. ~Settled(p)' /\ ~Lists(p)
    BY <2>1, Zenon DEF Settled, Lists
  <2>4. ASSUME Tagged(p)' PROVE Tagged(p) /\ Image(p)' = Image(p)
    <3>1. d[1] = "referrer" /\ About(p, "attestation")'
      BY <2>1, <2>2, <2>4, Zenon DEF Tagged, About
    <3>2. pc[p] = "published" /\ (ForSBOM(p, d) \/ ForBundle(p, d) \/ ForImage(p, d))
      BY <2>1, <3>1, SourceKind
    <3>3. entry[p].digest[1] = "index" /\ d = Referrer("attestation", entry[p].digest, ImageStatement(p, entry[p].digest[2]), "managed")
      BY <3>2, Zenon DEF ForSBOM, ForBundle, ForImage
    <3>4. d[3] = entry[p].digest
      BY <3>3, Zenon DEF Referrer
    <3>5. ~About(p, "attestation")
      BY <3>3, Zenon DEF About
    <3>. QED BY <2>2, <3>1, <3>2, <3>4, <3>5, Zenon DEF Tagged, Image
  <2>. QED BY <2>3, <2>4, Zenon
<1>6. CASE Closes(p) /\ Exits(p, "failed")
  <2>1. entry'[p].digest[1] = "none" /\ pc'[p] = "failed"
    BY <1>2, <1>6, Zenon
  <2>. QED BY <2>1, Zenon DEF Tagged, Settled, About
<1>7. CASE Opens(p) \/ (Closes(p) /\ ~Exits(p, "failed")) \/ Lists(p) \/ Truncates(p)
  <2>1. entry'[p] = entry[p] /\ pc'[p] \notin {"done", "published"}
    BY <1>7, Zenon DEF Opens, Closes, Lists, ReadsAlone, Truncates, Keeps
  <2>2. About(p, "attestation") => entry[p].ref = Untagged
    BY Zenon DEF About, Own
  <2>. QED BY <2>1, <2>2, Zenon DEF Tagged, Settled, Image, About
<1>. QED BY <1>3, <1>4, <1>5, <1>6, <1>7, Zenon DEF Effect

\* Every step keeps an image and its attestation together.
LEMMA PairStep ==
    ASSUME Shape, OriginInv, OnceInv, DutyInv, PairInv, NEW p \in Proc, Step(p) PROVE PairInv'
<1>1. Frame(p) /\ Effect(p) /\ job' = job
  BY StepFrame, StepEffect, Zenon DEF Frame
<1>2. Own(p) /\ Busy(p) /\ Mine(p)
  BY Zenon DEF OriginInv, OnceInv, PairInv
<1>3. \A q \in Proc : \A d, y : Attests(q, d, y) => Attests(q, d, y)'
  <2>1. \A q \in Proc : \A d : AppBy(q, d) => AppBy(q, d)'
    BY <1>1, GoodStays, Zenon
  <2>2. \A q, d, nonce : ImageAttestation(q, d, nonce)' = ImageAttestation(q, d, nonce)
    BY <1>1 DEF ImageAttestation
  <2>. QED BY <1>1, <2>1, <2>2, Zenon DEF Attests
<1>4. ASSUME NEW q \in Proc PROVE Mine(q)'
  <2>1. CASE q = p
    BY <1>1, <1>2, <1>3, <2>1, MineStep, Zenon
  <2>2. CASE q # p
    <3>1. pc'[q] = pc[q] /\ entry'[q] = entry[q] /\ base'[q] = base[q] /\ Mine(q)
      BY <1>1, <2>2, Zenon DEF Frame, PairInv
    <3>. QED BY <1>1, <1>3, <3>1, Zenon DEF Mine, About, Only
  <2>. QED BY <2>1, <2>2, Zenon
<1>5. ASSUME ~raced', NEW q \in Proc, NEW s \in Current', job[q].cmd = "push", ~Retagged(q)'
      PROVE  (Tagged(q)' => Only(s, q, Image(q)')) /\ (Settled(q)' => Backed(s, q))
  <2>1. ~raced /\ ~Retagged(q)
    <3>1. \A r \in Proc : runs[r] > 0 => runs'[r] > 0
      BY <1>1, RunsOn
    <3>2. ~raced
      BY <1>1, <1>5, Zenon DEF Frame
    <3>. QED BY <1>1, <1>5, <3>1, <3>2, Zenon DEF Retagged, Publishes
  <2>2. \A t \in Current : (Tagged(q) => Only(t, q, Image(q))) /\ (Settled(q) => Backed(t, q))
    BY <1>5, <2>1, Zenon DEF PairInv, Fits
  <2>3. Carries(p) /\ Alone
    BY <2>1, Zenon DEF DutyInv
  <2>4. \A d : Only(<<>>, q, d) /\ Backed(<<>>, q)
    <3>1. Range(<<>>) = {}
      BY DEF Range
    <3>. QED BY <3>1, Zenon DEF Only, Backed
  <2>5. CASE q = p /\ (Rewrites(p) \/ Skips(p))
    <3>1. entry'[p] = entry[p] /\ Image(p)' = Image(p) /\ (About(p, "attestation")' <=> About(p, "attestation")) /\ pc'[p] = "published"
      BY <2>5, Zenon DEF Rewrites, Skips, ReadsAlone, Keeps, Image, About
    <3>2. Only(s, p, Image(p)) /\ (About(p, "attestation") => Backed(s, p))
      BY <1>1, <1>2, <1>5, <2>2, <2>3, <2>5, OwnPair
    <3>. QED BY <2>5, <3>1, <3>2, Zenon DEF Settled
  <2>6. CASE q # p \/ ~(Rewrites(p) \/ Skips(p))
    <3>1. /\ Tagged(q)' => Tagged(q) /\ Image(q)' = Image(q)
          /\ Settled(q)' => Settled(q)
          /\ q = p /\ Lists(p) => ~Settled(q)' /\ (Tagged(q)' => entry[p].ref = Untagged)
      <4>1. CASE q # p
        <5>1. pc'[q] = pc[q] /\ entry'[q] = entry[q]
          BY <1>1, <4>1, Zenon DEF Frame
        <5>. QED BY <1>1, <4>1, <5>1, Zenon DEF Tagged, Image, Settled, About
      <4>2. CASE q = p
        BY <1>1, <1>2, <1>5, <2>6, <4>2, OwnKnown, Zenon
      <4>. QED BY <4>1, <4>2, Zenon
    <3>2. CASE s \in Current
      BY <2>2, <3>1, <3>2, Zenon
    <3>3. CASE Lists(p) /\ s = base'[p] /\ (q # p \/ entry[p].ref = Untagged)
      <4>1. index.list \in Current
        BY Zenon DEF Current
      <4>2. /\ \A d : Only(index.list, q, d) => Only(base'[p], q, d)
            /\ Backed(index.list, q) => Backed(base'[p], q)
        BY <1>2, <1>5, <2>1, <3>3, ListedPair, Zenon
      <4>. QED BY <2>2, <3>1, <3>3, <4>1, <4>2, Zenon
    <3>4. s \in Current \/ s = <<>> \/ (Lists(p) /\ s = base'[p])
      BY <1>1, CurrentFrom, Zenon
    <3>. QED BY <2>4, <3>1, <3>2, <3>3, <3>4, Zenon
  <2>. QED BY <2>5, <2>6, Zenon
<1>6. \A q \in Proc : \A s, d : (Only(s, q, d) => Only(s, q, d)') /\ (Backed(s, q) => Backed(s, q)')
  BY <1>1, <1>3, Zenon DEF Only, Backed
<1>7. ASSUME ~raced', NEW q \in Proc, NEW s \in Current' PROVE Fits(s, q)'
  BY <1>1, <1>5, <1>6, <1>7, Zenon DEF Fits
<1>. QED BY <1>4, <1>7, Zenon DEF PairInv

\* An image and its attestation stay together in every run of the store.
LEMMA PairKept == Spec => [](Shape /\ OriginInv /\ OnceInv /\ DutyInv /\ PairInv)
<1>1. Init => PairInv
  <2>. SUFFICES ASSUME Init PROVE PairInv
    BY Zenon
  <2>1. ASSUME NEW p \in Proc PROVE pc[p] = "idle" /\ entry[p].digest[1] = "none"
    BY NoneIs, Zenon DEF Init
  <2>2. \A q \in Proc : Mine(q) /\ ~Tagged(q) /\ ~Settled(q)
    BY <2>1, Zenon DEF Mine, Tagged, Settled, About, Updates
  <2>. QED BY <2>2, Zenon DEF PairInv, Fits
<1>2. Shape /\ OriginInv /\ OnceInv /\ DutyInv /\ PairInv /\ [Next]_vars => PairInv'
  <2>1. ASSUME UNCHANGED vars PROVE PairInv => PairInv'
    <3>1. /\ job' = job /\ pc' = pc /\ entry' = entry /\ base' = base /\ index' = index
          /\ runs' = runs /\ raced' = raced /\ verdicts' = verdicts
      BY <2>1, Zenon DEF vars
    <3>2. Current' = Current
      BY <3>1 DEF Current
    <3>3. \A q, d : AppBy(q, d)' <=> AppBy(q, d)
      BY <3>1 DEF AppBy
    <3>4. \A q, d, nonce : ImageAttestation(q, d, nonce)' = ImageAttestation(q, d, nonce)
      BY <3>1 DEF ImageAttestation
    <3>5. \A q, d, y : Attests(q, d, y)' <=> Attests(q, d, y)
      BY <3>1, <3>3, <3>4, Zenon DEF Attests
    <3>6. \A q, s, d : (Only(s, q, d)' <=> Only(s, q, d)) /\ (Backed(s, q)' <=> Backed(s, q))
      BY <3>1, <3>5, Zenon DEF Only, Backed
    <3>7. \A q : (About(q, "attestation")' <=> About(q, "attestation")) /\ (Retagged(q)' <=> Retagged(q))
      BY <3>1 DEF About, Retagged, Publishes
    <3>8. \A q : Mine(q) => Mine(q)'
      BY <3>1, <3>5, <3>6, <3>7, Zenon DEF Mine
    <3>9. \A q : (Tagged(q)' <=> Tagged(q)) /\ (Settled(q)' <=> Settled(q)) /\ Image(q)' = Image(q)
      BY <3>1, <3>7, Zenon DEF Tagged, Settled, Image
    <3>10. \A q, s : Fits(s, q) => Fits(s, q)'
      BY <3>1, <3>6, <3>7, <3>9, Zenon DEF Fits
    <3>. QED BY <3>1, <3>2, <3>8, <3>10, Zenon DEF PairInv
  <2>2. ASSUME Shape, OriginInv, OnceInv, DutyInv, PairInv, Next PROVE PairInv'
    BY <2>2, PairStep, Zenon DEF Next
  <2>. QED BY <2>1, <2>2, Zenon
<1>. QED BY <1>1, <1>2, DutyKept, PTL DEF Spec

\* An attestation that a push signed is accepted for its image by both readers.
LEMMA AttestedAccepted ==
    ASSUME NEW p \in Proc, NEW d, NEW y \in Range(index.list), Attests(p, d, y), job[p].sign # "",
           d \in Published, BundleWhole(d)
    PROVE  /\ VerifyManagedAttestation(index.list, whole, d, job[p].sign, job[p].ident) = "managed"
           /\ \E r \in Referrers(index.list, whole, d, "attestation") :
                VerifyReference(whole, d, r, job[p].sign, job[p].ident) = "allow"
<1>. DEFINE key == job[p].sign
            ident == job[p].ident
            r == y.digest
<1>1. PICK nonce \in Proc \X Nat : r = ImageAttestation(p, d, nonce)
  BY Zenon DEF Attests
<1>. DEFINE pred == [digest |-> <<"index", d[2]>>, code |-> d[2].code, bundle |-> d[2].bundle, sbom |-> d[2].sbom, ident |-> ident]
            e == SignStatement(key, "managed", pred, nonce)
<1>2. r = Referrer("attestation", d, e, "managed")
  BY <1>1, Zenon DEF ImageAttestation
<1>. HIDE DEF e, r
<1>3. r[1] = "referrer" /\ r[2] = "attestation" /\ r[3] = d /\ r[4] = e /\ r[5] = "managed"
  BY <1>2 DEF Referrer
<1>4. d = <<"index", d[2]>> /\ d[2].bundle # NoBundle /\ ident # ""
  <2>1. AppBy(p, d) /\ d[1] = "index" /\ Managed(job[p])
    BY Zenon DEF Attests
  <2>2. PICK b : b.lock # <<>> /\ d[2] = AppOf(job[p], b, GenerateCycloneDX(b)) /\ ManagedKeys(job[p])
    BY <2>1, Zenon DEF AppBy
  <2>3. d[2].bundle = b
    <3>1. AppOf(job[p], b, GenerateCycloneDX(b)).bundle = b
      BY Zenon DEF AppOf
    <3>. QED BY <2>2, <3>1, Zenon
  <2>4. NoBundle.lock = <<>>
    BY Zenon DEF NoBundle
  <2>5. ident # ""
    BY <2>2 DEF ManagedKeys
  <2>6. d = <<"index", d[2]>>
    BY <2>1, Zenon DEF AppBy
  <2>. QED BY <2>2, <2>3, <2>4, <2>5, <2>6, Zenon
<1>5. pred.digest = d /\ pred.bundle # NoBundle /\ pred.ident = ident
  BY <1>4
<1>. HIDE DEF pred
<1>6. e.key = key /\ e.type = "managed" /\ e.subject = d /\ e.pred = pred
  BY <1>5 DEF e, SignStatement
<1>7. PICK n \in DOMAIN index.list : index.list[n].digest = r
  BY Zenon DEF r, Range
<1>8. r \in Published /\ BundleWhole(d)
  BY <1>7, Zenon DEF Published
<1>9. readReferrer(whole, r) /\ r \in whole /\ <<"document", r[2], r[4]>> \in whole
  <2>1. Needs(r) \subseteq whole
    BY <1>3, <1>8, Zenon DEF BundleWhole
  <2>2. readReferrer(whole, r)
    BY <1>3, <2>1, FewBlobs, Zenon DEF readReferrer
  <2>. QED BY <1>3, <2>2, FewBlobs, Zenon DEF readReferrer
<1>10. r \in Referrers(index.list, whole, d, "attestation")
  <2>1. n \in Claims(index.list, d, "attestation")
    BY <1>3, <1>7, Zenon DEF Claims
  <2>. QED BY <1>7, <1>9, <2>1, Zenon DEF Referrers
<1>11. VerifyStatement(r[4], key, "managed", d) /\ PredicateValid(r[4].pred, d) /\ r[4].pred.ident = ident
  BY <1>3, <1>4, <1>5, <1>6, Zenon DEF VerifyStatement, PredicateValid
<1>12. Indexed(index.list, d)
  BY Zenon DEF Published, Indexed
<1>13. VerifyManagedAttestation(index.list, whole, d, key, ident) = "managed"
  BY <1>3, <1>10, <1>11, <1>12, Zenon DEF VerifyManagedAttestation
<1>14. VerifyReference(whole, d, r, key, ident) = "allow"
  <2>1. VerifyManagedStatement(r[4], key, ident, d)
    BY <1>4, <1>11, Zenon DEF VerifyManagedStatement
  <2>. QED BY <1>3, <1>4, <1>9, <2>1, Zenon DEF VerifyReference
<1>. QED BY <1>10, <1>13, <1>14, Zenon

\* The image of a signed managed push that has finished is reported as managed by
\* `brewlet inspect` and admitted by the Ratify plugin, for who trusts the signer,
\* whatever runs and stops meanwhile, as long as no two updates of the index overlap,
\* the ref is not published again and the blobs are whole (PublishManagedAttestation,
\* VerifyManagedAttestation, verifyManaged).
THEOREM ManagedSafe == Spec => []ManagedAdmitted
<1>1. PairInv => ManagedAdmitted
  <2>. SUFFICES ASSUME PairInv, NEW p \in Proc, NEW n \in DOMAIN index.list,
                       job[p].cmd = "push", Managed(job[p]), job[p].sign # "", pc[p] = "done",
                       index.list[n].ref = job[p].ref, ~Retagged(p), ~raced, BundleWhole(index.list[n].digest)
       PROVE  /\ VerifyManagedAttestation(index.list, whole, index.list[n].digest, job[p].sign, job[p].ident) = "managed"
              /\ \E r \in Referrers(index.list, whole, index.list[n].digest, "attestation") :
                   VerifyReference(whole, index.list[n].digest, r, job[p].sign, job[p].ident) = "allow"
    BY Zenon DEF ManagedAdmitted
  <2>1. Settled(p) /\ index.list \in Current
    BY Zenon DEF Settled, Current
  <2>2. Backed(index.list, p)
    BY <2>1, Zenon DEF PairInv, Fits
  <2>3. PICK y \in Range(index.list) : Attests(p, index.list[n].digest, y)
    BY <2>2, Zenon DEF Backed, Range
  <2>4. index.list[n].digest \in Published
    BY Zenon DEF Published
  <2>. QED BY <2>3, <2>4, AttestedAccepted, Zenon
<1>. QED BY <1>1, PairKept, PTL
==============================================================================
