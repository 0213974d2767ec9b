------------------------- MODULE ArtifactStoreProofs -------------------------
(***************************************************************************)
(* Theorems about commands on one OCI layout: what a step of a command     *)
(* does, and that what the index lists has been written.                   *)
(***************************************************************************)
EXTENDS ArtifactStore, LaunchPlanProofs

Updates == {"update", "rewrite"}

\* A bundle has been resolved and is being verified.
Reading == {"sbom", "document", "provenance", "count"}
Digests(s) == {s[n].digest : n \in DOMAIN s}

\* What q is publishing is a referrer of this kind.
About(q, kind) == entry[q].digest[1] = "referrer" /\ entry[q].digest[2] = kind

\* The memory of the processes: lists, and a process that has left "idle" runs.
Shape ==
    /\ job \in Scenarios /\ IsList(index.list)
    /\ DOMAIN pc = Proc /\ DOMAIN todo = Proc /\ DOMAIN entry = Proc /\ DOMAIN base = Proc
    /\ DOMAIN got = Proc /\ runs \in [Proc -> Nat]
    /\ \A t \in torn : t = <<t[1], t[2]>> /\ t[2] \in Proc
    /\ \A p \in Proc :
         /\ IsList(todo[p]) /\ IsList(base[p])
         /\ pc[p] \in {"blob", "fill"} => todo[p] # <<>>
         /\ pc[p] \in Updates => base[p] # <<>>
         /\ pc[p] # "idle" => runs[p] > 0

----------------------------------------------------------------------------
(* The blobs.                                                              *)

\* A blob that was written once stays so: it is complete, or torn by a process
\* that writes it again or was stopped.
Written(b) ==
    \/ b \in whole
    \/ \E t \in torn : /\ t[1] = b
                       /\ t[2] \in killed \/ (pc[t[2]] = "fill" /\ Head(todo[t[2]]) = b)

WrittenFor(p) ==
    /\ pc[p] \in {"blob", "fill"} =>
         \A b \in Needs(entry[p].digest) : Written(b) \/ b \in Range(todo[p])
    /\ pc[p] \in {"index", "published"} \cup Updates =>
         \A b \in Needs(entry[p].digest) : Written(b)
    /\ pc[p] = "fill" => Written(Head(todo[p]))
    /\ pc[p] \in Updates => \A d \in Digests(base[p]) : \A b \in Needs(d) : Written(b)
    /\ job[p].cmd = "push" /\ pc[p] \in Reading => \A b \in got[p] : Written(LayerOf(b))

WrittenInv ==
    /\ \A d \in Published : \A b \in Needs(d) : Written(b)
    /\ \A p \in Proc : WrittenFor(p)

----------------------------------------------------------------------------
(* upsertIndex.                                                            *)

\* upsertIndex keeps, in a list, exactly what has another ref.
LEMMA WithoutIs ==
    ASSUME NEW s, NEW ref, IsList(s)
    PROVE  /\ IsList(Without(s, ref))
           /\ Range(Without(s, ref)) = {x \in Range(s) : x.ref # ref}
           /\ Once(s) => Once(Without(s, ref))
<1>0. Len(s) \in Nat /\ DOMAIN s = 1 .. Len(s)
  BY ListAppend, Zenon
<1>. DEFINE g == CHOOSE h : Loop(h, s, ref, Len(s))
<1>1. Loop(g, s, ref, Len(s))
  BY <1>0, LoopRuns, Zenon
<1>2. Without(s, ref) = g[Len(s)]
  BY Zenon DEF Without, Loop
<1>. HIDE DEF g
<1>3. /\ IsList(g[Len(s)]) /\ (Once(s) => Once(g[Len(s)]))
      /\ Range(g[Len(s)]) = Kept(s, ref, Len(s))
  <2>1. Len(s) \in 0 .. Len(s)
    BY <1>0
  <2>2. \A m \in 0 .. Len(s) :
          /\ IsList(g[m]) /\ (Once(s) => Once(g[m]))
          /\ Range(g[m]) = Kept(s, ref, m)
    BY <1>1, LoopKeeps, Zenon
  <2>. QED BY <2>1, <2>2, Zenon
<1>4. Kept(s, ref, Len(s)) = {x \in Range(s) : x.ref # ref}
  BY <1>0 DEF Range, Kept
<1>. QED BY <1>2, <1>3, <1>4, Zenon

----------------------------------------------------------------------------
(* What a step does: to everyone, and to the memory of its process.        *)

Frame(p) ==
    /\ job' = job /\ killed \subseteq killed' /\ verdicts \subseteq verdicts' /\ (raced => raced')
    /\ DOMAIN pc' = Proc /\ DOMAIN todo' = Proc /\ DOMAIN entry' = Proc /\ DOMAIN base' = Proc
    /\ DOMAIN got' = Proc /\ runs' \in [Proc -> Nat]
    /\ \A q \in Proc \ {p} :
         /\ pc'[q] = pc[q] /\ todo'[q] = todo[q] /\ entry'[q] = entry[q] /\ base'[q] = base[q]
         /\ got'[q] = got[q] /\ runs'[q] = runs[q]

Keeps(p) == entry'[p] = entry[p] /\ got'[p] = got[p] /\ runs'[p] = runs[p]

\* Finish's condition.
Final(p) ==
    /\ pc[p] = "published"
    /\ job[p].cmd = "dependency-bundle" =>
         About(p, "attestation") \/ (entry[p].digest[1] = "referrer" /\ job[p].sign = "")
    /\ job[p].cmd = "push" => entry[p].digest[1] = "referrer" \/ ~Managed(job[p]) \/ job[p].sign = ""

Begins(p) ==
    /\ pc[p] \in Resting /\ pc'[p] = "begin" /\ runs'[p] = runs[p] + 1
    /\ todo'[p] = todo[p] /\ entry'[p] = entry[p] /\ base'[p] = base[p] /\ got'[p] = got[p]
    /\ UNCHANGED <<whole, torn, index, killed, raced>>

Exits(p, l) ==
    /\ pc'[p] = l /\ todo'[p] = <<>> /\ entry'[p] = None /\ base'[p] = <<>> /\ got'[p] = {}
    /\ runs'[p] = runs[p]
Leaves(p) ==
    /\ pc[p] \notin Resting /\ UNCHANGED <<whole, torn, index>> /\ (pc[p] = "fill" => p \in killed')
    /\ \E l \in {"done", "failed", "down"} : Exits(p, l) /\ (l = "done" /\ Publishes(p) => Final(p))

\* A push or an inspection reads on.
Looks(p) ==
    /\ pc[p] \in {"begin", "resolve", "bundle", "descriptor"} \cup Reading
    /\ pc'[p] \in {"resolve", "bundle", "descriptor", "managed"} \cup Reading
    /\ todo'[p] = todo[p] /\ entry'[p] = entry[p] /\ base'[p] = base[p] /\ runs'[p] = runs[p]
    /\ UNCHANGED <<whole, torn, index, killed, raced>>
    /\ job[p].cmd = "push" =>
         \/ pc'[p] = "resolve" /\ Managed(job[p]) /\ ManagedFlags(job[p])
         \/ /\ pc[p] = "resolve" /\ pc'[p] = "sbom" /\ ManagedKeys(job[p])
            /\ got'[p] = ResolveDependencyBundle(index.list, whole, job[p].bundle)
            /\ \E b \in got'[p] : VerifyDependencyLock(b.lock, job[p].lock)
         \/ pc[p] \in Reading /\ pc'[p] \in Reading /\ got'[p] = got[p]

\* What is published next, and out of what.
Source(p, d, ref) ==
    \/ /\ job[p].cmd = "dependency-bundle" /\ pc[p] = "begin" /\ BundleAccepted(job[p])
       /\ d = <<"bundle", BundleOf(job[p])>> /\ ref = job[p].ref
    \/ /\ job[p].cmd = "dependency-bundle" /\ pc[p] = "published" /\ entry[p].digest[1] = "bundle"
       /\ \E b : /\ d = Referrer("sbom", entry[p].digest, GenerateCycloneDX(b), "") /\ got'[p] = {b}
                 /\ raced' \/ b = BundleOf(job[p])
       /\ ref = Untagged
    \/ /\ job[p].cmd = "dependency-bundle" /\ pc[p] = "published" /\ About(p, "sbom")
       /\ \E b \in got[p] : d = Referrer("attestation", entry[p].digest[3], BundleStatement(p, b), "bundle")
       /\ got'[p] = got[p] /\ ref = Untagged
    \/ /\ job[p].cmd = "push" /\ pc[p] = "begin" /\ ~Managed(job[p]) /\ PushAccepted(job[p])
       /\ d = <<IF job[p].format = "artifact" THEN "native" ELSE "index", AppOf(job[p], NoBundle, <<>>)>>
       /\ ref = job[p].ref
    \/ /\ job[p].cmd = "push" /\ pc[p] \in Reading /\ PushAccepted(job[p]) /\ ref = job[p].ref
       /\ \E b \in got[p] :
            /\ d = <<"index", AppOf(job[p], b, GenerateCycloneDX(b))>>
            /\ \E v \in verdicts' : v.of = <<"bundle", b>> /\ v.kind \in {"signed", "unsigned"}
    \/ /\ job[p].cmd = "push" /\ pc[p] = "published" /\ entry[p].digest[1] = "index" /\ Managed(job[p])
       /\ d = Referrer("attestation", entry[p].digest, ImageStatement(p, entry[p].digest[2]), "managed")
       /\ ref = Untagged

Puts(p) ==
    \E d, ref :
        /\ Source(p, d, ref) /\ pc'[p] = "blob" /\ todo'[p] = Blobs(d)
        /\ entry'[p] = [digest |-> d, ref |-> ref] /\ base'[p] = base[p] /\ runs'[p] = runs[p]
        /\ UNCHANGED <<whole, torn, index, killed>>

Opens(p) ==
    /\ pc[p] = "blob" /\ pc'[p] = "fill" /\ todo'[p] = todo[p] /\ base'[p] = base[p] /\ Keeps(p)
    /\ whole' = whole \ {Head(todo[p])}
    /\ torn' = {t \in torn : t[1] # Head(todo[p])} \cup {<<Head(todo[p]), p>>}
    /\ UNCHANGED <<index, killed, raced>>

Closes(p) ==
    /\ pc[p] = "fill"
    /\ IF <<Head(todo[p]), p>> \in torn
       THEN whole' = whole \cup {Head(todo[p])} /\ torn' = torn \ {<<Head(todo[p]), p>>}
       ELSE UNCHANGED <<whole, torn>>
    /\ \/ Exits(p, "failed")
       \/ /\ todo'[p] = Tail(todo[p]) /\ base'[p] = base[p] /\ Keeps(p)
          /\ pc'[p] = IF Len(todo[p]) = 1 THEN "index" ELSE "blob"
    /\ UNCHANGED <<index, killed, raced>>

\* The index is read, while no one else updates it and none of the others' work
\* is gone, or the race is noted.
ReadsAlone(p) ==
    /\ pc[p] = "index" /\ todo'[p] = todo[p] /\ Keeps(p)
    /\ UNCHANGED <<whole, torn, index, killed>>
    /\ Updating(p) => raced'
    /\ (index.state = "bad" /\ \E q \in Proc \ {p} : runs[q] > 0) => raced'
Lists(p) ==
    /\ ReadsAlone(p) /\ pc'[p] = "update"
    /\ \/ entry[p].ref # Untagged /\ base'[p] = upsertIndex(entry[p])
       \/ /\ entry[p].ref = Untagged /\ index.state # "bad" /\ Appends(entry[p])
          /\ base'[p] = Append(index.list, entry[p])
Skips(p) ==
    /\ ReadsAlone(p) /\ pc'[p] = "published" /\ base'[p] = base[p]
    /\ entry[p].ref = Untagged /\ index.state # "bad" /\ ~Appends(entry[p])

Truncates(p) ==
    /\ pc[p] = "update" /\ pc'[p] = "rewrite" /\ todo'[p] = todo[p] /\ base'[p] = base[p] /\ Keeps(p)
    /\ index' = [state |-> "bad", list |-> <<>>] /\ UNCHANGED <<whole, torn, killed, raced>>
Rewrites(p) ==
    /\ pc[p] = "rewrite" /\ pc'[p] = "published" /\ todo'[p] = todo[p] /\ base'[p] = <<>> /\ Keeps(p)
    /\ \/ index' = [state |-> "ok", list |-> base[p]]
       \/ Len(index.list) >= Len(base[p]) /\ index' = [state |-> "bad", list |-> <<>>]
    /\ UNCHANGED <<whole, torn, killed, raced>>

Effect(p) ==
    \/ Begins(p) \/ Leaves(p) \/ Looks(p) \/ Puts(p) \/ Opens(p) \/ Closes(p)
    \/ Lists(p) \/ Skips(p) \/ Truncates(p) \/ Rewrites(p)

\* A step leaves the other processes alone.
LEMMA StepFrame ==
    ASSUME Shape, NEW p \in Proc, Step(p) PROVE Frame(p)
<1>. USE DEF Shape, Frame, Goto, Exit, Publish, store
<1>1. Run(p) => Frame(p)
  BY DEF Run
<1>2. Stop(p) => Frame(p)
  BY DEF Stop
<1>3. OpenBlob(p) => Frame(p)
  BY DEF OpenBlob
<1>4. CASE CloseBlob(p)
  BY <1>4 DEF CloseBlob
<1>5. ReadIndex(p) => Frame(p)
  BY Zenon DEF ReadIndex
<1>6. TruncateIndex(p) => Frame(p)
  BY DEF TruncateIndex
<1>7. WriteIndex(p) => Frame(p)
  BY DEF WriteIndex
<1>8. BundleBegin(p) => Frame(p)
  BY DEF BundleBegin
<1>9. PublishSBOM(p) => Frame(p)
  BY DEF PublishSBOM
<1>10. CASE AttestBundle(p)
  BY <1>10, Zenon DEF AttestBundle
<1>11. PushBegin(p) => Frame(p)
  BY DEF PushBegin
<1>12. PushResolve(p) => Frame(p)
  BY DEF PushResolve
<1>13. FindSBOM(p) \/ CheckSBOM(p) \/ FindNone(p) => Frame(p)
  BY DEF FindSBOM, CheckSBOM, FindNone
<1>14. CASE PushVerified(p)
  BY <1>14 DEF PushVerified, Verdict
<1>15. CASE AttestImage(p)
  BY <1>15, Zenon DEF AttestImage
<1>16. CASE Finish(p)
  BY <1>16, Zenon DEF Finish
<1>17. InspectManifest(p) => Frame(p)
  BY DEF InspectManifest
<1>18. CASE InspectBundle(p)
  BY <1>18 DEF InspectBundle
<1>19. CASE InspectProvenance(p)
  BY <1>19, Zenon DEF InspectProvenance, Verdict
<1>20. CASE InspectDescriptor(p)
  BY <1>20, Zenon DEF InspectDescriptor
<1>21. CASE InspectAttestation(p)
  BY <1>21, Zenon DEF InspectAttestation, Verdict
<1>. QED BY <1>1, <1>2, <1>3, <1>4, <1>5, <1>6, <1>7, <1>8, <1>9, <1>10, <1>11, <1>12, <1>13, <1>14, <1>15, <1>16, <1>17, <1>18, <1>19, <1>20, <1>21, Zenon DEF Step

\* What an attestation must bind for VerifyProvenance to trust it.
Binds(r, b, key, ident) ==
    /\ r[5] = "bundle" /\ r[4].type = "bundle" /\ r[4].key = key /\ r[4].subject = <<"bundle", b>>
    /\ r[4].pred.ident = ident /\ r[4].pred.digest = <<"bundle", b>>
    /\ r[4].pred.bundle = b /\ r[4].pred.sbom = GenerateCycloneDX(b)

\* The answers of VerifyProvenance, and what each takes.
LEMMA ProvenanceIs ==
    ASSUME NEW idx, NEW held, NEW b, NEW key, NEW ident
    PROVE  LET v == VerifyProvenance(idx, held, b, key, ident)
           IN  /\ v \in {"signed", "bare", "refused"}
               /\ v = "signed" =>
                    /\ key # "" /\ ident # ""
                    /\ \E r \in Referrers(idx, held, <<"bundle", b>>, "attestation") : Binds(r, b, key, ident)
<1>. DEFINE subject == <<"bundle", b>>
            valid == Referrers(idx, held, subject, "attestation")
            Fits(r) == /\ r[5] = "bundle" /\ VerifyStatement(r[4], key, "bundle", subject)
                       /\ r[4].pred.ident = ident /\ r[4].pred.digest = subject
                       /\ r[4].pred.bundle = b /\ r[4].pred.sbom = GenerateCycloneDX(b)
            trusted == {r \in valid : Fits(r)}
            v == VerifyProvenance(idx, held, b, key, ident)
<1>1. v = IF ~Indexed(idx, subject) THEN "refused"
          ELSE IF valid = {} THEN "bare"
          ELSE IF key = "" \/ ident = "" THEN "refused"
          ELSE IF trusted # {} THEN "signed" ELSE "refused"
  BY Zenon DEF VerifyProvenance
<1>2. \A r \in valid : Fits(r) => Binds(r, b, key, ident)
  BY Zenon DEF VerifyStatement, Binds
<1>. HIDE DEF subject, valid, Fits, v
<1>3. v \in {"signed", "bare", "refused"}
  BY <1>1, Zenon
<1>4. v = "signed" => key # "" /\ ident # "" /\ \E r \in valid : Binds(r, b, key, ident)
  BY <1>1, <1>2, Zenon
<1>. QED BY <1>3, <1>4, Zenon DEF subject, valid, v

\* ... of an indexed bundle, both reads together: signed when an attestation binds it,
\* else unsigned when no key is trusted and nothing claims it.
LEMMA ProvenanceAnswers ==
    ASSUME NEW b, NEW key, NEW ident, Indexed(index.list, <<"bundle", b>>)
    PROVE  LET v == Provenances(b, key, ident) IN
           /\ key # "" /\ ident # "" /\ (\E r \in Referrers(index.list, whole, <<"bundle", b>>, "attestation") : Binds(r, b, key, ident))
                => v = "signed"
           /\ key = "" => v = IF Claims(index.list, <<"bundle", b>>, "attestation") = {} THEN "unsigned" ELSE "refused"
<1>. DEFINE subject == <<"bundle", b>>
            C == Claims(index.list, subject, "attestation")
            valid == Referrers(index.list, whole, subject, "attestation")
            Fits(r) == /\ r[5] = "bundle" /\ VerifyStatement(r[4], key, "bundle", subject)
                       /\ r[4].pred.ident = ident /\ r[4].pred.digest = subject
                       /\ r[4].pred.bundle = b /\ r[4].pred.sbom = GenerateCycloneDX(b)
            trusted == {r \in valid : Fits(r)}
            u == VerifyProvenance(index.list, whole, b, key, ident)
            v == Provenances(b, key, ident)
<1>1. u = IF ~Indexed(index.list, subject) THEN "refused"
          ELSE IF valid = {} THEN "bare"
          ELSE IF key = "" \/ ident = "" THEN "refused"
          ELSE IF trusted # {} THEN "signed" ELSE "refused"
  BY Zenon DEF VerifyProvenance
<1>2. (C = {} => valid = {}) /\ Indexed(index.list, subject)
  BY Zenon DEF Referrers
<1>3. \A r \in valid : Binds(r, b, key, ident) => r \in trusted
  BY Zenon DEF Binds, VerifyStatement
<1>4. v = IF u = "bare" THEN (IF C = {} THEN "unsigned" ELSE "refused") ELSE u
  BY <1>2, Zenon DEF Provenances, CountAttestations
<1>. HIDE DEF subject, C, valid, Fits, trusted, u, v
<1>5. key # "" /\ ident # "" /\ (\E r \in valid : Binds(r, b, key, ident)) => v = "signed"
  BY <1>1, <1>2, <1>3, <1>4, Zenon
<1>6. key = "" => v = IF C = {} THEN "unsigned" ELSE "refused"
  BY <1>1, <1>2, <1>4
<1>. QED BY <1>5, <1>6, Zenon DEF subject, C, valid, v

\* What each action does to its process.
LEMMA StepEffect ==
    ASSUME Shape, NEW p \in Proc, Step(p) PROVE Effect(p)
<1>. USE DEF Shape, Goto, store
<1>0. \A d, ref : Source(p, d, ref) /\ Publish(p, d, ref) /\ UNCHANGED <<whole, torn, index, killed, runs>> => Puts(p)
  BY Zenon DEF Publish, Puts
<1>1. Run(p) => Begins(p)
  BY Zenon DEF Run, Begins
<1>2. Stop(p) => Leaves(p)
  BY Zenon DEF Stop, Exit, Leaves, Exits
<1>3. OpenBlob(p) => Opens(p)
  BY Zenon DEF OpenBlob, Opens, Keeps
<1>4. CloseBlob(p) => Closes(p)
  BY DEF CloseBlob, Exit, Closes, Exits, Keeps
<1>5. ReadIndex(p) => Lists(p) \/ Skips(p) \/ Leaves(p)
  <2>1. ReadIndex(p) /\ entry[p].ref # Untagged => Lists(p)
    BY Zenon DEF ReadIndex, Lists, ReadsAlone, Keeps
  <2>2. ReadIndex(p) /\ entry[p].ref = Untagged /\ index.state = "bad" => Leaves(p)
    BY Zenon DEF ReadIndex, Exit, Leaves, Exits, Resting
  <2>3. ReadIndex(p) /\ entry[p].ref = Untagged /\ index.state # "bad" /\ ~Appends(entry[p]) => Skips(p)
    BY Zenon DEF ReadIndex, Skips, ReadsAlone, Keeps
  <2>4. ReadIndex(p) /\ entry[p].ref = Untagged /\ index.state # "bad" /\ Appends(entry[p]) => Lists(p)
    BY Zenon DEF ReadIndex, Lists, ReadsAlone, Keeps
  <2>. QED BY <2>1, <2>2, <2>3, <2>4, Zenon
<1>6. TruncateIndex(p) => Truncates(p)
  BY Zenon DEF TruncateIndex, Truncates, Keeps
<1>7. WriteIndex(p) => Rewrites(p)
  BY Zenon DEF WriteIndex, Rewrites, Keeps
<1>8. BundleBegin(p) => Puts(p) \/ Leaves(p)
  <2>. DEFINE d == <<"bundle", BundleOf(job[p])>>
  <2>1. BundleBegin(p) /\ ~BundleAccepted(job[p]) => Leaves(p)
    BY DEF BundleBegin, Exit, Leaves, Exits, Resting
  <2>2. BundleBegin(p) /\ BundleAccepted(job[p]) =>
          Source(p, d, job[p].ref) /\ Publish(p, d, job[p].ref) /\ UNCHANGED <<whole, torn, index, killed, runs>>
    BY Zenon DEF BundleBegin, Source
  <2>. HIDE DEF d
  <2>. QED BY <1>0, <2>1, <2>2, Zenon
<1>9. PublishSBOM(p) => Puts(p) \/ Leaves(p)
  <2>. DEFINE found == IF Readable THEN ResolveDependencyBundle(index.list, whole, job[p].ref) ELSE {}
              fails == found = {} \/ (job[p].sign # "" /\ ~job[p].keyLoads)
  <2>1. PublishSBOM(p) /\ fails => Leaves(p)
    <3>1. PublishSBOM(p) /\ fails => Exit(p, "failed") /\ pc[p] = "published" /\ UNCHANGED <<whole, torn, index, runs>>
      BY Zenon DEF PublishSBOM
    <3>. QED BY <3>1 DEF Exit, Leaves, Exits, Resting
  <2>2. ASSUME PublishSBOM(p), ~fails PROVE Puts(p)
    <3>1. /\ job[p].cmd = "dependency-bundle" /\ pc[p] = "published" /\ entry[p].digest[1] = "bundle"
          /\ raced' = (raced \/ found # {BundleOf(job[p])}) /\ UNCHANGED <<whole, torn, index, killed, runs>>
          /\ \E b \in found :
                /\ got' = [got EXCEPT ![p] = {b}]
                /\ Publish(p, Referrer("sbom", entry[p].digest, GenerateCycloneDX(b), ""), Untagged)
      BY <2>2, Zenon DEF PublishSBOM
    <3>. HIDE DEF found
    <3>2. PICK b \in found : /\ got' = [got EXCEPT ![p] = {b}]
                             /\ Publish(p, Referrer("sbom", entry[p].digest, GenerateCycloneDX(b), ""), Untagged)
      BY <3>1, Zenon
    <3>. DEFINE d == Referrer("sbom", entry[p].digest, GenerateCycloneDX(b), "")
    <3>3. Publish(p, d, Untagged) /\ got'[p] = {b} /\ (raced' \/ b = BundleOf(job[p]))
      BY <3>1, <3>2, Zenon
    <3>4. Source(p, d, Untagged)
      BY <3>1, <3>3, Zenon DEF Source
    <3>. HIDE DEF d
    <3>. QED BY <1>0, <3>1, <3>3, <3>4, Zenon
  <2>. QED BY <2>1, <2>2, Zenon
<1>10. AttestBundle(p) => Puts(p)
  <2>1. ASSUME AttestBundle(p) PROVE Puts(p)
    <3>1. PICK b \in got[p] : Publish(p, Referrer("attestation", entry[p].digest[3], BundleStatement(p, b), "bundle"), Untagged)
      BY <2>1, Zenon DEF AttestBundle
    <3>. DEFINE d == Referrer("attestation", entry[p].digest[3], BundleStatement(p, b), "bundle")
    <3>2. Source(p, d, Untagged) /\ Publish(p, d, Untagged) /\ UNCHANGED <<whole, torn, index, killed, runs>>
      BY <2>1, <3>1, Zenon DEF AttestBundle, Source, About
    <3>. HIDE DEF d
    <3>. QED BY <1>0, <3>2, Zenon
  <2>. QED BY <2>1, Zenon
<1>11. PushBegin(p) => Puts(p) \/ Looks(p) \/ Leaves(p)
  <2>. DEFINE d == <<IF job[p].format = "artifact" THEN "native" ELSE "index", AppOf(job[p], NoBundle, <<>>)>>
  <2>1. PushBegin(p) /\ (~ConfigReadable(job[p]) \/ (Managed(job[p]) /\ ~ManagedFlags(job[p])) \/ (~Managed(job[p]) /\ ~PushAccepted(job[p])))
          => Leaves(p)
    BY Zenon DEF PushBegin, Exit, Leaves, Exits, Resting
  <2>2. PushBegin(p) /\ ConfigReadable(job[p]) /\ Managed(job[p]) /\ ManagedFlags(job[p]) => Looks(p)
    BY Zenon DEF PushBegin, Looks
  <2>3. PushBegin(p) /\ ConfigReadable(job[p]) /\ ~Managed(job[p]) /\ PushAccepted(job[p]) =>
          Source(p, d, job[p].ref) /\ Publish(p, d, job[p].ref) /\ UNCHANGED <<whole, torn, index, killed, runs>>
    BY Zenon DEF PushBegin, Source
  <2>. HIDE DEF d
  <2>. QED BY <1>0, <2>1, <2>2, <2>3, Zenon
<1>12. PushResolve(p) => Looks(p) \/ Leaves(p)
  <2>. DEFINE found == IF Readable THEN ResolveDependencyBundle(index.list, whole, job[p].bundle) ELSE {}
              taken == /\ \E b \in found : VerifyDependencyLock(b.lock, job[p].lock)
                       /\ LockValid(job[p].lock) /\ ManagedKeys(job[p])
  <2>1. PushResolve(p) /\ ~taken => Leaves(p)
    BY Zenon DEF PushResolve, Exit, Leaves, Exits, Resting
  <2>2. PushResolve(p) /\ taken => Looks(p)
    BY Zenon DEF PushResolve, Looks, Reading
  <2>. QED BY <2>1, <2>2, Zenon
<1>13. FindSBOM(p) \/ CheckSBOM(p) \/ FindNone(p) => Looks(p) \/ Leaves(p)
  BY DEF FindSBOM, CheckSBOM, FindNone, Looks, Exit, Leaves, Exits, Resting, Reading
<1>14. PushVerified(p) => Puts(p) \/ Leaves(p)
  <2>1. ASSUME PushVerified(p) PROVE Puts(p) \/ Leaves(p)
    <3>1. PICK b \in got[p] :
            LET a == AppOf(job[p], b, GenerateCycloneDX(b)) IN
            /\ Provenance(p, b) # "bare" /\ Verdict(p, <<"bundle", b>>, Provenance(p, b))
            /\ IF /\ Provenance(p, b) # "refused" /\ (job[p].sign # "" => job[p].keyLoads)
                  /\ MainClassKnown(job[p]) /\ PushAccepted(job[p])
               THEN Publish(p, <<"index", a>>, job[p].ref) /\ UNCHANGED got
               ELSE Exit(p, "failed")
      BY <2>1, Zenon DEF PushVerified
    <3>. DEFINE d == <<"index", AppOf(job[p], b, GenerateCycloneDX(b))>>
                v == [of |-> <<"bundle", b>>, kind |-> Provenance(p, b), key |-> job[p].trust, ident |-> job[p].trustIdent]
    <3>2. job[p].cmd = "push" /\ pc[p] \in {"provenance", "count"} /\ UNCHANGED <<whole, torn, index, killed, runs>>
      BY <2>1, Zenon DEF PushVerified
    <3>3. \/ Exit(p, "failed")
          \/ Publish(p, d, job[p].ref) /\ PushAccepted(job[p]) /\ Provenance(p, b) # "refused"
      BY <3>1, Zenon
    <3>4. Exit(p, "failed") => Leaves(p)
      BY <3>2 DEF Exit, Leaves, Exits, Resting
    <3>5. ASSUME Publish(p, d, job[p].ref), PushAccepted(job[p]), Provenance(p, b) # "refused" PROVE Puts(p)
      <4>1. v \in verdicts' /\ v.of = <<"bundle", b>> /\ v.kind = Provenance(p, b)
        BY <3>1, Zenon DEF Verdict
      <4>2. Provenance(p, b) \in {"signed", "unsigned"}
        <5>1. \A k, i : VerifyProvenance(index.list, whole, b, k, i) \in {"signed", "bare", "refused"}
          BY ProvenanceIs, Zenon
        <5>2. Provenance(p, b) \in {"signed", "unsigned", "bare", "refused"}
          BY <5>1, Zenon DEF Provenance, CountAttestations
        <5>. QED BY <3>1, <3>5, <5>2, Zenon
      <4>. HIDE DEF v
      <4>3. Source(p, d, job[p].ref)
        BY <3>2, <3>5, <4>1, <4>2, Zenon DEF Source, Reading
      <4>. HIDE DEF d
      <4>. QED BY <1>0, <3>2, <3>5, <4>3, Zenon
    <3>. QED BY <3>3, <3>4, <3>5, Zenon
  <2>. QED BY <2>1, Zenon
<1>15. AttestImage(p) => Puts(p)
  <2>. DEFINE d == Referrer("attestation", entry[p].digest, ImageStatement(p, entry[p].digest[2]), "managed")
  <2>1. AttestImage(p) => Source(p, d, Untagged) /\ Publish(p, d, Untagged) /\ UNCHANGED <<whole, torn, index, killed, runs>>
    BY Zenon DEF AttestImage, Source
  <2>. HIDE DEF d
  <2>. QED BY <1>0, <2>1, Zenon
<1>16. Finish(p) => Leaves(p)
  <2>1. Finish(p) => Final(p) /\ Exit(p, "done") /\ UNCHANGED <<whole, torn, index, runs>>
    BY Zenon DEF Finish, Final, About
  <2>. QED BY <2>1 DEF Final, Exit, Leaves, Exits, Resting
<1>17. InspectManifest(p) => Looks(p) \/ Leaves(p)
  BY DEF InspectManifest, Looks, Exit, Leaves, Exits, Resting
<1>18. InspectBundle(p) => Looks(p) \/ Leaves(p)
  <2>1. InspectBundle(p) => /\ job[p].cmd = "inspect" /\ pc[p] = "bundle" /\ UNCHANGED <<whole, torn, index, killed, runs, raced>>
                 /\ \/ Exit(p, "failed") \/ Exit(p, "done")
                    \/ Goto(p, "sbom") /\ DOMAIN got' = Proc /\ UNCHANGED <<todo, entry, base>>
    BY Zenon DEF InspectBundle
  <2>. QED BY <2>1 DEF Exit, Leaves, Exits, Looks, Resting, Publishes, Reading
<1>19. InspectProvenance(p) => Leaves(p)
  BY DEF InspectProvenance, Exit, Leaves, Exits, Resting, Publishes
<1>20. InspectDescriptor(p) => Looks(p) \/ Leaves(p)
  <2>1. InspectDescriptor(p) => /\ job[p].cmd = "inspect" /\ pc[p] = "descriptor" /\ UNCHANGED <<whole, torn, index, killed, runs, raced>>
                 /\ \/ Exit(p, "failed") \/ Exit(p, "done")
                    \/ Goto(p, "managed") /\ DOMAIN got' = Proc /\ UNCHANGED <<todo, entry, base>>
    BY Zenon DEF InspectDescriptor
  <2>. QED BY <2>1 DEF Exit, Leaves, Exits, Looks, Resting, Publishes
<1>21. InspectAttestation(p) => Leaves(p)
  BY DEF InspectAttestation, Exit, Leaves, Exits, Resting, Publishes
<1>. QED BY <1>1, <1>2, <1>3, <1>4, <1>5, <1>6, <1>7, <1>8, <1>9, <1>10, <1>11, <1>12, <1>13, <1>14, <1>15,
            <1>16, <1>17, <1>18, <1>19, <1>20, <1>21 DEF Step, Effect

----------------------------------------------------------------------------
(* The memory keeps its shape.                                             *)

\* The store starts in shape: no list is in use, no command is running.
LEMMA ShapeInit == Init => Shape
<1>1. IsList(<<>>)
  BY ShortLists, Zenon
<1>. QED BY <1>1 DEF Init, Shape, Updates

\* What is published is one of the digests that have a list of blobs.
LEMMA SourceFits ==
    ASSUME NEW p, NEW d, NEW ref, Source(p, d, ref) PROVE Publishable(d)
<1>1. CASE \E b : d = <<"bundle", b>>
  BY <1>1, Zenon DEF Publishable
<1>2. CASE \E t, s, x, y : d = Referrer(t, s, x, y)
  BY <1>2, Zenon DEF Publishable
<1>3. CASE \E j, b, sbom : d \in {<<"native", AppOf(j, b, sbom)>>, <<"index", AppOf(j, b, sbom)>>}
  BY <1>3, Zenon DEF Publishable
<1>. QED BY <1>1, <1>2, <1>3, Zenon DEF Source

\* A step of any command keeps the memory in shape.
LEMMA ShapeStep ==
    ASSUME Shape, NEW p \in Proc, Step(p) PROVE Shape'
<1>1. Frame(p) /\ Effect(p)
  BY StepFrame, StepEffect, Zenon
<1>. DEFINE Sound(q) == /\ IsList(todo[q]) /\ IsList(base[q])
                        /\ pc[q] \in {"blob", "fill"} => todo[q] # <<>>
                        /\ pc[q] \in Updates => base[q] # <<>>
                        /\ pc[q] # "idle" => runs[q] > 0
            All == IsList(index'.list) /\ runs'[p] \in Nat /\ (\A t \in torn' : t = <<t[1], t[2]>> /\ t[2] \in Proc) /\ Sound(p)'
<1>2. Sound(p) /\ runs[p] \in Nat /\ IsList(index.list) /\ \A t \in torn : t = <<t[1], t[2]>> /\ t[2] \in Proc
  BY Zenon DEF Shape
<1>3. IsList(<<>>)
  BY ShortLists, Zenon
<1>4. All
  <2>1. CASE Begins(p)
    BY <1>2, <2>1 DEF Begins, Updates
  <2>2. CASE Leaves(p)
    BY <1>2, <1>3, <2>2, Zenon DEF Leaves, Exits, Updates, Resting
  <2>3. CASE Looks(p)
    BY <1>2, <2>3, Zenon DEF Looks, Updates, Reading
  <2>4. CASE Puts(p)
    <3>1. PICK d, ref : Source(p, d, ref) /\ pc'[p] = "blob" /\ todo'[p] = Blobs(d)
                        /\ base'[p] = base[p] /\ runs'[p] = runs[p] /\ UNCHANGED <<torn, index>>
      BY <2>4, Zenon DEF Puts
    <3>2. IsList(Blobs(d)) /\ Blobs(d) # <<>>
      BY <3>1, SourceFits, BlobsList, Zenon
    <3>3. pc[p] # "idle"
      BY <3>1, Zenon DEF Source, Reading
    <3>. QED BY <1>2, <3>1, <3>2, <3>3, Zenon DEF Updates
  <2>5. CASE Opens(p)
    BY <1>2, <2>5 DEF Opens, Keeps, Updates
  <2>6. CASE Closes(p)
    <3>1. IsList(Tail(todo[p])) /\ (Len(todo[p]) # 1 => Tail(todo[p]) # <<>>)
      BY <1>2, <2>6, ListTail, Zenon DEF Closes
    <3>. QED BY <1>2, <1>3, <2>6, <3>1, Zenon DEF Closes, Exits, Keeps, Updates
  <2>7. CASE Lists(p)
    <3>1. IsList(Without(index.list, entry[p].ref))
      BY <1>2, WithoutIs, Zenon
    <3>2. IsList(base'[p]) /\ base'[p] # <<>>
      <4>1. \A l, e : IsList(l) => IsList(Append(l, e)) /\ Append(l, e) # <<>>
        BY ListAppend, Zenon
      <4>2. base'[p] = Append(Without(index.list, entry[p].ref), entry[p]) \/ base'[p] = Append(index.list, entry[p])
        BY <2>7, Zenon DEF Lists, upsertIndex
      <4>. QED BY <1>2, <3>1, <4>1, <4>2, Zenon
    <3>. QED BY <1>2, <2>7, <3>2, Zenon DEF Lists, ReadsAlone, Keeps, Updates
  <2>8. CASE Skips(p)
    BY <1>2, <2>8, Zenon DEF Skips, ReadsAlone, Keeps, Updates
  <2>9. CASE Truncates(p)
    BY <1>2, <1>3, <2>9, Zenon DEF Truncates, Keeps, Updates
  <2>10. CASE Rewrites(p)
    BY <1>2, <1>3, <2>10 DEF Rewrites, Keeps, Updates
  <2>. QED BY <1>1, <2>1, <2>2, <2>3, <2>4, <2>5, <2>6, <2>7, <2>8, <2>9, <2>10 DEF Effect
<1>5. \A q \in Proc : Sound(q)'
  BY <1>1, <1>4, Zenon DEF Frame, Shape
<1>. QED BY <1>1, <1>4, <1>5, Zenon DEF Frame, Shape

----------------------------------------------------------------------------
(* What the index lists has been written.                                  *)

\* What is about to be listed was listed, or is being published;
LEMMA ListedFrom ==
    ASSUME Shape, NEW p \in Proc, Lists(p)
    PROVE  /\ Digests(base'[p]) \subseteq Published \cup {entry[p].digest}
           /\ Range(base'[p]) \subseteq Range(index.list) \cup {entry[p]}
           /\ \A x \in Range(index.list) : x.ref # entry[p].ref => x \in Range(base'[p])
           /\ entry[p].ref = Untagged => Range(index.list) \subseteq Range(base'[p])
           /\ entry[p] \in Range(base'[p])
<1>. DEFINE s == index.list
            e == entry[p]
            w == Without(s, e.ref)
<1>1. IsList(s)
  BY Zenon DEF Shape
<1>2. IsList(w) /\ Range(w) = {x \in Range(s) : x.ref # e.ref}
  BY <1>1, WithoutIs
<1>3. \/ base'[p] = Append(w, e) /\ e.ref # Untagged
      \/ base'[p] = Append(s, e)
  BY Zenon DEF Lists, upsertIndex
<1>. HIDE DEF s, e, w
<1>4. Range(Append(w, e)) = Range(w) \cup {e} /\ Range(Append(s, e)) = Range(s) \cup {e}
  BY <1>1, <1>2, ListAppend, Zenon
<1>5. /\ Range(base'[p]) \subseteq Range(s) \cup {e} /\ e \in Range(base'[p])
      /\ \A x \in Range(s) : x.ref # e.ref => x \in Range(base'[p])
      /\ e.ref = Untagged => Range(s) \subseteq Range(base'[p])
  BY <1>2, <1>3, <1>4, Zenon
<1>6. \A t : Digests(t) = {x.digest : x \in Range(t)}
  BY Zenon DEF Digests, Range
<1>7. Published = {x.digest : x \in Range(s)}
  BY Zenon DEF Published, Range, s
<1>8. Digests(base'[p]) \subseteq Published \cup {e.digest}
  BY <1>5, <1>6, <1>7, Zenon
<1>. QED BY <1>5, <1>8, Zenon DEF s, e

\* ... the index becomes what was about to be listed.
LEMMA IndexFrom ==
    ASSUME NEW p \in Proc, Effect(p)
    PROVE  \/ index' = index \/ index' = [state |-> "bad", list |-> <<>>]
           \/ pc[p] \in Updates /\ index' = [state |-> "ok", list |-> base[p]]
<1>1. Truncates(p) \/ Rewrites(p) =>
        \/ index' = [state |-> "bad", list |-> <<>>]
        \/ pc[p] \in Updates /\ index' = [state |-> "ok", list |-> base[p]]
  BY Zenon DEF Truncates, Rewrites, Updates
<1>2. Lists(p) \/ Skips(p) \/ Begins(p) \/ Leaves(p) \/ Looks(p) => index' = index
  BY Zenon DEF Lists, Skips, ReadsAlone, Begins, Leaves, Looks
<1>3. Puts(p) \/ Opens(p) \/ Closes(p) => index' = index
  BY Zenon DEF Puts, Opens, Closes
<1>. QED BY <1>1, <1>2, <1>3, Zenon DEF Effect

\* A process turns to another list only to update it.
LEMMA BaseFrom ==
    ASSUME NEW p \in Proc, Effect(p) PROVE base'[p] = base[p] \/ base'[p] = <<>> \/ Lists(p)
<1>1. Begins(p) \/ Leaves(p) \/ Looks(p) \/ Puts(p) => base'[p] = base[p] \/ base'[p] = <<>>
  BY Zenon DEF Begins, Leaves, Looks, Exits, Puts
<1>2. Opens(p) \/ Closes(p) \/ Skips(p) \/ Truncates(p) \/ Rewrites(p) => base'[p] = base[p] \/ base'[p] = <<>>
  BY Zenon DEF Opens, Closes, Exits, Skips, Truncates, Rewrites
<1>. QED BY <1>1, <1>2, Zenon DEF Effect

\* ... what becomes listed was about to be.
LEMMA PublishedFrom ==
    ASSUME NEW p \in Proc, Effect(p)
    PROVE  Published' \subseteq Published \cup (IF pc[p] \in Updates THEN Digests(base[p]) ELSE {})
<1>1. \/ index' = index \/ index'.list = <<>>
      \/ pc[p] \in Updates /\ index'.list = base[p]
  BY IndexFrom
<1>2. CASE index' = index
  BY <1>2, Zenon DEF Published
<1>3. CASE index'.list = <<>>
  BY <1>3 DEF Published
<1>4. CASE pc[p] \in Updates /\ index'.list = base[p]
  BY <1>4, Zenon DEF Published, Digests
<1>. QED BY <1>1, <1>2, <1>3, <1>4, Zenon

\* A step never takes back a blob of which somebody wrote, or is writing, the
\* bytes: the files under blobs/sha256 are only ever replaced by the same content.
LEMMA WrittenStays ==
    ASSUME Shape, NEW p \in Proc, Step(p), NEW b, Written(b) PROVE Written(b)'
<1>1. Frame(p) /\ Effect(p)
  BY StepFrame, StepEffect, Zenon
<1>. DEFINE Holds(t) == t[1] = b /\ (t[2] \in killed \/ (pc[t[2]] = "fill" /\ Head(todo[t[2]]) = b))
<1>2. b \in whole \/ \E t \in torn : Holds(t)
  BY Zenon DEF Written
<1>3. ASSUME NEW t \in torn, Holds(t), t[2] # p \/ t[2] \in killed' PROVE Holds(t)'
  BY <1>1, <1>3, Zenon DEF Frame, Shape
<1>4. CASE UNCHANGED <<whole, torn>> /\ (pc[p] = "fill" => p \in killed')
  <2>1. ASSUME NEW t \in torn, Holds(t) PROVE Holds(t)'
    BY <1>1, <1>3, <1>4, <2>1, Zenon DEF Frame
  <2>. QED BY <1>2, <1>4, <2>1, Zenon DEF Written
<1>5. CASE Opens(p)
  <2>1. CASE b = Head(todo[p])
    <3>. DEFINE u == <<b, p>>
    <3>1. u \in torn' /\ u[1] = b /\ u[2] = p
      BY <1>5, <2>1, Zenon DEF Opens
    <3>2. pc'[p] = "fill" /\ Head(todo'[p]) = b
      BY <1>5, <2>1, Zenon DEF Opens
    <3>. HIDE DEF u
    <3>. QED BY <3>1, <3>2, Zenon DEF Written
  <2>2. CASE b # Head(todo[p])
    <3>1. ASSUME NEW t \in torn, Holds(t) PROVE t \in torn' /\ Holds(t)'
      BY <1>1, <1>3, <1>5, <2>2, <3>1, Zenon DEF Opens, Frame
    <3>2. b \in whole => b \in whole'
      BY <1>5, <2>2, Zenon DEF Opens
    <3>. QED BY <1>2, <3>1, <3>2, Zenon DEF Written
  <2>. QED BY <2>1, <2>2, Zenon
<1>6. CASE Closes(p)
  <2>. DEFINE u == <<Head(todo[p]), p>>
  <2>1. \/ u \in torn /\ whole' = whole \cup {Head(todo[p])} /\ torn' = torn \ {u}
        \/ u \notin torn /\ whole' = whole /\ torn' = torn
    BY <1>6, Zenon DEF Closes
  <2>2. u[1] = Head(todo[p]) /\ u[2] = p /\ \A t \in torn : t[1] = Head(todo[p]) /\ t[2] = p => t = u
    BY Zenon DEF Shape
  <2>3. pc[p] = "fill" /\ killed' = killed
    BY <1>6, Zenon DEF Closes
  <2>. HIDE DEF u
  <2>4. CASE u \in torn /\ b = Head(todo[p])
    BY <2>1, <2>4, Zenon DEF Written
  <2>5. CASE u \notin torn \/ b # Head(todo[p])
    <3>1. ASSUME NEW t \in torn, Holds(t) PROVE t \in torn' /\ Holds(t)'
      <4>1. t # u
        BY <2>2, <2>5, <3>1, Zenon
      <4>2. t[2] # p \/ t[2] \in killed'
        BY <2>2, <2>3, <2>5, <3>1, Zenon
      <4>. QED BY <1>3, <2>1, <3>1, <4>1, <4>2, Zenon
    <3>. QED BY <1>2, <2>1, <3>1, Zenon DEF Written
  <2>. QED BY <2>4, <2>5, Zenon
<1>7. Opens(p) \/ Closes(p) \/ (UNCHANGED <<whole, torn>> /\ (pc[p] = "fill" => p \in killed'))
  BY <1>1, Zenon DEF Effect, Begins, Leaves, Looks, Puts, Source, Lists, Skips, ReadsAlone, Truncates, Rewrites, Resting, Reading
<1>. QED BY <1>4, <1>5, <1>6, <1>7, Zenon
\* A command writes what it publishes, except for the layer of a bundle that it
\* has read.
LEMMA SourceNeeds ==
    ASSUME NEW p, NEW d, NEW ref, Source(p, d, ref), NEW x \in Needs(d)
    PROVE  \/ x \in Range(Blobs(d))
           \/ job[p].cmd = "push" /\ pc[p] \in Reading /\ \E b \in got[p] : x = LayerOf(b)
<1>1. CASE \E b : d = <<"bundle", b>>
  BY <1>1, FewBlobs, Zenon
<1>2. CASE \E t, s, y, z : d = Referrer(t, s, y, z)
  <2>1. d[1] = "referrer"
    BY <1>2 DEF Referrer
  <2>. QED BY <2>1, FewBlobs, Zenon
<1>3. ASSUME NEW k \in {"native", "index"}, NEW a, d = <<k, a>>, a.bundle = NoBundle PROVE x \in Range(Blobs(d))
  BY <1>3, Zenon DEF Needs
<1>4. CASE /\ job[p].cmd = "push" /\ pc[p] \in Reading
           /\ \E b \in got[p] : d = <<"index", AppOf(job[p], b, GenerateCycloneDX(b))>>
  <2>1. PICK b \in got[p] : d = <<"index", AppOf(job[p], b, GenerateCycloneDX(b))>>
    BY <1>4, Zenon
  <2>2. d[2].bundle = b
    BY <2>1, Zenon DEF AppOf
  <2>. QED BY <1>4, <2>2, Zenon DEF Needs, LayerOf
<1>5. AppOf(job[p], NoBundle, <<>>).bundle = NoBundle
  BY Zenon DEF AppOf
<1>. QED BY <1>1, <1>2, <1>3, <1>4, <1>5, Zenon DEF Source

\* A step of any command keeps WrittenInv: a command moves on to the next blob only
\* after it wrote this one, and puts an entry in the index only after its blobs.
LEMMA WrittenStep ==
    ASSUME Shape, WrittenInv, NEW p \in Proc, Step(p) PROVE WrittenInv'
<1>1. Frame(p) /\ Effect(p)
  BY StepFrame, StepEffect, Zenon
<1>2. \A b : Written(b) => Written(b)'
  BY WrittenStays, Zenon
<1>3. ASSUME NEW q \in Proc, q # p PROVE WrittenFor(q)'
  <2>1. WrittenFor(q)
    BY Zenon DEF WrittenInv
  <2>2. pc'[q] = pc[q] /\ todo'[q] = todo[q] /\ entry'[q] = entry[q] /\ base'[q] = base[q] /\ got'[q] = got[q] /\ job' = job
    BY <1>1, <1>3, Zenon DEF Frame
  <2>. QED BY <1>2, <2>1, <2>2, Zenon DEF WrittenFor
<1>4. WrittenFor(p) /\ job'[p].cmd = job[p].cmd
  BY <1>1, Zenon DEF WrittenInv, Frame
<1>5. \A d \in Published : \A b \in Needs(d) : Written(b)'
  BY <1>2, Zenon DEF WrittenInv
<1>6. WrittenFor(p)'
  <2>1. CASE Begins(p)
    BY <2>1, Zenon DEF Begins, WrittenFor, Updates, Reading
  <2>2. CASE Leaves(p)
    BY <2>2, Zenon DEF Leaves, Exits, WrittenFor, Updates
  <2>3. CASE Looks(p)
    <3>1. ASSUME job[p].cmd = "push", pc'[p] \in Reading, NEW b \in got'[p] PROVE Written(LayerOf(b))
      <4>1. CASE pc[p] \in Reading /\ got'[p] = got[p]
        BY <1>4, <3>1, <4>1, Zenon DEF WrittenFor
      <4>2. CASE got'[p] = ResolveDependencyBundle(index.list, whole, job[p].bundle)
        <5>1. PICK e : e[1] = "bundle" /\ Range(Blobs(e)) \subseteq whole /\ b = e[2]
          BY <3>1, <4>2, Zenon DEF ResolveDependencyBundle
        <5>. DEFINE d == <<"bundle", b>>
        <5>2. Blobs(e) = Blobs(d)
          BY <5>1, Zenon DEF Blobs
        <5>3. LayerOf(b) \in Range(Blobs(d))
          BY FewBlobs, Zenon
        <5>. QED BY <5>1, <5>2, <5>3, Zenon DEF Written
      <4>. QED BY <2>3, <3>1, <4>1, <4>2, Zenon DEF Looks, Reading
    <3>2. pc'[p] \notin {"blob", "fill", "index", "published"} \cup Updates
      BY <2>3, Zenon DEF Looks, Updates, Reading
    <3>. QED BY <1>2, <1>4, <3>1, <3>2, Zenon DEF WrittenFor
  <2>4. CASE Puts(p)
    <3>1. PICK d, ref : Source(p, d, ref) /\ pc'[p] = "blob" /\ todo'[p] = Blobs(d) /\ entry'[p] = [digest |-> d, ref |-> ref]
      BY <2>4, Zenon DEF Puts
    <3>2. ASSUME NEW x \in Needs(d) PROVE Written(x) \/ x \in Range(Blobs(d))
      <4>1. x \in Range(Blobs(d)) \/ (job[p].cmd = "push" /\ pc[p] \in Reading /\ \E b \in got[p] : x = LayerOf(b))
        BY <3>1, <3>2, SourceNeeds, Zenon
      <4>. QED BY <1>4, <4>1, Zenon DEF WrittenFor
    <3>3. entry'[p].digest = d
      BY <3>1
    <3>. QED BY <1>2, <3>1, <3>2, <3>3, Zenon DEF WrittenFor, Updates, Reading
  <2>5. CASE Opens(p)
    <3>1. pc[p] = "blob" /\ pc'[p] = "fill" /\ todo'[p] = todo[p] /\ entry'[p] = entry[p]
      BY <2>5, Zenon DEF Opens, Keeps
    <3>. DEFINE u == <<Head(todo[p]), p>>
    <3>2. u \in torn' /\ u[1] = Head(todo[p]) /\ u[2] = p
      BY <2>5, Zenon DEF Opens
    <3>. HIDE DEF u
    <3>3. \E t \in torn' : t[1] = Head(todo[p]) /\ pc'[t[2]] = "fill" /\ Head(todo'[t[2]]) = Head(todo[p])
      <4>1. pc'[u[2]] = "fill" /\ Head(todo'[u[2]]) = Head(todo[p])
        BY <3>1, <3>2, Zenon
      <4>. QED BY <3>2, <4>1, Zenon
    <3>4. Written(Head(todo[p]))'
      BY <3>1, <3>3, Zenon DEF Written
    <3>5. Needs(entry'[p].digest) = Needs(entry[p].digest)
      BY <3>1, Zenon
    <3>. QED BY <1>2, <1>4, <3>1, <3>4, <3>5, Zenon DEF WrittenFor, Updates, Reading
  <2>6. CASE Closes(p)
    <3>1. CASE Exits(p, "failed")
      BY <3>1, Zenon DEF Exits, WrittenFor, Updates
    <3>2. CASE ~Exits(p, "failed")
      <4>1. /\ pc[p] = "fill" /\ todo'[p] = Tail(todo[p]) /\ entry'[p] = entry[p]
            /\ pc'[p] = IF Len(todo[p]) = 1 THEN "index" ELSE "blob"
        BY <2>6, <3>2, Zenon DEF Closes, Keeps
      <4>2. IsList(todo[p]) /\ todo[p] # <<>>
        BY <4>1, Zenon DEF Shape
      <4>3. \A x \in Range(todo[p]) : x = Head(todo[p]) \/ (x \in Range(Tail(todo[p])) /\ Len(todo[p]) # 1)
        BY <4>2, ListTail, Zenon
      <4>4. ASSUME NEW x \in Needs(entry[p].digest)
            PROVE  Written(x) \/ (x \in Range(Tail(todo[p])) /\ Len(todo[p]) # 1)
        BY <1>4, <4>1, <4>3, Zenon DEF WrittenFor
      <4>. QED BY <1>2, <4>1, <4>4, Zenon DEF WrittenFor, Updates, Reading
    <3>. QED BY <3>1, <3>2, Zenon
  <2>7. CASE Lists(p)
    <3>1. pc[p] = "index" /\ pc'[p] = "update" /\ entry'[p] = entry[p]
      BY <2>7, Zenon DEF Lists, ReadsAlone, Keeps
    <3>2. \A x \in Needs(entry[p].digest) : Written(x)'
      BY <1>2, <1>4, <3>1, Zenon DEF WrittenFor
    <3>3. Digests(base'[p]) \subseteq Published \cup {entry[p].digest}
      BY <2>7, ListedFrom, Zenon
    <3>. QED BY <1>5, <3>1, <3>2, <3>3, Zenon DEF WrittenFor, Updates, Reading
  <2>8. CASE Skips(p)
    BY <1>2, <1>4, <2>8, Zenon DEF Skips, ReadsAlone, Keeps, WrittenFor, Updates, Reading
  <2>9. CASE Truncates(p)
    BY <1>2, <1>4, <2>9, Zenon DEF Truncates, Keeps, WrittenFor, Updates, Reading
  <2>10. CASE Rewrites(p)
    BY <1>2, <1>4, <2>10, Zenon DEF Rewrites, Keeps, WrittenFor, Updates, Reading
  <2>. QED BY <1>1, <2>1, <2>2, <2>3, <2>4, <2>5, <2>6, <2>7, <2>8, <2>9, <2>10, Zenon DEF Effect
<1>7. Published' \subseteq Published \cup (IF pc[p] \in Updates THEN Digests(base[p]) ELSE {})
  BY <1>1, PublishedFrom, Zenon
<1>8. pc[p] \in Updates => \A d \in Digests(base[p]) : \A b \in Needs(d) : Written(b)'
  BY <1>2, <1>4, Zenon DEF WrittenFor
<1>. QED BY <1>3, <1>5, <1>6, <1>7, <1>8, Zenon DEF WrittenInv
\* The memory keeps its shape, and what is needed stays written.
LEMMA StoreKept == Spec => [](Shape /\ WrittenInv)
<1>1. Init => Shape /\ WrittenInv
  <2>. SUFFICES ASSUME Init PROVE Shape /\ WrittenInv
    BY Zenon
  <2>1. Published = {}
    BY DEF Init, Published
  <2>. QED BY <2>1, ShapeInit, Zenon DEF Init, WrittenInv, WrittenFor, Updates
<1>2. Shape /\ WrittenInv /\ [Next]_vars => (Shape /\ WrittenInv)'
  <2>1. CASE UNCHANGED vars
    <3>1. Shape => Shape'
      BY <2>1, Zenon DEF Shape, vars
    <3>2. WrittenInv => WrittenInv'
      <4>1. job' = job /\ pc' = pc /\ todo' = todo /\ entry' = entry /\ base' = base /\ got' = got /\ Published' = Published
        BY <2>1, Zenon DEF vars, Published
      <4>2. \A b : Written(b)' <=> Written(b)
        BY <2>1, Zenon DEF vars, Written
      <4>. QED BY <4>1, <4>2, Zenon DEF WrittenInv, WrittenFor, Digests
    <3>. QED BY <3>1, <3>2, Zenon
  <2>2. CASE Next
    BY <2>2, ShapeStep, WrittenStep, Zenon DEF Next
  <2>. QED BY <2>1, <2>2, Zenon
<1>. QED BY <1>1, <1>2, PTL DEF Spec

\* Whatever the index lists, every blob it needs has been written, whichever
\* commands run on the layout, in whatever order, and wherever they are stopped:
\* each publishing path writes the blobs before it touches the index.
THEOREM IndexSafe == Spec => []IndexClosed
<1>1. WrittenInv => IndexClosed
  BY Zenon DEF WrittenInv, Written, IndexClosed
<1>. QED BY <1>1, StoreKept, PTL

=============================================================================
