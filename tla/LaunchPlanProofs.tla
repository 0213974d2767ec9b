-------------------------- MODULE LaunchPlanProofs --------------------------
(***************************************************************************)
(* Facts about lists, about the launches that module LaunchPlan builds     *)
(* (what is on the command line of an accepted config, and that the three  *)
(* paths which build a launch agree), and about the blobs of what module   *)
(* Publication puts together.                                              *)
(***************************************************************************)
EXTENDS Publication, WellFoundedInduction, TLAPS

----------------------------------------------------------------------------
(* Sequences of arguments.                                                 *)

\* A finite sequence of anything.
IsList(s) == \E S : s \in Seq(S)

\* A concatenation is a list, of the elements of both.
LEMMA ListConcat ==
    ASSUME NEW s, NEW t, IsList(s), IsList(t)
    PROVE  IsList(s \o t) /\ Range(s \o t) = Range(s) \cup Range(t)
<1>1. PICK S : s \in Seq(S)
  BY Zenon DEF IsList
<1>2. PICK T : t \in Seq(T)
  BY Zenon DEF IsList
<1>. DEFINE U == S \cup T
<1>3. s \in Seq(U) /\ t \in Seq(U)
  BY <1>1, <1>2
<1>. HIDE DEF U
<1>4. s \o t \in Seq(U)
  BY <1>3
<1>5. ASSUME NEW n \in DOMAIN (s \o t) PROVE (s \o t)[n] \in Range(s) \cup Range(t)
  BY <1>3 DEF Range
<1>6. ASSUME NEW n \in DOMAIN s PROVE s[n] = (s \o t)[n] /\ n \in DOMAIN (s \o t)
  BY <1>3
<1>7. ASSUME NEW n \in DOMAIN t PROVE t[n] = (s \o t)[Len(s) + n] /\ Len(s) + n \in DOMAIN (s \o t)
  <2>1. Len(s) \in Nat /\ n \in 1 .. Len(t) /\ Len(s \o t) = Len(s) + Len(t) /\ DOMAIN (s \o t) = 1 .. Len(s \o t)
    BY <1>3, <1>4
  <2>. DEFINE m == Len(s) + n
  <2>2. m \in 1 .. Len(s) + Len(t) /\ m > Len(s) /\ m - Len(s) = n
    BY <1>3, <2>1
  <2>. HIDE DEF m
  <2>3. (s \o t)[m] = t[m - Len(s)]
    BY <1>3, <2>2
  <2>4. t[n] = (s \o t)[m] /\ m \in DOMAIN (s \o t)
    BY <2>1, <2>2, <2>3, Zenon
  <2>. QED BY <2>4, Zenon DEF m
<1>8. Range(s \o t) \subseteq Range(s) \cup Range(t)
  BY <1>5, Zenon DEF Range
<1>9. Range(s) \subseteq Range(s \o t)
  BY <1>6, Zenon DEF Range
<1>10. Range(t) \subseteq Range(s \o t)
  BY <1>7, Zenon DEF Range
<1>. QED BY <1>4, <1>8, <1>9, <1>10, Zenon DEF IsList

\* The lists that are written out.
LEMMA ShortLists ==
    ASSUME NEW a, NEW b
    PROVE  /\ IsList(<<>>) /\ Range(<<>>) = {}
           /\ IsList(<<a>>) /\ Range(<<a>>) = {a}
           /\ IsList(<<a, b>>) /\ Range(<<a, b>>) = {a, b}
<1>1. <<>> \in Seq({}) /\ <<a>> \in Seq({a}) /\ <<a, b>> \in Seq({a, b})
  OBVIOUS
<1>2. Range(<<>>) = {} /\ Range(<<a>>) = {a}
  BY DEF Range
<1>3. Range(<<a, b>>) = {a, b}
  BY DEF Range
<1>. QED BY <1>1, <1>2, <1>3, Zenon DEF IsList

\* The same for three elements.
LEMMA LongLists ==
    ASSUME NEW a, NEW b, NEW c
    PROVE  IsList(<<a, b, c>>) /\ Range(<<a, b, c>>) = {a, b, c}
<1>1. <<a, b, c>> \in Seq({a, b, c})
  OBVIOUS
<1>2. Range(<<a, b, c>>) = {a, b, c}
  BY DEF Range
<1>. QED BY <1>1, <1>2, Zenon DEF IsList

\* The same for four elements.
LEMMA LongerLists ==
    ASSUME NEW a, NEW b, NEW c, NEW d
    PROVE  IsList(<<a, b, c, d>>) /\ Range(<<a, b, c, d>>) = {a, b, c, d}
<1>1. <<a, b, c, d>> \in Seq({a, b, c, d})
  OBVIOUS
<1>2. Range(<<a, b, c, d>>) = {a, b, c, d}
  BY DEF Range
<1>. QED BY <1>1, <1>2, Zenon DEF IsList

\* A list in front of one element.
LEMMA ListAppend ==
    ASSUME NEW s, NEW e, IsList(s)
    PROVE  /\ IsList(Append(s, e)) /\ Append(s, e) # <<>> /\ Range(Append(s, e)) = Range(s) \cup {e}
           /\ DOMAIN s = 1 .. Len(s) /\ Len(s) \in Nat /\ DOMAIN Append(s, e) = 1 .. Len(s) + 1
           /\ Append(s, e)[Len(s) + 1] = e /\ \A n \in DOMAIN s : Append(s, e)[n] = s[n]
<1>1. PICK S : s \in Seq(S)
  BY Zenon DEF IsList
<1>. DEFINE U == S \cup {e}
            t == Append(s, e)
<1>2. s \in Seq(U) /\ e \in U
  BY <1>1
<1>. HIDE DEF U
<1>3. /\ t \in Seq(U) /\ t # <<>> /\ DOMAIN s = 1 .. Len(s) /\ Len(s) \in Nat
      /\ DOMAIN t = 1 .. Len(s) + 1 /\ t[Len(s) + 1] = e /\ \A n \in DOMAIN s : t[n] = s[n]
  BY <1>2
<1>. HIDE DEF t
<1>4. \A n \in DOMAIN t : n \in DOMAIN s \/ n = Len(s) + 1
  BY <1>3
<1>5. DOMAIN s \subseteq DOMAIN t /\ Len(s) + 1 \in DOMAIN t
  BY <1>3
<1>6. Range(t) = Range(s) \cup {e}
  <2>1. ASSUME NEW x \in Range(t) PROVE x \in Range(s) \cup {e}
    BY <1>3, <1>4, Zenon DEF Range
  <2>2. ASSUME NEW x \in Range(s) PROVE x \in Range(t)
    BY <1>3, <1>5, Zenon DEF Range
  <2>3. e \in Range(t)
    BY <1>3, <1>5, Zenon DEF Range
  <2>. QED BY <2>1, <2>2, <2>3, Zenon
<1>. QED BY <1>3, <1>6, Zenon DEF IsList, t

\* A list that is not empty: its first element, and the others.
LEMMA ListTail ==
    ASSUME NEW s, IsList(s), s # <<>>
    PROVE  /\ IsList(Tail(s)) /\ Head(s) \in Range(s)
           /\ \A x \in Range(s) : x = Head(s) \/ (x \in Range(Tail(s)) /\ Len(s) # 1)
           /\ Len(s) # 1 => Tail(s) # <<>>
<1>1. PICK S : s \in Seq(S)
  BY Zenon DEF IsList
<1>2. Tail(s) \in Seq(S) /\ Len(s) \in Nat \ {0} /\ Len(Tail(s)) = Len(s) - 1 /\ DOMAIN s = 1 .. Len(s)
  BY <1>1
<1>3. Head(s) = s[1] /\ 1 \in DOMAIN s
  BY <1>1, <1>2
<1>4. ASSUME NEW n \in DOMAIN s, n # 1
      PROVE  n - 1 \in DOMAIN Tail(s) /\ Tail(s)[n - 1] = s[n] /\ Len(s) # 1
  <2>. DEFINE k == n - 1
  <2>1. k \in 1 .. Len(s) - 1 /\ k + 1 = n /\ Len(s) # 1
    BY <1>2, <1>4
  <2>. HIDE DEF k
  <2>2. k \in DOMAIN Tail(s) /\ Tail(s)[k] = s[k + 1]
    BY <1>1, <1>2, <2>1
  <2>3. k \in DOMAIN Tail(s) /\ Tail(s)[k] = s[n] /\ Len(s) # 1
    BY <2>1, <2>2, Zenon
  <2>. QED BY <2>3, Zenon DEF k
<1>5. ASSUME NEW x \in Range(s) PROVE x = Head(s) \/ (x \in Range(Tail(s)) /\ Len(s) # 1)
  <2>1. PICK n \in DOMAIN s : x = s[n]
    BY Zenon DEF Range
  <2>2. CASE n # 1
    <3>. DEFINE k == n - 1
    <3>1. k \in DOMAIN Tail(s) /\ Tail(s)[k] = s[n] /\ Len(s) # 1
      BY <1>4, <2>2, Zenon
    <3>. HIDE DEF k
    <3>. QED BY <2>1, <3>1, Zenon DEF Range
  <2>. QED BY <1>3, <2>1, <2>2, Zenon
<1>6. Len(s) # 1 => Tail(s) # <<>>
  <2>1. Len(<<>>) = 0
    BY Zenon
  <2>2. Tail(s) = <<>> => Len(Tail(s)) = 0
    BY <2>1, Zenon
  <2>. QED BY <1>2, <2>2
<1>. QED BY <1>2, <1>3, <1>5, <1>6, Zenon DEF IsList, Range

\* A non-empty set of naturals has a least element.
LEMMA LeastOf ==
    ASSUME NEW S, S \subseteq Nat, S # {}
    PROVE  \E i \in S : \A j \in S : i <= j
<1>. DEFINE R == {ss \in Nat \X Nat : ss[1] < ss[2]}
<1>1. IsWellFoundedOn(R, Nat)
  BY NatLessThanWellFounded, Zenon DEF OpToRel
<1>2. PICK i \in S : \A j \in S : <<j, i>> \notin R
  BY <1>1, WFMin, Zenon
<1>3. \A j \in S : ~(j < i)
  BY <1>2, Zenon
<1>. QED BY <1>3

\* The end of a list is the end of what it is appended to.
LEMMA SuffixConcat ==
    ASSUME NEW e, NEW s, NEW t, IsList(e), IsList(s), IsList(t), e = t \/ EndsIn(t, e)
    PROVE  EndsIn(s \o t, e)
<1>1. PICK E : e \in Seq(E)
  BY Zenon DEF IsList
<1>2. PICK S : s \in Seq(S)
  BY Zenon DEF IsList
<1>3. PICK T : t \in Seq(T)
  BY Zenon DEF IsList
<1>4. EndsIn(t, e)
  BY <1>1 DEF EndsIn
<1>5. Len(s \o t) = Len(s) + Len(t) /\ \A n \in 1 .. Len(t) : (s \o t)[Len(s) + n] = t[n]
  BY <1>2, <1>3
<1>6. ASSUME NEW n \in DOMAIN e PROVE e[n] = (s \o t)[((Len(s) + Len(t)) - Len(e)) + n]
  <2>. DEFINE k == (Len(t) - Len(e)) + n
  <2>1. Len(s) \in Nat /\ Len(t) \in Nat /\ Len(e) \in Nat /\ n \in 1 .. Len(e)
    BY <1>1, <1>2, <1>3
  <2>2. Len(e) <= Len(t) /\ e[n] = t[k]
    BY <1>4, Zenon DEF EndsIn
  <2>3. k \in 1 .. Len(t) /\ ((Len(s) + Len(t)) - Len(e)) + n = Len(s) + k
    BY <2>1, <2>2
  <2>. HIDE DEF k
  <2>. QED BY <1>5, <2>2, <2>3, Zenon
<1>. QED BY <1>1, <1>2, <1>3, <1>4, <1>5, <1>6 DEF EndsIn

----------------------------------------------------------------------------
(* The launches that an input gives.                                       *)

\* No argument concerns a class-data archive.
Ordinary(s) == \A x \in Range(s) : x[1] \notin {"-XX:SharedArchiveFile", "-XX:+AutoCreateSharedArchive"}

\* ... which concatenation preserves,
LEMMA OrdinaryConcat ==
    ASSUME NEW s, NEW t, IsList(s), IsList(t), Ordinary(s), Ordinary(t)
    PROVE  IsList(s \o t) /\ Ordinary(s \o t)
BY ListConcat, Zenon DEF Ordinary

\* ... and which the flags of a config,
LEMMA FlagsOrdinary ==
    ASSUME NEW c PROVE IsList(Flags(c)) /\ Ordinary(Flags(c))
<1>1. ASSUME NEW f \in {"--enable-preview", "--add-modules", "--add-opens", "--add-exports", "-D"}
      PROVE  IsList(Flag(c, f)) /\ Ordinary(Flag(c, f))
  <2>. DEFINE w == <<f>>
  <2>1. w[1] \notin {"-XX:SharedArchiveFile", "-XX:+AutoCreateSharedArchive"}
    BY Zenon
  <2>2. Flag(c, f) = <<>> \/ Flag(c, f) = <<w>>
    BY Zenon DEF Flag
  <2>. HIDE DEF w
  <2>3. IsList(<<>>) /\ Range(<<>>) = {} /\ IsList(<<w>>) /\ Range(<<w>>) = {w}
    BY ShortLists, Zenon
  <2>. QED BY <2>1, <2>2, <2>3, Zenon DEF Ordinary
<1>. QED BY <1>1, OrdinaryConcat, Zenon DEF Flags

\* ... and its entry point satisfy.
LEMMA EntryOrdinary ==
    ASSUME NEW c, ModeOwns(c) PROVE IsList(Entry(c)) /\ Ordinary(Entry(c))
<1>1. c.mode \in {"", "jar", "classpath", "module"}
  BY Zenon DEF ModeOwns
<1>2. ASSUME NEW x, NEW k \in {"-jar", "-cp", "-p"}, NEW w \in {"main class", "-m"}
      PROVE  /\ IsList(<< <<k, x>> >>) /\ Ordinary(<< <<k, x>> >>)
             /\ IsList(<< <<k, x>>, <<w>> >>) /\ Ordinary(<< <<k, x>>, <<w>> >>)
             /\ IsList(<<>>) /\ Ordinary(<<>>)
  <2>. DEFINE a == <<k, x>>
              b == <<w>>
  <2>1. {a[1], b[1]} \cap {"-XX:SharedArchiveFile", "-XX:+AutoCreateSharedArchive"} = {}
    BY Zenon
  <2>. HIDE DEF a, b
  <2>2. /\ IsList(<<a>>) /\ Ordinary(<<a>>) /\ IsList(<<a, b>>) /\ Ordinary(<<a, b>>)
        /\ IsList(<<>>) /\ Ordinary(<<>>)
    <3>1. /\ IsList(<<>>) /\ Range(<<>>) = {} /\ IsList(<<a>>) /\ Range(<<a>>) = {a}
          /\ IsList(<<a, b>>) /\ Range(<<a, b>>) = {a, b}
      BY ShortLists, Zenon
    <3>. QED BY <2>1, <3>1, Zenon DEF Ordinary
  <2>. QED BY <2>2, Zenon DEF a, b
<1>3. CASE c.mode \in {"", "jar"}
  <2>1. Entry(c) = << <<"-jar", MainJar(c)>> >>
    BY <1>3, Zenon DEF Entry
  <2>. QED BY <1>2, <2>1, Zenon
<1>4. CASE c.mode = "classpath"
  <2>1. Entry(c) = << <<"-cp", joinAppPaths(c.classPath, c)>>, <<"main class">> >>
    BY <1>4, Zenon DEF Entry
  <2>. QED BY <1>2, <2>1, Zenon
<1>5. CASE c.mode = "module"
  <2>. DEFINE h == IF c.classPath = <<>> THEN <<>> ELSE << <<"-cp", joinAppPaths(c.classPath, c)>> >>
              g == << <<"-p", joinAppPaths(c.modulePath, c)>>, <<"-m">> >>
  <2>1. Entry(c) = h \o g
    BY <1>5, Zenon DEF Entry
  <2>2. IsList(h) /\ Ordinary(h) /\ IsList(g) /\ Ordinary(g)
    BY <1>2, Zenon
  <2>. HIDE DEF h, g
  <2>. QED BY <2>1, <2>2, OrdinaryConcat, Zenon
<1>. QED BY <1>1, <1>3, <1>4, <1>5, Zenon

\* The options that name an archive, and the one that makes the JVM write it.
Names(a) == <<"-XX:SharedArchiveFile", a>>
Writes == <<"-XX:+AutoCreateSharedArchive">>

\* The arguments that use an archive.
LEMMA ShareList ==
    ASSUME NEW a
    PROVE  IsList(Share(a)) /\ Range(Share(a)) = {<<"-Xshare:auto">>, Names(a)}
<1>. DEFINE x == <<"-Xshare:auto">>
            y == Names(a)
<1>1. Share(a) = <<x, y>>
  BY Zenon DEF Share, Names
<1>. HIDE DEF x, y
<1>2. IsList(<<x, y>>) /\ Range(<<x, y>>) = {x, y}
  BY ShortLists, Zenon
<1>. QED BY <1>1, <1>2, Zenon DEF x, y

\* The arguments of each role in an archive's regeneration.
LEMMA RegenList ==
    ASSUME NEW r
    PROVE  /\ IsList(RegenArgs(r))
           /\ r = "consume" => Range(RegenArgs(r)) = {<<"-Xshare:auto">>, Names("cache")}
           /\ r = "write" => Range(RegenArgs(r)) = {Writes, <<"-Xshare:auto">>, Names("cache")}
           /\ r \notin {"consume", "write"} => Range(RegenArgs(r)) = {}
<1>. DEFINE sh == Share("cache")
            w == <<Writes>>
<1>1. IsList(sh) /\ Range(sh) = {<<"-Xshare:auto">>, Names("cache")}
  BY ShareList, Zenon
<1>2. IsList(w) /\ Range(w) = {Writes} /\ IsList(<<>>) /\ Range(<<>>) = {}
  BY ShortLists, Zenon
<1>3. /\ r = "consume" => RegenArgs(r) = sh
      /\ r = "write" => RegenArgs(r) = w \o sh
      /\ r \notin {"consume", "write"} => RegenArgs(r) = <<>>
  BY Zenon DEF RegenArgs, Writes
<1>. HIDE DEF sh, w
<1>4. IsList(w \o sh) /\ Range(w \o sh) = {Writes} \cup {<<"-Xshare:auto">>, Names("cache")}
  BY <1>1, <1>2, ListConcat
<1>5. ASSUME NEW a, NEW b, NEW c PROVE {a} \cup {b, c} = {a, b, c}
  BY Zenon
<1>. QED BY <1>1, <1>2, <1>3, <1>4, <1>5, Zenon

\* What is on the shim's command line: the archive options that the role and the
\* config call for, once, and the entry point at its end.
LEMMA ArgvIs ==
    ASSUME NEW i, NEW r, Validate(i.cfg),
           i.launcher \notin {"-XX:SharedArchiveFile", "-XX:+AutoCreateSharedArchive"}
    PROVE  LET argv == << <<LauncherName(i.launcher)>> >> \o RegenArgs(r) \o BuildJVMArgs(i.cfg, <<>>, i.regen) IN
           /\ IsList(argv) /\ EndsIn(argv, Entry(i.cfg))
           /\ \A x \in Range(argv) : x[1] = "-XX:SharedArchiveFile" =>
                \/ x = Names("cache") /\ r \in {"consume", "write"}
                \/ x = Names(i.cfg.cds) /\ i.cfg.cds # "none" /\ ~i.regen
           /\ Writes \in Range(argv) <=> r = "write"
<1>. DEFINE c == i.cfg
            word == <<LauncherName(i.launcher)>>
            L == <<word>>
            R == RegenArgs(r)
            S == IF c.cds # "none" /\ ~i.regen THEN Share(c.cds) ELSE <<>>
            F == Flags(c)
            X == <<>>
            E == Entry(c)
            B == BuildJVMArgs(c, X, i.regen)
            Special == {"-XX:SharedArchiveFile", "-XX:+AutoCreateSharedArchive"}
<1>1. word[1] \notin Special
  BY Zenon DEF LauncherName
<1>2. IsList(L) /\ Range(L) = {word} /\ IsList(X) /\ Range(X) = {}
  <2>. HIDE DEF word
  <2>. QED BY ShortLists, Zenon
<1>3. IsList(R)
  BY RegenList, Zenon
<1>4. IsList(F) /\ \A x \in Range(F) : x[1] \notin Special
  BY FlagsOrdinary, Zenon DEF Ordinary
<1>5. IsList(E) /\ \A x \in Range(E) : x[1] \notin Special
  BY EntryOrdinary, Zenon DEF Validate, Ordinary
<1>6. /\ IsList(S)
      /\ c.cds # "none" /\ ~i.regen => Range(S) = {<<"-Xshare:auto">>, Names(c.cds)}
      /\ ~(c.cds # "none" /\ ~i.regen) => Range(S) = {}
  BY ShareList, <1>2, Zenon
<1>7. B = ((S \o F) \o X) \o E
  BY Zenon DEF BuildJVMArgs
<1>. HIDE DEF word, L, R, S, F, X, E, B
<1>8. IsList(S \o F) /\ Range(S \o F) = Range(S) \cup Range(F)
  BY <1>4, <1>6, ListConcat, Zenon
<1>9. IsList((S \o F) \o X) /\ Range((S \o F) \o X) = Range(S) \cup Range(F)
  BY <1>2, <1>8, ListConcat
<1>10. IsList(B) /\ Range(B) = Range(S) \cup Range(F) \cup Range(E) /\ EndsIn(B, E)
  BY <1>5, <1>7, <1>9, ListConcat, SuffixConcat, Zenon
<1>11. IsList(L \o R) /\ Range(L \o R) = {word} \cup Range(R)
  BY <1>2, <1>3, ListConcat, Zenon
<1>. DEFINE argv == (L \o R) \o B
<1>12. IsList(argv) /\ Range(argv) = ({word} \cup Range(R)) \cup (Range(S) \cup Range(F) \cup Range(E)) /\ EndsIn(argv, E)
  BY <1>5, <1>10, <1>11, ListConcat, SuffixConcat
<1>. HIDE DEF argv
<1>13. <<"-Xshare:auto">>[1] \notin Special /\ Writes[1] = "-XX:+AutoCreateSharedArchive"
       /\ \A a : Names(a)[1] = "-XX:SharedArchiveFile"
  BY Zenon DEF Writes, Names
<1>14. ASSUME NEW x \in Range(argv)
       PROVE  /\ x[1] = "-XX:SharedArchiveFile" =>
                \/ x = Names("cache") /\ r \in {"consume", "write"}
                \/ x = Names(c.cds) /\ c.cds # "none" /\ ~i.regen
              /\ x = Writes => r = "write"
  <2>1. CASE x = word \/ x \in Range(F) \/ x \in Range(E)
    BY <1>1, <1>4, <1>5, <1>13, <2>1, Zenon
  <2>2. CASE x \in Range(R)
    BY <1>13, <2>2, RegenList DEF R
  <2>3. CASE x \in Range(S)
    BY <1>6, <1>13, <2>3, Zenon
  <2>. QED BY <1>12, <2>1, <2>2, <2>3, Zenon
<1>15. r = "write" => Writes \in Range(argv)
  BY <1>12, RegenList, Zenon DEF R
<1>. QED BY <1>12, <1>14, <1>15, Zenon DEF argv, L, R, B, E, word, X

\* What LaunchIsWhole asks of the launch of an input.
Whole(i, r) ==
    LET l == ShimLaunch(i, r)
        p == PortableLaunch(i, r)
        h == LocalLaunch(i, r, <<>>)
        Layers(m) == {x \in m : x[1] \in i.layers}
    IN  /\ EndsIn(l.argv, Entry(i.cfg))
        /\ \A n \in DOMAIN l.argv : l.argv[n][1] = "-XX:SharedArchiveFile" =>
             \/ \E m \in l.mounts : m[1] = l.argv[n][2]
             \/ i.format = "native" /\ ~i.archive
        /\ (<<"-XX:+AutoCreateSharedArchive">> \in Range(l.argv)) = (<<"cache", "node", "rw">> \in l.mounts)
        /\ p.argv = l.argv /\ p.mounts \ Layers(p.mounts) = l.mounts \ Layers(l.mounts)
        /\ {m[1] : m \in p.mounts} = {m[1] : m \in l.mounts}
        /\ i.regen = Keyed(i) => h.argv = l.argv
        /\ {f[1] : f \in h.files} = {m[1] : m \in l.mounts} \ {"/opt/jdk", "cache", "launcher"}

\* The set of the first components of a set of tuples.
LEMMA FirstsAre ==
    ASSUME NEW M, NEW D, \A m \in M : m[1] \in D, \A d \in D : \E m \in M : m[1] = d
    PROVE  {m[1] : m \in M} = D
BY Zenon

\* Every accepted input, in every role, gives a launch that is whole: a runnable
\* image is not accepted without the archive that its config names.
LEMMA LaunchWhole ==
    ASSUME NEW i, NEW r \in Role, Validate(i.cfg),
           i.format = "native" \/ i.cfg.cds = "none" \/ i.archive,
           i.launcher \notin {"-XX:SharedArchiveFile", "-XX:+AutoCreateSharedArchive"},
           ({i.cfg.mainJar, i.cfg.cds} \cup i.layers) \cap {"/opt/jdk", "cache", "launcher"} = {}
    PROVE  Whole(i, r)
<1>. DEFINE l == ShimLaunch(i, r)
            p == PortableLaunch(i, r)
            h == LocalLaunch(i, r, <<>>)
            k == IF Keyed(i) THEN r ELSE "skip"
            jar == <<MainJar(i.cfg), StageCDSJar(i, "blob"), "ro">>
            jdk == <<"/opt/jdk", "home", "ro">>
            Layers(m) == {x \in m : x[1] \in i.layers}
            Other == {"/opt/jdk", "cache", "launcher"}
<1>1. /\ l.argv = << <<LauncherName(i.launcher)>> >> \o RegenArgs(k) \o BuildJVMArgs(i.cfg, <<>>, i.regen)
      /\ p.argv = l.argv
      /\ l.mounts = {jdk, jar} \cup ArchiveMount(i) \cup RegenMount(k) \cup LauncherMount(i)
                      \cup LayerMounts(i, shipsCDS(i.cfg))
      /\ p.mounts = {jdk, jar} \cup LayerMounts(i, shipsCDS(i.cfg) \/ i.regen) \cup ArchiveMount(i)
                      \cup RegenMount(k) \cup LauncherMount(i)
  BY Zenon DEF ShimLaunch, PortableLaunch
<1>2. MainJar(i.cfg) \notin Other /\ i.cfg.cds \notin Other /\ i.layers \cap Other = {}
  BY Zenon DEF MainJar
<1>3. \A pin : \A x \in LayerMounts(i, pin) : x[1] \in i.layers
  BY DEF LayerMounts
<1>4. k \in Role
  BY Zenon DEF Role
<1>5. /\ \A x \in RegenMount(k) : x[1] = "cache"
      /\ \A x \in LauncherMount(i) : x[1] = "launcher"
      /\ \A x \in ArchiveMount(i) : x[1] = i.cfg.cds
      /\ jdk[1] = "/opt/jdk" /\ jar[1] = MainJar(i.cfg)
  BY DEF RegenMount, LauncherMount, ArchiveMount
<1>6. <<"cache", "node", "rw">> \in RegenMount(k) <=> k = "write"
  BY Zenon DEF RegenMount
<1>7. k \in {"consume", "write"} => \E x \in RegenMount(k) : x[1] = "cache"
  BY Zenon DEF RegenMount
<1>8. ~i.regen /\ i.archive /\ i.cfg.cds # "none" => \E x \in ArchiveMount(i) : x[1] = i.cfg.cds
  BY Zenon DEF ArchiveMount, Seed
<1>9. /\ EndsIn(l.argv, Entry(i.cfg))
      /\ \A x \in Range(l.argv) : x[1] = "-XX:SharedArchiveFile" =>
           \/ x = Names("cache") /\ k \in {"consume", "write"}
           \/ x = Names(i.cfg.cds) /\ i.cfg.cds # "none" /\ ~i.regen
      /\ Writes \in Range(l.argv) <=> k = "write"
  BY <1>1, ArgvIs
<1>10. \A a : Names(a)[2] = a
  BY Zenon DEF Names
<1>11. i.regen = Keyed(i) => h.argv = l.argv
  BY <1>1, Zenon DEF LocalLaunch, BuildPlan
<1>12. h.files = AssembleSandbox(i)
  BY Zenon DEF LocalLaunch
<1>14. {f[1] : f \in AssembleSandbox(i)} =
         {MainJar(i.cfg)} \cup i.layers \cup (IF Seed(i) /\ ~i.regen THEN {i.cfg.cds} ELSE {})
  <2>. DEFINE pin == PinCDSModTimesUnder(shipsCDS(i.cfg) \/ i.regen)
              A == {<<MainJar(i.cfg), StageCDSJar(i, "copied")>>}
              D == {<<d, pin>> : d \in i.layers}
              G == IF Seed(i) /\ ~i.regen THEN {<<i.cfg.cds, "copied">>} ELSE {}
  <2>1. AssembleSandbox(i) = A \cup D \cup G
    BY Zenon DEF AssembleSandbox
  <2>2. {f[1] : f \in A} = {MainJar(i.cfg)}
    <3>1. (\A f \in A : f[1] = MainJar(i.cfg)) /\ (\E f \in A : f[1] = MainJar(i.cfg))
      OBVIOUS
    <3>. HIDE DEF A
    <3>. QED BY <3>1, FirstsAre
  <2>3. {f[1] : f \in D} = i.layers
    <3>1. \A f \in D : f[1] \in i.layers
      OBVIOUS
    <3>2. ASSUME NEW d \in i.layers PROVE \E f \in D : f[1] = d
      <4>1. <<d, pin>> \in D /\ <<d, pin>>[1] = d
        BY Zenon
      <4>. QED BY <4>1, Zenon
    <3>. HIDE DEF D
    <3>. QED BY <3>1, <3>2, FirstsAre, Zenon
  <2>4. {f[1] : f \in G} = IF Seed(i) /\ ~i.regen THEN {i.cfg.cds} ELSE {}
    <3>1. CASE Seed(i) /\ ~i.regen
      <4>. DEFINE g == <<i.cfg.cds, "copied">>
      <4>0. g[1] = i.cfg.cds /\ G = {g}
        BY <3>1, Zenon
      <4>. HIDE DEF G, g
      <4>1. (\A f \in G : f[1] = i.cfg.cds) /\ (\E f \in G : f[1] = i.cfg.cds)
        BY <4>0, Zenon
      <4>2. {f[1] : f \in G} = {i.cfg.cds}
        BY <4>1, FirstsAre
      <4>. QED BY <3>1, <4>2, Zenon
    <3>2. CASE ~(Seed(i) /\ ~i.regen)
      BY <3>2, Zenon
    <3>. QED BY <3>1, <3>2, Zenon
  <2>. HIDE DEF A, D, G
  <2>. QED BY <2>1, <2>2, <2>3, <2>4, Zenon
<1>15. ASSUME NEW pin PROVE {m[1] : m \in LayerMounts(i, pin)} = i.layers
  <2>1. ASSUME NEW d \in i.layers PROVE \E m \in LayerMounts(i, pin) : m[1] = d
    <3>1. <<d, PinCDSModTimesUnder(pin), "ro">> \in LayerMounts(i, pin) /\ <<d, PinCDSModTimesUnder(pin), "ro">>[1] = d
      BY Zenon DEF LayerMounts
    <3>. QED BY <3>1, Zenon
  <2>. QED BY <1>3, <2>1, FirstsAre, Zenon
<1>16. {m[1] : m \in ArchiveMount(i)} = IF Seed(i) /\ ~i.regen THEN {i.cfg.cds} ELSE {}
  <2>1. CASE Seed(i) /\ ~i.regen
    <3>1. (\A m \in ArchiveMount(i) : m[1] = i.cfg.cds) /\ (\E m \in ArchiveMount(i) : m[1] = i.cfg.cds)
      BY <1>5, <1>8, <2>1, Zenon DEF Seed
    <3>2. {m[1] : m \in ArchiveMount(i)} = {i.cfg.cds}
      BY <3>1, FirstsAre
    <3>. QED BY <2>1, <3>2, Zenon
  <2>2. CASE ~(Seed(i) /\ ~i.regen)
    BY <2>2, Zenon DEF ArchiveMount
  <2>. QED BY <2>1, <2>2, Zenon
<1>. HIDE DEF l, p, h, k, jar, jdk
<1>17. \A n \in DOMAIN l.argv : l.argv[n][1] = "-XX:SharedArchiveFile" =>
             \/ \E m \in l.mounts : m[1] = l.argv[n][2]
             \/ i.format = "native" /\ ~i.archive
  <2>1. SUFFICES ASSUME NEW n \in DOMAIN l.argv, l.argv[n][1] = "-XX:SharedArchiveFile", i.cfg.cds = "none" \/ i.archive
                 PROVE  \E m \in l.mounts : m[1] = l.argv[n][2]
    BY Zenon
  <2>2. l.argv[n] \in Range(l.argv)
    BY <2>1, Zenon DEF Range
  <2>3. CASE l.argv[n] = Names("cache") /\ k \in {"consume", "write"}
    <3>1. l.argv[n][2] = "cache"
      BY <1>10, <2>3, Zenon
    <3>2. RegenMount(k) \subseteq l.mounts
      BY <1>1, Zenon
    <3>. QED BY <1>7, <2>3, <3>1, <3>2, Zenon
  <2>4. CASE l.argv[n] = Names(i.cfg.cds) /\ i.cfg.cds # "none" /\ ~i.regen
    <3>1. l.argv[n][2] = i.cfg.cds
      BY <1>10, <2>4, Zenon
    <3>2. ArchiveMount(i) \subseteq l.mounts
      BY <1>1, Zenon
    <3>. QED BY <1>8, <2>1, <2>4, <3>1, <3>2, Zenon
  <2>. QED BY <1>9, <2>1, <2>2, <2>3, <2>4, Zenon
<1>18. (<<"-XX:+AutoCreateSharedArchive">> \in Range(l.argv)) = (<<"cache", "node", "rw">> \in l.mounts)
  <2>. DEFINE rw == <<"cache", "node", "rw">>
  <2>1. rw[1] = "cache"
    BY Zenon
  <2>2. rw \in RegenMount(k) <=> k = "write"
    BY <1>6, Zenon
  <2>. HIDE DEF rw
  <2>3. rw \in l.mounts <=> rw \in RegenMount(k)
    BY <1>1, <1>2, <1>3, <1>5, <2>1, Zenon
  <2>. QED BY <1>9, <2>2, <2>3 DEF rw, Writes
<1>13. p.mounts \ Layers(p.mounts) = l.mounts \ Layers(l.mounts)
  BY <1>1, <1>3, Zenon
<1>19. {m[1] : m \in p.mounts} = {m[1] : m \in l.mounts}
  <2>. DEFINE Rest == {jdk, jar} \cup ArchiveMount(i) \cup RegenMount(k) \cup LauncherMount(i)
  <2>1. /\ l.mounts = Rest \cup LayerMounts(i, shipsCDS(i.cfg))
        /\ p.mounts = Rest \cup LayerMounts(i, shipsCDS(i.cfg) \/ i.regen)
    BY <1>1, Zenon
  <2>. HIDE DEF Rest
  <2>2. /\ {m[1] : m \in l.mounts} = {m[1] : m \in Rest} \cup {m[1] : m \in LayerMounts(i, shipsCDS(i.cfg))}
        /\ {m[1] : m \in p.mounts} = {m[1] : m \in Rest} \cup {m[1] : m \in LayerMounts(i, shipsCDS(i.cfg) \/ i.regen)}
    BY <2>1
  <2>. QED BY <1>15, <2>2, Zenon
<1>20. {f[1] : f \in h.files} = {m[1] : m \in l.mounts} \ Other
  <2>1. {m[1] : m \in l.mounts} = {jdk[1], jar[1]} \cup {m[1] : m \in ArchiveMount(i)} \cup {m[1] : m \in RegenMount(k)}
            \cup {m[1] : m \in LauncherMount(i)} \cup {m[1] : m \in LayerMounts(i, shipsCDS(i.cfg))}
    BY <1>1
  <2>2. {m[1] : m \in RegenMount(k)} \subseteq {"cache"}
    BY <1>5, Zenon
  <2>3. {m[1] : m \in LauncherMount(i)} \subseteq {"launcher"}
    BY <1>5, Zenon
  <2>. QED BY <1>2, <1>5, <1>12, <1>14, <1>15, <1>16, <2>1, <2>2, <2>3, Zenon
<1>. QED BY <1>1, <1>9, <1>11, <1>13, <1>17, <1>18, <1>19, <1>20, Zenon DEF Whole, l, p, h

----------------------------------------------------------------------------
(* The files that the arguments name.                                      *)

\* The files that an argument names.
Files(a) ==
    IF a[1] \in {"-cp", "-p"} THEN Range(a[2])
    ELSE IF a[1] \in {"-jar", "-XX:SharedArchiveFile"} THEN {a[2]} ELSE {}
Within(s, F) == IsList(s) /\ \A a \in Range(s) : Files(a) \subseteq F

\* A concatenation of arguments names no file that its parts do not name.
LEMMA WithinConcat ==
    ASSUME NEW s, NEW t, NEW F, Within(s, F), Within(t, F) PROVE Within(s \o t, F)
<1>1. IsList(s \o t) /\ Range(s \o t) = Range(s) \cup Range(t)
  BY ListConcat, Zenon DEF Within
<1>. QED BY <1>1, Zenon DEF Within

\* Lists of one or two arguments, and of none.
LEMMA WithinShort ==
    ASSUME NEW F, NEW a, NEW b, Files(a) \subseteq F, Files(b) \subseteq F
    PROVE  Within(<<>>, F) /\ Within(<<a>>, F) /\ Within(<<a, b>>, F)
  BY ShortLists DEF Within

\* A flag without a path names no file.
LEMMA WordFiles ==
    ASSUME NEW w, w \notin {"-cp", "-p", "-jar", "-XX:SharedArchiveFile"} PROVE Files(<<w>>) = {}
  BY Zenon DEF Files

\* The JVM flags of a config name no file.
LEMMA FlagsWithin ==
    ASSUME NEW c, NEW F PROVE Within(Flags(c), F)
<1>1. ASSUME NEW f \in {"--enable-preview", "--add-modules", "--add-opens", "--add-exports", "-D"}
      PROVE  Within(Flag(c, f), F)
  <2>. DEFINE x == <<f>>
  <2>1. Files(x) = {}
    BY <1>1, WordFiles, Zenon
  <2>2. Flag(c, f) = <<x>> \/ Flag(c, f) = <<>>
    BY Zenon DEF Flag
  <2>. HIDE DEF x
  <2>. QED BY <2>1, <2>2, WithinShort, Zenon
<1>. DEFINE a == Flag(c, "--enable-preview")
            b == Flag(c, "--add-modules")
            d == Flag(c, "--add-opens")
            e == Flag(c, "--add-exports")
            f == Flag(c, "-D")
<1>2. Within(a, F) /\ Within(b, F) /\ Within(d, F) /\ Within(e, F) /\ Within(f, F)
  BY <1>1, Zenon
<1>3. Flags(c) = a \o b \o d \o e \o f
  BY Zenon DEF Flags
<1>. HIDE DEF a, b, d, e, f
<1>4. Within(a \o b, F)
  BY <1>2, WithinConcat, Zenon
<1>5. Within(a \o b \o d, F)
  BY <1>2, <1>4, WithinConcat, Zenon
<1>6. Within(a \o b \o d \o e, F)
  BY <1>2, <1>5, WithinConcat, Zenon
<1>7. Within(a \o b \o d \o e \o f, F)
  BY <1>2, <1>6, WithinConcat, Zenon
<1>. QED BY <1>3, <1>7, Zenon

\* The CDS arguments name the archive and no other file.
LEMMA ShareWithin ==
    ASSUME NEW a, NEW F, a \in F PROVE Within(Share(a), F)
<1>. DEFINE x == <<"-Xshare:auto">>
            y == <<"-XX:SharedArchiveFile", a>>
<1>1. Share(a) = <<x, y>>
  BY Zenon DEF Share
<1>2. Files(x) = {} /\ Files(y) = {a}
  BY Zenon DEF Files
<1>. HIDE DEF x, y
<1>3. Within(<<x, y>>, F)
  BY <1>2, WithinShort, Zenon
<1>. QED BY <1>1, <1>3, Zenon

\* The entry point is there, and names the main JAR or the paths of the config.
LEMMA EntryWithin ==
    ASSUME NEW c, NEW F, ModeOwns(c),
           c.mode \in {"", "jar"} => MainJar(c) \in F,
           c.mode \in {"classpath", "module"} /\ c.classPath # <<>> => Range(c.classPath) \subseteq F,
           c.mode = "classpath" /\ c.classPath = <<>> => MainJar(c) \in F,
           c.mode = "module" => Range(joinAppPaths(c.modulePath, c)) \subseteq F
    PROVE  Within(Entry(c), F) /\ Entry(c) # <<>>
<1>1. c.mode \in {"", "jar", "classpath", "module"}
  BY Zenon DEF ModeOwns
<1>. DEFINE jar == <<"-jar", MainJar(c)>>
            cp == <<"-cp", joinAppPaths(c.classPath, c)>>
            mp == <<"-p", joinAppPaths(c.modulePath, c)>>
            m == <<"main class">>
            n == <<"-m">>
<1>2. /\ Files(jar) = {MainJar(c)} /\ Files(cp) = Range(joinAppPaths(c.classPath, c))
      /\ Files(mp) = Range(joinAppPaths(c.modulePath, c)) /\ Files(m) = {} /\ Files(n) = {}
  BY Zenon DEF Files
<1>3. /\ c.mode \in {"", "jar"} => Entry(c) = <<jar>>
      /\ c.mode = "classpath" => Entry(c) = <<cp, m>>
      /\ c.mode = "module" => Entry(c) = (IF c.classPath = <<>> THEN <<>> ELSE <<cp>>) \o <<mp, n>>
  BY Zenon DEF Entry
<1>. HIDE DEF jar, cp, mp, m, n
<1>4. CASE c.mode \in {"", "jar"}
  <2>1. Within(<<jar>>, F) /\ <<jar>> # <<>>
    BY <1>2, <1>4, WithinShort, Zenon
  <2>. QED BY <1>3, <1>4, <2>1, Zenon
<1>5. Range(<<MainJar(c)>>) = {MainJar(c)}
  BY ShortLists, Zenon
<1>6. CASE c.mode = "classpath"
  <2>1. Files(cp) \subseteq F
    BY <1>2, <1>5, <1>6, Zenon DEF joinAppPaths
  <2>2. Within(<<cp, m>>, F) /\ <<cp, m>> # <<>>
    BY <1>2, <2>1, WithinShort, Zenon
  <2>. QED BY <1>3, <1>6, <2>2, Zenon
<1>7. CASE c.mode = "module"
  <2>. DEFINE s == IF c.classPath = <<>> THEN <<>> ELSE <<cp>>
              t == <<mp, n>>
  <2>1. c.classPath # <<>> => Files(cp) \subseteq F
    BY <1>2, <1>7, Zenon DEF joinAppPaths
  <2>2. Within(s, F) /\ Within(t, F)
    BY <1>2, <1>7, <2>1, WithinShort, Zenon
  <2>3. mp \in Range(t)
    <3>1. \A a, b : Range(<<a, b>>) = {a, b}
      BY ShortLists, Zenon
    <3>2. Range(t) = {mp, n}
      BY <3>1, Zenon
    <3>. QED BY <3>2, Zenon
  <2>4. Entry(c) = s \o t
    BY <1>3, <1>7, Zenon
  <2>. HIDE DEF s, t
  <2>5. IsList(s) /\ IsList(t)
    BY <2>2, Zenon DEF Within
  <2>6. mp \in Range(s \o t)
    BY <2>3, <2>5, ListConcat, Zenon
  <2>7. s \o t # <<>>
    BY <2>6, ShortLists, Zenon
  <2>. QED BY <2>2, <2>4, <2>7, WithinConcat, Zenon
<1>. QED BY <1>1, <1>4, <1>6, <1>7, Zenon

\* The JVM gets arguments, and the files they name are the archive's and those of
\* the entry point.
LEMMA ArgsWithin ==
    ASSUME NEW c, Validate(c)
    PROVE  /\ BuildJVMArgs(c, <<>>, FALSE) # <<>>
           /\ \A F : (c.cds # "none" => c.cds \in F) /\ Within(Entry(c), F)
                      => \A a \in Range(BuildJVMArgs(c, <<>>, FALSE)) : Files(a) \subseteq F
<1>. DEFINE s == IF c.cds # "none" THEN Share(c.cds) ELSE <<>>
            f == Flags(c)
            e == Entry(c)
<1>1. BuildJVMArgs(c, <<>>, FALSE) = s \o f \o <<>> \o e
  BY Zenon DEF BuildJVMArgs
<1>2. IsList(s) /\ IsList(f) /\ IsList(e) /\ IsList(<<>>)
  BY ShareList, ShortLists, FlagsOrdinary, EntryOrdinary, Zenon DEF Validate
<1>3. e # <<>>
  <2>. DEFINE F == {MainJar(c)} \cup Range(c.classPath) \cup Range(joinAppPaths(c.modulePath, c))
  <2>1. MainJar(c) \in F /\ Range(c.classPath) \subseteq F /\ Range(joinAppPaths(c.modulePath, c)) \subseteq F
    BY Zenon
  <2>2. ModeOwns(c)
    BY Zenon DEF Validate
  <2>. HIDE DEF F
  <2>. QED BY <2>1, <2>2, EntryWithin, Zenon
<1>4. PICK x : x \in Range(e)
  BY <1>2, <1>3, ListTail, Zenon
<1>. HIDE DEF s, f, e
<1>5. IsList(s \o f) /\ IsList(s \o f \o <<>>)
  BY <1>2, ListConcat, Zenon
<1>6. x \in Range(s \o f \o <<>> \o e)
  BY <1>2, <1>4, <1>5, ListConcat, Zenon
<1>7. BuildJVMArgs(c, <<>>, FALSE) # <<>>
  BY <1>1, <1>6, ShortLists, Zenon
<1>8. ASSUME NEW F, c.cds # "none" => c.cds \in F, Within(e, F) PROVE Within(BuildJVMArgs(c, <<>>, FALSE), F)
  <2>1. Within(<<>>, F)
    BY ShortLists, Zenon DEF Within
  <2>2. Within(s, F)
    BY <1>8, <2>1, ShareWithin, Zenon DEF s
  <2>3. Within(f, F)
    BY FlagsWithin, Zenon DEF f
  <2>4. Within(s \o f, F)
    BY <2>2, <2>3, WithinConcat, Zenon
  <2>5. Within(s \o f \o <<>>, F)
    BY <2>1, <2>4, WithinConcat, Zenon
  <2>. QED BY <1>1, <1>8, <2>5, WithinConcat, Zenon
<1>. QED BY <1>7, <1>8, Zenon DEF Within, e

----------------------------------------------------------------------------
(* A loop that goes through an index and drops the entries of a ref.       *)

\* A referrer is listed once.
Once(s) ==
    \A m, n \in DOMAIN s : s[m].digest = s[n].digest /\ s[m].digest[1] = "referrer" => m = n

\* ... and stays so when what is added is not listed yet.
LEMMA OnceAppend ==
    ASSUME NEW s, NEW e, IsList(s), Once(s),
           e.digest[1] = "referrer" => \A n \in DOMAIN s : s[n].digest # e.digest
    PROVE  Once(Append(s, e))
<1>. DEFINE t == Append(s, e)
<1>0. /\ DOMAIN s = 1 .. Len(s) /\ Len(s) \in Nat /\ DOMAIN t = 1 .. Len(s) + 1
      /\ t[Len(s) + 1] = e /\ \A n \in DOMAIN s : t[n] = s[n]
  BY ListAppend, Zenon
<1>. HIDE DEF t
<1>1. DOMAIN t = DOMAIN s \cup {Len(s) + 1} /\ t[Len(s) + 1] = e /\ \A n \in DOMAIN s : t[n] = s[n]
  BY <1>0
<1>2. ASSUME NEW m \in DOMAIN t, NEW n \in DOMAIN t, t[m].digest = t[n].digest, t[m].digest[1] = "referrer" PROVE m = n
  <2>1. CASE m \in DOMAIN s /\ n \in DOMAIN s
    BY <1>1, <1>2, <2>1, Zenon DEF Once
  <2>. QED BY <1>1, <1>2, <2>1, Zenon
<1>. QED BY <1>2, Zenon DEF Once, t

\* The loop, after its first m turns.
Loop(g, s, ref, m) ==
    g = [n \in 0 .. m |-> IF n = 0 THEN <<>>
                           ELSE IF s[n].ref # ref THEN Append(g[n - 1], s[n]) ELSE g[n - 1]]

\* The loop has an outcome for every number of rounds.
LEMMA LoopRuns ==
    ASSUME NEW s, NEW ref, NEW m \in Nat
    PROVE  \E g : Loop(g, s, ref, m)
<1>. DEFINE Bad == {k \in Nat : ~\E g : Loop(g, s, ref, k)}
<1>1. SUFFICES ASSUME Bad # {} PROVE FALSE
  BY Zenon
<1>2. PICK k \in Bad : \A j \in Bad : k <= j
  BY <1>1, LeastOf, Zenon
<1>3. CASE k = 0
  <2>. DEFINE g == [n \in 0 .. 0 |-> <<>>]
  <2>1. Loop(g, s, ref, 0)
    BY DEF Loop
  <2>. QED BY <1>2, <1>3, <2>1, Zenon
<1>4. CASE k # 0
  <2>1. k - 1 \in Nat /\ k - 1 \notin Bad
    BY <1>2, <1>4
  <2>2. PICK g : Loop(g, s, ref, k - 1)
    BY <2>1, Zenon
  <2>. DEFINE h == [n \in 0 .. k |-> IF n = k THEN (IF s[k].ref # ref THEN Append(g[k - 1], s[k]) ELSE g[k - 1])
                                     ELSE g[n]]
  <2>3. ASSUME NEW n \in 0 .. k
        PROVE  h[n] = IF n = 0 THEN <<>> ELSE IF s[n].ref # ref THEN Append(h[n - 1], s[n]) ELSE h[n - 1]
    <3>1. CASE n = k
      BY <1>2, <1>4, <3>1
    <3>2. CASE n # k
      <4>1. n \in 0 .. k - 1
        BY <1>2, <3>2
      <4>2. g[n] = IF n = 0 THEN <<>> ELSE IF s[n].ref # ref THEN Append(g[n - 1], s[n]) ELSE g[n - 1]
        BY <2>2, <4>1, Zenon DEF Loop
      <4>3. h[n] = g[n] /\ (n # 0 => h[n - 1] = g[n - 1])
        BY <1>2, <3>2, <4>1
      <4>. QED BY <4>2, <4>3, Zenon
    <3>. QED BY <3>1, <3>2, Zenon
  <2>4. Loop(h, s, ref, k)
    BY <2>3, Zenon DEF Loop
  <2>. QED BY <1>2, <2>4, Zenon
<1>. QED BY <1>3, <1>4, Zenon

\* What it keeps: the elements with another ref, each referrer still once.
Kept(s, ref, m) == {s[n] : n \in {i \in 1 .. m : s[i].ref # ref}}

\* After m rounds the loop holds, of the first m elements, those with another ref.
LEMMA LoopKeeps ==
    ASSUME NEW s, NEW ref, IsList(s), NEW g, Loop(g, s, ref, Len(s))
    PROVE  \A m \in 0 .. Len(s) :
             /\ IsList(g[m])
             /\ Range(g[m]) = Kept(s, ref, m)
             /\ Once(s) => Once(g[m])
<1>. DEFINE Fine(m) == IsList(g[m]) /\ Range(g[m]) = Kept(s, ref, m) /\ (Once(s) => Once(g[m]))
            Bad == {m \in 0 .. Len(s) : ~Fine(m)}
<1>0. Len(s) \in Nat /\ DOMAIN s = 1 .. Len(s)
  BY ListAppend, Zenon
<1>1. SUFFICES ASSUME Bad # {} PROVE FALSE
  BY Zenon
<1>2. PICK k \in Bad : \A j \in Bad : k <= j
  <2>1. Bad \subseteq Nat
    BY <1>0
  <2>. QED BY <1>1, <2>1, LeastOf, Zenon
<1>3. k # 0
  <2>1. g[0] = <<>>
    BY <1>0 DEF Loop
  <2>2. IsList(<<>>) /\ Range(<<>>) = {}
    BY ShortLists, Zenon
  <2>5. Once(<<>>)
    BY DEF Once
  <2>3. Kept(s, ref, 0) = {}
    BY DEF Kept
  <2>4. Fine(0)
    BY <2>1, <2>2, <2>3, <2>5, Zenon
  <2>. QED BY <1>2, <2>4, Zenon
<1>. DEFINE j == k - 1
<1>4. j \in 0 .. Len(s) /\ j + 1 = k /\ k \in 1 .. Len(s) /\ ~(k <= j)
  BY <1>0, <1>2, <1>3
<1>5. g[k] = IF s[k].ref # ref THEN Append(g[j], s[k]) ELSE g[j]
  <2>1. \A n \in 0 .. Len(s) :
          g[n] = IF n = 0 THEN <<>> ELSE IF s[n].ref # ref THEN Append(g[n - 1], s[n]) ELSE g[n - 1]
    BY Zenon DEF Loop
  <2>2. k \in 0 .. Len(s)
    BY <1>2, Zenon
  <2>. QED BY <1>3, <2>1, <2>2, Zenon DEF j
<1>. HIDE DEF j
<1>6. Fine(j)
  BY <1>2, <1>4, Zenon
<1>7. Kept(s, ref, k) = IF s[k].ref # ref THEN Kept(s, ref, j) \cup {s[k]} ELSE Kept(s, ref, j)
  BY <1>4 DEF Kept
<1>8. CASE s[k].ref # ref
  <2>1. Range(g[k]) = Kept(s, ref, k) /\ IsList(g[k])
    <3>1. IsList(g[j]) /\ Range(g[j]) = Kept(s, ref, j) /\ Kept(s, ref, k) = Kept(s, ref, j) \cup {s[k]} /\ g[k] = Append(g[j], s[k])
      BY <1>5, <1>6, <1>7, <1>8, Zenon
    <3>. QED BY <3>1, ListAppend
  <2>2. ASSUME Once(s) PROVE Once(g[k])
    <3>. DEFINE u == g[j]
                x == s[k]
    <3>1. /\ g[k] = Append(u, x) /\ Len(u) \in Nat /\ DOMAIN u = 1 .. Len(u)
          /\ DOMAIN Append(u, x) = 1 .. Len(u) + 1
          /\ Append(u, x)[Len(u) + 1] = x /\ \A n \in DOMAIN u : Append(u, x)[n] = u[n]
      BY <1>5, <1>6, <1>8, ListAppend, Zenon
    <3>2. ASSUME NEW n \in DOMAIN u, x.digest[1] = "referrer" PROVE u[n].digest # x.digest
      <4>1. u[n] \in Kept(s, ref, j)
        BY <1>6, Zenon DEF Range
      <4>2. PICK i \in 1 .. j : u[n] = s[i]
        BY <4>1, Zenon DEF Kept
      <4>3. i \in DOMAIN s /\ k \in DOMAIN s /\ i # k
        BY <1>0, <1>4
      <4>. QED BY <2>2, <3>2, <4>2, <4>3, Zenon DEF Once
    <3>3. Once(u)
      BY <1>6, <2>2, Zenon
    <3>. HIDE DEF u, x
    <3>. DEFINE t == Append(u, x)
    <3>4. SUFFICES ASSUME NEW m \in DOMAIN t, NEW n \in DOMAIN t,
                          t[m].digest = t[n].digest, t[m].digest[1] = "referrer"
                   PROVE  m = n
      BY <3>1, Zenon DEF Once
    <3>5. (m \in DOMAIN u \/ m = Len(u) + 1) /\ (n \in DOMAIN u \/ n = Len(u) + 1)
      BY <3>1
    <3>6. CASE m \in DOMAIN u /\ n \in DOMAIN u
      BY <3>1, <3>3, <3>4, <3>6, Zenon DEF Once
    <3>7. CASE m \in DOMAIN u /\ n = Len(u) + 1
      BY <3>1, <3>2, <3>4, <3>7, Zenon
    <3>8. CASE m = Len(u) + 1 /\ n \in DOMAIN u
      BY <3>1, <3>2, <3>4, <3>8, Zenon
    <3>. QED BY <3>5, <3>6, <3>7, <3>8, Zenon
  <2>. QED BY <1>2, <2>1, <2>2, Zenon
<1>9. CASE s[k].ref = ref
  BY <1>2, <1>5, <1>6, <1>7, <1>9, Zenon
<1>. QED BY <1>8, <1>9, Zenon

----------------------------------------------------------------------------
(* The blobs of a digest are a list, and its own blob is among them.       *)

LayerOf(b) == <<"bundle layer", canonicalTar(b.lock)>>

\* The layers of an application are a list.
LEMMA LayersList ==
    ASSUME NEW j, NEW b, NEW sbom, NEW kind
    PROVE  IsList(LayerBlobs(AppOf(j, b, sbom), kind))
<1>. DEFINE l == AppOf(j, b, sbom).layers
            L == IF j.libs THEN <<"lib/*">> ELSE <<>>
            M == IF j.mods THEN <<"mods">> ELSE <<>>
<1>1. l = L \o M
  BY Zenon DEF AppOf
<1>2. IsList(L) /\ IsList(M)
  BY ShortLists, Zenon
<1>3. IsList(l)
  <2>. HIDE DEF L, M, l
  <2>. QED BY <1>1, <1>2, ListConcat, Zenon
<1>. HIDE DEF l
<1>4. PICK S : l \in Seq(S)
  BY <1>3, Zenon DEF IsList
<1>. DEFINE t == [n \in DOMAIN l |-> <<kind, l[n]>>]
            T == {<<kind, x>> : x \in S}
<1>5. t \in Seq(T)
  BY <1>4
<1>6. LayerBlobs(AppOf(j, b, sbom), kind) = t
  BY Zenon DEF LayerBlobs, l
<1>. QED BY <1>5, <1>6, Zenon DEF IsList

\* The manifests of an image, one per platform, are a list.
LEMMA PlatformsList ==
    ASSUME NEW a PROVE IsList(PlatformBlobs(a))
<1>1. ASSUME NEW arch PROVE IsList(writeRunnableManifest(a, arch))
  <2>. DEFINE x == <<"image config", a, arch>>
              y == <<"platform", a, arch>>
  <2>1. writeRunnableManifest(a, arch) = <<x, y>> \/ writeRunnableManifest(a, arch) = <<>>
    BY Zenon DEF writeRunnableManifest
  <2>. HIDE DEF x, y
  <2>2. IsList(<<x, y>>) /\ IsList(<<>>)
    BY ShortLists, Zenon
  <2>. QED BY <2>1, <2>2, Zenon
<1>. QED BY <1>1, ListConcat, Zenon DEF PlatformBlobs

\* The blobs of a native artifact are a list, its manifest among them.
LEMMA NativeList ==
    ASSUME NEW a, IsList(LayerBlobs(a, "tar"))
    PROVE  IsList(NativeBlobs(a)) /\ <<"native", a>> \in Range(NativeBlobs(a))
<1>. DEFINE x == <<"config", a.cfg>>
            y == <<"jar", a.code>>
            z == <<"cds", a.archive>>
            d == <<"native", a>>
            L == LayerBlobs(a, "tar")
            C == IF Archived(a) THEN <<z>> ELSE <<>>
<1>1. NativeBlobs(a) = ((<<x, y>> \o L) \o C) \o <<d>>
  BY Zenon DEF NativeBlobs
<1>. HIDE DEF x, y, z, d, L
<1>2. IsList(<<x, y>>) /\ IsList(L) /\ IsList(C) /\ IsList(<<d>>) /\ Range(<<d>>) = {d}
  BY ShortLists, Zenon DEF L
<1>. HIDE DEF C
<1>3. IsList((<<x, y>> \o L) \o C)
  BY <1>2, ListConcat, Zenon
<1>4. IsList(((<<x, y>> \o L) \o C) \o <<d>>) /\ d \in Range(((<<x, y>> \o L) \o C) \o <<d>>)
  BY <1>2, <1>3, ListConcat, Zenon
<1>. QED BY <1>1, <1>4, Zenon DEF d

\* The blobs of an image are a list, its index among them.
LEMMA ImageList ==
    ASSUME NEW a, IsList(LayerBlobs(a, "gzip"))
    PROVE  IsList(ImageBlobs(a)) /\ <<"index", a>> \in Range(ImageBlobs(a))
<1>. DEFINE x == <<"app layer", mainJarName(a.cfg, a.jar), a.code, a.archive>>
            d == <<"index", a>>
            L == LayerBlobs(a, "gzip")
            P == PlatformBlobs(a)
<1>1. ImageBlobs(a) = ((<<x>> \o L) \o P) \o <<d>>
  BY Zenon DEF ImageBlobs
<1>2. IsList(P)
  BY PlatformsList, Zenon
<1>. HIDE DEF x, d, L, P
<1>3. IsList(<<x>>) /\ IsList(L) /\ IsList(<<d>>) /\ Range(<<d>>) = {d}
  BY ShortLists, Zenon DEF L
<1>4. IsList((<<x>> \o L) \o P)
  BY <1>2, <1>3, ListConcat, Zenon
<1>5. IsList(((<<x>> \o L) \o P) \o <<d>>) /\ d \in Range(((<<x>> \o L) \o P) \o <<d>>)
  BY <1>3, <1>4, ListConcat, Zenon
<1>. QED BY <1>1, <1>5, Zenon DEF d

\* A bundle and a referrer need what they list; a bundle's layer is among it.
LEMMA FewBlobs ==
    /\ \A b : LET d == <<"bundle", b>> IN
          /\ IsList(Blobs(d)) /\ Needs(d) = Range(Blobs(d)) /\ d \in Range(Blobs(d)) /\ LayerOf(b) \in Range(Blobs(d))
    /\ \A d : d[1] = "referrer" =>
          /\ IsList(Blobs(d)) /\ Needs(d) = Range(Blobs(d)) /\ d \in Range(Blobs(d))
          /\ <<"document", d[2], d[4]>> \in Range(Blobs(d))
<1>1. ASSUME NEW b
      PROVE  LET d == <<"bundle", b>> IN
             IsList(Blobs(d)) /\ Needs(d) = Range(Blobs(d)) /\ d \in Range(Blobs(d)) /\ LayerOf(b) \in Range(Blobs(d))
  <2>. DEFINE d == <<"bundle", b>>
              w == <<"lock", b.lock>>
              x == LayerOf(b)
              y == <<"bundle config", b>>
  <2>1. Blobs(d) = <<w, x, y, d>>
    BY Zenon DEF Blobs, BundleBlobs, LayerOf
  <2>2. Needs(d) = Range(Blobs(d))
    BY Zenon DEF Needs
  <2>. HIDE DEF d, w, x, y
  <2>3. IsList(<<w, x, y, d>>) /\ Range(<<w, x, y, d>>) = {w, x, y, d}
    BY LongerLists
  <2>4. IsList(Blobs(d)) /\ d \in Range(Blobs(d)) /\ x \in Range(Blobs(d))
    BY <2>1, <2>3, Zenon
  <2>. QED BY <2>2, <2>4, Zenon DEF d, x
<1>2. ASSUME NEW d, d[1] = "referrer"
      PROVE  /\ IsList(Blobs(d)) /\ Needs(d) = Range(Blobs(d)) /\ d \in Range(Blobs(d))
             /\ <<"document", d[2], d[4]>> \in Range(Blobs(d))
  <2>. DEFINE x == <<"{}">>
              y == <<"document", d[2], d[4]>>
  <2>1. Blobs(d) = <<x, y, d>>
    BY <1>2, Zenon DEF Blobs, ReferrerBlobs
  <2>2. Needs(d) = Range(Blobs(d))
    BY <1>2, Zenon DEF Needs
  <2>. HIDE DEF x, y
  <2>3. IsList(<<x, y, d>>) /\ Range(<<x, y, d>>) = {x, y, d}
    BY LongLists, Zenon
  <2>4. IsList(Blobs(d)) /\ d \in Range(Blobs(d)) /\ y \in Range(Blobs(d))
    BY <2>1, <2>3, Zenon
  <2>. QED BY <2>2, <2>4, Zenon DEF y
<1>. QED BY <1>1, <1>2, Zenon

\* The digests that commands publish.
Publishable(d) ==
    \/ \E b : d = <<"bundle", b>>
    \/ \E t, s, x, y : d = Referrer(t, s, x, y)
    \/ \E j, b, sbom : d \in {<<"native", AppOf(j, b, sbom)>>, <<"index", AppOf(j, b, sbom)>>}

\* Whatever a command publishes has blobs to write.
LEMMA BlobsList ==
    ASSUME NEW d, Publishable(d)
    PROVE  IsList(Blobs(d)) /\ Blobs(d) # <<>>
<1>1. CASE \E b : d = <<"bundle", b>>
  <2>1. IsList(Blobs(d)) /\ d \in Range(Blobs(d))
    BY <1>1, FewBlobs, Zenon
  <2>. QED BY <2>1, ShortLists, Zenon
<1>2. CASE \E t, s, x, y : d = Referrer(t, s, x, y)
  <2>1. d[1] = "referrer"
    BY <1>2 DEF Referrer
  <2>2. IsList(Blobs(d)) /\ d \in Range(Blobs(d))
    BY <2>1, FewBlobs, Zenon
  <2>. QED BY <2>2, ShortLists, Zenon
<1>3. ASSUME NEW j, NEW b, NEW sbom, d \in {<<"native", AppOf(j, b, sbom)>>, <<"index", AppOf(j, b, sbom)>>}
      PROVE  IsList(Blobs(d)) /\ Blobs(d) # <<>>
  <2>. DEFINE a == AppOf(j, b, sbom)
  <2>1. IsList(LayerBlobs(a, "tar")) /\ IsList(LayerBlobs(a, "gzip"))
    BY LayersList, Zenon
  <2>. HIDE DEF a
  <2>2. /\ IsList(NativeBlobs(a)) /\ <<"native", a>> \in Range(NativeBlobs(a))
        /\ IsList(ImageBlobs(a)) /\ <<"index", a>> \in Range(ImageBlobs(a))
    BY <2>1, NativeList, ImageList, Zenon
  <2>3. \/ d = <<"native", a>> /\ Blobs(d) = NativeBlobs(a)
        \/ d = <<"index", a>> /\ Blobs(d) = ImageBlobs(a)
    BY <1>3 DEF Blobs, a
  <2>4. IsList(Blobs(d)) /\ d \in Range(Blobs(d))
    BY <2>2, <2>3, Zenon
  <2>. QED BY <2>4, ShortLists, Zenon
<1>. QED BY <1>1, <1>2, <1>3 DEF Publishable

\* The fields of a config, and the main jar that a push takes for granted.
Fields == {"mode", "mainClass", "module", "modulePath", "classPath", "flags", "arch", "mainJar", "cds"}
MainOf(j) == IF GivenConfig(j).mainJar = "" THEN j.jar ELSE GivenConfig(j).mainJar

\* The entry point of the config that a push writes: the given or the detected
\* one, or a class path on a managed bundle.
LEMMA PushConfigIs ==
    ASSUME NEW j, j.config # NoConfig => DOMAIN j.config = DOMAIN DetectedConfig(j)
    PROVE  LET g == GivenConfig(j)
               c == PushConfig(j)
           IN  /\ Managed(j) => c.mode = "classpath" /\ c.mainJar = MainOf(j) /\ c.classPath = <<MainOf(j), "lib/*">>
               /\ ~Managed(j) =>
                    c.mode = g.mode /\ c.mainJar = g.mainJar /\ c.classPath = g.classPath /\ c.modulePath = g.modulePath
<1>. DEFINE g == GivenConfig(j)
            c == PushConfig(j)
            main == MainOf(j)
<1>1. Fields = DOMAIN g
  <2>1. DOMAIN DetectedConfig(j) = Fields
    BY Zenon DEF DetectedConfig, Fields
  <2>. QED BY <2>1, Zenon DEF GivenConfig
<1>2. ASSUME NEW h, DOMAIN h = Fields
      PROVE  LET k == WithHint(j, WithArch(j, h)) IN
             k.mode = h.mode /\ k.mainJar = h.mainJar /\ k.classPath = h.classPath /\ k.modulePath = h.modulePath
  <2>. DEFINE x == IF j.archFlag # <<>> THEN j.archFlag ELSE IF j.noArch THEN <<>>
                   ELSE IF ScanNativeArch(j.entries) # <<>> THEN ScanNativeArch(j.entries) ELSE h.arch
              a == WithArch(j, h)
              y == IF ArchiveOf(j) # "none" /\ a.cds = "none" THEN ArchiveOf(j) ELSE a.cds
  <2>1. a = [h EXCEPT !.arch = x]
    BY Zenon DEF WithArch
  <2>2. WithHint(j, a) = [a EXCEPT !.cds = y]
    BY Zenon DEF WithHint
  <2>. HIDE DEF x, a, y
  <2>3. DOMAIN a = Fields /\ a.mode = h.mode /\ a.mainJar = h.mainJar /\ a.classPath = h.classPath /\ a.modulePath = h.modulePath
    BY <1>2, <2>1, Zenon DEF Fields
  <2>4. LET k == WithHint(j, a) IN
        k.mode = a.mode /\ k.mainJar = a.mainJar /\ k.classPath = a.classPath /\ k.modulePath = a.modulePath
    BY <2>2, <2>3, Zenon DEF Fields
  <2>. QED BY <2>3, <2>4, Zenon DEF a
<1>3. CASE Managed(j)
  <2>. DEFINE h == ManagedEntry(j, g)
              path == <<main, "lib/*">>
  <2>1. h = [g EXCEPT !.mainJar = main, !.mode = "classpath", !.mainClass = TRUE, !.module = FALSE,
                      !.modulePath = <<>>, !.classPath = path]
    BY Zenon DEF ManagedEntry, MainOf
  <2>. HIDE DEF h, path
  <2>2. DOMAIN h = Fields /\ h.mode = "classpath" /\ h.mainJar = main /\ h.classPath = path
    BY <1>1, <2>1, Zenon DEF Fields
  <2>3. c = WithHint(j, WithArch(j, h))
    BY <1>3, Zenon DEF PushConfig, h
  <2>4. c.mode = h.mode /\ c.mainJar = h.mainJar /\ c.classPath = h.classPath
    BY <1>2, <2>2, <2>3, Zenon
  <2>. QED BY <1>3, <2>2, <2>4, Zenon DEF path
<1>4. CASE ~Managed(j)
  <2>1. c = WithHint(j, WithArch(j, g))
    BY <1>4, Zenon DEF PushConfig
  <2>. QED BY <1>1, <1>2, <1>4, <2>1, Zenon
<1>. QED BY <1>3, <1>4, Zenon

\* The files of the layers, of the bundle and of the archive are shipped, and so is
\* the main JAR under the name that the config gives it.
LEMMA ShippedFiles ==
    ASSUME NEW d, NEW a, NEW j, a = d[2], d[1] \in {"native", "index"}, a = AppOf(j, a.bundle, a.sbom)
    PROVE  /\ a.cfg.mainJar # "" => MainJar(a.cfg) \in Shipped(d) /\ MainJar(a.cfg) = a.cfg.mainJar
           /\ j.libs \/ a.bundle # NoBundle => "lib/*" \in Shipped(d)
           /\ j.mods => "mods" \in Shipped(d)
           /\ a.archive # "none" => a.archive \in Shipped(d)
<1>. DEFINE L == IF j.libs THEN <<"lib/*">> ELSE <<>>
            M == IF j.mods THEN <<"mods">> ELSE <<>>
<1>1. a.layers = L \o M
  BY DEF AppOf
<1>2. IsList(L) /\ IsList(M) /\ (j.libs => Range(L) = {"lib/*"}) /\ (j.mods => Range(M) = {"mods"})
  BY ShortLists, Zenon
<1>. HIDE DEF L, M
<1>3. Range(a.layers) = Range(L) \cup Range(M)
  BY <1>1, <1>2, ListConcat, Zenon
<1>4. (j.libs => "lib/*" \in Range(a.layers)) /\ (j.mods => "mods" \in Range(a.layers))
  BY <1>2, <1>3, Zenon
<1>. QED BY <1>4, Zenon DEF Shipped, Archived, MainJar, mainJarName

\* The config of what a push puts together.
LEMMA AppConfig ==
    ASSUME NEW j, NEW b, NEW x
    PROVE  AppOf(j, b, x).cfg = PushConfig(j)
BY Zenon DEF AppOf

\* What a push puts together and accepts launches: the config yields arguments, and
\* names no file but the ones shipped.
LEMMA AppRuns ==
    ASSUME NEW d, NEW j, NEW a, NEW c, a = d[2], c = a.cfg, d[1] \in {"native", "index"},
           a = AppOf(j, a.bundle, a.sbom), Validate(c), c.cds = a.archive, Managed(j) => a.bundle # NoBundle,
           j.jar # "", j.config # NoConfig => DOMAIN j.config = DOMAIN DetectedConfig(j)
    PROVE  /\ BuildJVMArgs(c, <<>>, FALSE) # <<>>
           /\ c.cds # "none" => c.cds \in Shipped(d)
           /\ j.config = NoConfig \/ Managed(j) =>
                \A x \in Range(BuildJVMArgs(c, <<>>, FALSE)) : Files(x) \subseteq Shipped(d)
<1>. DEFINE F == Shipped(d)
<1>1. a = AppOf(j, a.bundle, a.sbom) /\ c.cds = a.archive
  BY Zenon
<1>2. Managed(j) => a.bundle # NoBundle
  BY Zenon
<1>3. c = PushConfig(j)
  <2>1. AppOf(j, a.bundle, a.sbom).cfg = PushConfig(j)
    BY AppConfig, Zenon
  <2>. QED BY <2>1, Zenon
<1>5. Validate(c)
  BY Zenon
<1>. HIDE DEF F
<1>4. /\ c.mainJar # "" => MainJar(c) \in F /\ MainJar(c) = c.mainJar
      /\ j.libs \/ a.bundle # NoBundle => "lib/*" \in F
      /\ j.mods => "mods" \in F
      /\ c.cds # "none" => c.cds \in F
  BY <1>1, ShippedFiles, Zenon DEF F
<1>. DEFINE g == GivenConfig(j)
            main == MainOf(j)
<1>6. /\ Managed(j) => c.mode = "classpath" /\ c.mainJar = main /\ c.classPath = <<main, "lib/*">>
      /\ ~Managed(j) => c.mode = g.mode /\ c.mainJar = g.mainJar /\ c.classPath = g.classPath /\ c.modulePath = g.modulePath
  BY <1>3, PushConfigIs
<1>0. g = GivenConfig(j) /\ main = IF g.mainJar = "" THEN j.jar ELSE g.mainJar
  BY Zenon DEF MainOf
<1>. HIDE DEF g, main
<1>7. ModeOwns(c)
  BY <1>5, Zenon DEF Validate
<1>8. Managed(j) => Within(Entry(c), F)
  <2>. SUFFICES ASSUME Managed(j) PROVE Within(Entry(c), F)
    BY Zenon
  <2>1. main # ""
    BY <1>0, Zenon
  <2>3. Range(c.classPath) = {main, "lib/*"} /\ c.classPath # <<>>
    <3>. DEFINE path == <<main, "lib/*">>
    <3>1. Range(path) = {main, "lib/*"} /\ path # <<>>
      BY ShortLists, Zenon
    <3>2. c.classPath = path
      BY <1>6, Zenon
    <3>. HIDE DEF path
    <3>. QED BY <3>1, <3>2, Zenon
  <2>4. main \in F /\ "lib/*" \in F /\ c.mode = "classpath"
    BY <1>2, <1>4, <1>6, <2>1, Zenon
  <2>. QED BY <1>7, <2>3, <2>4, EntryWithin, Zenon
<1>9. ~Managed(j) /\ j.config = NoConfig => Within(Entry(c), F)
  <2>. SUFFICES ASSUME ~Managed(j), j.config = NoConfig PROVE Within(Entry(c), F)
    BY Zenon
  <2>1. /\ g.mainJar = j.jar /\ g.mode \in {"jar", "module"}
        /\ g.modulePath = (IF InspectModuleJar(j.entries) /\ j.mods THEN <<j.jar, "mods">> ELSE <<>>)
        /\ g.classPath = (IF InspectModuleJar(j.entries) /\ j.libs THEN <<"lib/*">> ELSE <<>>)
    BY <1>0, Zenon DEF GivenConfig, DetectedConfig
  <2>3. MainJar(c) = j.jar /\ j.jar \in F
    BY <1>4, <1>6, <2>1, Zenon
  <2>4. c.classPath # <<>> => Range(c.classPath) \subseteq F
    <3>. DEFINE path == <<"lib/*">>
    <3>1. Range(path) = {"lib/*"}
      BY ShortLists, Zenon
    <3>2. c.classPath # <<>> => c.classPath = path /\ j.libs
      BY <1>6, <2>1, Zenon
    <3>. HIDE DEF path
    <3>. QED BY <1>4, <3>1, <3>2, Zenon
  <2>5. Range(joinAppPaths(c.modulePath, c)) \subseteq F
    <3>1. CASE c.modulePath = <<>>
      <4>. DEFINE path == <<MainJar(c)>>
      <4>1. joinAppPaths(c.modulePath, c) = path /\ Range(path) = {MainJar(c)}
        BY <3>1, ShortLists, Zenon DEF joinAppPaths
      <4>. HIDE DEF path
      <4>. QED BY <2>3, <4>1, Zenon
    <3>2. CASE c.modulePath = <<j.jar, "mods">> /\ j.mods
      <4>. DEFINE path == <<j.jar, "mods">>
      <4>1. Range(path) = {j.jar, "mods"} /\ path # <<>> /\ c.modulePath = path
        BY <3>2, ShortLists, Zenon
      <4>. HIDE DEF path
      <4>2. joinAppPaths(c.modulePath, c) = path
        BY <4>1, Zenon DEF joinAppPaths
      <4>. QED BY <1>4, <2>3, <3>2, <4>1, <4>2, Zenon
    <3>. QED BY <1>6, <2>1, <3>1, <3>2, Zenon
  <2>6. c.mode \in {"jar", "module"}
    BY <1>6, <2>1, Zenon
  <2>. QED BY <1>7, <2>3, <2>4, <2>5, <2>6, EntryWithin, Zenon
<1>10. BuildJVMArgs(c, <<>>, FALSE) # <<>> /\ (Within(Entry(c), F) => \A x \in Range(BuildJVMArgs(c, <<>>, FALSE)) : Files(x) \subseteq F)
  BY <1>4, <1>5, ArgsWithin, Zenon
<1>. QED BY <1>4, <1>8, <1>9, <1>10, Zenon DEF F

\* The classpath and modulepath layers of a launch whose archive the node is to
\* regenerate and that ships none have the times they were staged with in the shim
\* (service_linux.go:601, :629), and the pinned time in the portable bundle and in
\* `brewlet run` (bundle.go:194-231, launch.go:310-361), although the comments of
\* service_linux.go:587-588 and :618-619 and docs/appcds.md:333-335 say that all
\* of them pin alike. Of every other launch the shim and the bundle agree.
THEOREM LayerTimesDiffer ==
    ASSUME NEW i, NEW r
    PROVE  LET l == ShimLaunch(i, r)
               p == PortableLaunch(i, r)
               h == LocalLaunch(i, r, <<>>)
           IN  /\ i.regen /\ i.cfg.cds = "none" =>
                    \A d \in i.layers : /\ <<d, "staged", "ro">> \in l.mounts
                                        /\ <<d, "pinned", "ro">> \in p.mounts
                                        /\ <<d, "pinned">> \in h.files
               /\ ~i.regen \/ i.cfg.cds # "none" => l.mounts = p.mounts
<1>1. ASSUME i.regen, i.cfg.cds = "none", NEW d \in i.layers
      PROVE  /\ <<d, "staged", "ro">> \in ShimLaunch(i, r).mounts
             /\ <<d, "pinned", "ro">> \in PortableLaunch(i, r).mounts
             /\ <<d, "pinned">> \in LocalLaunch(i, r, <<>>).files
  <2>1. /\ <<d, "staged", "ro">> \in LayerMounts(i, shipsCDS(i.cfg))
        /\ <<d, "pinned", "ro">> \in LayerMounts(i, shipsCDS(i.cfg) \/ i.regen)
    BY <1>1, Zenon DEF LayerMounts, PinCDSModTimesUnder, shipsCDS
  <2>2. <<d, "pinned">> \in AssembleSandbox(i)
    BY <1>1, Zenon DEF AssembleSandbox, PinCDSModTimesUnder
  <2>. QED BY <2>1, <2>2, Zenon DEF ShimLaunch, PortableLaunch, LocalLaunch
<1>3. ~i.regen \/ i.cfg.cds # "none" => LayerMounts(i, shipsCDS(i.cfg) \/ i.regen) = LayerMounts(i, shipsCDS(i.cfg))
  BY Zenon DEF shipsCDS, LayerMounts, PinCDSModTimesUnder
<1>4. ~i.regen \/ i.cfg.cds # "none" => ShimLaunch(i, r).mounts = PortableLaunch(i, r).mounts
  BY <1>3, Zenon DEF ShimLaunch, PortableLaunch
<1>. QED BY <1>1, <1>4, Zenon

\* docs/reference.md:133 says that mainJar "Defaults to `app.jar`". For an unmanaged
\* push of another JAR with a config that leaves it out, the default is the name the
\* JVM is given and the node looks for (blobs.go:161-164), but the image's layer has
\* the JAR under its own name (mainJarName, image.go:424-429): no file of the image is
\* the main JAR. The native artifact of the same push has it.
THEOREM DefaultJarMissing ==
    ASSUME NEW j, ~Managed(j), j.config # NoConfig, DOMAIN j.config = DOMAIN DetectedConfig(j),
           j.config.mainJar = "", j.jar # "app.jar", ArchiveOf(j) # "app.jar"
    PROVE  LET a == AppOf(j, NoBundle, <<>>)
           IN  /\ MainJar(a.cfg) = "app.jar"
               /\ MainJar(a.cfg) \notin Shipped(<<"index", a>>)
               /\ MainJar(a.cfg) \in Shipped(<<"native", a>>)
<1>. DEFINE a == AppOf(j, NoBundle, <<>>)
            L == IF j.libs THEN <<"lib/*">> ELSE <<>>
            M == IF j.mods THEN <<"mods">> ELSE <<>>
            layers == a.layers
<1>1. a.jar = j.jar /\ a.cfg = PushConfig(j) /\ a.archive = ArchiveOf(j) /\ a.bundle = NoBundle
  BY Zenon DEF AppOf
<1>2. layers = L \o M
  BY Zenon DEF AppOf
<1>3. IsList(L) /\ IsList(M) /\ Range(L) \subseteq {"lib/*"} /\ Range(M) \subseteq {"mods"}
  BY ShortLists, Zenon
<1>4. a.cfg.mainJar = ""
  <2>1. PushConfig(j).mainJar = GivenConfig(j).mainJar
    BY PushConfigIs, Zenon
  <2>. QED BY <1>1, <2>1, Zenon DEF GivenConfig
<1>. HIDE DEF a, L, M, layers
<1>5. "app.jar" \notin Range(layers)
  <2>1. Range(layers) = Range(L) \cup Range(M)
    BY <1>2, <1>3, ListConcat, Zenon
  <2>2. "app.jar" # "lib/*" /\ "app.jar" # "mods"
    OBVIOUS
  <2>. QED BY <1>3, <2>1, <2>2, Zenon
<1>6. MainJar(a.cfg) = "app.jar"
  BY <1>4, Zenon DEF MainJar
<1>7. "app.jar" \notin Shipped(<<"index", a>>)
  <2>. DEFINE d == <<"index", a>>
  <2>1. d[1] = "index" /\ d[2] = a
    OBVIOUS
  <2>. HIDE DEF d
  <2>2. Shipped(d) = {j.jar} \cup Range(layers) \cup (IF Archived(a) THEN {a.archive} ELSE {})
    BY <1>1, <1>4, <2>1, Zenon DEF Shipped, mainJarName, layers
  <2>. QED BY <1>1, <1>5, <2>2, Zenon DEF d
<1>8. "app.jar" \in Shipped(<<"native", a>>)
  <2>. DEFINE d == <<"native", a>>
  <2>1. d[1] # "index" /\ d[2] = a
    OBVIOUS
  <2>. HIDE DEF d
  <2>2. "app.jar" \in Shipped(d)
    BY <1>6, <2>1, Zenon DEF Shipped
  <2>. QED BY <2>2, Zenon DEF d
<1>. QED BY <1>6, <1>7, <1>8, Zenon DEF a
=============================================================================
