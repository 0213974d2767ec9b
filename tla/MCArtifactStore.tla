-------------------------- MODULE MCArtifactStore --------------------------
(***************************************************************************)
(* Commands on one OCI layout: pairs of them that share a ref, a bundle or *)
(* only the index; a bundle, an image on it and an inspection; and single  *)
(* pushes over the flags that decide what is published.                    *)
(***************************************************************************)
EXTENDS ArtifactStore

E1 == [coord |-> 1, file |-> "a.jar", sum |-> "s1", complete |-> TRUE]
E2 == [coord |-> 2, file |-> "b.jar", sum |-> "s2", complete |-> TRUE]
L1 == <<E1>>
L2 == <<E2, E1>>
TarOf(lock) == [n \in DOMAIN lock |-> [file |-> lock[n].file, sum |-> lock[n].sum, flat |-> TRUE]]

Nothing == [cmd |-> "none", runs |-> 0, stops |-> FALSE]
Bundle(ref, lock, key, who) ==
    [cmd |-> "dependency-bundle", ref |-> ref, name |-> "deps", lock |-> lock, tar |-> TarOf(lock),
     jdks |-> <<21>>, sign |-> key, ident |-> who, keyLoads |-> TRUE, runs |-> 1, stops |-> FALSE]
App(ref, code) ==
    [cmd |-> "push", ref |-> ref, jar |-> "app.jar", code |-> code, entries |-> {}, config |-> NoConfig,
     libs |-> FALSE, mods |-> FALSE, archive |-> "none", train |-> "no", format |-> "image",
     archFlag |-> <<"amd64">>, noArch |-> FALSE, bundle |-> "", lock |-> <<>>, mainClass |-> FALSE,
     sign |-> "", ident |-> "", keyLoads |-> TRUE, trust |-> "", trustIdent |-> "", runs |-> 1, stops |-> FALSE]
OnBundle(ref, code, bundle, lock, key, who, trust, trustWho) ==
    [App(ref, code) EXCEPT !.bundle = bundle, !.lock = lock, !.mainClass = TRUE, !.sign = key,
                           !.ident = who, !.trust = trust, !.trustIdent = trustWho]
Inspect(ref, trust, who) ==
    [cmd |-> "inspect", ref |-> ref, sign |-> "", ident |-> "", trust |-> trust, trustIdent |-> who,
     runs |-> 1, stops |-> FALSE]

\* The command is stopped once and run again.
Retried(j) == [j EXCEPT !.runs = 2, !.stops = TRUE]

Config == [DetectedConfig(App("r", "c")) EXCEPT !.cds = "none"]
Layer == [DetectedConfig(App("r", "c")) EXCEPT !.mode = "classpath", !.mainClass = TRUE,
              !.classPath = <<"app.jar", "lib/*">>]
Given == {NoConfig, [Config EXCEPT !.mainJar = ""], [Config EXCEPT !.cds = "app.jsa"], Layer,
          [Layer EXCEPT !.classPath = <<"other.jar">>], [Config EXCEPT !.module = TRUE]}

\* Two commands that meet in the layout.
Pairs ==
    { <<Retried(Bundle("b", L1, "k1", "team")), Bundle("b", L2, "k2", "team")>>,
      <<Bundle("b", L1, "k1", "team"), Retried(Bundle("b2", L1, "", ""))>>,
      <<Retried(Bundle("b", L1, "k1", "team")), Retried(App("r", "c1"))>>,
      <<App("r", "c1"), Retried([App("r", "c2") EXCEPT !.format = "artifact", !.libs = TRUE])>>,
      <<Retried(Bundle("b", L1, "k2", "team")), Inspect("b", "k1", "team")>>,
      <<Retried(App("r", "c1")), Inspect("r", "", "")>> }

\* A bundle, an image on it, and a reader or a second builder.
Image(code, key, trust, who) == OnBundle("r", code, "b", <<E1, E2>>, key, "app", trust, who)
Triples ==
    { <<Bundle("b", L2, "k1", "team"), Retried(Image("c1", "k2", "k1", "team")), Inspect("r", "k2", "app")>>,
      <<Bundle("b", L2, "k1", "team"), Bundle("b", L1, "k2", "team"), Image("c1", "", "k1", "team")>>,
      <<Bundle("b", L2, "", ""), Image("c1", "k1", "", ""), Image("c2", "k2", "k1", "team")>> }

\* Single commands, over their flags.
Pushes ==
    {[App("r", "c1") EXCEPT !.config = c, !.entries = e, !.libs = l[1], !.mods = l[2], !.format = f,
                            !.jar = jar, !.archive = a[1], !.train = a[2], !.archFlag = <<>>] :
        c \in Given, e \in {{}, {"module-info.class", "so-arm64"}, {"corrupt"}, {"so-both", "nested.jar"}},
        l \in {<<FALSE, FALSE>>, <<TRUE, TRUE>>}, f \in {"image", "artifact", "zip"},
        jar \in {"app.jar", "other.jar"},
        a \in {<<"none", "no">>, <<"app.jsa", "no">>, <<"none", "archive, exit 1">>, <<"none", "timeout">>}}
Bundles ==
    {[Bundle("b", l, s[1], s[2]) EXCEPT !.tar = t, !.jdks = j, !.keyLoads = k] :
        l \in {L2, <<E1, E1>>, <<>>}, s \in {<<"", "">>, <<"k1", "team">>, <<"k1", "">>},
        t \in {TarOf(<<E1, E2>>), TarOf(L1)}, j \in {<<>>, <<21, 21>>, <<0>>}, k \in BOOLEAN}

Singles == {<<j>> : j \in Pushes \cup Bundles}

JobOf(s) == [p \in Proc |-> IF p <= Len(s) THEN s[p] ELSE Nothing]
MCScenarios == {JobOf(s) : s \in Pairs \cup Triples}
MCSingles == {JobOf(s) : s \in Singles}
MCAll == MCScenarios \cup MCSingles
MCDistRank == [d \in {"temurin"} |-> 1]
=============================================================================
