---------------------------- MODULE MCNodeRuntime ----------------------------
(***************************************************************************)
(* Two tasks; a scenario varies one thing at a time, so that the number of *)
(* states is the sum and not the product of the cases.                     *)
(***************************************************************************)
EXTENDS NodeRuntime, TLC

CONSTANTS a, b   \* the two tasks

MCFeature == {"21", "25"}
MCDistRank == "microsoft" :> 1 @@ "temurin" :> 2

\* temurin-25 is installed but no longer active; microsoft-21 has no Java home.
MCNode ==
    [homes |-> {<<"temurin", "21">>, <<"temurin", "25">>, <<"microsoft", "25">>},
     inventory |-> "listed", active |-> {<<"temurin", "21">>, <<"microsoft", "21">>, <<"microsoft", "25">>},
     launchers |-> {"jaz"}]

Jar == [mode |-> "", mainClass |-> FALSE, module |-> FALSE, classPath |-> <<>>, modulePath |-> <<>>,
        mainJar |-> "", flags |-> {}, arch |-> <<>>, cds |-> "none"]

Plain == [cfg |-> Jar, layers |-> {}, archive |-> FALSE, regen |-> FALSE, digest |-> "d", ref |-> "r",
          launcher |-> "", jdk |-> <<"">>, image |-> a, backend |-> "containerd", format |-> "image",
          missing |-> "nothing", readable |-> TRUE, sandbox |-> FALSE]

\* Configs of every mode, right and wrong.
Configs ==
    {[Jar EXCEPT !.mode = m, !.mainClass = c, !.classPath = p, !.modulePath = q, !.module = x] :
        m \in {"", "jar", "classpath", "module", "native"}, c \in BOOLEAN, x \in BOOLEAN,
        p \in {<<>>, <<"app.jar", "lib/*">>}, q \in {<<>>, <<"mods">>}}
      \cup {[Jar EXCEPT !.mode = "classpath", !.mainClass = TRUE, !.classPath = <<e, "lib/*">>, !.mainJar = j,
                        !.cds = k] :
              e \in {"app.jar", "other.jar"}, j \in {"", "other.jar"}, k \in {"none", "app.jsa", "malformed"}}
      \cup {[Jar EXCEPT !.flags = f, !.arch = h] :
              f \in {{"--enable-preview", "-D"}, {""}}, h \in {<<"amd64">>, <<"amd64", "amd64">>, <<"riscv">>}}

Variants ==
    {[Plain EXCEPT !.cfg = c, !.format = f] : c \in Configs, f \in {"native", "image"}}
      \cup {[Plain EXCEPT !.backend = k, !.format = f, !.missing = m, !.digest = d] :
              k \in {"layout", "containerd", "registry"}, f \in {"native", "image"}, d \in {"", "d"},
              m \in {"nothing", "manifest", "type", "config", "jar", "layers"}}
      \cup {[Plain EXCEPT !.jdk = j, !.launcher = l] :
              j \in {<<"21">>, <<"25">>, <<"temurin", "25">>, <<"microsoft", "21">>, <<"temurin", "x">>, <<"", "21">>},
              l \in {"", "java", "jaz", "other"}}
      \cup {[Plain EXCEPT !.regen = g, !.cfg.cds = k, !.archive = v, !.layers = y, !.format = f, !.digest = d,
                          !.backend = "layout", !.launcher = "jaz"] :
              g \in BOOLEAN, k \in {"none", "app.jsa"}, v \in BOOLEAN, y \in {{}, {"lib", "mods"}},
              f \in {"native", "image"}, d \in {"", "d"}}
      \cup {[Plain EXCEPT !.ref = ""], [Plain EXCEPT !.readable = FALSE], [Plain EXCEPT !.sandbox = TRUE]}

Off == [Plain EXCEPT !.readable = FALSE, !.image = b]
Only(i) == [t \in {a, b} |-> IF t = a THEN i ELSE Off]
Left(n, m) == [t \in {a, b} |-> 2 - IF t = a THEN n ELSE m]

MCInputs == {Only(i) : i \in Variants \cup {Off}} \cup {[t \in {a, b} |-> Plain]}

\* One Create of any input; two of the same task; one of each of two tasks of
\* one image; and the exporters, which run where no task does.
MCScenarios ==
    {<<Only(i), Left(1, 0), 3>> : i \in Variants}
      \cup {<<Only(Plain), Left(2, 0), 3>>, <<Only(Off), Left(1, 0), 3>>}
      \cup {<<[t \in {a, b} |-> Plain], Left(1, 1), 3>>}
      \cup {<<Only(Off), Left(0, 0), 0>>}
=============================================================================
