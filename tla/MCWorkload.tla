---------------------------- MODULE MCWorkload ----------------------------
(***************************************************************************)
(* Two nodes of different architectures, JDKs and launchers, two pods, and *)
(* starting points that each bring one group of hazards about.             *)
(***************************************************************************)
EXTENDS Workload

MCDistRank == [d \in {"microsoft", "temurin"} |-> IF d = "microsoft" THEN 1 ELSE 2]

T8 == <<"temurin", "8">>
T21 == <<"temurin", "21">>
M21 == <<"microsoft", "21">>

MCNode == {"n1", "n2"}
Up1 == [arch |-> "amd64", own |-> {<<"zone", "a">>}, pooled |-> TRUE, followed |-> FALSE, state |-> "Ready",
        jdks |-> {T8, T21}, launchers |-> {"java"}]
Up2 == [arch |-> "arm64", own |-> {<<"zone", "b">>}, pooled |-> TRUE, followed |-> FALSE, state |-> "Ready",
        jdks |-> {M21}, launchers |-> {"java", "jaz"}]
Bare == [n \in {"n1", "n2"} |-> [Up1 EXCEPT !.jdks = {}, !.launchers = {}, !.state = ""]]
Down1 == [Bare["n1"] EXCEPT !.followed = TRUE]
Fleet(a, b) == [n \in MCNode |-> IF n = "n1" THEN a ELSE b]

Run(jdks, launchers) == [fails |-> "", jdks |-> jdks, launchers |-> launchers]
Fails(how) == [fails |-> how, jdks |-> {}, launchers |-> {}]

Image == [name |-> "a", digest |-> "d"]
Base == [artifact |-> Image, dist |-> "", version |-> "21", launcher |-> "java", arch |-> {},
         env |-> {}, args |-> TRUE, replicas |-> {}, auto |-> [on |-> FALSE, min |-> {}, max |-> 0],
         service |-> TRUE, type |-> "", ports |-> {8080}]
Eight == [Base EXCEPT !.dist = "temurin", !.version = "8", !.service = FALSE]
Jaz == [Base EXCEPT !.launcher = "jaz", !.arch = {"arm64", ""}, !.version = "", !.args = FALSE]
Temurin == [Base EXCEPT !.dist = "temurin", !.ports = {}]
Auto == [Base EXCEPT !.auto = [on |-> TRUE, min |-> {}, max |-> 2]]
Both == [Base EXCEPT !.auto = [on |-> TRUE, min |-> {1}, max |-> 1], !.env = {<<"JDK_JAVA_OPTIONS", "user">>}]
Twisted == [Base EXCEPT !.auto = [on |-> TRUE, min |-> {2}, max |-> 1]]

Free == [dep |-> "absent", svc |-> "absent", hpa |-> "absent"]

ByHand == [label |-> "", brewlet |-> TRUE, images |-> <<Image, [Image EXCEPT !.digest = ""]>>, container |-> 2,
           ref |-> NoRef, digest |-> "", jdk |-> T21, launcher |-> "", arch |-> {}, env |-> {},
           terms |-> { {<<"zone", "a">>}, {<<"zone", "b">>} }]
ByHandJaz == [ByHand EXCEPT !.jdk = <<>>, !.launcher = "jaz", !.container = 0]
ByHandPinned == [ByHand EXCEPT !.jdk = <<"21">>, !.terms = {}, !.ref = Image, !.arch = {"amd64"}]
Plain == [ByHand EXCEPT !.brewlet = FALSE, !.terms = {}]

Quiet == [nodes |-> Fleet(Up1, Up2), plans |-> [n \in MCNode |-> <<>>], outages |-> 0,
          edits |-> <<>>, held |-> Free, faults |-> 0, loads |-> 0, manual |-> {}]

MCScenarios == {
    \* edits, also while the operator restarts and calls fail
    [Quiet EXCEPT !.edits = <<Temurin, Eight>>],
    [Quiet EXCEPT !.edits = <<Temurin, Eight>>, !.faults = 1, !.nodes = Bare],
    \* autoscaling on and off
    [Quiet EXCEPT !.edits = <<Auto, Base>>, !.loads = 1, !.nodes = Bare],
    \* a spec that cannot be applied, then deletion
    [Quiet EXCEPT !.edits = <<Jaz, Twisted, Gone>>],
    \* names held by others
    [Quiet EXCEPT !.edits = <<Auto, Eight>>, !.nodes = Bare, !.held = [dep |-> "absent", svc |-> "other", hpa |-> "other"]],
    [Quiet EXCEPT !.edits = <<Both>>, !.held = [dep |-> "other", svc |-> "nobody", hpa |-> "absent"], !.faults = 1],
    [Quiet EXCEPT !.edits = <<Base, Gone>>, !.held = [Free EXCEPT !.dep = "nobody"]],
    \* the fleet changes under an application, and the webhook loses sight of it
    [Quiet EXCEPT !.edits = <<Temurin>>, !.outages = 1,
                  !.plans = Fleet(<<Run({T8}, {"java"}), Run({T21}, {"java"})>>, <<>>)],
    \* ... and gives up the launcher that the application asks for
    [Quiet EXCEPT !.edits = <<Jaz>>, !.plans = Fleet(<<>>, <<Run({M21}, {"java"})>>)],
    \* pods created by hand, with affinity of their own
    [Quiet EXCEPT !.manual = {ByHand, ByHandJaz, ByHandPinned, Plain},
                  !.plans = Fleet(<<Run({T21}, {"java", "jaz"})>>, <<Run({M21, T21}, {"java"})>>)],
    \* provisioning that fails, crashes and succeeds; an unclaimed node
    [Quiet EXCEPT !.nodes = Fleet(Down1, [Up2 EXCEPT !.pooled = FALSE, !.followed = TRUE]),
                  !.plans = Fleet(<<Fails("crash"), Run({T21}, {"java"}), Fails("error"), Run({T8}, {"java"})>>,
                                  <<Fails("error")>>),
                  !.outages = 1] }
=============================================================================
