------------------------------- MODULE MCHub -------------------------------
(***************************************************************************)
(* Two plugins that both declare the provider x, one of them y as well,    *)
(* with option schemas and an action each; and the backends of the         *)
(* repository's contract tests.                                            *)
(***************************************************************************)
EXTENDS Hub

CONSTANTS a, b, o1, o2

MCDeclares == [k \in {a, b} |-> IF k = a THEN {"x"} ELSE {"x", "y"}]
\* a registers an id that its manifest does not declare.
MCServes == [k \in {a, b} |-> IF k = a THEN {"x", "z"} ELSE {"x", "y"}]
MCCapable == {<<"x", a>>, <<"x", b>>, <<"y", b>>}
MCActionRows == {<<"x", b>>, <<"y", b>>}
MCOrder == <<a, b>>
MCRoutes == {<< <<"y", NoPlugin>>, <<"x", a>> >>, << <<"x", b>> >>}
MCRequested == {None, <<"x", b>>, <<"z", a>>}
\* An id that both plugins declare.
MCSharedId == {None, <<"x", NoPlugin>>}

Sift == <<"features", "extract", "sift">>
Match == <<"matchers", "nn-mutual">>
Map == <<"map", "global">>
Tool == <<"vendor", "tool">>
MCKnown == {Sift, Match, Map, RadianceTrain}

MCKindType == [k \in {"features.local.v1", "pairs.image_names.v1", "matches.indexed.v1",
                      "matches.verified.v1", "reconstruction.sparse.v1",
                      "reconstruction.snapshot"} |->
    CASE k = "features.local.v1" -> "feature_set"
      [] k = "pairs.image_names.v1" -> "pair_graph"
      [] k \in {"matches.indexed.v1", "matches.verified.v1"} -> "match_graph"
      [] OTHER -> "sparse_model"]
\* Each core kind has a core format of its own: they go by one name here.
MCDefaultFormat == [k \in DOMAIN MCKindType |-> k]

Config(id, stage, cap, keys) ==
    [id |-> id, stage |-> stage, capability |-> cap, provider |-> <<>>, backend |-> <<Head(id)>>,
     schema |-> [closed |-> TRUE, listed |-> TRUE, required |-> {},
                 props |-> [k \in keys |-> {"number"}]]]

Plain(name) == [name |-> <<name>>, caps |-> {Sift}, actions |-> <<>>, hidden |-> {},
                commands |-> <<>>, configs |-> <<>>, artifacts |-> <<>>, formats |-> <<>>,
                converts |-> FALSE]

ToolRow == [id |-> Tool, wellFormed |-> TRUE, needs |-> {}]

MCBackend == [k \in {a, b} |->
    IF k = a
    THEN [Plain("a") EXCEPT !.hidden = {Tool}, !.configs = <<Config(<<"a", "sift">>, "", Sift, {"peak"})>>]
    ELSE [Plain("b") EXCEPT !.caps = {Sift, Map}, !.actions = <<ToolRow>>,
             !.configs = <<Config(<<"b", "sift">>, "features", Sift, {"grid"}),
                           Config(<<"b", "map">>, "", Map, {"peak"})>>]]
MCEnvelopes == {<<>>, [k \in {"peak"} |-> "number"]}

\* One whose closed schema lists no properties.
MCOpenBackend == [MCBackend EXCEPT ![b].configs[1].schema = [@ EXCEPT !.listed = FALSE, !.props = <<>>]]

\* a has a service with an image to provision, b an image and a service to attach to.
MCManifest == [k \in {a, b} |->
    [modes |-> IF k = a THEN {"uv", "container_service", "external_tool"}
                        ELSE {"uv", "docker", "container_service"},
     image |-> k = b, context |-> FALSE, serviceImage |-> k = a,
     envVars |-> {"TOOL"}, executables |-> {"tool"}, defaultUrl |-> "unset",
     protocol |-> "http-v1", version |-> <<1, 0>>, conformance |-> "passing", licensed |-> TRUE]]

Healthy == [docker |-> "present", tools |-> [t \in {"tool"} |-> "/bin/tool"], broken |-> {},
            url |-> "valid", health |-> "object", answer |-> "object", protocol |-> "http-v1",
            version |-> <<1, 1>>, catalog |-> [e \in Endpoints |-> "object"], coherent |-> TRUE]
MCHosts == {Healthy, [Healthy EXCEPT !.url = "unset"]}

Absent == [Healthy EXCEPT !.catalog = [e \in Endpoints |-> "404"]]
Malformed == [Healthy EXCEPT !.catalog["datatypes"] = "malformed"]

\* tests/unit/test_plugin_hub.py, the doctor's tests of a service that is not installed.
ASSUME DoctorTests ==
    LET status(w) == _probe_container_service_plugin(MCManifest[a], w).status
        fresh == [method |-> "none", enabled |-> FALSE, failed |-> FALSE]
        report(row) == doctor_manifest(MCManifest[a], row, [discovered |-> TRUE] @@ Healthy)
    IN /\ status([Healthy EXCEPT !.url = "unset"]) = "warn"
       /\ \A w \in {Healthy, [Absent EXCEPT !.version = <<1, 0>>], [Absent EXCEPT !.version = <<1>>]} :
             status(w) = "pass"
       /\ \A w \in {Absent, Malformed,
                    [Healthy EXCEPT !.url = "invalid"], [Healthy EXCEPT !.health = "404"],
                    [Healthy EXCEPT !.answer = "404"], [Healthy EXCEPT !.answer = "garbled"],
                    [Healthy EXCEPT !.protocol = "other"], [Healthy EXCEPT !.version = <<2, 0>>],
                    [Healthy EXCEPT !.catalog["pipelines"] = "404"], [Healthy EXCEPT !.coherent = FALSE]} :
             status(w) = "fail"
       /\ report_status(report(fresh)) = "warn"
       /\ report_status(report([fresh EXCEPT !.method = "uv", !.failed = TRUE])) = "fail"
       /\ Check("container_service", "warn", "inactive") \in report([fresh EXCEPT !.method = "uv"])

Good == [Plain("good") EXCEPT !.configs = <<Config(<<"good", "features">>, "features", Sift, {"peak"})>>]

\* tests/unit/test_backend_contract.py and test_backend_action_contract.py.
ASSUME ContractTests ==
    /\ Conforms(Good)
    /\ ~Conforms([Good EXCEPT !.caps = {<<"features", "extract", "sft">>}])
    /\ ~Conforms([Good EXCEPT !.caps = {Sift, <<"good", "features">>}])
    /\ ~Conforms([Good EXCEPT !.caps = {}])
    /\ ~Conforms([Good EXCEPT !.configs[1].id = <<"badconfig">>])
    /\ ~Conforms([Good EXCEPT !.configs[1].schema.required = {"missing"}])
    /\ ~Conforms([Good EXCEPT !.actions = <<ToolRow>>, !.caps = {Sift, Tool}])
    /\ ~Conforms([Good EXCEPT !.actions = <<ToolRow, ToolRow>>])
    /\ backend_config_contract_violations([Plain("r") EXCEPT !.caps = {RadianceTrain}]) = {}
    /\ \A k \in {a, b} : Conforms(MCBackend[k])

\* Rows the framework itself derives from portable capabilities pass its own contract.
FrameworkRowsConform == \A caps \in SUBSET KnownCaps : Conforms([Plain("f") EXCEPT !.caps = caps])

\* A task that has run changes nothing any more, and nothing else depends on it.
Undone == \A i \in DOMAIN tasks : tasks[i].pending

OperatorSymmetry == Permutations(Operators)
=============================================================================
