------------------------------ MODULE Dataflow ------------------------------
(***************************************************************************)
(* Typed pipelines: the processor registry merged from the core and the    *)
(* active plugins, the three checkers that decide whether a pipeline       *)
(* composes (the hub's, on a plugin manifest; the strict one, on named     *)
(* ports; the flat one, on legacy operation lists), the dependencies       *)
(* inferred from the wiring, and the two endpoints that answer with them.  *)
(*                                                                         *)
(* Identifiers are sequences of name segments: a core id or a plugin's     *)
(* local id has one, the canonical id of a plugin's declaration is the     *)
(* plugin's id followed by the local id.  A port is a record of its role,  *)
(* its data type and its two flags; attribute values are classes: "good"   *)
(* is accepted by the processor's schema and by the stage's spec, "spec"   *)
(* by the stage's spec only, "bad" by neither, and a qualified name is an  *)
(* attribute some plugin's extension declares; of a step's attributes of   *)
(* type datatype-ref, types are the values, each the name of a data type.  *)
(***************************************************************************)
EXTENDS FiniteSetsExt, Functions, Integers, Sequences, SequencesExt

CONSTANTS Manifests,    \* the plugin manifests put forward to the hub
          InputChoices, \* the initial_inputs a request may name
          StepChoices(_, _), \* the steps that may follow a draft
          MaxSteps      \* bound on the length of a draft

\* Identifiers, and what the pydantic models admit: a dict of ports has one port for a
\* role, a wire that is not a list is one reference, "inputs" is reserved.
IsList(s) == s \in Seq(Range(s))
IsId(x) == IsList(x) /\ x # <<>>
IsPort(p) ==
    /\ p = [role |-> p.role, datatype |-> p.datatype, required |-> p.required, multiple |-> p.multiple]
    /\ IsId(p.role) /\ IsId(p.datatype) /\ p.required \in BOOLEAN /\ p.multiple \in BOOLEAN
IsDict(ports) ==
    IsFiniteSet(ports) /\ \A p \in ports : IsPort(p) /\ \A q \in ports : p.role = q.role => p = q

IsWireRef(w) == w = [ref |-> w.ref, port |-> w.port] /\ IsId(w.port)
IsWire(raw) ==
    /\ IsList(raw.refs) /\ \A k \in DOMAIN raw.refs : IsWireRef(raw.refs[k])
    /\ raw.list \in BOOLEAN /\ (~raw.list => Len(raw.refs) = 1)
IsStep(s) ==
    /\ s.ref # "inputs" /\ IsId(s.processor) /\ IsId(s.attr)
    /\ \A d \in s.types : IsId(d) /\ Len(s.attr) # 1
    /\ \A r \in DOMAIN s.wires : IsId(r) /\ IsWire(s.wires[r])

IsPipeline(pl) ==
    /\ IsId(pl.id)
    /\ IsList(pl.inputs) /\ \A k \in DOMAIN pl.inputs : IsId(pl.inputs[k])
    /\ IsList(pl.steps) /\ \A i \in DOMAIN pl.steps : IsStep(pl.steps[i])

\* The roles of a declared processor are local names.
IsProcessor(p) ==
    /\ IsId(p.id) /\ IsDict(p.consumer) /\ IsDict(p.supplier)
    /\ \A port \in p.consumer \cup p.supplier : Len(port.role) = 1

IsManifest(m) ==
    /\ IsId(m.plugin_id) /\ \A d \in m.datatypes : IsId(d)
    /\ IsFiniteSet(m.processors) /\ \A p \in m.processors : IsProcessor(p)
    /\ \A e \in m.extensions :
         IsId(e.id) /\ IsDict(e.special_inputs) /\ \A a \in e.special_attributes : IsId(a)
    /\ \A pl \in m.pipelines : IsPipeline(pl)

\* list_manifests keeps one manifest for a plugin id.
ASSUME DataflowAssumption ==
    /\ MaxSteps \in Nat
    /\ \A ins \in InputChoices : IsList(ins) /\ \A k \in DOMAIN ins : IsId(ins[k])
    /\ \A m \in Manifests : IsManifest(m) /\ \A n \in Manifests : m.plugin_id = n.plugin_id => m = n

VARIABLES active,  \* the manifests of the installed and enabled plugins
          inputs,  \* the request's initial_inputs
          steps,   \* the request's steps
          answer   \* the last endpoint's answer for this request

dataflowVars == <<active, inputs, steps, answer>>

-----------------------------------------------------------------------------
(***************************************************************************)
(* The core vocabulary.                                                    *)
(***************************************************************************)
PortSpec(role, datatype, required, multiple) ==
    [role |-> role, datatype |-> datatype, required |-> required, multiple |-> multiple]

_port(role, datatype) == PortSpec(<<role>>, <<datatype>>, TRUE, FALSE)

Processor(id, consumer, supplier) ==
    [id |-> <<id>>, consumer |-> consumer, supplier |-> supplier,
     special_inputs |-> {}, special_attributes |-> {}]

\* A processor with the inputs and attributes its extensions add.
WithSpecials(p, ins, attrs) ==
    [id |-> p.id, consumer |-> p.consumer, supplier |-> p.supplier,
     special_inputs |-> ins, special_attributes |-> attrs]

CORE_DATA_TYPES ==
    {<<"image_sequence">>, <<"feature_set">>, <<"pair_set">>, <<"match_graph">>,
     <<"sparse_model">>, <<"projection">>}

\* The model-to-model verbs share one shape.
OnModel(id) ==
    Processor(id, {_port("model", "sparse_model")}, {_port("model", "sparse_model")})

CORE_PROCESSORS ==
    {Processor("features", {_port("images", "image_sequence")}, {_port("features", "feature_set")}),
     Processor("pairs", {_port("features", "feature_set")}, {_port("pairs", "pair_set")}),
     Processor("matches", {_port("features", "feature_set"), _port("pairs", "pair_set")},
               {_port("matches", "match_graph")}),
     Processor("verify", {_port("matches", "match_graph")}, {_port("matches", "match_graph")}),
     Processor("map", {_port("features", "feature_set"), _port("matches", "match_graph")},
               {_port("model", "sparse_model")}),
     Processor("map_feed_forward", {_port("images", "image_sequence")}, {_port("model", "sparse_model")}),
     Processor("triangulate", {_port("model", "sparse_model"), _port("matches", "match_graph")},
               {_port("model", "sparse_model")}),
     Processor("merge", {PortSpec(<<"model">>, <<"sparse_model">>, TRUE, TRUE)},
               {_port("model", "sparse_model")}),
     Processor("project", {_port("images", "image_sequence")}, {_port("projection", "projection")})}
    \cup {OnModel(id) : id \in {"refine", "optimize_poses", "relocalize", "georegister", "undistort"}}

CANONICAL_PIPELINES == {<<"sfm">>, <<"feed_forward">>}

Ids(ps) == {p.id : p \in ps}
ProcessorsNamed(ps, id) == {p \in ps : p.id = id}
Roles(ports) == {p.role : p \in ports}
NoProcessor == {}

_requires_verified_match_graph(processor, role) ==
    processor \in {<<"map">>, <<"triangulate">>} /\ role = <<"matches">>

\* Two declarations of one list with the same id.
Twins(rows) == \E x, y \in rows : x # y /\ x.id = y.id

Repeated(s) == \E i, j \in DOMAIN s : i < j /\ s[i] = s[j]

-----------------------------------------------------------------------------
(***************************************************************************)
(* What a step can draw on: the synthetic inputs and the supplier ports of *)
(* the earlier steps whose processor is known.  at is the position in the  *)
(* list the code keeps, 0 for every initial input.                         *)
(***************************************************************************)
_Supply(at, ref, port, datatype, verified) ==
    [at |-> at, ref |-> ref, port |-> port, datatype |-> datatype, verified |-> verified]

_step_supply(i, step, port) ==
    _Supply(i, step.ref, port.role, port.datatype,
            step.processor = <<"verify">> /\ port.role = <<"matches">>
                /\ port.datatype = <<"match_graph">>)

\* used[i] is the singleton of the processor of step i, empty if there is none.
_input_supply(d) == _Supply(0, "inputs", d, d, FALSE)
Initially(ins) == {_input_supply(d) : d \in Range(ins)}
Outputs(j, step, p) == {_step_supply(j, step, port) : port \in p.supplier}
SuppliesOf(j, ss, used) == UNION {Outputs(j, ss[j], p) : p \in used[j]}

Available(ins, ss, i, used) == Initially(ins) \cup UNION {SuppliesOf(j, ss, used) : j \in 1 .. i - 1}

_parse_wire_ref(wire, available) == {s \in available : s.ref = wire.ref /\ s.port = wire.port}

_processor_consumer(p) == p.consumer \cup p.special_inputs

\* A step's attribute is absent, fits the processor's schema, or is one an
\* extension declares; every other name or value is an error.
validate_attributes(p, attr) == attr \in {<<"none">>, <<"good">>} \cup p.special_attributes

-----------------------------------------------------------------------------
(***************************************************************************)
(* The strict checker of core/pipelines.py.                                *)
(***************************************************************************)
WiredOk(step, port, available) ==
    LET raw  == step.wires[port.role]
        many == port.multiple /\ port.required
    IN  /\ raw.list => port.multiple
        /\ port.required => raw.refs # <<>>
        /\ many => Len(raw.refs) # 1
        /\ \A k \in DOMAIN raw.refs :
             \E s \in _parse_wire_ref(raw.refs[k], available) :
               /\ s.datatype = port.datatype
               /\ _requires_verified_match_graph(step.processor, port.role) => s.verified
        /\ port.multiple => ~Repeated(raw.refs)

InferredOk(step, port, available) ==
    LET candidates == {s \in available : s.datatype = port.datatype}
    IN  port.required =>
          /\ candidates # {}
          /\ port.multiple <=> Cardinality(candidates) > 1
          /\ _requires_verified_match_graph(step.processor, port.role)
               => \E s \in candidates : s.verified

_strict_validate_pipeline(ss, ins, used) ==
    /\ ~Repeated(ins)
    /\ \A i \in DOMAIN ss :
         /\ ss[i].ref # "inputs" /\ \A j \in 1 .. i - 1 : ss[j].ref # ss[i].ref
         /\ used[i] # NoProcessor
         /\ \A p \in used[i] :
              LET available == Available(ins, ss, i, used)
              IN  /\ validate_attributes(p, ss[i].attr)
                  /\ DOMAIN ss[i].wires \subseteq Roles(_processor_consumer(p))
                  /\ \A port \in _processor_consumer(p) :
                       IF port.role \in DOMAIN ss[i].wires
                       THEN WiredOk(ss[i], port, available)
                       ELSE InferredOk(ss[i], port, available)

(***************************************************************************)
(* The flat checker: data types counted, ports and wires ignored.          *)
(***************************************************************************)
Counted(ins, i, d, used) ==
    LET made == [j \in 1 .. i - 1 |-> {port \in UNION {p.supplier : p \in used[j]} : port.datatype = d}]
    IN  Cardinality({k \in DOMAIN ins : ins[k] = d})
          + SumFunction([j \in 1 .. i - 1 |-> Cardinality(made[j])])

VerifiedBefore(ss, i) == \E j \in 1 .. i - 1 : ss[j].processor = <<"verify">>

_legacy_validate_pipeline(ss, ins, used) ==
    \A i \in DOMAIN ss :
      /\ used[i] # NoProcessor
      /\ \A p \in used[i] : \A port \in p.consumer :
           LET n == Counted(ins, i, port.datatype, used)
           IN  /\ n > 0
               /\ port.multiple /\ port.required => n # 1
               /\ _requires_verified_match_graph(ss[i].processor, port.role)
                    => VerifiedBefore(ss, i)

validate_step_attributes(ss, used) ==
    \A i \in DOMAIN ss : \A p \in used[i] : validate_attributes(p, ss[i].attr)

-----------------------------------------------------------------------------
(***************************************************************************)
(* The task-level dependencies the wiring implies: by step ref.            *)
(***************************************************************************)
\* A wired port is resolved by data type, as if it were not wired.
PortDepsUnwired(step, port, available) ==
    LET fitting == {s \in available : s.datatype = port.datatype}
    IN  IF port.multiple THEN fitting ELSE {s \in fitting : \A t \in fitting : s.at <= t.at}

PortDeps(step, port, available) ==
    LET fitting == {s \in available :
                      /\ s.datatype = port.datatype
                      /\ _requires_verified_match_graph(step.processor, port.role) => s.verified}
        first   == {s \in fitting : \A t \in fitting : s.at <= t.at}
    IN  IF port.role \in DOMAIN step.wires
        THEN UNION {_parse_wire_ref(w, available) : w \in Range(step.wires[port.role].refs)}
        ELSE IF ~port.required THEN {}
        ELSE IF port.multiple THEN fitting ELSE first

StepDeps(step, p, available) == UNION {PortDeps(step, port, available) : port \in _processor_consumer(p)}

inferred_step_dependencies(ss, ins, i, used) ==
    {s.ref : s \in UNION {StepDeps(ss[i], p, Available(ins, ss, i, used)) : p \in used[i]}} \ {"inputs"}

-----------------------------------------------------------------------------
(***************************************************************************)
(* The hub's checks on one manifest: its declarations, its extensions and  *)
(* its pipelines, against the core vocabulary and its own.                 *)
(***************************************************************************)
PortTypes(ports) == {p.datatype : p \in ports}
KnownTypes(m) == CORE_DATA_TYPES \cup m.datatypes
KnownProcessors(m) == CORE_PROCESSORS \cup m.processors

_validate_plugin_owned_declaration_ids(m) ==
    \A id \in m.datatypes \cup Ids(m.processors) \cup Ids(m.pipelines) : Len(id) = 1

DeclarationsOk(m) ==
    /\ m.datatypes \cap CORE_DATA_TYPES = {}
    /\ ~Twins(m.processors)
    /\ Ids(m.processors) \cap Ids(CORE_PROCESSORS) = {}
    /\ \A p \in m.processors : PortTypes(p.consumer \cup p.supplier) \subseteq KnownTypes(m)

ExtensionsOk(m) ==
    /\ ~Twins(m.extensions)
    /\ \A e \in m.extensions :
         /\ e.id \in Ids(KnownProcessors(m))
         /\ \A port \in e.special_inputs : ~port.required /\ port.datatype \in KnownTypes(m)
         /\ \A name \in Roles(e.special_inputs) \cup e.special_attributes :
              IsStrictPrefix(m.plugin_id, name)
         /\ \A p \in KnownProcessors(m) : p.id = e.id => Roles(e.special_inputs) \cap Roles(p.consumer) = {}

\* A manifest's own processors with its own extensions merged in.
HubExtended(m, p) ==
    LET xs == {e \in m.extensions : e.id = p.id}
    IN  WithSpecials(p, UNION {e.special_inputs : e \in xs}, UNION {e.special_attributes : e \in xs})

HubLookup(m, id) == {HubExtended(m, p) : p \in ProcessorsNamed(KnownProcessors(m), id)}

\* No bound attribute is unknown, and none has a value its schema refuses.
_validate_step_attributes(p, step) ==
    step.attr # <<"none">> => step.attr = <<"good">> \/ step.attr \in p.special_attributes

\* Ambiguity is not reported for an unwired port.
HubPortOkAmbiguous(step, port, available) ==
    LET raw      == step.wires[port.role]
        fit      == {s \in available : s.datatype = port.datatype}
        verified == _requires_verified_match_graph(step.processor, port.role)
    IN  IF port.role \in DOMAIN step.wires
        THEN /\ raw.list => port.multiple
             /\ raw.refs # <<>>
             /\ \A k \in DOMAIN raw.refs :
                  \E s \in _parse_wire_ref(raw.refs[k], available) : s \in fit /\ (verified => s.verified)
             /\ port.multiple => ~Repeated(raw.refs)
        ELSE port.required => \E s \in fit : verified => s.verified

HubPortOk(step, port, available) ==
    LET raw      == step.wires[port.role]
        fit      == {s \in available : s.datatype = port.datatype}
        verified == _requires_verified_match_graph(step.processor, port.role)
    IN  IF port.role \in DOMAIN step.wires
        THEN /\ ~(raw.list /\ ~port.multiple)
             /\ ~(raw.refs = <<>> /\ port.required)
             /\ \A k \in DOMAIN raw.refs :
                  LET supplied == _parse_wire_ref(raw.refs[k], available)
                  IN  /\ supplied # {}
                      /\ \A s \in supplied : s \in fit /\ (verified => s.verified)
             /\ port.multiple => ~Repeated(raw.refs)
             /\ port.multiple /\ port.required => Cardinality(Range(raw.refs)) >= 2
        ELSE \/ ~port.required
             \/ /\ fit # {}
                /\ port.multiple => Cardinality(fit) # 1
                /\ Cardinality(fit) > 1 => port.multiple
                /\ verified => \E s \in fit : s.verified

_validate_pipeline_graph(m, pl) ==
    LET used == [i \in DOMAIN pl.steps |-> HubLookup(m, pl.steps[i].processor)]
    IN \A i \in DOMAIN pl.steps : \A p \in used[i] :
      /\ _validate_step_attributes(p, pl.steps[i])
      /\ DOMAIN pl.steps[i].wires \subseteq Roles(_processor_consumer(p))
      /\ \A port \in _processor_consumer(p) :
           HubPortOk(pl.steps[i], port, Available(pl.inputs, pl.steps, i, used))

\* PluginPipelineManifest and PluginPipelineStepManifest check their own
\* shape: no repeated input, ref or wire.
PipelineShapeOk(pl) ==
    /\ pl.inputs # <<>> /\ pl.steps # <<>>
    /\ ~Repeated(pl.inputs)
    /\ ~Repeated([i \in DOMAIN pl.steps |-> pl.steps[i].ref])
    /\ \A i \in DOMAIN pl.steps : \A r \in DOMAIN pl.steps[i].wires :
         pl.steps[i].wires[r].list => ~Repeated(pl.steps[i].wires[r].refs)

\* A datatype-ref value is a core type or one the manifest declares, by its local id.
_value_matches_attribute(m, step) == step.types \subseteq KnownTypes(m)

PipelineOk(m, pl) ==
    /\ PipelineShapeOk(pl)
    /\ Range(pl.inputs) \subseteq KnownTypes(m)
    /\ \A i \in DOMAIN pl.steps : pl.steps[i].processor \in Ids(KnownProcessors(m))
    /\ _validate_pipeline_graph(m, pl)
    /\ \A i \in DOMAIN pl.steps : _value_matches_attribute(m, pl.steps[i])

PipelinesOk(m) ==
    /\ ~Twins(m.pipelines) /\ Ids(m.pipelines) \cap CANONICAL_PIPELINES = {}
    /\ \A pl \in m.pipelines : PipelineOk(m, pl)

_validate_typed_extension_graph(m) ==
    DeclarationsOk(m) /\ ExtensionsOk(m) /\ PipelinesOk(m)

HubAccepts(m) ==
    _validate_plugin_owned_declaration_ids(m) /\ _validate_typed_extension_graph(m)

-----------------------------------------------------------------------------
(***************************************************************************)
(* The effective registry: the core vocabulary and every active manifest,  *)
(* each declaration under its owner's prefix.                              *)
(***************************************************************************)
_plugin_owned_id(m, local, core) == IF local \in core THEN local ELSE m.plugin_id \o local

TypeMap(m, d) == IF d \in m.datatypes THEN _plugin_owned_id(m, d, CORE_DATA_TYPES) ELSE d
ProcessorMap(m, id) ==
    IF id \in Ids(m.processors) THEN _plugin_owned_id(m, id, Ids(CORE_PROCESSORS)) ELSE id

PipelineMap(m, id) == _plugin_owned_id(m, id, CANONICAL_PIPELINES)

_port_from_manifest(m, p) == PortSpec(p.role, TypeMap(m, p.datatype), p.required, p.multiple)

Published(m, ports) == {_port_from_manifest(m, p) : p \in ports}

OwnTypes(m) == {TypeMap(m, d) : d \in m.datatypes}

RegistryTypes(ms) == CORE_DATA_TYPES \cup UNION {OwnTypes(m) : m \in ms}

PublishedProcessor(m, p) ==
    [id |-> ProcessorMap(m, p.id), consumer |-> Published(m, p.consumer),
     supplier |-> Published(m, p.supplier), special_inputs |-> {}, special_attributes |-> {}]

OwnProcessors(m) == {PublishedProcessor(m, p) : p \in m.processors}

DeclaredProcessors(ms) == CORE_PROCESSORS \cup UNION {OwnProcessors(m) : m \in ms}

\* The extensions of the active plugins that name processor id.
Extending(ms, id) ==
    UNION {{<<m, e>> : e \in {x \in m.extensions : ProcessorMap(m, x.id) = id}} : m \in ms}

Extended(ms, p) ==
    LET xs == Extending(ms, p.id)
    IN  WithSpecials(p, UNION {Published(x[1], x[2].special_inputs) : x \in xs},
                     UNION {x[2].special_attributes : x \in xs})

RegistryProcessors(ms) == {Extended(ms, p) : p \in DeclaredProcessors(ms)}

AliasTargets(local, declared, ms) == {m.plugin_id \o local : m \in {x \in ms : local \in declared[x]}}

\* The first candidate wins.
ResolveAny(local, targets, core) ==
    IF local \notin core /\ targets # {} THEN CHOOSE t \in targets : TRUE ELSE local

\* A bare local id stands for a plugin's declaration while one active plugin
\* declares it.
Resolve(local, targets, core) ==
    IF local \notin core /\ Cardinality(targets) = 1 THEN CHOOSE t \in targets : TRUE ELSE local

canonical_datatype(ms, d) ==
    Resolve(d, AliasTargets(d, [m \in ms |-> m.datatypes], ms), CORE_DATA_TYPES)

has_datatype(ms, d) == canonical_datatype(ms, d) \in RegistryTypes(ms)

\* A datatype-ref value is any name the registry has a type for.
_type_ok(ms, ss) == \A i \in DOMAIN ss : \A d \in ss[i].types : has_datatype(ms, d)

canonical_processor(ms, id) ==
    Resolve(id, AliasTargets(id, [m \in ms |-> Ids(m.processors)], ms), Ids(CORE_PROCESSORS))

processor_for(ms, ps, id) == ProcessorsNamed(ps, canonical_processor(ms, id))

InputWire(m, w) == IF w.ref = "inputs" THEN [ref |-> w.ref, port |-> TypeMap(m, w.port)] ELSE w

\* _pipeline_from_manifest: local ids become canonical, those of inputs' wires and of
\* datatype-ref values too, and a single wire to a multiple port becomes a list.
CanonicalWires(m, ps, step) ==
    LET many == {port.role : port \in {q \in UNION {_processor_consumer(p)
                     : p \in ProcessorsNamed(ps, ProcessorMap(m, step.processor))} : q.multiple}}
    IN  [r \in DOMAIN step.wires |->
           [list |-> step.wires[r].list \/ r \in many,
            refs |-> [k \in DOMAIN step.wires[r].refs |-> InputWire(m, step.wires[r].refs[k])]]]

_pipeline_from_manifest(m, ps, pl) ==
    [id     |-> PipelineMap(m, pl.id),
     inputs |-> [k \in DOMAIN pl.inputs |-> TypeMap(m, pl.inputs[k])],
     steps  |-> [i \in DOMAIN pl.steps |->
                   [ref |-> pl.steps[i].ref, attr |-> pl.steps[i].attr,
                    types |-> {TypeMap(m, d) : d \in pl.steps[i].types},
                    processor |-> ProcessorMap(m, pl.steps[i].processor),
                    wires |-> CanonicalWires(m, ps, pl.steps[i])]]]

\* effective_registry raises when two declarations meet: a data type, a processor or a
\* pipeline, of two active plugins, of one, or of one and the core; a special input or
\* attribute of one processor.
DeclarationsMeet(ms) ==
    \/ \E m \in ms : \/ Twins(m.processors) \/ Twins(m.pipelines)
                     \/ OwnTypes(m) \cap CORE_DATA_TYPES # {}
                     \/ Ids(OwnProcessors(m)) \cap Ids(CORE_PROCESSORS) # {}
                     \/ {PipelineMap(m, pl.id) : pl \in m.pipelines} \cap CANONICAL_PIPELINES # {}
    \/ \E m, n \in ms :
         /\ m # n
         /\ \/ m.plugin_id = n.plugin_id
            \/ OwnTypes(m) \cap OwnTypes(n) # {}
            \/ Ids(OwnProcessors(m)) \cap Ids(OwnProcessors(n)) # {}
            \/ {PipelineMap(m, pl.id) : pl \in m.pipelines}
                 \cap {PipelineMap(n, pl.id) : pl \in n.pipelines} # {}

ExtensionsMeet(ms) ==
    \/ \E p \in DeclaredProcessors(ms) : \E x, y \in Extending(ms, p.id) :
         \/ Roles(x[2].special_inputs) \cap Roles(p.consumer) # {}
         \/ /\ x # y
            /\ \/ Roles(x[2].special_inputs) \cap Roles(y[2].special_inputs) # {}
               \/ x[2].special_attributes \cap y[2].special_attributes # {}
    \/ \E m \in ms : \E e \in m.extensions : ProcessorMap(m, e.id) \notin Ids(DeclaredProcessors(ms))

\* A declared pipeline as the server checks it.
ServerAccepts(ms, m, pl) ==
    LET ps == RegistryProcessors(ms)
        c  == _pipeline_from_manifest(m, ps, pl)
    IN  /\ _type_ok(ms, c.steps)
        /\ _strict_validate_pipeline(c.steps, c.inputs,
             [i \in DOMAIN c.steps |-> ProcessorsNamed(ps, c.steps[i].processor)])

\* It also raises when a declared pipeline no longer composes.
RegistryRaises(ms) ==
    \/ DeclarationsMeet(ms)
    \/ ExtensionsMeet(ms)
    \/ \E m \in ms : \E pl \in m.pipelines : ~ServerAccepts(ms, m, pl)

-----------------------------------------------------------------------------
(***************************************************************************)
(* The endpoints POST /pipelines:validate and POST /pipelines:run.         *)
(***************************************************************************)
should_use_legacy_validation(ss) == \A i \in DOMAIN ss : ss[i].flat

legacy_operation_ids(ss) == [i \in DOMAIN ss |-> ss[i].processor]

is_executable_legacy_pipeline(ss) ==
    /\ should_use_legacy_validation(ss)
    /\ legacy_operation_ids(ss) \in
         {<<<<"features">>, <<"pairs">>, <<"matches">>, <<"verify">>, <<"map">>>>,
          <<<<"map_feed_forward">>>>}

_initial_input_errors(ms, ins) == Repeated(ins) \/ ~(Range(ins) \subseteq RegistryTypes(ms))

legacy_operation_projection_errors(ss) ==
    \E i \in DOMAIN ss : ss[i].processor \notin Ids(CORE_PROCESSORS)

\* _legacy_sfm_specs and _legacy_feed_forward_spec: the stage's own spec.
LegacySpecsOk(ss) == \A i \in DOMAIN ss : ss[i].attr \in {<<"none">>, <<"good">>, <<"spec">>}

provider_errors(ss) == \E i \in DOMAIN ss : ss[i].provider

_canonicalize_initial_input_wires(ms, ss) ==
    LET Wire(w) == IF w.ref = "inputs" THEN [ref |-> w.ref, port |-> canonical_datatype(ms, w.port)] ELSE w
    IN  [i \in DOMAIN ss |->
          [ref |-> ss[i].ref, attr |-> ss[i].attr, types |-> ss[i].types, processor |-> ss[i].processor,
           wires |-> [r \in DOMAIN ss[i].wires |->
             [list |-> ss[i].wires[r].list,
              refs |-> [k \in DOMAIN ss[i].wires[r].refs |-> Wire(ss[i].wires[r].refs[k])]]]]]

\* The processors of the steps in the registry of the active plugins ms.
Used(ms, ss) ==
    LET ps == DeclaredProcessors(ms)
    IN  [i \in DOMAIN ss |-> {Extended(ms, p) : p \in processor_for(ms, ps, ss[i].processor)}]

\* The checks both endpoints make; one checks the specs of an executable legacy chain
\* along with its types, the other after them.
FlatErrors(ms, ins, ss, withSpecs) ==
    \/ legacy_operation_projection_errors(ss)
    \/ ~_legacy_validate_pipeline(ss, ins, Used(ms, ss))
    \/ IF is_executable_legacy_pipeline(ss)
       THEN withSpecs /\ ~LegacySpecsOk(ss)
       ELSE ~_type_ok(ms, ss) \/ ~validate_step_attributes(ss, Used(ms, ss)) \/ provider_errors(ss)

NativeErrors(ms, ins, ss) ==
    \/ ~_type_ok(ms, ss)
    \/ ~_strict_validate_pipeline(_canonicalize_initial_input_wires(ms, ss), ins, Used(ms, ss))

TypeErrors(ms, request, ss, withSpecs) ==
    LET ins == [k \in DOMAIN request |-> canonical_datatype(ms, request[k])]
    IN  \/ _initial_input_errors(ms, ins)
        \/ IF should_use_legacy_validation(ss)
           THEN FlatErrors(ms, ins, ss, withSpecs)
           ELSE NativeErrors(ms, ins, ss)

Verdict(ms, ins, ss) ==
    IF RegistryRaises(ms) THEN "unprocessable"
    ELSE IF TypeErrors(ms, ins, ss, TRUE) THEN "invalid" ELSE "valid"

\* The stage specs of an executable chain are checked after the type check.
RunOutcome(ms, ins, ss) ==
    IF RegistryRaises(ms) \/ TypeErrors(ms, ins, ss, FALSE) THEN "refused"
    ELSE IF ~is_executable_legacy_pipeline(ss) THEN "unavailable"
    ELSE IF LegacySpecsOk(ss) THEN "accepted" ELSE "refused"

-----------------------------------------------------------------------------
DataflowInit ==
    /\ active = {}
    /\ inputs \in InputChoices
    /\ steps = <<>>
    /\ answer = "none"

\* A plugin is installed and enabled, or disabled; only manifests the hub
\* accepts load.
Toggle(m) ==
    /\ HubAccepts(m)
    /\ active' = IF m \in active THEN active \ {m} ELSE active \cup {m}
    /\ answer' = "none"
    /\ UNCHANGED <<inputs, steps>>

\* A client edits its request: it only builds on what some checker accepts.
AddStep ==
    /\ Len(steps) < MaxSteps
    /\ Verdict(active, inputs, steps) = "valid"
    /\ \E s \in StepChoices(inputs, steps) : IsStep(s) /\ steps' = Append(steps, s)
    /\ answer' = "none"
    /\ UNCHANGED <<active, inputs>>

validate_pipeline ==
    /\ steps # <<>>
    /\ answer' = Verdict(active, inputs, steps)
    /\ UNCHANGED <<active, inputs, steps>>

run_pipeline ==
    /\ steps # <<>>
    /\ answer' = RunOutcome(active, inputs, steps)
    /\ UNCHANGED <<active, inputs, steps>>

DataflowNext ==
    \/ \E m \in Manifests : Toggle(m)
    \/ AddStep
    \/ validate_pipeline
    \/ run_pipeline

DataflowSpec == DataflowInit /\ [][DataflowNext]_dataflowVars

-----------------------------------------------------------------------------
Answers == {"none", "unprocessable", "valid", "invalid", "refused", "unavailable", "accepted"}

\* The state is well formed: a draft never outgrows its bound, and an answer
\* is kept only while there is a draft it is about.
DataflowTypeOK ==
    /\ active \subseteq Manifests
    /\ inputs \in InputChoices
    /\ Len(steps) <= MaxSteps
    /\ answer \in Answers
    /\ answer # "none" => steps # <<>>

\* The draft as the pipeline of plugin manifest m.
Offered(m) ==
    [plugin_id |-> m.plugin_id, datatypes |-> m.datatypes, processors |-> m.processors,
     extensions |-> m.extensions, pipelines |-> {[id |-> <<"draft">>, inputs |-> inputs, steps |-> steps]}]

\* A draft that names core things and the plugin's own by their local ids, and what
\* extensions add by the plugin's prefix.  A manifest may hold other names: see below.
LocallyNamed(m) ==
    /\ steps # <<>> /\ inputs # <<>>
    /\ Range(inputs) \subseteq KnownTypes(m)
    /\ \A i \in DOMAIN steps :
         /\ Len(steps[i].processor) = 1
         /\ \A name \in DOMAIN steps[i].wires \cup {steps[i].attr} :
              Len(name) = 1 \/ IsStrictPrefix(m.plugin_id, name)
         /\ \A r \in DOMAIN steps[i].wires : \A w \in Range(steps[i].wires[r].refs) : Len(w.port) = 1
         /\ \A d \in steps[i].types :
              d \in KnownTypes(m) \/ (Len(d) = 1 /\ \A n \in active : d \notin n.datatypes)

\* The active plugins once the plugin of m is active with the draft in its manifest.
WithOffered(m) == (active \ {m}) \cup {Offered(m)}

\* The hub's checker (sfm_hub/models/dataflow.py) and the server's
\* (core/pipelines.py) are two programs: whatever other plugins are enabled and whatever
\* names the pipeline uses, a manifest the hub accepts never makes effective_registry,
\* which makes its ids canonical first, raise, and with it every dataflow endpoint; and
\* a locally named pipeline the registry takes, the hub takes too.
CheckersAgree ==
    /\ ~RegistryRaises(active)
    /\ \A m \in Manifests : HubAccepts(m) =>
         /\ HubAccepts(Offered(m)) => ~RegistryRaises(WithOffered(m))
         /\ LocallyNamed(m) /\ ~RegistryRaises(WithOffered(m)) => HubAccepts(Offered(m))

\* The request as the strict checker sees it under the active registry.
NativeSteps == _canonicalize_initial_input_wires(active, steps)
NativeInputs == [k \in DOMAIN inputs |-> canonical_datatype(active, inputs[k])]

\* Once a pipeline composes, the inferred dependencies of a step name earlier
\* steps only, and among them (or the inputs) a producer of every port the
\* step needs: with the port's data type, and verified where map and
\* triangulate need it.
DepsComplete ==
    LET ss == NativeSteps
        procs == Used(active, ss)
    IN  _strict_validate_pipeline(ss, NativeInputs, procs) =>
          \A i \in DOMAIN ss :
            LET deps   == inferred_step_dependencies(ss, NativeInputs, i, procs)
                before == Available(NativeInputs, ss, i, procs)
            IN  /\ deps \subseteq {ss[j].ref : j \in 1 .. i - 1}
                /\ \A p \in procs[i] : \A port \in _processor_consumer(p) :
                     LET used == {s \in before :
                           /\ s.ref \in deps \cup {"inputs"}
                           /\ s.datatype = port.datatype
                           /\ _requires_verified_match_graph(ss[i].processor, port.role) => s.verified}
                     IN  /\ port.required => used # {}
                         /\ port.required /\ port.multiple => Cardinality(used) > 1
                         /\ port.role \in DOMAIN ss[i].wires =>
                              \A w \in Range(ss[i].wires[port.role].refs) :
                                \E s \in used : s.ref = w.ref /\ s.port = w.port

\* The names a request uses.
Names ==
    Range(inputs) \cup UNION {{steps[i].processor, steps[i].attr} \cup steps[i].types \cup DOMAIN steps[i].wires
      \cup UNION {{w.port : w \in Range(steps[i].wires[r].refs)} : r \in DOMAIN steps[i].wires}
        : i \in DOMAIN steps}

Mentions(m) ==
    \E n \in Names : n \in m.datatypes \cup Ids(m.processors) \/ IsPrefix(m.plugin_id, n)

\* Plugins do not interfere. Enabling or disabling one never changes which
\* processor a bare name means, it may only make the name usable or unusable; and a
\* request that names nothing of the plugin keeps its verdict, although the plugin's
\* extensions change core processors.
PluginsAreIsolated ==
    [][/\ \A m \in Manifests : \A id \in Ids(m.processors) :
            \/ canonical_processor(active, id) = id
            \/ canonical_processor(active', id) \in {id, canonical_processor(active, id)}
       /\ \A m \in Manifests :
            (m \in active) # (m \in active') /\ ~Mentions(m) /\ steps # <<>>
              => Verdict(active', inputs, steps) = Verdict(active, inputs, steps)]_dataflowVars

-----------------------------------------------------------------------------
(***************************************************************************)
(* What the code does not keep.                                            *)
(***************************************************************************)
\* Whatever the server takes, the hub takes: not kept. A manifest may use the canonical
\* id of a type or a processor of its own or of another active plugin, as an input, a
\* step, a wire or a datatype-ref value, or another plugin's bare id as such a value:
\* the hub refuses each, and effective_registry would resolve them.
CheckersAlwaysAgree ==
    \A m \in Manifests :
      HubAccepts(m) /\ steps # <<>> /\ inputs # <<>> /\ ~RegistryRaises(WithOffered(m)) => HubAccepts(Offered(m))

=============================================================================
