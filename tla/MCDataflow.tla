----------------------------- MODULE MCDataflow -----------------------------
(***************************************************************************)
(* Two plugins that declare the same local names, extend the same core     *)
(* processor and feed each other's vocabulary; requests of up to five      *)
(* steps, of which a native one wires at most one port.                    *)
(***************************************************************************)
EXTENDS Dataflow

CONSTANTS Dotted, Natives, Flats, MaxNative

MCNatives ==
    {<<"features">>, <<"verify">>, <<"map">>, <<"merge">>, <<"triangulate">>,
     <<"read">>, <<"b", "read">>}

Optional(role, datatype) == PortSpec(role, datatype, FALSE, TRUE)

\* Plugin a reads a scan out of images and lets map take scans as a prior.
A == [plugin_id  |-> <<"a">>,
      datatypes  |-> {<<"scan">>},
      processors |-> {Processor("read", {_port("images", "image_sequence")}, {_port("scan", "scan")})},
      extensions |-> {[id |-> <<"map">>, special_inputs |-> {Optional(<<"a", "prior">>, <<"scan">>)},
                       special_attributes |-> {<<"a", "gain">>}],
                      [id |-> <<"features">>, special_inputs |-> {}, special_attributes |-> {<<"a", "gain">>}]},
      pipelines  |-> {}]

\* Plugin b declares the same local names with other ports.
B == [plugin_id  |-> <<"b">>,
      datatypes  |-> {<<"scan">>},
      processors |-> {Processor("read", {_port("scan", "scan")}, {_port("model", "sparse_model")})},
      extensions |-> {[id |-> <<"map">>, special_inputs |-> {Optional(<<"b", "prior">>, <<"scan">>)},
                       special_attributes |-> {}]},
      pipelines  |-> {}]

\* Two plugins one of whose ids is a dotted extension of the other's.
AB == [A EXCEPT !.plugin_id = <<"a", "prior">>, !.extensions =
         {[id |-> <<"map">>, special_inputs |-> {Optional(<<"a", "prior", "x">>, <<"scan">>)},
           special_attributes |-> {}]}]
ADotted == [A EXCEPT !.extensions = AB.extensions]

MCManifests == IF Dotted THEN {ADotted, AB} ELSE {A, B}

MCInputs == {<<<<"image_sequence">>>>, <<<<"feature_set">>, <<"match_graph">>>>,
             <<<<"sparse_model">>, <<"match_graph">>>>, <<<<"scan">>, <<"image_sequence">>>>,
             <<<<"b", "scan">>, <<"a", "scan">>>>, <<<<"image_sequence">>, <<"image_sequence">>>>}

Step(flat, ref, id, attr, provider, wires) ==
    [flat |-> flat, ref |-> ref, processor |-> id, attr |-> attr, types |-> {}, provider |-> provider, wires |-> wires]

Refs == <<"step_0", "step_1", "step_2", "step_3", "step_4">>
\* What a datatype-ref value may be: a core type, a bare and a canonical plugin type, no type.
Named == {<<"sparse_model">>, <<"scan">>, <<"a", "scan">>, <<"b", "scan">>, <<"other">>}

Unwired == [r \in {} |-> 0]

\* The supplier ports a request can name: its inputs, its steps', a dangling one.
Ports(ins, ss) ==
    {[ref |-> "inputs", port |-> d] : d \in Range(ins)}
    \cup UNION {UNION {{[ref |-> ss[j].ref, port |-> p.role] : p \in q.supplier}
                  : q \in {x \in CORE_PROCESSORS \cup A.processors \cup B.processors :
                             x.id[1] = ss[j].processor[Len(ss[j].processor)]}} : j \in DOMAIN ss}
    \cup {[ref |-> "step_9", port |-> <<"model">>]}

WireRoles(id) ==
    IF id[Len(id)] = "merge" THEN {<<"model">>}
    ELSE IF id[Len(id)] = "map" THEN {<<"matches">>, <<"features">>, <<"a", "prior">>}
    ELSE IF id[Len(id)] \in {"verify", "triangulate"} THEN {<<"matches">>}
    ELSE IF id[Len(id)] = "read" THEN {<<"scan">>} ELSE {<<"other">>}

Lists(ps) == {<<>>} \cup {<<x>> : x \in ps} \cup {<<x, y>> : x, y \in ps}

Wires(id, ps) ==
    {Unwired} \cup UNION {
      {(r :> [list |-> FALSE, refs |-> <<w>>]) : w \in ps}
      \cup IF id[Len(id)] = "merge" \/ r = <<"a", "prior">>
           THEN {(r :> [list |-> TRUE, refs |-> l]) : l \in Lists(ps)}
           ELSE {(r :> [list |-> TRUE, refs |-> <<w>>]) : w \in ps}
        : r \in WireRoles(id)}

MCSteps(ins, ss) ==
    LET here  == Refs[Len(ss) + 1]
        flat  == {Step(TRUE, here, <<f>>, x[1], x[2], Unwired) : f \in Flats,
                    x \in ({<<"none">>, <<"bad">>, <<"spec">>} \X {FALSE}) \cup {<<<<"none">>, TRUE>>}}
        wired == UNION {{Step(FALSE, here, id, <<"none">>, FALSE, w) : w \in Wires(id, Ports(ins, ss))}
                          : id \in Natives}
        odd   == {Step(FALSE, "step_1", id, a, FALSE, Unwired) :
                    id \in Natives, a \in {<<"good">>, <<"a", "gain">>}}
        typed == {[Step(FALSE, here, <<"features">>, <<"a", "gain">>, FALSE, Unwired) EXCEPT !.types = {d}] : d \in Named}
    IN  (IF should_use_legacy_validation(ss) THEN flat ELSE {})
          \cup (IF Len(ss) < MaxNative THEN wired \cup odd \cup typed ELSE {})
=============================================================================
