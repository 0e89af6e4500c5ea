---------------------------- MODULE Descriptors ----------------------------
(***************************************************************************)
(* What a backend tells about itself: adapters/_descriptor_registry.py and *)
(* the three surfaces over it (actions, option schemas, artifact           *)
(* contracts), how an option envelope is checked against them, and the     *)
(* contract a backend package is tested with (backend_contract.py).        *)
(*                                                                         *)
(* A dotted id is the sequence of its segments.  A backend is a record of  *)
(* what its methods answer: caps, actions, commands (of a CLI family),     *)
(* configs, artifacts, formats (its own, with their data types) and        *)
(* whether it converts.  Titles, links, sort orders, preferred choices,    *)
(* the spelling of ids and descriptors that are no objects are left out.   *)
(***************************************************************************)
EXTENDS Naturals, Sequences, FiniteSets, SequencesExt

CONSTANTS
    KnownCaps,       \* the portable capabilities, ALL_KNOWN
    KindType,        \* artifact kind -> data type, for the core kinds
    DefaultFormat,   \* core kind -> its core format
    FormatType       \* core format -> data type

RadianceTrain == <<"radiance", "train">>

Ids(rows) == {r.id : r \in rows}

(***************************************************************************)
(* DescriptorRegistry                                                      *)
(***************************************************************************)
\* The first row of an id wins.
dedupe(rows) == {rows[i] : i \in {n \in DOMAIN rows : \A m \in 1..(n - 1) : rows[m].id # rows[n].id}}

\* Rows of the backend itself, and those the framework derives: instead of the latter
\* when there are any and genericWins, before them otherwise.
list_rows(own, fallback, genericWins) ==
    IF own # <<>> /\ genericWins THEN dedupe(own) ELSE dedupe(own \o fallback)

\* The ids that occur twice.  Asked of the listings of schemas and contracts, which are
\* deduped, it finds none; of the raw action descriptors it does.
duplicate_violations(ids) ==
    {ids[i] : i \in {n \in DOMAIN ids : \E m \in 1..(n - 1) : ids[m] = ids[n]}}

Namespaced(id) == Len(id) > 1

\* capability == id or capability.startswith(id + ".").
Leaks(caps, ids) == {c \in caps : \E id \in ids : IsPrefix(id, c)}

(***************************************************************************)
(* Actions                                                                 *)
(***************************************************************************)
\* _colmap_descriptor: a well-formed row for each command of the family.
ColmapRows(b) == [i \in DOMAIN b.commands |->
    [id |-> <<"colmap", b.commands[i]>>, wellFormed |-> TRUE, needs |-> {}]]

list_backend_actions(b) == list_rows(b.actions, ColmapRows(b), FALSE)

\* Asked by id, the backend may know more than it lists, and so may the family.
has_action(b, id) ==
    \/ id \in b.hidden
    \/ id \in Ids(list_backend_actions(b))

(***************************************************************************)
(* Option schemas                                                          *)
(***************************************************************************)
infer_stage(c) ==
    CASE c = <<>> -> "other"
      [] Len(c) > 1 /\ Head(c) \in {"features", "pairs"} -> Head(c)
      [] Len(c) > 1 /\ Head(c) = "matchers" -> "matcher"
      [] c = <<"matches", "verify">> -> "verify"
      [] Len(c) > 1 /\ Head(c) = "map" -> "mapping"
      [] Len(c) > 1 /\ Head(c) = "ba" -> "bundle_adjustment"
      [] Len(c) > 1 /\ Head(c) = "radiance" -> "radiance"
      [] OTHER -> "other"

ConfigStages == {"features", "pairs", "matcher", "verify", "mapping", "bundle_adjustment",
                 "radiance"}

\* The stage a row does not name is that of its capability.
normalize_config(r) ==
    [r EXCEPT !.stage = IF r.stage = "" THEN infer_stage(r.capability) ELSE r.stage]

radiance_train_option_schema ==
    [closed |-> TRUE, listed |-> TRUE, required |-> {},
     props |-> [k \in {"num_gaussians", "max_resolution", "init", "test_every"} |->
                  IF k = "init" THEN {"colmap", "random"} ELSE {"integer"}]]

\* The framework's own schema for whoever trains.
radiance_config_descriptors(b) ==
    IF RadianceTrain \in b.caps
    THEN << [id |-> RadianceTrain, stage |-> "radiance", capability |-> RadianceTrain,
             provider |-> <<>>, backend |-> b.name, schema |-> radiance_train_option_schema] >>
    ELSE <<>>

list_backend_config_schemas(b) ==
    list_rows([i \in DOMAIN b.configs |-> normalize_config(b.configs[i])],
              radiance_config_descriptors(b), TRUE)

\* _validate_against_schema: no unknown key if the schema is closed, no value outside a
\* property's type or choices.  A schema that lists no properties lets everything pass,
\* closed or not; what is required is not looked at.
validate_against_schema(options, schema) == schema.listed => \A k \in DOMAIN options :
    IF k \in DOMAIN schema.props THEN options[k] \in schema.props[k] ELSE ~schema.closed

\* Mutant of SchemaRows: whatever the stage.
SchemaRowsAnyStage(b, stage, capability, provider) ==
    {r \in list_backend_config_schemas(b) :
        {r.provider, r.backend} \intersect {provider, b.name} # {}}

\* The rows an option envelope of a stage is held against.
SchemaRows(b, stage, capability, provider) ==
    LET staged == {r \in list_backend_config_schemas(b) : r.stage = stage}
        exact == {r \in staged : r.capability = capability}
        narrowed == IF capability # <<>> /\ exact # {} THEN exact ELSE staged
    IN IF provider = <<>> THEN narrowed
       ELSE {r \in narrowed : {r.provider, r.backend} \intersect {provider, b.name} # {}}

\* One of them must accept the whole envelope; where there is none, anything goes.
validate_backend_options(b, stage, capability, provider, options) ==
    LET rows == SchemaRows(b, stage, capability, provider)
    IN \/ options = <<>>
       \/ rows = {}
       \/ \E r \in rows : validate_against_schema(options, r.schema)

(***************************************************************************)
(* Artifact contracts                                                      *)
(***************************************************************************)
formats_for_kinds(kinds) == {DefaultFormat[k] : k \in kinds \intersect DOMAIN DefaultFormat}

\* Formats not named are the core ones of the kinds.
normalize_contract(r) ==
    [r EXCEPT !.acceptsFormats = IF @ = {} THEN formats_for_kinds(r.accepts) ELSE @,
              !.emitsFormats = IF @ = {} THEN formats_for_kinds(r.emits) ELSE @]

\* What the capability's family takes and gives; the other families have no contract.
PortableSides(c) ==
    CASE Len(c) > 2 /\ Head(c) = "features" /\ c[2] = "extract" ->
            [accepts |-> {}, emits |-> {"features.local.v1"}]
      [] Len(c) > 1 /\ Head(c) = "pairs" ->
            [accepts |-> {"features.global.v1"}, emits |-> {"pairs.image_names.v1"}]
      [] Len(c) > 1 /\ Head(c) = "matchers" ->
            [accepts |-> {"features.local.v1", "pairs.image_names.v1"},
             emits |-> {IF c[2] = "loftr" THEN "matches.coordinates.v1" ELSE "matches.indexed.v1"}]
      [] c = <<"matches", "verify">> ->
            [accepts |-> {"matches.indexed.v1", "matches.coordinates.v1", "matches.dense.v1"},
             emits |-> {"matches.verified.v1"}]
      [] Len(c) > 1 /\ Head(c) = "map" ->
            [accepts |-> IF c[2] = "feed_forward" THEN {} ELSE {"matches.verified.v1"},
             emits |-> {"reconstruction.sparse.v1", "reconstruction.snapshot"}]
      [] OTHER -> [accepts |-> {}, emits |-> {}]

\* Contracts for a backend that publishes none.
portable_contracts(b) ==
    LET served == {c \in b.caps : PortableSides(c).emits # {}}
        row(c) == normalize_contract(
            [id |-> b.name \o c, stage |-> infer_stage(c), capability |-> c,
             accepts |-> PortableSides(c).accepts, emits |-> PortableSides(c).emits,
             acceptsFormats |-> {}, emitsFormats |-> {}, conversions |-> {}])
    IN SetToSeq({row(c) : c \in served})

list_backend_artifact_contracts(b) ==
    list_rows([i \in DOMAIN b.artifacts |-> normalize_contract(b.artifacts[i])],
              portable_contracts(b), TRUE)

(***************************************************************************)
(* The contract of a backend package: the ids of what violates it.         *)
(***************************************************************************)
backend_capability_contract_violations(b) ==
    LET configs == list_backend_config_schemas(b)
    IN (b.caps \ KnownCaps)
       \union Leaks(b.caps, Ids(list_backend_actions(b)))
       \union Leaks(b.caps, Ids(configs))
       \union {r.id : r \in {x \in configs : x.capability # <<>> /\ x.capability \notin b.caps}}

backend_action_contract_violations(b) ==
    LET raw == b.actions
        rows == list_backend_actions(b)
    IN {raw[i].id : i \in {n \in DOMAIN raw : ~raw[n].wellFormed \/ ~(raw[n].needs \subseteq KnownCaps)}}
       \union duplicate_violations([i \in DOMAIN raw |-> raw[i].id])
       \union {r.id : r \in {x \in rows : ~Namespaced(x.id) \/ ~x.wellFormed \/ ~(x.needs \subseteq KnownCaps)}}
       \union Leaks(b.caps, Ids(rows))

backend_config_contract_violations(b) ==
    LET rows == list_backend_config_schemas(b)
        sound(r) == /\ Namespaced(r.id)
                    /\ r.stage \in ConfigStages
                    /\ r.capability \in KnownCaps \union {<<>>}
                    /\ r.schema.closed
                    /\ r.schema.required \subseteq DOMAIN r.schema.props
    IN {r.id : r \in {x \in rows : ~sound(x)}}

\* Every format of a side must fit every kind of it.
SideFits(kinds, formats, known) == \A f \in formats :
    /\ f \in DOMAIN known
    /\ \A k \in kinds \intersect DOMAIN KindType : KindType[k] = known[f]

backend_artifact_contract_violations(b) ==
    LET rows == list_backend_artifact_contracts(b)
        known == [f \in DOMAIN FormatType \union DOMAIN b.formats |->
                    IF f \in DOMAIN b.formats THEN b.formats[f] ELSE FormatType[f]]
        sound(r) == /\ Namespaced(r.id)
                    /\ r.stage \in ConfigStages \ {"radiance"}
                    /\ r.capability \in KnownCaps \union {<<>>}
                    /\ SideFits(r.accepts, r.acceptsFormats, known)
                    /\ SideFits(r.emits, r.emitsFormats, known)
                    /\ r.conversions # {} => b.converts
    IN {r.id : r \in {x \in rows : ~sound(x)}}
       \union {<<f>> : f \in {g \in DOMAIN b.formats : \A k \in DOMAIN KindType : KindType[k] # b.formats[g]}}

backend_contract_violations(b) ==
    backend_capability_contract_violations(b) \union backend_action_contract_violations(b)
    \union backend_config_contract_violations(b) \union backend_artifact_contract_violations(b)

Conforms(b) == backend_contract_violations(b) = {}
=============================================================================
