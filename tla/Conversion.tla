----------------------------- MODULE Conversion -----------------------------
(***************************************************************************)
(* Artifact kinds, formats and data types (core/artifacts.py), the formats *)
(* a backend declares (adapters/backend_artifacts.py), the descriptor      *)
(* check every recorded artifact passes (services/artifact_service.py) and *)
(* the conversion planner (services/artifact_conversion_service.py).       *)
(*                                                                         *)
(* Kinds, formats and types are members of small sets. A backend is a      *)
(* sequence of contract rows, each with the kinds and formats it accepts   *)
(* and emits and a sequence of conversions; the order of the rows decides  *)
(* ties, as it does in the code.                                           *)
(***************************************************************************)
EXTENDS Integers, SequencesExt

CONSTANTS
  CoreKinds, ExtKinds,      \* kinds reserved by the core, and extension kinds
  CoreFormats, ExtFormats,
  DefaultFormat,            \* CORE_ARTIFACT_KINDS[kind].artifact_format
  FormatType,               \* CORE_ARTIFACT_FORMATS[format].datatype
  Space,                    \* the namespace of a kind: its first segment
  RoleKinds, RoleSpaces,    \* ARTIFACT_INPUT_ROLE_KINDS and _PREFIXES
  None                      \* an absent value

Kinds   == CoreKinds \cup ExtKinds
Formats == CoreFormats \cup ExtFormats
Types   == {FormatType[f] : f \in CoreFormats}
Roles   == DOMAIN RoleKinds

\* The tables are in step, and a namespace has one data type: both are checked
\* when the module is imported.
ASSUME VocabularyAssumption ==
  /\ CoreKinds \cap ExtKinds = {} /\ CoreFormats \cap ExtFormats = {}
  /\ DefaultFormat \in [CoreKinds -> CoreFormats]
  /\ DOMAIN FormatType = CoreFormats /\ None \notin Types \cup Formats \cup Kinds
  /\ Kinds \subseteq DOMAIN Space
  /\ DOMAIN RoleSpaces = Roles
  /\ \A k, l \in CoreKinds :
       Space[k] = Space[l] => FormatType[DefaultFormat[k]] = FormatType[DefaultFormat[l]]

----------------------------------------------------------------------------
(* The vocabulary *)

datatype_for_format(f) == IF f \in CoreFormats THEN FormatType[f] ELSE None

\* A core kind has the type of its format, an extension kind that of the core
\* kinds of its namespace.
datatype_for_kind(k) ==
  LET near == {c \in CoreKinds : IF k \in CoreKinds THEN c = k ELSE Space[c] = Space[k]}
  IN  IF near = {} THEN None ELSE FormatType[DefaultFormat[CHOOSE c \in near : TRUE]]

is_format_compatible_with_kind(k, f) ==
  \/ datatype_for_kind(k) = None \/ datatype_for_format(f) = None
  \/ datatype_for_kind(k) = datatype_for_format(f)

kind_for_default_format(f) ==
  LET owners == {k \in CoreKinds : DefaultFormat[k] = f}
  IN  IF owners = {} THEN None ELSE CHOOSE k \in owners : TRUE

\* Core kinds are listed; extension kinds only have to stay in the namespaces of
\* the role. A role nobody has declared accepts everything.
is_artifact_allowed_for_role(role, k) ==
  \/ role \notin Roles
  \/ k \in RoleKinds[role]
  \/ k \in ExtKinds /\ Space[k] \in RoleSpaces[role]

----------------------------------------------------------------------------
(* What a backend declares *)

\* The rows of a backend's contract.
Conversions == [from : Formats, to : Formats, lossless : BOOLEAN]
ContractRows ==
  [accepts : SUBSET Kinds, accepts_formats : SUBSET Formats,
   emits : SUBSET Kinds, emits_formats : SUBSET Formats, conversions : Seq(Conversions)]

Sides == <<[formats |-> "emits_formats", kinds |-> "emits"],
           [formats |-> "accepts_formats", kinds |-> "accepts"]>>

SideTypes(row, side) ==
  {datatype_for_kind(k) : k \in row[side.kinds]} \cap Types

\* The (row, side) pairs from which backend_io_formats can derive a format: the
\* side has kinds of one data type only.
Places(contracts, f) ==
  {p \in (DOMAIN contracts) \X (DOMAIN Sides) :
     LET row == contracts[p[1]]
     IN  /\ f \in row[Sides[p[2]].formats]
         /\ Cardinality(SideTypes(row, Sides[p[2]])) = 1}

Before(p, q) == p[1] < q[1] \/ (p[1] = q[1] /\ p[2] <= q[2])

\* A format as place p declares it.
IoFormat(contracts, f, p) ==
  LET row == contracts[p[1]]
      side == Sides[p[2]]
  IN  [format |-> f, at |-> p, type |-> CHOOSE t \in SideTypes(row, side) : TRUE,
       kinds |-> {k \in row[side.kinds] : datatype_for_kind(k) \in SideTypes(row, side)}]

\* backend_io_formats: the extension formats a backend owns; the first place a
\* format occurs in decides its type and the kinds it serves.
backend_io_formats(contracts) ==
  UNION {{IoFormat(contracts, f, p) :
            p \in {q \in Places(contracts, f) : \A o \in Places(contracts, f) : Before(q, o)}} :
         f \in ExtFormats}

\* backend_default_format_for_kind: the first format of the backend that serves
\* the kind; None leaves the core's default.
backend_default_format_for_kind(contracts, k) ==
  LET mine == {d \in backend_io_formats(contracts) :
                 d.type = datatype_for_kind(k) /\ k \in d.kinds}
  IN  IF k \notin CoreKinds \/ mine = {} THEN None
      ELSE (CHOOSE d \in mine : \A e \in mine : Before(d.at, e.at)).format

\* The formats a backend has of its own for the core kinds.
OwnFormats(contracts) ==
  {o \in {[kind |-> k, format |-> backend_default_format_for_kind(contracts, k)] :
             k \in CoreKinds} : o.format # None}

----------------------------------------------------------------------------
(* Descriptors *)

\* Format, kind and data type agree, as far as each is known.
Coherent(k, f, t) ==
  /\ f # None => is_format_compatible_with_kind(k, f)
  /\ t # None => /\ datatype_for_format(f) \in {None, t}
                 /\ datatype_for_kind(k) \in {None, t}

\* validate_artifact_descriptor, first half: the format from the metadata, from
\* the backend (own) or from the core kind, the type from the format or from the
\* kind.
Described(own, d) ==
  LET mine == {o \in own : o.kind = d.kind}
      f == IF d.format # None THEN d.format
           ELSE IF d.meta # None THEN d.meta
           ELSE IF d.kind \notin CoreKinds THEN None
           ELSE IF mine # {} THEN (CHOOSE o \in mine : TRUE).format ELSE DefaultFormat[d.kind]
      t == IF d.type # None THEN d.type
           ELSE IF datatype_for_format(f) # None THEN datatype_for_format(f)
           ELSE datatype_for_kind(d.kind)
  IN  [d EXCEPT !.format = f, !.meta = f, !.type = t]

\* _validate_reserved_metadata, _validate_artifact_file_refs: the other fields, of the
\* descriptor and of its files, have their types and lengths.
WellFormed(d) == d.wellFormed

\* Second half: what the checks let through.
Accepted(own, d) ==
  LET e == Described(own, d) IN WellFormed(d) /\ Coherent(e.kind, e.format, e.type)

----------------------------------------------------------------------------
(* The planner *)

\* _iter_conversion_steps: the conversions of all rows, in order.
Steps(contracts) == FlattenSeq([i \in DOMAIN contracts |-> contracts[i].conversions])

\* The body of the search's inner loop, for one step out of the current format.
Visit(targets, s, e) ==
  IF s.found # <<>> \/ e.to \in s.visited THEN s
  ELSE IF e.to \in targets THEN [s EXCEPT !.found = Append(s.path, e)]
  ELSE [s EXCEPT !.visited = @ \cup {e.to},
                 !.queue = Append(@, [format |-> e.to, path |-> Append(s.path, e)])]

\* The outer loop takes the first format from the queue.
Dequeue(steps, targets, s) ==
  IF s.found # <<>> \/ s.queue = <<>> THEN s
  ELSE LET cur == Head(s.queue)
       IN  FoldLeft(LAMBDA acc, e : Visit(targets, acc, e),
                    [s EXCEPT !.queue = Tail(@), !.path = cur.path],
                    SelectSeq(steps, LAMBDA e : e.from = cur.format))

\* require_lossless leaves out the lossy steps.
Allowed(steps, targets, lossless) == SelectSeq(steps, LAMBDA e : lossless => e.lossless)

\* _find_conversion_path: breadth first; every format enters the queue once, so
\* Cardinality(Formats) rounds empty it. The empty path means there is none.
find_conversion_path(steps, from, targets, lossless) ==
  LET usable == Allowed(steps, targets, lossless)
      round[n \in 0 .. Cardinality(Formats)] ==
        IF n = 0
          THEN [queue |-> <<[format |-> from, path |-> <<>>]>>, visited |-> {from},
                path |-> <<>>, found |-> <<>>]
          ELSE Dequeue(usable, targets, round[n - 1])
  IN  round[Cardinality(Formats)].found

\* plan_conversion_for_artifact: an artifact without a format cannot be planned
\* for, one that has an accepted format needs no conversion.
Planned(steps, source, targets, lossless) ==
  LET path == find_conversion_path(steps, source, targets, lossless)
  IN  IF source = None THEN [executable |-> FALSE, required |-> TRUE, steps |-> <<>>]
      ELSE IF source \in targets THEN [executable |-> TRUE, required |-> FALSE, steps |-> <<>>]
      ELSE [executable |-> path # <<>>, required |-> TRUE, steps |-> path]

\* _target_kind: the kind a step produces.
target_kind(source, format, explicit) ==
  IF explicit # None THEN explicit
  ELSE IF kind_for_default_format(format) # None THEN kind_for_default_format(format)
  ELSE source
=============================================================================
