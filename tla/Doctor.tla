------------------------------- MODULE Doctor -------------------------------
(***************************************************************************)
(* sfm_hub/doctor.py: what the diagnostic says of a plugin, from its       *)
(* manifest, its row in plugins.json and what its probes meet.             *)
(*                                                                         *)
(* A manifest m has the runtime modes it declares and what the probes look *)
(* for; a row has the method of the install ("none": not installed), its   *)
(* switch and whether it failed; a host w has what is found: entry points, *)
(* docker, tools, the URL of the service and the answers of the service.   *)
(* An answer to an HTTP request is "down", "404", "garbled" (no JSON),     *)
(* "other" (JSON, no object), "malformed" (an object that is not as the    *)
(* protocol says) or "object".  Left out: versions that are not numbers,   *)
(* and every word of the report.                                           *)
(***************************************************************************)
EXTENDS Integers, Sequences

Endpoints == {"datatypes", "processors", "pipelines"}

Check(name, status, detail) == [name |-> name, status |-> status, detail |-> detail]

(***************************************************************************)
(* Probes                                                                  *)
(***************************************************************************)
\* Where each variable or executable leads, and whether that program runs; an executable
\* a variable already led to is not run twice.
detect_external_tools(m, w) ==
    LET found == DOMAIN w.tools
        seen == {w.tools[v] : v \in m.envVars \intersect found}
        named == (m.envVars \intersect found)
                   \union {x \in m.executables \intersect found : w.tools[x] \notin seen}
    IN {[name |-> n, path |-> w.tools[n], works |-> w.tools[n] \notin w.broken] : n \in named}

_probe_uv_plugin(w) == Check("loadable", IF w.discovered THEN "pass" ELSE "fail", "")

_probe_docker_plugin(m, w) ==
    Check("docker_image",
          CASE w.docker = "absent" \/ ~m.image -> "warn"
            [] w.docker = "present" /\ m.image -> "pass"
            [] OTHER -> "fail", "")

\* The variable of the manifest if the environment has it, else the default.
_resolve_container_service_url(m, w) == IF w.url # "unset" THEN w.url ELSE m.defaultUrl

_http_status(w) == w.health \in {"object", "other", "garbled", "malformed"}

_http_json(answer) == answer \in {"object", "other", "malformed"}

_compatible_protocol_version(expected, actual) ==
    expected # <<>> /\ actual # <<>> /\ Head(expected) = Head(actual)

\* Services before protocol 1.1 need not publish a catalog.
Legacy(v) == Head(v) < 1 \/ (Head(v) = 1 /\ (Len(v) = 1 \/ v[2] < 1))

\* The declarations are validated together, as those of a manifest are.
_probe_container_catalog(w) ==
    LET missing == {e \in Endpoints : w.catalog[e] = "404"}
    IN IF \E e \in Endpoints \ missing : w.catalog[e] # "object" THEN "fail"
       ELSE IF missing = {} THEN IF w.coherent THEN "valid" ELSE "fail"
       ELSE IF missing = Endpoints /\ Legacy(w.version) THEN "absent" ELSE "fail"

_probe_container_service_plugin(m, w) ==
    LET url == _resolve_container_service_url(m, w)
        sound == /\ url = "valid"
                 /\ _http_status(w)
                 /\ _http_json(w.answer) /\ w.answer = "object"
                 /\ w.protocol = m.protocol
                 /\ _compatible_protocol_version(m.version, w.version)
                 /\ _probe_container_catalog(w) # "fail"
    IN IF url = "unset" THEN Check("container_service", "warn", "unconfigured")
                        ELSE Check("container_service", IF sound THEN "pass" ELSE "fail", "")

(***************************************************************************)
(* The report                                                              *)
(***************************************************************************)
\* Modes the plugin was not installed with are not probed.
_runtime_is_active(mode, method) ==
    \/ method = "none"
    \/ mode = "uv" /\ method \in {"uv", "entry_point"}
    \/ mode = "external_tool" /\ method \in {"uv", "entry_point", "external_tool"}
    \/ mode = method

\* One check for each mode the manifest declares.
ModeCheck(m, row, w, mode) ==
    LET name == CASE mode = "uv" -> "loadable" [] mode = "docker" -> "docker_image" [] OTHER -> mode
    IN IF ~_runtime_is_active(mode, row.method) THEN Check(name, "warn", "inactive")
       ELSE CASE mode = "uv" -> _probe_uv_plugin(w)
              [] mode = "docker" -> _probe_docker_plugin(m, w)
              [] mode = "container_service" -> _probe_container_service_plugin(m, w)
              [] mode = "external_tool" ->
                    Check(name, IF \E t \in detect_external_tools(m, w) : t.works
                                THEN "pass" ELSE "warn", "")

\* doctor_manifest; the check that the manifest parsed always passes.
doctor_manifest(m, row, w) ==
    {ModeCheck(m, row, w, mode) : mode \in m.modes}
      \union {Check("installation", IF row.method # "none" THEN "pass" ELSE "warn", ""),
              Check("conformance", CASE m.conformance = "passing" -> "pass"
                                     [] m.conformance = "failing" -> "fail"
                                     [] OTHER -> "warn", ""),
              Check("licenses", IF m.licensed THEN "pass" ELSE "warn", "")}
      \union (IF row.method = "none" THEN {}
              ELSE {Check("enabled", IF row.enabled THEN "pass" ELSE "warn", "")})
      \union (IF row.method # "none" /\ row.failed THEN {Check("provisioning", "fail", "")} ELSE {})

report_status(checks) ==
    IF \E c \in checks : c.status = "fail" THEN "fail"
    ELSE IF \E c \in checks : c.status = "warn" THEN "warn" ELSE "pass"
=============================================================================
