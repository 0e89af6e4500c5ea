-------------------------------- MODULE Hub --------------------------------
(***************************************************************************)
(* The plugin hub at work: operators install, enable, disable and route    *)
(* plugins from several processes (API processes, the command line), each  *)
(* API process and worker keeps the factories it loaded when it started,   *)
(* and stages are routed at submission and executed later.                 *)
(*                                                                         *)
(* plugins.json is read and replaced under an exclusive lock, so every     *)
(* mutation of it is one step; an install is several of them with commands *)
(* of unknown length and outcome in between.  What a health check meets is *)
(* any of Hosts, and may change between two checks.  Left out: dry runs    *)
(* and host compatibility, which change nothing; plugins that fail to      *)
(* import.                                                                 *)
(***************************************************************************)
EXTENDS Routing, Descriptors, Doctor

CONSTANTS
    Present,     \* plugins importable from the start
    Operators,   \* processes that serve admin requests
    Procs,       \* processes with a registry: they execute stages, answer for actions
    RequestIds,  \* idempotency keys of installs
    Profiles, Projects,
    Routes,      \* the route lists operators save
    Requested,   \* the selectors clients ask for, None among them
    Backend,     \* what the backend of a plugin tells about itself
    Stage, Capability, ActionId,  \* of the stage and the action considered
    Envelopes,   \* the backend_options clients send
    Manifest,    \* what the manifest of a plugin says of its runtimes
    Hosts,       \* what the probes of the doctor may meet
    Methods,     \* subset of {"uv", "container_service", "docker", "external_tool"}
    MaxOps,      \* bound on admin requests
    MaxTasks     \* bound on submitted stages

ASSUME HubAssumption ==
    /\ Present \subseteq Plugins
    /\ Requested \subseteq Selectors \union {None}
    /\ \A route \in Routes : route \in Seq(Selectors)
    /\ MaxOps \in Nat /\ MaxTasks \in Nat

VARIABLES
    env,         \* plugins whose entry points are importable
    file,        \* plugins.json
    reg,         \* the registry of each process
    op,          \* what each operator process is doing
    tasks,       \* submitted stages, in order
    done,        \* auxiliary: <<plugin, request>> whose provisioner delivered
    answers,     \* auxiliary: the <<plugin, request>> that a client was told succeeded
    lost,        \* auxiliary: the plugins whose provisioner ended without a row, and how
    ops

vars == <<env, file, reg, op, tasks, done, answers, lost, ops>>

Statuses == {"not_requested", "running", "succeeded", "skipped", "failed"}

InstalledPlugin == [method : Methods \union {"entry_point"}, enabled : BOOLEAN,
                    status : Statuses, req : RequestIds \union {None}]

Quiet == [pc |-> "idle", k |-> None, method |-> "uv", req |-> None, provision |-> FALSE,
          enable |-> FALSE]

PluginState ==
    [installed : [Plugins -> InstalledPlugin \union {None}],
     profiles : [Profiles -> Routes \union {None}],
     defaultProfile : Profiles \union {None}, workspaceProfile : Profiles \union {None},
     projectProfile : [Projects -> Profiles \union {None}],
     priority : Routes \union {<<>>}]

NoState == [installed |-> [k \in Plugins |-> None], profiles |-> [n \in Profiles |-> None],
            defaultProfile |-> None, workspaceProfile |-> None,
            projectProfile |-> [p \in Projects |-> None], priority |-> <<>>]

Init == /\ env = Present
        /\ file = NoState
        /\ reg = [p \in Procs |-> LoadEntryPoints(NoState, Present)]
        /\ op = [o \in Operators |-> Quiet]
        /\ tasks = <<>>
        /\ done = {} /\ answers = {} /\ lost = {}
        /\ ops = 0

Begin == ops < MaxOps /\ ops' = ops + 1

Goes(o, pc) == op' = [op EXCEPT ![o].pc = pc]
Ends(o) == op' = [op EXCEPT ![o] = Quiet]

\* record_install, record_manual_install: a reinstall overwrites the row, its switch too.
Record(o, method, status, enabled) ==
    /\ file' = [file EXCEPT !.installed[op[o].k] =
                   [method |-> method, enabled |-> enabled, status |-> status, req |-> op[o].req]]
    /\ lost' = {left \in lost : left[1] # op[o].k}

\* A request that failed is refused; of the other answers only succeeded promises anything.
Told(k, q, status) == answers' = IF status = "succeeded" THEN answers \union {<<k, q>>} ELSE answers
Answer(o, status) == Told(op[o].k, op[o].req, status)

(***************************************************************************)
(* Installing                                                              *)
(***************************************************************************)
\* The row answers for this request id already.
Seen(row, q, method) ==
    q # None /\ row # None /\ row.req = q /\ (method # "uv" => row.method = method)

\* install_plugin: a request id seen before is answered from the row, or refused when
\* that attempt failed.
Install(o, k, method, q, provision) ==
    /\ op[o].pc = "idle" /\ Begin
    /\ method # "uv" => k \in Known(env)
    /\ LET row == file.installed[k]
       IN IF Seen(row, q, method)
          THEN /\ Told(k, q, row.status)
               /\ op' = op
          ELSE /\ op' = [op EXCEPT ![o] = [Quiet EXCEPT !.pc = "run", !.k = k, !.method = method,
                                                        !.req = q, !.provision = provision]]
               /\ answers' = answers
    /\ UNCHANGED <<env, file, reg, tasks, done, lost>>

\* The install plan of a method has a command to run.
HasCommand(k, method) ==
    LET m == Manifest[k]
    IN CASE method = "uv" -> TRUE
         [] method = "docker" -> "docker" \in m.modes /\ (m.image \/ m.context)
         [] method = "container_service" -> "container_service" \in m.modes /\ m.serviceImage
         [] method = "external_tool" -> FALSE

\* The methods refused of a manifest without the runtime they need.
Refuses(k, method) == \/ method = "docker" /\ ~HasCommand(k, method)
                      \/ method = "container_service" /\ method \notin Manifest[k].modes

\* run_uv_install: the package and its entry point are there before any row says so.
RunUv(o) ==
    /\ op[o].pc = "run" /\ op[o].method = "uv"
    /\ env' = env \union {op[o].k}
    /\ Goes(o, "record")
    /\ UNCHANGED <<file, reg, tasks, done, answers, lost, ops>>

\* The method is refused, or its command raises: nothing is recorded.
InstallerFails(o) ==
    /\ op[o].pc = "run"
    /\ \/ Refuses(op[o].k, op[o].method)
       \/ op[o].method # "container_service" /\ HasCommand(op[o].k, op[o].method)
    /\ Ends(o)
    /\ UNCHANGED <<env, file, reg, tasks, done, answers, lost, ops>>

\* Mutant of RecordPackage: the row says succeeded before the provisioner has run.
RecordEarly(o) ==
    /\ op[o].pc = "record"
    /\ Record(o, "uv", IF op[o].provision THEN "succeeded" ELSE "not_requested", TRUE)
    /\ Goes(o, "provision")
    /\ UNCHANGED <<env, reg, tasks, done, ops, answers>>

\* After the package: the row, as running when a provisioner follows.
RecordPackage(o) ==
    /\ op[o].pc = "record"
    /\ IF op[o].provision
       THEN /\ Record(o, "uv", "running", TRUE) /\ Goes(o, "provision")
            /\ UNCHANGED answers
       ELSE /\ Record(o, "uv", "not_requested", TRUE) /\ Ends(o)
            /\ Answer(o, "not_requested")
    /\ UNCHANGED <<env, reg, tasks, done, ops>>

\* Mutant of Provisioned: the failure is reported and not recorded.
ProvisionedSilently(o, status) ==
    /\ op[o].pc = "provision"
    /\ status \in {"succeeded", "skipped", "failed"}
    /\ IF status = "failed" THEN UNCHANGED <<file, lost>> ELSE Record(o, "uv", status, TRUE)
    /\ done' = IF status = "succeeded" THEN done \union {<<op[o].k, op[o].req>>} ELSE done
    /\ Answer(o, status)
    /\ Ends(o)
    /\ UNCHANGED <<env, reg, tasks, ops>>

\* run_package_provisioner, then the row of its outcome; a ProvisioningError is the
\* outcome "failed" and the request is refused.
Provisioned(o, status) ==
    /\ op[o].pc = "provision"
    /\ status \in {"succeeded", "skipped", "failed"}
    /\ Record(o, "uv", status, TRUE)
    /\ done' = IF status = "succeeded" THEN done \union {<<op[o].k, op[o].req>>} ELSE done
    /\ Answer(o, status)
    /\ Ends(o)
    /\ UNCHANGED <<env, reg, tasks, ops>>

\* The doctor's check of the service of plugin k on host w, with the row as it is.
ServiceCheck(k, w) ==
    LET row == file.installed[k]
        seen == IF row = None THEN [method |-> "none", enabled |-> FALSE, failed |-> FALSE]
                ELSE [method |-> row.method, enabled |-> row.enabled, failed |-> row.status = "failed"]
    IN CHOOSE c \in doctor_manifest(Manifest[k], seen, [discovered |-> k \in env] @@ w) :
          c.name = "container_service"

\* A failed container_service install is recorded as an installed, enabled plugin whose
\* status is failed.
ServiceEnds(o, ok, status) ==
    /\ Record(o, "container_service", IF ok THEN status ELSE "failed", TRUE)
    /\ Answer(o, IF ok THEN status ELSE "failed")
    /\ done' = IF ok /\ status = "succeeded" THEN done \union {<<op[o].k, op[o].req>>} ELSE done
    /\ Ends(o)

\* container_service: the endpoint must be configured; healthy too, unless there is a
\* command to run first.
InstallService(o, w) ==
    /\ op[o].pc = "run" /\ op[o].method = "container_service"
    /\ ~Refuses(op[o].k, "container_service")
    /\ LET check == ServiceCheck(op[o].k, w)
       IN IF check.detail # "unconfigured" /\ op[o].provision /\ HasCommand(op[o].k, op[o].method)
          THEN Goes(o, "service") /\ UNCHANGED <<file, answers, done, lost>>
          ELSE ServiceEnds(o, check.status = "pass", "not_requested")
    /\ UNCHANGED <<env, reg, tasks, ops>>

\* The command raises, or the service is checked again and must be healthy now.
ProvisionService(o, raises, w) ==
    /\ op[o].pc = "service"
    /\ ServiceEnds(o, ~raises /\ ServiceCheck(op[o].k, w).status = "pass", "succeeded")
    /\ UNCHANGED <<env, reg, tasks, ops>>

\* docker, external_tool: the command if there is one, then the row.
InstallOther(o) ==
    /\ op[o].pc = "run" /\ op[o].method \in {"docker", "external_tool"}
    /\ ~Refuses(op[o].k, op[o].method)
    /\ Record(o, op[o].method, "not_requested", TRUE)
    /\ Answer(o, "not_requested")
    /\ Ends(o)
    /\ UNCHANGED <<env, reg, tasks, done, ops>>

\* The process dies in an install.
Dies(o) ==
    /\ op[o].pc \in {"run", "record", "provision", "service", "adopt"}
    /\ lost' = IF op[o].pc = "provision" THEN lost \union {<<op[o].k, "died">>} ELSE lost
    /\ Ends(o)
    /\ UNCHANGED <<env, file, reg, tasks, done, answers, ops>>

\* The provisioning module fails to import, or reading its hook raises: only
\* ModuleNotFoundError and what the hook itself raises become a ProvisioningError, the
\* one exception install_plugin records.  The request fails and the process goes on.
ProvisionerEscapes(o) ==
    /\ op[o].pc = "provision"
    /\ lost' = lost \union {<<op[o].k, "raised">>}
    /\ Ends(o)
    /\ UNCHANGED <<env, file, reg, tasks, done, answers, ops>>

(***************************************************************************)
(* Switching and routing                                                   *)
(***************************************************************************)
\* enable_plugin, disable_plugin with a row.
SetEnabled(o, k, e) ==
    /\ op[o].pc = "idle" /\ Begin
    /\ k \in Known(env) /\ file.installed[k] # None
    /\ file' = [file EXCEPT !.installed[k].enabled = e]
    /\ UNCHANGED <<env, reg, op, tasks, done, answers, lost>>

\* Without one, a discovered plugin gets a row in a second mutation of the file.
SetDiscovered(o, k, e) ==
    /\ op[o].pc = "idle" /\ Begin
    /\ file.installed[k] = None /\ k \in env
    /\ op' = [op EXCEPT ![o] = [Quiet EXCEPT !.pc = "adopt", !.k = k, !.enable = e]]
    /\ UNCHANGED <<env, file, reg, tasks, done, answers, lost>>

AdoptEntryPoint(o) ==
    /\ op[o].pc = "adopt"
    /\ Record(o, "entry_point", "not_requested", op[o].enable)
    /\ Ends(o)
    /\ UNCHANGED <<env, reg, tasks, done, answers, ops>>

\* A bare id that several manifests declare is no route.
Routable(route) == \A i \in DOMAIN route :
    LET s == route[i]
        owners == {k \in Known(env) : s[1] \in Declares[k]}
    IN IF Bare(s) THEN Cardinality(owners) = 1 ELSE s[2] \in owners

\* upsert_profile, set_provider_priority: checked against the manifests, then saved.
UpsertProfile(o, n, route) ==
    /\ op[o].pc = "idle" /\ Begin
    /\ Routable(route)
    /\ file' = [file EXCEPT !.profiles[n] = route]
    /\ UNCHANGED <<env, reg, op, tasks, done, answers, lost>>

SetPriority(o, route) ==
    /\ op[o].pc = "idle" /\ Begin
    /\ Routable(route)
    /\ file' = [file EXCEPT !.priority = route]
    /\ UNCHANGED <<env, reg, op, tasks, done, answers, lost>>

\* set_default_profile, set_workspace_profile, set_project_profile.
AssignProfile(o, n) ==
    /\ op[o].pc = "idle" /\ Begin
    /\ file.profiles[n] # None
    /\ \/ file' = [file EXCEPT !.defaultProfile = n]
       \/ file' = [file EXCEPT !.workspaceProfile = n]
       \/ \E p \in Projects : file' = [file EXCEPT !.projectProfile[p] = n]
    /\ UNCHANGED <<env, reg, op, tasks, done, answers, lost>>

(***************************************************************************)
(* Stages                                                                  *)
(***************************************************************************)
\* Mutant of Usable: the choice made at submission is trusted.
UsableUnchecked(p, s) == s # None /\ GetBackend(reg[p], s) # None

\* _resolve_backend: what a request or a task may use in process p under selector s;
\* the hub must not know the provider as disabled, the registry must have it.
Usable(p, s) == s # None /\ ~ProviderDisabled(file, env, s) /\ GetBackend(reg[p], s) # None

\* The provider id a selector is written as.
ProviderId(s) == IF Bare(s) THEN <<s[1]>> ELSE s

\* validate_features_config and its like: an envelope is held against the schemas of the
\* backend the process would run the stage with.  The configured backend publishes none.
OptionsAccepted(p, s, options) ==
    \/ options = <<>> \/ s = None
    \/ /\ Usable(p, s)
       /\ validate_backend_options(Backend[GetBackend(reg[p], s)], Stage, Capability, ProviderId(s), options)

NewTask == [sel |-> None, options |-> <<>>, action |-> FALSE, routed |-> {}, pending |-> TRUE,
            ran |-> None, enabled |-> FALSE]

\* apply_provider_resolution writes the selector into the stage's spec, then its options
\* are checked.  routed: the row the choice was made from.
Submit(p, project, requested, options) ==
    LET s == Resolve(file, env, requested, project)
    IN /\ Len(tasks) < MaxTasks
       /\ s # Refused
       /\ OptionsAccepted(p, s, options)
       /\ tasks' = Append(tasks, [NewTask EXCEPT !.sel = s, !.options = options,
              !.routed = IF s = None THEN {} ELSE {r[2] : r \in Matches(Candidates(file, env), s)}])
       /\ UNCHANGED <<env, file, reg, op, done, answers, lost, ops>>

\* The backend of plugin k has a descriptor for the action.
get_backend_action(k) == has_action(Backend[k], ActionId)

\* Inputs are only checked here, where the action runs, against its descriptor.
validate_backend_action(k, valid) == get_backend_action(k) /\ valid
run_backend_action(k, valid) == IF validate_backend_action(k, valid) THEN k ELSE None

\* submit_action: the action is looked up in the backend of the process that serves the
\* request, and the task names the selector.
SubmitAction(p, project, requested) ==
    LET s == ResolveAction(file, env, reg[p], requested, project)
    IN /\ Len(tasks) < MaxTasks
       /\ s # Refused
       /\ Usable(p, s) /\ get_backend_action(GetBackend(reg[p], s))
       /\ tasks' = Append(tasks, [NewTask EXCEPT !.sel = s, !.action = TRUE,
                                                 !.routed = {GetBackend(reg[p], s)}])
       /\ UNCHANGED <<env, file, reg, op, done, answers, lost, ops>>

\* Task i ends in process p; k is the plugin that did the work, None if it failed.
Ran(p, i, k) ==
    /\ tasks[i].pending
    /\ tasks' = [tasks EXCEPT ![i].pending = FALSE, ![i].ran = k,
                              ![i].enabled = k \in Enabled(file, env)]
    /\ UNCHANGED <<env, file, reg, op, done, answers, lost, ops>>

\* backend_for_stage, in whichever process runs the task.
Execute(p, i) ==
    LET s == tasks[i].sel
    IN ~tasks[i].action /\ Ran(p, i, IF Usable(p, s) THEN GetBackend(reg[p], s) ELSE None)

\* The backend_action task: the backend is resolved again, and the action in it.
ExecuteAction(p, i, valid) ==
    LET s == tasks[i].sel
    IN /\ tasks[i].action
       /\ Ran(p, i, IF Usable(p, s) THEN run_backend_action(GetBackend(reg[p], s), valid) ELSE None)

\* One-shot requests: nothing is stored; the backend of the process that serves the
\* request extracts and reads its result back, or poses one image in a model.
extract_features_oneshot(p, requested) ==
    IF Usable(p, requested) THEN GetBackend(reg[p], requested) ELSE Refused
localize_oneshot(p, requested) ==
    IF Usable(p, requested) THEN GetBackend(reg[p], requested) ELSE Refused

\* A process starts again and loads what is there and enabled now.
Restart(p) ==
    /\ reg[p] # LoadEntryPoints(file, env)
    /\ reg' = [reg EXCEPT ![p] = LoadEntryPoints(file, env)]
    /\ UNCHANGED <<env, file, op, tasks, done, answers, lost, ops>>

Next ==
    \/ \E o \in Operators :
          \/ \E k \in Plugins, m \in Methods, q \in RequestIds \union {None}, b \in BOOLEAN :
                Install(o, k, m, q, b)
          \/ RunUv(o) \/ InstallerFails(o) \/ RecordPackage(o) \/ InstallOther(o)
          \/ Dies(o) \/ ProvisionerEscapes(o)
          \/ \E status \in Statuses : Provisioned(o, status)
          \/ \E w \in Hosts : InstallService(o, w) \/ \E raises \in BOOLEAN : ProvisionService(o, raises, w)
          \/ \E k \in Plugins, e \in BOOLEAN : SetEnabled(o, k, e) \/ SetDiscovered(o, k, e)
          \/ AdoptEntryPoint(o)
          \/ \E n \in Profiles, route \in Routes : UpsertProfile(o, n, route)
          \/ \E route \in Routes : SetPriority(o, route)
          \/ \E n \in Profiles : AssignProfile(o, n)
    \/ \E p \in Procs, project \in Projects, requested \in Requested :
          \/ \E options \in Envelopes : Submit(p, project, requested, options)
          \/ SubmitAction(p, project, requested)
    \/ \E p \in Procs, i \in DOMAIN tasks :
          Execute(p, i) \/ \E valid \in BOOLEAN : ExecuteAction(p, i, valid)
    \/ \E p \in Procs : Restart(p)

Spec == Init /\ [][Next]_vars

(***************************************************************************)
(* Properties                                                              *)
(***************************************************************************)
TypeOK ==
    /\ env \subseteq Plugins
    /\ file \in PluginState
    /\ reg \in [Procs -> [Selectors -> Plugins \union {None}]]
    /\ \A o \in Operators : op[o].pc \in {"idle", "run", "record", "provision", "service", "adopt"}
    /\ Len(tasks) <= MaxTasks
    /\ \A i \in DOMAIN tasks : tasks[i].sel \in Selectors \union {None}

\* The plugins that a selector may mean: to the hub, or in a registry.
Named(s) == {k \in Plugins : s[1] \in Declares[k] \union Serves[k] /\ (Bare(s) \/ k = s[2])}

\* One plugin answers to the selector, and its manifest declares the id: what the hub
\* calls enabled and what a registry finds are the same plugin.
Precise(s) == \E k \in Plugins : Named(s) = {k} /\ s[1] \in Declares[k]

\* What runs is what was routed, and it is enabled when it starts, however the plugin
\* was switched and whichever processes restarted since the submission; for precise
\* selectors.  An id that a plugin registers and its manifest does not declare is none:
\* provider_enabled does not know it, and a registry loaded before the plugin was
\* disabled still runs it.  One-shot requests, which are not routed, run nothing disabled
\* either (routing.py, backend_resolver.py, backend_action_service.py).
RunsRouted ==
    /\ \A i \in DOMAIN tasks :
          LET t == tasks[i]
          IN t.ran # None /\ Precise(t.sel) => t.enabled /\ (t.routed # {} => t.routed = {t.ran})
    /\ \A p \in Procs, s \in Requested \ {None} :
          Precise(s) => {extract_features_oneshot(p, s), localize_oneshot(p, s)}
                            \subseteq Enabled(file, env) \union {Refused}

\* An option reaches a backend only if one of the schemas it publishes for the stage has
\* it, provided the backend passes its contract check; for precise selectors
\* (validate_backend_options, and the reason backend_config_contract_violations gives).
OptionsDeclared == \A i \in DOMAIN tasks :
    LET t == tasks[i]
        rows == {r \in list_backend_config_schemas(Backend[t.ran]) : r.stage = Stage}
    IN t.ran # None /\ Precise(t.sel) /\ Conforms(Backend[t.ran]) /\ rows # {} =>
          DOMAIN t.options \subseteq UNION {DOMAIN r.schema.props : r \in rows}

\* The same of every selector, as the docstrings of resolve_provider and
\* register_backend_provider have it.
RunsEnabled == \A i \in DOMAIN tasks : tasks[i].ran # None => tasks[i].enabled

\* A client told succeeded has its plugin provisioned: by this request or the one it
\* repeats, never by another (install_plugin's replay).
AnswersHonest == answers \subseteq done

\* Since the last row written for plugin k, a provisioner of it has died with its process
\* or ended with an exception that nobody records.
Abandoned(k) == <<k, "died">> \in lost \/ <<k, "raised">> \in lost

\* A row says running only while some process is in the provisioner of that plugin, or
\* after one has left it without writing a row, which nothing repairs: no other outcome of
\* a provisioner, and no other install of the same plugin that ends before, after or in
\* between, leaves it (install_plugin's three record_install calls).
RunningHasOwner == \A k \in Plugins :
    file.installed[k] # None /\ file.installed[k].status = "running" =>
        Abandoned(k) \/ \E o \in Operators : op[o].k = k /\ op[o].pc = "provision"

\* A disabled plugin stays disabled until somebody asks for it again.
DisableSticks == [][\A k \in Plugins :
    (/\ file.installed[k] # None /\ ~file.installed[k].enabled
     /\ file'.installed[k] # None /\ file'.installed[k].enabled) => ops' # ops]_vars
=============================================================================
