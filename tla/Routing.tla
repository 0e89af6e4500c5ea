------------------------------ MODULE Routing ------------------------------
(***************************************************************************)
(* Which backend runs a stage: sfm_hub/routing.py picks a provider from    *)
(* the plugin state, sfm_hub/discovery.py registers the factories of the   *)
(* installed entry points in a process, adapters/registry.py finds one.    *)
(*                                                                         *)
(* A selector is <<provider, plugin>>; a bare provider id has NoPlugin in  *)
(* the second place.  A candidate is a <<provider, plugin>> row.  One      *)
(* stage with its capability and one backend action are considered, which  *)
(* the profiles route alike.  Display names, priority hints and runtime    *)
(* modes are left out: they order and label rows, they select none.        *)
(***************************************************************************)
EXTENDS Naturals, Sequences, FiniteSets

CONSTANTS
    Plugins, Providers,
    Declares,    \* the provider ids in the manifest of a plugin
    Serves,      \* the ids its entry point registers a factory for: declared or not,
                 \* since the providers named to the registrar bypass the manifest
    Bundled,     \* plugins whose manifest ships with the hub
    Capable,     \* the rows that have the capability of the stage
    ActionRows,  \* the rows whose patterns cover a backend action
    LoadOrder,   \* the entry points, sorted by name
    NoPlugin,
    None,        \* no provider: the backend the process is configured with
    Refused      \* the request is answered with an error

ASSUME ManifestAssumption ==
    /\ IsFiniteSet(Plugins) /\ Bundled \subseteq Plugins
    /\ Declares \in [Plugins -> SUBSET Providers] /\ Serves \in [Plugins -> SUBSET Providers]
    /\ Capable \subseteq Providers \X Plugins
    /\ ActionRows \subseteq Providers \X Plugins
    /\ LoadOrder \in Seq(Plugins)
    /\ NoPlugin \notin Plugins

Selectors == Providers \X (Plugins \union {NoPlugin})
Bare(s) == s[2] = NoPlugin

(***************************************************************************)
(* The rows of the hub, given the state file st and the plugins env whose  *)
(* entry points are importable.                                            *)
(***************************************************************************)
Known(env) == Bundled \union env

Installed(st, env) == {k \in Known(env) : st.installed[k] # None \/ k \in env}

\* A plugin without a row in the state file is enabled by being there.
Enabled(st, env) ==
    {k \in Installed(st, env) : st.installed[k] # None => st.installed[k].enabled}

RowsOf(ks) == {r \in Providers \X Plugins : r[2] \in ks /\ r[1] \in Declares[r[2]]}

Matches(rows, s) == {r \in rows : r[1] = s[1] /\ (Bare(s) \/ r[2] = s[2])}

Candidates(st, env) == RowsOf(Enabled(st, env)) \intersect Capable

\* provider_enabled: NULL for a provider the hub does not know of.
ProviderDisabled(st, env, s) ==
    LET rows == Matches(RowsOf(Installed(st, env)), s)
    IN rows # {} /\ \A r \in rows : r[2] \notin Enabled(st, env)

\* The selector for the one row left, as precise as the one that asked for it.
Single(rows, qualified) ==
    IF Cardinality(rows) # 1 THEN Refused
    ELSE LET r == CHOOSE x \in rows : TRUE
         IN IF qualified THEN r ELSE <<r[1], NoPlugin>>

(***************************************************************************)
(* resolve_provider                                                        *)
(***************************************************************************)
\* The profiles that apply to a project, strongest first, then the fallback order.
Preferences(st, project) ==
    LET route(n) == IF n = None THEN <<>>
                    ELSE IF st.profiles[n] = None THEN <<>> ELSE st.profiles[n]
    IN route(st.projectProfile[project]) \o route(st.workspaceProfile)
         \o route(st.defaultProfile) \o st.priority

\* The first of them that a candidate matches, in a set; the empty set if there is none.
Liked(prefs, cands) ==
    {prefs[i] : i \in {n \in DOMAIN prefs : /\ Matches(cands, prefs[n]) # {}
                                           /\ \A m \in 1..(n - 1) : Matches(cands, prefs[m]) = {}}}

Resolve(st, env, requested, project) ==
    LET cands == Candidates(st, env)
        liked == Liked(Preferences(st, project), cands)
        best == CHOOSE s \in liked : TRUE
    IN CASE cands = {} /\ requested = None -> None
         [] cands = {} /\ requested # None ->
              IF Matches(RowsOf(Installed(st, env)), requested) # {} THEN Refused ELSE requested
         [] cands # {} /\ requested # None ->
              Single(Matches(cands, requested), ~Bare(requested))
         [] cands # {} /\ requested = None /\ liked # {} ->
              Single(Matches(cands, best), ~Bare(best))
         [] OTHER -> Single(cands, FALSE)

(***************************************************************************)
(* The registry of a process: selector to the plugin whose factory it is.  *)
(***************************************************************************)
\* load_backend_entry_points: in name order, without the disabled ones.  A bare id
\* stays with the plugin that registered it first (register_backend_provider refuses
\* the second, which is logged); a qualified one belongs to its plugin.
LoadEntryPoints(st, env) ==
    LET loads(k) == k \in env /\ (st.installed[k] # None => st.installed[k].enabled)
        serving(p) == {i \in DOMAIN LoadOrder : loads(LoadOrder[i]) /\ p \in Serves[LoadOrder[i]]}
        first(p) == {i \in serving(p) : \A n \in serving(p) : i <= n}
    IN [s \in Selectors |->
          IF Bare(s) THEN (IF first(s[1]) = {} THEN None ELSE LoadOrder[CHOOSE i \in first(s[1]) : TRUE])
          ELSE IF \E i \in serving(s[1]) : LoadOrder[i] = s[2] THEN s[2] ELSE None]

\* get_backend(provider=s): the factory under exactly this selector.
GetBackend(reg, s) == reg[s]

(***************************************************************************)
(* backend_action_service: the provider of a backend action is chosen in   *)
(* the process that answers the request, from the rows its own registry    *)
(* knows.                                                                  *)
(***************************************************************************)
Registered(reg, r) == reg[<<r[1], NoPlugin>>] # None \/ reg[r] # None

\* _single_action_provider_or_raise: the bare id whenever some factory answers to it.
SingleAction(reg, rows, requested) ==
    IF Cardinality(rows) # 1 THEN Refused
    ELSE LET r == CHOOSE x \in rows : TRUE
         IN IF requested # None /\ ~Bare(requested) THEN requested
            ELSE IF reg[<<r[1], NoPlugin>>] # None THEN <<r[1], NoPlugin>> ELSE r

ResolveAction(st, env, reg, requested, project) ==
    LET cands == {r \in RowsOf(Enabled(st, env)) \intersect ActionRows : Registered(reg, r)}
        liked == Liked(Preferences(st, project), cands)
        best == CHOOSE s \in liked : TRUE
    IN CASE cands = {} -> requested
         [] cands # {} /\ requested # None ->
              SingleAction(reg, Matches(cands, requested), requested)
         [] cands # {} /\ requested = None /\ liked # {} ->
              SingleAction(reg, Matches(cands, best), best)
         [] OTHER -> SingleAction(reg, cands, None)
=============================================================================
