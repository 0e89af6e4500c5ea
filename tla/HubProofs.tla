------------------------------ MODULE HubProofs ------------------------------
(***************************************************************************)
(* Theorems about Hub: type correctness, what clients are told of an       *)
(* install, who owns a running one, and that a stage runs in the backend   *)
(* it was routed to, enabled and with options that backend declares, in    *)
(* whichever process and however late.                                     *)
(***************************************************************************)
EXTENDS Hub, FiniteSetTheorems, SequenceTheorems, TLAPS

-----------------------------------------------------------------------------
(* The inductive invariants. *)

Pcs == {"idle", "run", "record", "provision", "service", "adopt"}

OpType == [pc : Pcs, k : Plugins \union {None}, method : Methods \union {"uv"},
           req : RequestIds \union {None}, provision : BOOLEAN, enable : BOOLEAN]

\* What an operator process does, it does to a plugin and with an offered method.
OpSound(me) ==
    /\ me.pc # "idle" => me.k \in Plugins
    /\ me.pc \in {"run", "record", "provision", "service"} => me.method \in Methods
    /\ me.pc \in {"record", "provision"} => me.method = "uv"
    /\ me.pc = "service" => me.method = "container_service"

OpsInv == op \in [Operators -> OpType] /\ \A o \in Operators : OpSound(op[o])

\* The plugin declares or serves what the selector asks for.
Fits(k, s) == k \in Named(s)

\* A registry holds importable plugins, under selectors that they fit.
RegInv ==
    /\ reg \in [Procs -> [Selectors -> Plugins \union {None}]]
    /\ \A p \in Procs, s \in Selectors : reg[p][s] # None => reg[p][s] \in env /\ Fits(reg[p][s], s)

TaskType == [sel : Selectors \union {None}, options : Envelopes \union {<<>>}, action : BOOLEAN,
             routed : SUBSET Plugins, pending : BOOLEAN, ran : Plugins \union {None},
             enabled : BOOLEAN]

\* The rows a task was routed by, the plugin that ran it and the one its options were
\* checked with all fit its selector, and what a precise selector ran was enabled.
TaskSound(t) ==
    /\ \A k \in t.routed : Fits(k, t.sel)
    /\ t.ran # None => t.sel # None /\ Fits(t.ran, t.sel)
    /\ t.ran # None /\ Precise(t.sel) => t.enabled
    /\ t.sel # None =>
         \/ t.options = <<>>
         \/ \E k \in Plugins :
              /\ Fits(k, t.sel)
              /\ validate_backend_options(Backend[k], Stage, Capability, ProviderId(t.sel), t.options)

TasksInv == /\ tasks \in Seq(TaskType) /\ Len(tasks) <= MaxTasks
            /\ \A i \in DOMAIN tasks : TaskSound(tasks[i])

\* A row says succeeded of a request only if its provisioner delivered.
RowsHonest == \A k \in Plugins :
    file.installed[k] # None /\ file.installed[k].status = "succeeded" =>
        <<k, file.installed[k].req>> \in done

HubInv ==
    /\ env \subseteq Plugins /\ file \in PluginState
    /\ OpsInv /\ RegInv /\ TasksInv
    /\ RowsHonest /\ AnswersHonest /\ RunningHasOwner

-----------------------------------------------------------------------------
(* Routing: what selectors name and registries hold. *)

\* A precise selector fits one plugin.
LEMMA PreciseFitsOne ==
  ASSUME NEW s, Precise(s), NEW k, NEW n, Fits(k, s), Fits(n, s)
  PROVE  k = n
BY DEF Fits, Precise

\* load_backend_entry_points registers importable plugins under selectors they fit.
LEMMA LoadedFits ==
  ASSUME NEW st, NEW here \in SUBSET Plugins
  PROVE  /\ LoadEntryPoints(st, here) \in [Selectors -> Plugins \union {None}]
         /\ \A s \in Selectors : LoadEntryPoints(st, here)[s] # None =>
              LoadEntryPoints(st, here)[s] \in here /\ Fits(LoadEntryPoints(st, here)[s], s)
<1> DEFINE loads(k) == k \in here /\ (st.installed[k] # None => st.installed[k].enabled)
           serving(q) == {i \in DOMAIN LoadOrder : loads(LoadOrder[i]) /\ q \in Serves[LoadOrder[i]]}
           first(q) == {i \in serving(q) : \A n \in serving(q) : i <= n}
           value(s) == IF Bare(s) THEN (IF first(s[1]) = {} THEN None
                                        ELSE LoadOrder[CHOOSE i \in first(s[1]) : TRUE])
                       ELSE IF \E i \in serving(s[1]) : LoadOrder[i] = s[2] THEN s[2] ELSE None
<1>1. LoadEntryPoints(st, here) = [s \in Selectors |-> value(s)]
  BY DEF LoadEntryPoints
<1>2. \A q : \A i \in serving(q) : LoadOrder[i] \in here /\ LoadOrder[i] \in Plugins
                                   /\ q \in Serves[LoadOrder[i]]
  BY ManifestAssumption
<1>3. ASSUME NEW s \in Selectors, value(s) # None PROVE value(s) \in here /\ Fits(value(s), s)
  <2>1. CASE Bare(s)
    <3>1. first(s[1]) # {} /\ value(s) = LoadOrder[CHOOSE i \in first(s[1]) : TRUE]
      BY <1>3, <2>1
    <3>2. (CHOOSE i \in first(s[1]) : TRUE) \in serving(s[1])
      BY <3>1
    <3> HIDE DEF serving, first
    <3>3. value(s) \in here /\ value(s) \in Plugins /\ s[1] \in Serves[value(s)]
      BY <1>2, <3>1, <3>2
    <3> QED BY <2>1, <3>3 DEF Fits, Named
  <2>2. CASE ~Bare(s)
    <3>1. PICK i \in serving(s[1]) : LoadOrder[i] = s[2]
      BY <1>3, <2>2
    <3>2. value(s) = s[2]
      BY <2>2, <3>1
    <3> HIDE DEF serving, value
    <3>3. value(s) \in here /\ value(s) \in Plugins /\ s[1] \in Serves[value(s)]
      BY <1>2, <3>1, <3>2
    <3> QED BY <3>2, <3>3 DEF Fits, Named
  <2> QED BY <2>1, <2>2
<1> HIDE DEF value
<1>4. \A s \in Selectors : value(s) \in Plugins \union {None}
  BY <1>3
<1> QED BY <1>1, <1>3, <1>4

\* The rows of a choice are pairs, and name a selector.
LEMMA SingleSelects ==
  ASSUME NEW rows \in SUBSET (Providers \X Plugins), NEW qualified
  PROVE  Single(rows, qualified) \in Selectors \union {Refused}
<1> DEFINE r == CHOOSE x \in rows : TRUE
<1>1. CASE Cardinality(rows) # 1
  BY <1>1 DEF Single
<1>2. CASE Cardinality(rows) = 1
  <2>1. rows # {}
    BY <1>2, FS_EmptySet
  <2>2. r \in Providers \X Plugins
    BY <2>1
  <2> HIDE DEF r
  <2>3. r \in Selectors /\ <<r[1], NoPlugin>> \in Selectors
    BY <2>2 DEF Selectors
  <2>4. Single(rows, qualified) = IF qualified THEN r ELSE <<r[1], NoPlugin>>
    BY <1>2 DEF Single, r
  <2> QED BY <2>3, <2>4
<1> QED BY <1>1, <1>2

\* Preferences are selectors.
LEMMA PreferencesSelect ==
  ASSUME NEW st \in PluginState, NEW project \in Projects
  PROVE  Preferences(st, project) \in Seq(Selectors)
<1> DEFINE route(n) == IF n = None THEN <<>>
                       ELSE IF st.profiles[n] = None THEN <<>> ELSE st.profiles[n]
<1>1. <<>> \in Seq(Selectors)
  OBVIOUS
<1>2. \A n \in Profiles \union {None} : route(n) \in Seq(Selectors)
  BY <1>1, HubAssumption DEF PluginState
<1>3. /\ st.projectProfile[project] \in Profiles \union {None}
      /\ st.workspaceProfile \in Profiles \union {None}
      /\ st.defaultProfile \in Profiles \union {None}
      /\ st.priority \in Seq(Selectors)
  BY <1>1, HubAssumption DEF PluginState
<1>4. Preferences(st, project) = route(st.projectProfile[project]) \o route(st.workspaceProfile)
                                   \o route(st.defaultProfile) \o st.priority
  BY DEF Preferences
<1> HIDE DEF route
<1>5. /\ route(st.projectProfile[project]) \in Seq(Selectors)
      /\ route(st.workspaceProfile) \in Seq(Selectors)
      /\ route(st.defaultProfile) \in Seq(Selectors)
  BY <1>2, <1>3
<1> QED BY <1>3, <1>4, <1>5, ConcatProperties

LEMMA LikedSelects ==
  ASSUME NEW prefs \in Seq(Selectors), NEW cands
  PROVE  Liked(prefs, cands) \subseteq Selectors
BY DEF Liked

\* resolve_provider answers with a selector, with none, or not at all.
LEMMA ResolveSelects ==
  ASSUME NEW st \in PluginState, NEW here, NEW requested \in Selectors \union {None},
         NEW project \in Projects
  PROVE  Resolve(st, here, requested, project) \in Selectors \union {None, Refused}
<1> DEFINE cands == Candidates(st, here)
           liked == Liked(Preferences(st, project), cands)
           best == CHOOSE s \in liked : TRUE
<1>1. \A s : Matches(cands, s) \in SUBSET (Providers \X Plugins)
  BY DEF Matches, Candidates, RowsOf
<1>2. cands \in SUBSET (Providers \X Plugins)
  BY DEF Candidates, RowsOf
<1> HIDE DEF cands, liked, best
<1>3. /\ Single(Matches(cands, requested), ~Bare(requested)) \in Selectors \union {Refused}
      /\ Single(Matches(cands, best), ~Bare(best)) \in Selectors \union {Refused}
      /\ Single(cands, FALSE) \in Selectors \union {Refused}
  BY <1>1, <1>2, SingleSelects
<1> QED BY <1>3 DEF Resolve, cands, liked, best

\* So does the choice for an action.
LEMMA ActionSelects ==
  ASSUME NEW st \in PluginState, NEW here, NEW known, NEW requested \in Selectors \union {None},
         NEW project \in Projects
  PROVE  ResolveAction(st, here, known, requested, project) \in Selectors \union {None, Refused}
<1> DEFINE cands == {r \in RowsOf(Enabled(st, here)) \intersect ActionRows : Registered(known, r)}
           liked == Liked(Preferences(st, project), cands)
           best == CHOOSE s \in liked : TRUE
<1>1. ASSUME NEW rows \in SUBSET (Providers \X Plugins), NEW asked \in Selectors \union {None}
      PROVE  SingleAction(known, rows, asked) \in Selectors \union {None, Refused}
  <2> DEFINE r == CHOOSE x \in rows : TRUE
  <2>1. CASE Cardinality(rows) # 1
    BY <2>1 DEF SingleAction
  <2>2. CASE Cardinality(rows) = 1
    <3>1. rows # {}
      BY <2>2, FS_EmptySet
    <3>2. r \in Providers \X Plugins
      BY <3>1
    <3> HIDE DEF r
    <3>3. r \in Selectors /\ <<r[1], NoPlugin>> \in Selectors
      BY <3>2 DEF Selectors
    <3>4. SingleAction(known, rows, asked) =
            IF asked # None /\ ~Bare(asked) THEN asked
            ELSE IF known[<<r[1], NoPlugin>>] # None THEN <<r[1], NoPlugin>> ELSE r
      BY <2>2 DEF SingleAction, r
    <3> QED BY <3>3, <3>4
  <2> QED BY <2>1, <2>2
<1>2. \A s : Matches(cands, s) \in SUBSET (Providers \X Plugins)
  BY DEF Matches, RowsOf
<1>3. cands \in SUBSET (Providers \X Plugins)
  BY DEF RowsOf
<1>4. liked \subseteq Selectors
  BY PreferencesSelect, LikedSelects
<1>5. liked # {} => best \in Selectors
  BY <1>4
<1> HIDE DEF cands, liked, best
<1>6. /\ SingleAction(known, Matches(cands, requested), requested) \in Selectors \union {None, Refused}
      /\ liked # {} => SingleAction(known, Matches(cands, best), best) \in Selectors \union {None, Refused}
      /\ SingleAction(known, cands, None) \in Selectors \union {None, Refused}
  BY <1>1, <1>2, <1>3, <1>5
<1> QED BY <1>6 DEF ResolveAction, cands, liked, best

\* ensure_provider_enabled is exact for precise selectors: what a process may use under
\* one is enabled now, whenever the process loaded it.
LEMMA UsableIsEnabled ==
  ASSUME env \subseteq Plugins, RegInv, NEW p \in Procs, NEW s \in Selectors, Usable(p, s)
  PROVE  /\ GetBackend(reg[p], s) \in Plugins /\ Fits(GetBackend(reg[p], s), s)
         /\ Precise(s) => GetBackend(reg[p], s) \in Enabled(file, env)
<1> DEFINE k == GetBackend(reg[p], s)
           rows == Matches(RowsOf(Installed(file, env)), s)
<1>1. k # None /\ ~ProviderDisabled(file, env, s)
  BY DEF Usable
<1>2. k \in env /\ Fits(k, s) /\ k \in Plugins
  BY <1>1 DEF RegInv, GetBackend
<1>3. ASSUME Precise(s) PROVE k \in Enabled(file, env)
  <2>1. k \in Installed(file, env)
    BY <1>2 DEF Installed, Known
  <2>2. s[1] \in Providers
    BY DEF Selectors
  <2> HIDE DEF k
  <2>a. s[1] \in Declares[k] /\ (Bare(s) \/ k = s[2])
    BY <1>2, <1>3 DEF Precise, Fits, Named
  <2>3. <<s[1], k>> \in rows
    BY <1>2, <2>a, <2>1, <2>2 DEF Matches, RowsOf
  <2>4. PICK r \in rows : r[2] \in Enabled(file, env)
    BY <1>1, <2>3 DEF ProviderDisabled
  <2>5. Fits(r[2], s)
    BY DEF Matches, RowsOf, Fits, Named
  <2>6. r[2] = k
    BY <1>2, <1>3, <2>5, PreciseFitsOne
  <2> QED BY <2>4, <2>6
<1> QED BY <1>2, <1>3

\* The rows a stage was routed by fit its selector.
LEMMA RoutedFit ==
  ASSUME NEW st, NEW here, NEW s \in Selectors
  PROVE  /\ {r[2] : r \in Matches(Candidates(st, here), s)} \in SUBSET Plugins
         /\ \A k \in {r[2] : r \in Matches(Candidates(st, here), s)} : Fits(k, s)
BY DEF Matches, Candidates, RowsOf, Fits, Named

-----------------------------------------------------------------------------
(* Installs. *)

LEMMA QuietFacts ==
  /\ Quiet \in OpType /\ OpSound(Quiet) /\ Quiet.pc = "idle" /\ Quiet.method = "uv"
<1>1. FALSE \in BOOLEAN
  OBVIOUS
<1> QED BY <1>1 DEF Quiet, OpType, OpSound, Pcs

LEMMA TasksStay == ASSUME TasksInv, UNCHANGED tasks PROVE TasksInv'
BY DEF TasksInv

LEMMA RegStays == ASSUME RegInv, UNCHANGED reg, env \subseteq env' PROVE RegInv'
BY DEF RegInv

LEMMA OpMoves ==
  ASSUME OpsInv, NEW o \in Operators, NEW me \in OpType, OpSound(me),
         op' = [op EXCEPT ![o] = me]
  PROVE  OpsInv'
BY DEF OpsInv

\* A step of an operator process that leaves plugins.json alone.
LEMMA OpStep ==
  ASSUME HubInv, NEW o \in Operators, NEW me \in OpType, OpSound(me),
         op' = [op EXCEPT ![o] = me],
         op[o].pc = "provision" => \A k \in {op[o].k} : Abandoned(k)',
         lost \subseteq lost', env \subseteq env', env' \subseteq Plugins,
         answers' \subseteq done', done \subseteq done', UNCHANGED <<file, reg, tasks>>
  PROVE  HubInv'
<1>1. OpsInv' /\ RegInv' /\ TasksInv'
  BY OpMoves, RegStays, TasksStay DEF HubInv
<1>2. RowsHonest'
  BY DEF HubInv, RowsHonest
<1>3. op \in [Operators -> OpType]
  BY DEF HubInv, OpsInv
<1>4. RunningHasOwner'
  <2> SUFFICES ASSUME NEW k \in Plugins, file.installed[k] # None,
                      file.installed[k].status = "running", ~Abandoned(k)'
               PROVE  \E n \in Operators : op'[n].k = k /\ op'[n].pc = "provision"
    BY DEF RunningHasOwner
  <2>0. ~Abandoned(k)
    BY DEF Abandoned
  <2>1. PICK n \in Operators : op[n].k = k /\ op[n].pc = "provision"
    BY <2>0 DEF HubInv, RunningHasOwner
  <2>2. n # o
    BY <2>1
  <2> QED BY <1>3, <2>1, <2>2
<1> QED BY <1>1, <1>2, <1>4 DEF HubInv, AnswersHonest

\* What record_install leaves in the file.
LEMMA RecordMeans ==
  ASSUME HubInv, NEW o \in Operators, op[o].k \in Plugins,
         NEW method \in Methods \union {"entry_point"}, NEW status \in Statuses,
         NEW enabled \in BOOLEAN, Record(o, method, status, enabled)
  PROVE  /\ file' \in PluginState
         /\ file'.installed[op[o].k].status = status
         /\ file'.installed[op[o].k].req = op[o].req
         /\ \A k \in Plugins : k # op[o].k => file'.installed[k] = file.installed[k]
<1> DEFINE row == [method |-> method, enabled |-> enabled, status |-> status, req |-> op[o].req]
<1>1. op[o].req \in RequestIds \union {None}
  BY DEF HubInv, OpsInv, OpType
<1>2. row \in InstalledPlugin
  BY <1>1 DEF InstalledPlugin
<1>3. file' = [file EXCEPT !.installed[op[o].k] = row]
  BY DEF Record
<1>4. row.status = status /\ row.req = op[o].req
  OBVIOUS
<1> HIDE DEF row
<1>5. file \in PluginState
  BY DEF HubInv
<1>6. file' = [file EXCEPT !.installed = [file.installed EXCEPT ![op[o].k] = row]]
  BY <1>3, <1>5 DEF PluginState
<1>7. file'.installed = [file.installed EXCEPT ![op[o].k] = row]
  BY <1>5, <1>6 DEF PluginState
<1>8. file.installed \in [Plugins -> InstalledPlugin \union {None}]
  BY <1>5 DEF PluginState
<1>9. [file.installed EXCEPT ![op[o].k] = row] \in [Plugins -> InstalledPlugin \union {None}]
  BY <1>2, <1>8
<1>10. file' \in PluginState
  BY <1>5, <1>6, <1>9 DEF PluginState
<1> QED BY <1>4, <1>7, <1>8, <1>10

\* A step that records a row and ends or continues the install.
LEMMA RecordStep ==
  ASSUME HubInv, NEW o \in Operators, op[o].k \in Plugins,
         NEW method \in Methods \union {"entry_point"}, NEW status \in Statuses,
         NEW enabled \in BOOLEAN, Record(o, method, status, enabled),
         NEW me \in OpType, OpSound(me), op' = [op EXCEPT ![o] = me],
         status = "running" => me.pc = "provision" /\ me.k = op[o].k,
         status = "succeeded" => <<op[o].k, op[o].req>> \in done',
         answers' \subseteq done', done \subseteq done', UNCHANGED <<env, reg, tasks>>
  PROVE  HubInv'
<1>1. OpsInv' /\ RegInv' /\ TasksInv'
  BY OpMoves, RegStays, TasksStay DEF HubInv
<1>2. /\ file' \in PluginState
      /\ file'.installed[op[o].k].status = status
      /\ file'.installed[op[o].k].req = op[o].req
      /\ \A k \in Plugins : k # op[o].k => file'.installed[k] = file.installed[k]
  BY RecordMeans
<1>3. RowsHonest'
  BY <1>2 DEF HubInv, RowsHonest
<1>4. op \in [Operators -> OpType]
  BY DEF HubInv, OpsInv
<1>5. RunningHasOwner'
  <2> SUFFICES ASSUME NEW k \in Plugins, file'.installed[k] # None,
                      file'.installed[k].status = "running", ~Abandoned(k)'
               PROVE  \E n \in Operators : op'[n].k = k /\ op'[n].pc = "provision"
    BY DEF RunningHasOwner
  <2>1. CASE k = op[o].k
    BY <1>2, <1>4, <2>1
  <2>2. CASE k # op[o].k
    <3>1. ~Abandoned(k)
      BY <2>2 DEF Abandoned, Record
    <3>2. PICK n \in Operators : op[n].k = k /\ op[n].pc = "provision"
      BY <1>2, <2>2, <3>1 DEF HubInv, RunningHasOwner
    <3>3. n # o
      BY <2>2, <3>2
    <3> QED BY <1>4, <3>2, <3>3
  <2> QED BY <2>1, <2>2
<1> QED BY <1>1, <1>2, <1>3, <1>5 DEF HubInv, AnswersHonest

\* A step that changes the file, but no row's status or request.
LEMMA FileStep ==
  ASSUME HubInv, file' \in PluginState,
         \A k \in Plugins : file'.installed[k] # None =>
           /\ file.installed[k] # None
           /\ file'.installed[k].status = file.installed[k].status
           /\ file'.installed[k].req = file.installed[k].req,
         UNCHANGED <<env, reg, op, tasks, done, answers, lost>>
  PROVE  HubInv'
<1>1. RegInv' /\ TasksInv'
  BY RegStays, TasksStay DEF HubInv
<1>2. OpsInv'
  BY DEF HubInv, OpsInv
<1>3. RowsHonest'
  BY DEF HubInv, RowsHonest
<1>4. RunningHasOwner'
  BY DEF HubInv, RunningHasOwner, Abandoned
<1> QED BY <1>1, <1>2, <1>3, <1>4 DEF HubInv, AnswersHonest

\* An install ends with a row that promises nothing, or with one that its provisioner
\* or its service has earned.
LEMMA InstallEnds ==
  ASSUME HubInv, NEW o \in Operators, op[o].k \in Plugins,
         NEW method \in Methods \union {"entry_point"}, NEW status \in Statuses \ {"running"},
         NEW enabled \in BOOLEAN, Record(o, method, status, enabled), Ends(o),
         answers' = answers \/ Answer(o, status),
         done' = IF status = "succeeded" THEN done \union {<<op[o].k, op[o].req>>} ELSE done,
         UNCHANGED <<env, reg, tasks>>
  PROVE  HubInv'
<1>1. answers \subseteq done
  BY DEF HubInv, AnswersHonest
<1>2. answers' \subseteq done' /\ done \subseteq done'
  BY <1>1 DEF Answer, Told
<1>3. status = "succeeded" => <<op[o].k, op[o].req>> \in done'
  OBVIOUS
<1>4. op' = [op EXCEPT ![o] = Quiet] /\ status # "running"
  BY DEF Ends
<1> QED BY <1>2, <1>3, <1>4, QuietFacts, RecordStep

LEMMA OperatorKeeps ==
  ASSUME HubInv, NEW o \in Operators
  PROVE  /\ \A k \in Plugins, m \in Methods, q \in RequestIds \union {None}, b \in BOOLEAN :
              Install(o, k, m, q, b) => HubInv'
         /\ RunUv(o) \/ InstallerFails(o) \/ RecordPackage(o) \/ InstallOther(o) => HubInv'
         /\ Dies(o) \/ ProvisionerEscapes(o) => HubInv'
         /\ \A status \in Statuses : Provisioned(o, status) => HubInv'
         /\ \A w \in Hosts : InstallService(o, w) => HubInv'
         /\ \A w \in Hosts, raises \in BOOLEAN : ProvisionService(o, raises, w) => HubInv'
         /\ \A k \in Plugins, e \in BOOLEAN : SetDiscovered(o, k, e) => HubInv'
         /\ AdoptEntryPoint(o) => HubInv'
<1>a. /\ op \in [Operators -> OpType] /\ op[o] \in OpType /\ OpSound(op[o])
      /\ answers \subseteq done /\ env \subseteq Plugins
      /\ file.installed \in [Plugins -> InstalledPlugin \union {None}]
  BY DEF HubInv, OpsInv, AnswersHonest, PluginState
<1>b. TRUE \in BOOLEAN /\ FALSE \in BOOLEAN
  OBVIOUS
\* The process goes on to its next statement.
<1>c. ASSUME NEW pc \in Pcs, Goes(o, pc)
      PROVE  LET me == [op[o] EXCEPT !.pc = pc]
             IN  /\ me \in OpType /\ op' = [op EXCEPT ![o] = me]
                 /\ me.pc = pc /\ me.k = op[o].k /\ me.method = op[o].method
  BY <1>a, <1>c DEF Goes, OpType
<1>1. ASSUME NEW k \in Plugins, NEW m \in Methods, NEW q \in RequestIds \union {None},
             NEW b \in BOOLEAN, Install(o, k, m, q, b)
      PROVE  HubInv'
  <2> DEFINE row == file.installed[k]
             me == [Quiet EXCEPT !.pc = "run", !.k = k, !.method = m, !.req = q, !.provision = b]
  <2>0. op[o].pc = "idle" /\ UNCHANGED <<env, file, reg, tasks, done, lost>>
    BY <1>1 DEF Install
  <2>1. CASE Seen(row, q, m)
    <3>1. Told(k, q, row.status) /\ op' = op
      BY <1>1, <2>1 DEF Install
    <3>2. row.status = "succeeded" => <<k, q>> \in done
      BY <2>1 DEF HubInv, RowsHonest, Seen
    <3>3. answers' \subseteq done'
      BY <1>a, <2>0, <3>1, <3>2 DEF Told
    <3>4. op' = [op EXCEPT ![o] = op[o]]
      BY <1>a, <3>1
    <3> QED BY <1>a, <2>0, <3>3, <3>4, OpStep
  <2>2. CASE ~Seen(row, q, m)
    <3>1. op' = [op EXCEPT ![o] = me] /\ answers' = answers
      BY <1>1, <2>2 DEF Install
    <3>2. me \in OpType /\ me.pc = "run" /\ me.k = k /\ me.method = m
      BY QuietFacts DEF OpType, Pcs
    <3> HIDE DEF me
    <3>3. OpSound(me)
      BY <3>2 DEF OpSound
    <3> QED BY <1>a, <2>0, <3>1, <3>2, <3>3, OpStep
  <2> QED BY <2>1, <2>2
<1>2. ASSUME RunUv(o) PROVE HubInv'
  <2> DEFINE me == [op[o] EXCEPT !.pc = "record"]
  <2>1. /\ me \in OpType /\ op' = [op EXCEPT ![o] = me]
        /\ me.pc = "record" /\ me.k = op[o].k /\ me.method = op[o].method
    BY <1>2, <1>c DEF RunUv, Pcs
  <2> HIDE DEF me
  <2>2. op[o].pc = "run" /\ op[o].method = "uv" /\ op[o].k \in Plugins /\ "uv" \in Methods
    BY <1>2, <1>a DEF RunUv, OpSound
  <2>3. OpSound(me)
    BY <2>1, <2>2 DEF OpSound
  <2>4. env \subseteq env' /\ env' \subseteq Plugins
        /\ UNCHANGED <<file, reg, tasks, done, answers, lost>>
    BY <1>2, <1>a, <2>2 DEF RunUv
  <2> QED BY <1>a, <2>1, <2>2, <2>3, <2>4, OpStep
<1>3. ASSUME InstallerFails(o) PROVE HubInv'
  <2>1. op' = [op EXCEPT ![o] = Quiet] /\ op[o].pc = "run"
        /\ UNCHANGED <<env, file, reg, tasks, done, answers, lost>>
    BY <1>3 DEF InstallerFails, Ends
  <2> QED BY <1>a, <2>1, QuietFacts, OpStep
<1>4. ASSUME RecordPackage(o) PROVE HubInv'
  <2>1. op[o].k \in Plugins /\ "uv" \in Methods /\ op[o].method = "uv"
    BY <1>4, <1>a DEF RecordPackage, OpSound
  <2>2. UNCHANGED <<env, reg, tasks, done>>
    BY <1>4 DEF RecordPackage
  <2>3. CASE op[o].provision
    <3> DEFINE me == [op[o] EXCEPT !.pc = "provision"]
    <3>1. Record(o, "uv", "running", TRUE) /\ Goes(o, "provision") /\ UNCHANGED answers
      BY <1>4, <2>3 DEF RecordPackage
    <3>2. /\ me \in OpType /\ op' = [op EXCEPT ![o] = me]
          /\ me.pc = "provision" /\ me.k = op[o].k /\ me.method = op[o].method
      BY <1>c, <3>1 DEF Pcs
    <3> HIDE DEF me
    <3>3. OpSound(me)
      BY <2>1, <3>2 DEF OpSound
    <3>4. "running" \in Statuses /\ "running" # "succeeded"
      BY DEF Statuses
    <3> QED BY <1>a, <1>b, <2>1, <2>2, <3>1, <3>2, <3>3, <3>4, RecordStep
  <2>4. CASE ~op[o].provision
    <3>1. Record(o, "uv", "not_requested", TRUE) /\ Ends(o) /\ Answer(o, "not_requested")
      BY <1>4, <2>4 DEF RecordPackage
    <3>2. "not_requested" \in Statuses \ {"running"} /\ "not_requested" # "succeeded"
      BY DEF Statuses
    <3> QED BY <1>b, <2>1, <2>2, <3>1, <3>2, InstallEnds
  <2> QED BY <2>3, <2>4
<1>5. ASSUME InstallOther(o) PROVE HubInv'
  <2>1. op[o].k \in Plugins /\ op[o].method \in Methods
    BY <1>5, <1>a DEF InstallOther, OpSound
  <2>2. "not_requested" \in Statuses \ {"running"} /\ "not_requested" # "succeeded"
    BY DEF Statuses
  <2>3. /\ Record(o, op[o].method, "not_requested", TRUE) /\ Ends(o) /\ Answer(o, "not_requested")
        /\ UNCHANGED <<env, reg, tasks, done>>
    BY <1>5 DEF InstallOther
  <2> QED BY <1>b, <2>1, <2>2, <2>3, InstallEnds
<1>6. ASSUME Dies(o) \/ ProvisionerEscapes(o) PROVE HubInv'
  <2>1. /\ op' = [op EXCEPT ![o] = Quiet] /\ lost \subseteq lost'
        /\ UNCHANGED <<env, file, reg, tasks, done, answers>>
    BY <1>6 DEF Dies, ProvisionerEscapes, Ends
  <2>2. op[o].pc = "provision" => \A k \in {op[o].k} : Abandoned(k)'
    BY <1>6, <2>1 DEF Dies, ProvisionerEscapes, Abandoned
  <2> QED BY <1>a, <2>1, <2>2, QuietFacts, OpStep
<1>7. ASSUME NEW status \in Statuses, Provisioned(o, status) PROVE HubInv'
  <2>1. op[o].k \in Plugins /\ "uv" \in Methods
    BY <1>7, <1>a DEF Provisioned, OpSound
  <2>2. status \in Statuses \ {"running"}
    BY <1>7 DEF Provisioned
  <2>3. /\ Record(o, "uv", status, TRUE) /\ Ends(o) /\ Answer(o, status)
        /\ done' = IF status = "succeeded" THEN done \union {<<op[o].k, op[o].req>>} ELSE done
        /\ UNCHANGED <<env, reg, tasks>>
    BY <1>7 DEF Provisioned
  <2> QED BY <1>b, <2>1, <2>2, <2>3, InstallEnds
<1>8. ASSUME NEW ok \in BOOLEAN, NEW status \in {"not_requested", "succeeded"},
             ServiceEnds(o, ok, status), UNCHANGED <<env, reg, tasks>>,
             op[o].k \in Plugins, "container_service" \in Methods
      PROVE  HubInv'
  <2> DEFINE final == IF ok THEN status ELSE "failed"
  <2>1. final \in Statuses \ {"running"}
    BY DEF Statuses
  <2>2. /\ Record(o, "container_service", final, TRUE) /\ Answer(o, final) /\ Ends(o)
        /\ done' = IF ok /\ status = "succeeded" THEN done \union {<<op[o].k, op[o].req>>} ELSE done
    BY <1>8 DEF ServiceEnds
  <2>3. (ok /\ status = "succeeded") <=> (final = "succeeded")
    OBVIOUS
  <2> HIDE DEF final
  <2>4. done' = IF final = "succeeded" THEN done \union {<<op[o].k, op[o].req>>} ELSE done
    BY <2>2, <2>3
  <2> QED BY <1>8, <1>b, <2>1, <2>2, <2>4, InstallEnds
<1>9. ASSUME NEW w \in Hosts, InstallService(o, w) PROVE HubInv'
  <2>1. op[o].k \in Plugins /\ op[o].method = "container_service" /\ "container_service" \in Methods
        /\ UNCHANGED <<env, reg, tasks>> /\ op[o].pc = "run"
    BY <1>9, <1>a DEF InstallService, OpSound
  <2> DEFINE check == ServiceCheck(op[o].k, w)
             me == [op[o] EXCEPT !.pc = "service"]
  <2>2. CASE Goes(o, "service") /\ UNCHANGED <<file, answers, done, lost>>
    <3>1. /\ me \in OpType /\ op' = [op EXCEPT ![o] = me]
          /\ me.pc = "service" /\ me.k = op[o].k /\ me.method = op[o].method
      BY <1>c, <2>2 DEF Pcs
    <3> HIDE DEF me
    <3>2. OpSound(me)
      BY <2>1, <3>1 DEF OpSound
    <3> QED BY <1>a, <2>1, <2>2, <3>1, <3>2, OpStep
  <2>3. CASE ServiceEnds(o, check.status = "pass", "not_requested")
    <3>1. (check.status = "pass") \in BOOLEAN
      OBVIOUS
    <3> QED BY <1>8, <2>1, <2>3, <3>1
  <2> QED BY <1>9, <2>2, <2>3 DEF InstallService
<1>10. ASSUME NEW w \in Hosts, NEW raises \in BOOLEAN, ProvisionService(o, raises, w) PROVE HubInv'
  <2>1. op[o].k \in Plugins /\ "container_service" \in Methods /\ UNCHANGED <<env, reg, tasks>>
    BY <1>10, <1>a DEF ProvisionService, OpSound
  <2>2. ServiceEnds(o, ~raises /\ ServiceCheck(op[o].k, w).status = "pass", "succeeded")
    BY <1>10 DEF ProvisionService
  <2>3. (~raises /\ ServiceCheck(op[o].k, w).status = "pass") \in BOOLEAN
    OBVIOUS
  <2> QED BY <1>8, <2>1, <2>2, <2>3
<1>11. ASSUME NEW k \in Plugins, NEW e \in BOOLEAN, SetDiscovered(o, k, e) PROVE HubInv'
  <2> DEFINE me == [Quiet EXCEPT !.pc = "adopt", !.k = k, !.enable = e]
  <2>1. op' = [op EXCEPT ![o] = me] /\ op[o].pc = "idle"
        /\ UNCHANGED <<env, file, reg, tasks, done, answers, lost>>
    BY <1>11 DEF SetDiscovered
  <2>2. me \in OpType /\ me.pc = "adopt" /\ me.k = k
    BY QuietFacts DEF OpType, Pcs
  <2> HIDE DEF me
  <2>3. OpSound(me)
    BY <2>2 DEF OpSound
  <2> QED BY <1>a, <2>1, <2>2, <2>3, OpStep
<1>12. ASSUME AdoptEntryPoint(o) PROVE HubInv'
  <2>1. op[o].k \in Plugins /\ op[o].enable \in BOOLEAN
    BY <1>12, <1>a DEF AdoptEntryPoint, OpSound, OpType
  <2>2. "not_requested" \in Statuses \ {"running"} /\ "not_requested" # "succeeded"
    BY DEF Statuses
  <2>3. /\ Record(o, "entry_point", "not_requested", op[o].enable) /\ Ends(o)
        /\ UNCHANGED <<env, reg, tasks, done, answers>>
    BY <1>12 DEF AdoptEntryPoint
  <2> QED BY <2>1, <2>2, <2>3, InstallEnds
<1> QED BY <1>1, <1>2, <1>3, <1>4, <1>5, <1>6, <1>7, <1>9, <1>10, <1>11, <1>12

-----------------------------------------------------------------------------
(* Switches and routes. *)

LEMMA SwitchKeeps ==
  ASSUME HubInv, NEW o \in Operators
  PROVE  /\ \A k \in Plugins, e \in BOOLEAN : SetEnabled(o, k, e) => HubInv'
         /\ \A n \in Profiles, route \in Routes : UpsertProfile(o, n, route) => HubInv'
         /\ \A route \in Routes : SetPriority(o, route) => HubInv'
         /\ \A n \in Profiles : AssignProfile(o, n) => HubInv'
<1>a. /\ file \in PluginState
      /\ file.installed \in [Plugins -> InstalledPlugin \union {None}]
      /\ file.profiles \in [Profiles -> Routes \union {None}]
      /\ file.projectProfile \in [Projects -> Profiles \union {None}]
  BY DEF HubInv, PluginState
\* Without a new row the file keeps every promise.
<1>b. ASSUME file' \in PluginState, file'.installed = file.installed,
             UNCHANGED <<env, reg, op, tasks, done, answers, lost>>
      PROVE  HubInv'
  BY <1>b, FileStep
<1>1. ASSUME NEW k \in Plugins, NEW e \in BOOLEAN, SetEnabled(o, k, e) PROVE HubInv'
  <2> DEFINE row == [file.installed[k] EXCEPT !.enabled = e]
  <2>1. file.installed[k] # None /\ UNCHANGED <<env, reg, op, tasks, done, answers, lost>>
    BY <1>1 DEF SetEnabled
  <2>2. file.installed[k] \in InstalledPlugin
    BY <1>a, <2>1
  <2>3. row \in InstalledPlugin /\ row.status = file.installed[k].status /\ row.req = file.installed[k].req
    BY <2>2 DEF InstalledPlugin
  <2>4. file' = [file EXCEPT !.installed = [file.installed EXCEPT ![k] = row]]
    BY <1>1, <1>a DEF SetEnabled, PluginState
  <2> HIDE DEF row
  <2>5. [file.installed EXCEPT ![k] = row] \in [Plugins -> InstalledPlugin \union {None}]
    BY <1>a, <2>3
  <2>6. file' \in PluginState /\ file'.installed = [file.installed EXCEPT ![k] = row]
    BY <1>a, <2>4, <2>5 DEF PluginState
  <2>7. \A n \in Plugins : file'.installed[n] # None =>
           /\ file.installed[n] # None
           /\ file'.installed[n].status = file.installed[n].status
           /\ file'.installed[n].req = file.installed[n].req
    BY <1>a, <2>1, <2>3, <2>6
  <2> QED BY <2>1, <2>6, <2>7, FileStep
<1>2. ASSUME NEW n \in Profiles, NEW route \in Routes, UpsertProfile(o, n, route) PROVE HubInv'
  <2>1. file' = [file EXCEPT !.profiles = [file.profiles EXCEPT ![n] = route]]
        /\ UNCHANGED <<env, reg, op, tasks, done, answers, lost>>
    BY <1>2, <1>a DEF UpsertProfile, PluginState
  <2>2. [file.profiles EXCEPT ![n] = route] \in [Profiles -> Routes \union {None}]
    BY <1>a
  <2>3. file' \in PluginState /\ file'.installed = file.installed
    BY <1>a, <2>1, <2>2 DEF PluginState
  <2> QED BY <1>b, <2>1, <2>3
<1>3. ASSUME NEW route \in Routes, SetPriority(o, route) PROVE HubInv'
  <2>1. file' \in PluginState /\ file'.installed = file.installed
        /\ UNCHANGED <<env, reg, op, tasks, done, answers, lost>>
    BY <1>3, <1>a DEF SetPriority, PluginState
  <2> QED BY <1>b, <2>1
<1>4. ASSUME NEW n \in Profiles, AssignProfile(o, n) PROVE HubInv'
  <2>0. UNCHANGED <<env, reg, op, tasks, done, answers, lost>>
    BY <1>4 DEF AssignProfile
  <2>1. CASE file' = [file EXCEPT !.defaultProfile = n] \/ file' = [file EXCEPT !.workspaceProfile = n]
    <3>1. file' \in PluginState /\ file'.installed = file.installed
      BY <1>a, <2>1 DEF PluginState
    <3> QED BY <1>b, <2>0, <3>1
  <2>2. ASSUME NEW p \in Projects, file' = [file EXCEPT !.projectProfile[p] = n] PROVE HubInv'
    <3>1. file' = [file EXCEPT !.projectProfile = [file.projectProfile EXCEPT ![p] = n]]
      BY <2>2, <1>a DEF PluginState
    <3>2. [file.projectProfile EXCEPT ![p] = n] \in [Projects -> Profiles \union {None}]
      BY <1>a
    <3>3. file' \in PluginState /\ file'.installed = file.installed
      BY <1>a, <3>1, <3>2 DEF PluginState
    <3> QED BY <1>b, <2>0, <3>3
  <2> QED BY <1>4, <2>1, <2>2 DEF AssignProfile
<1> QED BY <1>1, <1>2, <1>3, <1>4

-----------------------------------------------------------------------------
(* Stages and actions. *)

\* A step that changes the tasks only.
LEMMA TaskStep ==
  ASSUME HubInv, TasksInv', UNCHANGED <<env, file, reg, op, done, answers, lost>>
  PROVE  HubInv'
BY DEF HubInv, OpsInv, RegInv, RowsHonest, AnswersHonest, RunningHasOwner, Abandoned

LEMMA TaskTyped == ASSUME TasksInv, NEW i \in DOMAIN tasks PROVE tasks[i] \in TaskType
<1>1. tasks \in Seq(TaskType)
  BY DEF TasksInv
<1>2. i \in 1..Len(tasks)
  BY <1>1, LenProperties
<1> QED BY <1>1, <1>2, ElementOfSeq

\* A task joins the queue.
LEMMA TaskAdded ==
  ASSUME TasksInv, Len(tasks) < MaxTasks, NEW t \in TaskType, TaskSound(t),
         tasks' = Append(tasks, t)
  PROVE  TasksInv'
<1>1. tasks \in Seq(TaskType) /\ \A i \in DOMAIN tasks : TaskSound(tasks[i])
  BY DEF TasksInv
<1>2. /\ tasks' \in Seq(TaskType) /\ Len(tasks') = Len(tasks) + 1
      /\ \A i \in 1..Len(tasks) : tasks'[i] = tasks[i]
      /\ tasks'[Len(tasks) + 1] = t
  BY <1>1, AppendProperties
<1>3. Len(tasks') <= MaxTasks
  BY <1>1, <1>2, HubAssumption, LenProperties
<1>4. ASSUME NEW i \in DOMAIN tasks' PROVE TaskSound(tasks'[i])
  <2>1. i \in 1..Len(tasks) \/ i = Len(tasks) + 1
    BY <1>1, <1>2, LenProperties
  <2>2. DOMAIN tasks = 1..Len(tasks)
    BY <1>1, LenProperties
  <2> QED BY <1>1, <1>2, <2>1, <2>2
<1> QED BY <1>2, <1>3, <1>4 DEF TasksInv

\* A task ends, in a plugin that fits it or in none.
LEMMA TaskEnds ==
  ASSUME TasksInv, NEW p, NEW i \in DOMAIN tasks, NEW k \in Plugins \union {None}, Ran(p, i, k),
         k # None => tasks[i].sel # None /\ Fits(k, tasks[i].sel),
         k # None /\ Precise(tasks[i].sel) => k \in Enabled(file, env)
  PROVE  TasksInv'
<1> DEFINE e == k \in Enabled(file, env)
           t == [tasks[i] EXCEPT !.pending = FALSE, !.ran = k, !.enabled = e]
<1>1. tasks \in Seq(TaskType) /\ Len(tasks) <= MaxTasks
      /\ \A n \in DOMAIN tasks : TaskSound(tasks[n])
  BY DEF TasksInv
<1>2. tasks[i] \in TaskType
  BY TaskTyped
<1>3. FALSE \in BOOLEAN /\ e \in BOOLEAN
  OBVIOUS
<1>4. tasks' = [tasks EXCEPT ![i] = t]
  BY <1>1, <1>2 DEF Ran, TaskType
<1> HIDE DEF e
<1>5. /\ t \in TaskType /\ t.sel = tasks[i].sel /\ t.options = tasks[i].options
      /\ t.routed = tasks[i].routed /\ t.ran = k /\ t.enabled = e
  BY <1>2, <1>3 DEF TaskType
<1> HIDE DEF t
<1>6. TaskSound(tasks[i])
  BY <1>1
<1>7. k # None /\ Precise(tasks[i].sel) => e
  BY DEF e
<1>8. TaskSound(t)
  BY <1>5, <1>6, <1>7 DEF TaskSound
<1>9. /\ tasks' \in Seq(TaskType) /\ Len(tasks') = Len(tasks) /\ DOMAIN tasks' = DOMAIN tasks
      /\ \A n \in DOMAIN tasks : tasks'[n] = IF n = i THEN t ELSE tasks[n]
  BY <1>1, <1>4, <1>5, ExceptSeq
<1> QED BY <1>1, <1>8, <1>9 DEF TasksInv

LEMMA StagesKeep ==
  ASSUME HubInv, NEW p \in Procs
  PROVE  /\ \A project \in Projects, requested \in Requested, options \in Envelopes :
              Submit(p, project, requested, options) => HubInv'
         /\ \A project \in Projects, requested \in Requested :
              SubmitAction(p, project, requested) => HubInv'
         /\ \A i \in DOMAIN tasks : Execute(p, i) => HubInv'
         /\ \A i \in DOMAIN tasks, valid \in BOOLEAN : ExecuteAction(p, i, valid) => HubInv'
<1>a. /\ env \subseteq Plugins /\ file \in PluginState /\ RegInv /\ TasksInv
      /\ reg[p] \in [Selectors -> Plugins \union {None}]
  BY DEF HubInv, RegInv
<1>b. TRUE \in BOOLEAN /\ FALSE \in BOOLEAN
  OBVIOUS
<1>c. ASSUME NEW i \in DOMAIN tasks PROVE tasks[i].sel \in Selectors \union {None}
  BY <1>a, TaskTyped DEF TaskType
<1>1. ASSUME NEW project \in Projects, NEW requested \in Requested, NEW options \in Envelopes,
             Submit(p, project, requested, options)
      PROVE  HubInv'
  <2> DEFINE s == Resolve(file, env, requested, project)
             rows == IF s = None THEN {} ELSE {r[2] : r \in Matches(Candidates(file, env), s)}
             t == [NewTask EXCEPT !.sel = s, !.options = options, !.routed = rows]
  <2>1. /\ Len(tasks) < MaxTasks /\ s # Refused /\ OptionsAccepted(p, s, options)
        /\ tasks' = Append(tasks, t)
        /\ UNCHANGED <<env, file, reg, op, done, answers, lost>>
    BY <1>1 DEF Submit
  <2>2. requested \in Selectors \union {None}
    BY HubAssumption
  <2>3. s \in Selectors \union {None}
    BY <1>a, <2>1, <2>2, ResolveSelects
  <2> HIDE DEF s
  <2>4. rows \in SUBSET Plugins /\ \A k \in rows : Fits(k, s)
    BY <2>3, RoutedFit
  <2> HIDE DEF rows
  <2>5. t \in TaskType /\ t.sel = s /\ t.options = options /\ t.routed = rows /\ t.ran = None
    BY <1>b, <2>3, <2>4 DEF NewTask, TaskType
  <2> HIDE DEF t
  <2>6. s # None => \/ options = <<>>
                    \/ \E k \in Plugins :
                         /\ Fits(k, s)
                         /\ validate_backend_options(Backend[k], Stage, Capability, ProviderId(s), options)
    BY <1>a, <2>1, <2>3, UsableIsEnabled DEF OptionsAccepted
  <2>7. TaskSound(t)
    BY <2>4, <2>5, <2>6 DEF TaskSound
  <2>8. TasksInv'
    BY <1>a, <2>1, <2>5, <2>7, TaskAdded
  <2> QED BY <2>1, <2>8, TaskStep
<1>2. ASSUME NEW project \in Projects, NEW requested \in Requested,
             SubmitAction(p, project, requested)
      PROVE  HubInv'
  <2> DEFINE s == ResolveAction(file, env, reg[p], requested, project)
             k == GetBackend(reg[p], s)
             t == [NewTask EXCEPT !.sel = s, !.action = TRUE, !.routed = {k}]
  <2>1. /\ Len(tasks) < MaxTasks /\ s # Refused /\ Usable(p, s)
        /\ tasks' = Append(tasks, t)
        /\ UNCHANGED <<env, file, reg, op, done, answers, lost>>
    BY <1>2 DEF SubmitAction
  <2>2. requested \in Selectors \union {None}
    BY HubAssumption
  <2>3. s \in Selectors
    BY <1>a, <2>1, <2>2, ActionSelects DEF Usable
  <2> HIDE DEF s
  <2>4. k \in Plugins /\ Fits(k, s)
    BY <1>a, <2>1, <2>3, UsableIsEnabled
  <2> HIDE DEF k
  <2>5. {k} \in SUBSET Plugins /\ \A n \in {k} : Fits(n, s)
    BY <2>4
  <2>6. t \in TaskType /\ t.sel = s /\ t.options = <<>> /\ t.routed = {k} /\ t.ran = None
    BY <1>b, <2>3, <2>5 DEF NewTask, TaskType
  <2> HIDE DEF t
  <2>7. TaskSound(t)
    BY <2>5, <2>6 DEF TaskSound
  <2>8. TasksInv'
    BY <1>a, <2>1, <2>6, <2>7, TaskAdded
  <2> QED BY <2>1, <2>8, TaskStep
<1>3. ASSUME NEW i \in DOMAIN tasks, Execute(p, i) PROVE HubInv'
  <2> DEFINE s == tasks[i].sel
             k == IF Usable(p, s) THEN GetBackend(reg[p], s) ELSE None
  <2>1. Ran(p, i, k)
    BY <1>3 DEF Execute
  <2>2. /\ k \in Plugins \union {None}
        /\ k # None => s # None /\ Fits(k, s)
        /\ k # None /\ Precise(s) => k \in Enabled(file, env)
    <3>1. CASE Usable(p, s)
      <4>1. s \in Selectors /\ s # None
        BY <1>c, <3>1 DEF Usable
      <4> QED BY <1>a, <3>1, <4>1, UsableIsEnabled
    <3>2. CASE ~Usable(p, s)
      BY <3>2
    <3> QED BY <3>1, <3>2
  <2> HIDE DEF k
  <2>3. TasksInv'
    BY <1>a, <2>1, <2>2, TaskEnds
  <2> QED BY <2>1, <2>3, TaskStep DEF Ran
<1>4. ASSUME NEW i \in DOMAIN tasks, NEW valid \in BOOLEAN, ExecuteAction(p, i, valid) PROVE HubInv'
  <2> DEFINE s == tasks[i].sel
             k == IF Usable(p, s) THEN run_backend_action(GetBackend(reg[p], s), valid) ELSE None
  <2>1. Ran(p, i, k)
    BY <1>4 DEF ExecuteAction
  <2>2. /\ k \in Plugins \union {None}
        /\ k # None => s # None /\ Fits(k, s)
        /\ k # None /\ Precise(s) => k \in Enabled(file, env)
    <3>1. CASE Usable(p, s)
      <4>1. s \in Selectors /\ s # None
        BY <1>c, <3>1 DEF Usable
      <4>2. k = None \/ k = GetBackend(reg[p], s)
        BY <3>1 DEF run_backend_action
      <4> HIDE DEF k
      <4> QED BY <1>a, <3>1, <4>1, <4>2, UsableIsEnabled
    <3>2. CASE ~Usable(p, s)
      BY <3>2
    <3> QED BY <3>1, <3>2
  <2> HIDE DEF k
  <2>3. TasksInv'
    BY <1>a, <2>1, <2>2, TaskEnds
  <2> QED BY <2>1, <2>3, TaskStep DEF Ran
<1> QED BY <1>1, <1>2, <1>3, <1>4

-----------------------------------------------------------------------------
(* The invariant. *)

LEMMA HubInvInit == Init => HubInv
<1> SUFFICES ASSUME Init PROVE HubInv
  OBVIOUS
<1>1. env \subseteq Plugins /\ file \in PluginState /\ \A k \in Plugins : file.installed[k] = None
  BY HubAssumption DEF Init, NoState, PluginState
<1>2. OpsInv
  BY QuietFacts DEF Init, OpsInv
<1>3. RegInv
  BY <1>1, LoadedFits DEF Init, RegInv
<1>4. TasksInv
  BY HubAssumption DEF Init, TasksInv
<1> QED BY <1>1, <1>2, <1>3, <1>4 DEF Init, HubInv, RowsHonest, AnswersHonest, RunningHasOwner, Abandoned

LEMMA HubInvStep == HubInv /\ [Next]_vars => HubInv'
<1> SUFFICES ASSUME HubInv, [Next]_vars PROVE HubInv'
  OBVIOUS
<1>1. ASSUME UNCHANGED vars PROVE HubInv'
  BY <1>1, TasksStay, RegStays
  DEF vars, HubInv, OpsInv, RowsHonest, AnswersHonest, RunningHasOwner, Abandoned
<1>2. ASSUME NEW p \in Procs, Restart(p) PROVE HubInv'
  <2>1. /\ reg' = [reg EXCEPT ![p] = LoadEntryPoints(file, env)]
        /\ UNCHANGED <<env, file, op, tasks, done, answers, lost>>
    BY <1>2 DEF Restart
  <2>2. env \in SUBSET Plugins
    BY DEF HubInv
  <2>3. RegInv'
    BY <2>1, <2>2, LoadedFits DEF HubInv, RegInv
  <2> QED BY <2>1, <2>3, TasksStay DEF HubInv, OpsInv, RowsHonest, AnswersHonest, RunningHasOwner, Abandoned
<1>3. CASE \E o \in Operators :
          \/ \E k \in Plugins, m \in Methods, q \in RequestIds \union {None}, b \in BOOLEAN :
                Install(o, k, m, q, b)
          \/ RunUv(o) \/ InstallerFails(o) \/ RecordPackage(o) \/ InstallOther(o)
          \/ Dies(o) \/ ProvisionerEscapes(o)
          \/ \E status \in Statuses : Provisioned(o, status)
          \/ \E w \in Hosts : InstallService(o, w) \/ \E raises \in BOOLEAN : ProvisionService(o, raises, w)
          \/ \E k \in Plugins, e \in BOOLEAN : SetEnabled(o, k, e) \/ SetDiscovered(o, k, e)
          \/ AdoptEntryPoint(o)
          \/ \E n \in Profiles, route \in Routes : UpsertProfile(o, n, route)
          \/ \E route \in Routes : SetPriority(o, route)
          \/ \E n \in Profiles : AssignProfile(o, n)
  BY <1>3, OperatorKeeps, SwitchKeeps
<1>4. CASE \E p \in Procs, project \in Projects, requested \in Requested :
          \/ \E options \in Envelopes : Submit(p, project, requested, options)
          \/ SubmitAction(p, project, requested)
  BY <1>4, StagesKeep
<1>5. CASE \E p \in Procs, i \in DOMAIN tasks :
          Execute(p, i) \/ \E valid \in BOOLEAN : ExecuteAction(p, i, valid)
  BY <1>5, StagesKeep
<1> QED BY <1>1, <1>2, <1>3, <1>4, <1>5 DEF Next

LEMMA HubInvHolds == Spec => []HubInv
<1>1. Init => HubInv
  BY HubInvInit
<1>2. HubInv /\ [Next]_vars => HubInv'
  BY HubInvStep
<1> QED BY <1>1, <1>2, PTL DEF Spec

-----------------------------------------------------------------------------
(* The theorems. *)

\* Every reachable state has the declared types.
THEOREM TypeCorrect == Spec => []TypeOK
<1>1. HubInv => TypeOK
  <2> SUFFICES ASSUME HubInv PROVE TypeOK
    OBVIOUS
  <2>1. \A o \in Operators : op[o].pc \in Pcs
    BY DEF HubInv, OpsInv, OpType
  <2>2. tasks \in Seq(TaskType) /\ Len(tasks) <= MaxTasks
    BY DEF HubInv, TasksInv
  <2>3. \A i \in DOMAIN tasks : tasks[i].sel \in Selectors \union {None}
    BY TaskTyped DEF HubInv, TaskType
  <2> QED BY <2>1, <2>2, <2>3 DEF HubInv, RegInv, TypeOK, Pcs
<1> QED BY <1>1, HubInvHolds, PTL

\* install_plugin tells nobody succeeded whose provisioner did not deliver, whatever
\* request it replays and however the installs of several processes interleave.
THEOREM HonestAnswers == Spec => []AnswersHonest
<1>1. HubInv => AnswersHonest
  BY DEF HubInv
<1> QED BY <1>1, HubInvHolds, PTL

\* A row that says running belongs to a process in the provisioner of its plugin, or was
\* left by one that died there or whose provisioner raised what install_plugin does not
\* catch.
THEOREM RunningIsOwned == Spec => []RunningHasOwner
<1>1. HubInv => RunningHasOwner
  BY DEF HubInv
<1> QED BY <1>1, HubInvHolds, PTL

\* What a precise selector runs is the plugin that was routed, enabled when it starts:
\* precise are those that one plugin answers to, whose manifest declares the id.
THEOREM RoutedRuns == Spec => []RunsRouted
<1>1. HubInv => RunsRouted
  <2> SUFFICES ASSUME HubInv PROVE RunsRouted
    OBVIOUS
  <2>1. ASSUME NEW i \in DOMAIN tasks, tasks[i].ran # None, Precise(tasks[i].sel)
        PROVE  tasks[i].enabled /\ (tasks[i].routed # {} => tasks[i].routed = {tasks[i].ran})
    <3>1. TaskSound(tasks[i])
      BY DEF HubInv, TasksInv
    <3>2. tasks[i].enabled /\ Fits(tasks[i].ran, tasks[i].sel)
          /\ \A k \in tasks[i].routed : Fits(k, tasks[i].sel)
      BY <2>1, <3>1 DEF TaskSound
    <3>3. \A k \in tasks[i].routed : k = tasks[i].ran
      BY <2>1, <3>2, PreciseFitsOne
    <3> QED BY <3>2, <3>3
  <2>2. ASSUME NEW p \in Procs, NEW s \in Requested \ {None}, Precise(s)
        PROVE  {extract_features_oneshot(p, s), localize_oneshot(p, s)}
                   \subseteq Enabled(file, env) \union {Refused}
    <3>1. s \in Selectors
      BY HubAssumption
    <3>2. Usable(p, s) => GetBackend(reg[p], s) \in Enabled(file, env)
      BY <2>2, <3>1, UsableIsEnabled DEF HubInv
    <3> QED BY <3>2 DEF extract_features_oneshot, localize_oneshot
  <2> QED BY <2>1, <2>2 DEF RunsRouted
<1> QED BY <1>1, HubInvHolds, PTL

\* The schemas that plugins publish for the stage list their properties, and name the
\* backend or are named by it, so that asking for them by provider finds them.
SchemasSpeak == \A k \in Plugins : \A r \in list_backend_config_schemas(Backend[k]) :
    r.stage = Stage => r.schema.listed /\ Backend[k].name \in {r.provider, r.backend}

\* An option that the envelope check lets through is in a schema that the plugin which
\* runs the stage publishes for it, provided the plugin passes its contract check.
THEOREM DeclaredOptions == SchemasSpeak /\ Spec => []OptionsDeclared
<1> SUFFICES ASSUME SchemasSpeak PROVE Spec => []OptionsDeclared
  OBVIOUS
<1>1. HubInv => OptionsDeclared
  <2> SUFFICES ASSUME HubInv, NEW i \in DOMAIN tasks, tasks[i].ran # None,
                      Precise(tasks[i].sel), Conforms(Backend[tasks[i].ran]),
                      {r \in list_backend_config_schemas(Backend[tasks[i].ran]) : r.stage = Stage} # {}
               PROVE  DOMAIN tasks[i].options \subseteq
                        UNION {DOMAIN r.schema.props : r \in
                          {x \in list_backend_config_schemas(Backend[tasks[i].ran]) : x.stage = Stage}}
    BY DEF OptionsDeclared
  <2> DEFINE t == tasks[i]
             b == Backend[t.ran]
             rows == {r \in list_backend_config_schemas(b) : r.stage = Stage}
             held == SchemaRows(b, Stage, Capability, ProviderId(t.sel))
  <2>1. TaskSound(t)
    BY DEF HubInv, TasksInv
  <2>2. t.sel # None /\ Fits(t.ran, t.sel) /\ t.ran \in Plugins
    BY <2>1 DEF TaskSound, Fits, Named
  <2>3. CASE t.options = <<>>
    BY <2>3
  <2>4. CASE t.options # <<>>
    <3>1. PICK k \in Plugins :
            /\ Fits(k, t.sel)
            /\ validate_backend_options(Backend[k], Stage, Capability, ProviderId(t.sel), t.options)
      BY <2>1, <2>2, <2>4 DEF TaskSound
    <3>2. k = t.ran
      BY <2>2, <3>1, PreciseFitsOne
    <3>3. held \subseteq rows /\ held # {}
      <4>1. t.ran \in Plugins
        BY <2>2
      <4>2. \A r \in rows : b.name \in {r.provider, r.backend}
        BY <4>1 DEF SchemasSpeak
      <4> DEFINE exact == {r \in rows : r.capability = Capability}
                 narrowed == IF Capability # <<>> /\ exact # {} THEN exact ELSE rows
                 Prov == ProviderId(t.sel)
      <4>3. held = IF Prov = <<>> THEN narrowed
                   ELSE {r \in narrowed : {r.provider, r.backend} \intersect {Prov, b.name} # {}}
        BY DEF SchemaRows
      <4>4. narrowed \subseteq rows /\ narrowed # {}
        OBVIOUS
      <4> HIDE DEF narrowed, rows, held
      <4> QED BY <4>2, <4>3, <4>4
    <3>4. PICK r \in held : validate_against_schema(t.options, r.schema)
      BY <2>4, <3>1, <3>2, <3>3 DEF validate_backend_options
    <3>5. r \in rows /\ r \in list_backend_config_schemas(b)
      BY <3>3
    <3>6. r.schema.closed
      <4>1. backend_config_contract_violations(b) = {}
        BY DEF Conforms, backend_contract_violations
      <4> QED BY <3>5, <4>1 DEF backend_config_contract_violations
    <3>7. r.schema.listed
      BY <2>2, <3>5 DEF SchemasSpeak
    <3>8. \A n \in DOMAIN t.options : n \in DOMAIN r.schema.props
      BY <3>4, <3>6, <3>7 DEF validate_against_schema
    <3> QED BY <3>5, <3>8
  <2> QED BY <2>3, <2>4
<1> QED BY <1>1, HubInvHolds, PTL
=============================================================================
