-------------------------- MODULE ManifestExpansion --------------------------
(***************************************************************************)
(* A benchmark manifest as Metewand decodes, checks and expands it:        *)
(* src/core/manifest.rs, manifest_hash.rs, parameters.rs, profile.rs,      *)
(* controls.rs, compatibility.rs, schema.rs, problem_contract.rs, the      *)
(* first half of planning.rs and the checks of src/runtime/repository.rs.  *)
(* Pure functions of the manifest and the files it names.                  *)
(*                                                                         *)
(* A manifest is a record of the declarations; datasets, problems,         *)
(* implementations, environments and policies are functions of their       *)
(* names.  Parameters are functions of their names, an axis is the         *)
(* sequence of its values (a single value is a sequence of one).  A worker *)
(* is its source bundle and the name of its environment, "" when it was    *)
(* omitted.  A schema is named by a path, or None where it is optional;    *)
(* "schemas" has the documents in the repository: each is the set of names *)
(* it admits and its subschemas, each with an identifier and references,   *)
(* by the keywords that lead to it from the root.                          *)
(* Errors are not told apart: a manifest passes all checks or is refused.  *)
(***************************************************************************)
EXTENDS Naturals, Sequences, FiniteSets, SequencesExt, TLC

CONSTANTS
    None,
    NameOrder   \* the parameter names in the order of their bytes

Empty == [n \in {} |-> 0]

FlatMap(s, Op(_)) == FlattenSeq([i \in DOMAIN s |-> Op(s[i])])

-----------------------------------------------------------------------------
(* Schedules of a profile *)

\* The k-th value after the start: sums and products of integers, which the
\* code computes without rounding.
Stepped(s, k) ==
    IF s.kind = "linear" THEN s.start + k * s.step ELSE s.start * s.ratio ^ k

\* A geometric check schedule is read as the list of its indices.
LowerCheckSchedule(s) ==
    IF s.kind = "geometric"
    THEN [kind |-> "explicit",
          indices |-> s.prefix \o [k \in 1 .. s.count |-> Stepped(s, k - 1)]]
    ELSE s

CheckScheduleValid(s) ==
    CASE s.kind = "geometric" -> s.start > 0 /\ s.ratio > 1 /\ s.count > 0
      [] s.kind = "periodic" -> s.every > 0
      [] s.kind = "explicit" ->
            /\ s.indices # <<>>
            /\ \A k \in 1 .. Len(s.indices) - 1 :
                   s.indices[k] < s.indices[k + 1]

Prefix(s) == IF s.kind = "explicit" THEN <<>> ELSE s.prefix

ScheduleLength(s) ==
    IF s.kind = "explicit" THEN Len(s.controls) ELSE Len(s.prefix) + s.count

\* The controls of a fresh sequence, in order.
expand(s) ==
    IF s.kind = "explicit" THEN s.controls
    ELSE s.prefix \o [k \in 1 .. s.count |-> Stepped(s, k - 1)]

Expandable(s, bound) ==
    /\ ScheduleLength(s) \in 1 .. bound
    /\ s.kind # "explicit" => s.count > 0

\* A fresh binding declares its controls or a schema of them, which are
\* sets of values here.  Declared controls are extended by the prefix.
control_schema(b) ==
    IF b.controls = None THEN b.control_schema
    ELSE b.controls \cup ToSet(Prefix(b.schedule))

FreshBindingDecodable(b) == (b.controls = None) # (b.control_schema = None)

DecodeBinding(b) ==
    IF b.delivery = "fresh_sequence"
    THEN [b EXCEPT !.controls = None, !.control_schema = control_schema(b)]
    ELSE [b EXCEPT !.check_schedule = LowerCheckSchedule(@)]

BindingDecodable(b) ==
    IF b.delivery = "fresh_sequence" THEN FreshBindingDecodable(b)
    ELSE b.check_schedule.kind = "geometric" =>
           /\ CheckScheduleValid(b.check_schedule)
           /\ CheckScheduleValid(LowerCheckSchedule(b.check_schedule))

\* What a binding must be under its policy p; b is decoded.  A policy
\* without thresholds has no metric and asks for a fixed count.
binding_validate(p, b) ==
    CASE b.delivery = "streaming" ->
            p.max_checkpoint_bytes > 0 /\ CheckScheduleValid(b.check_schedule)
      [] b.delivery = "buffered" -> CheckScheduleValid(b.check_schedule)
      [] b.delivery = "fresh_sequence" ->
            /\ Expandable(b.schedule, p.max_observations)
            /\ p.thresholds = 0 =>
                   ScheduleLength(b.schedule) = p.max_observations

-----------------------------------------------------------------------------
(* Decoding *)

Generated(m) == {d \in DOMAIN m.datasets : m.datasets[d].kind = "generated"}

Workers(m) ==
    {m.datasets[d].worker : d \in Generated(m)}
        \cup {m.problems[p].evaluator : p \in DOMAIN m.problems}
        \cup ({m.problems[p].preparation : p \in DOMAIN m.problems}
                  \ {None})
        \cup {m.implementations[i].worker : i \in DOMAIN m.implementations}

SomeOmitted(m) == \E w \in Workers(m) : w.environment = ""

\* The environments after a "local" one was added for omitted names.
DeclaredEnvironments(m) ==
    IF SomeOmitted(m) /\ DOMAIN m.environments = {}
    THEN "local" :> [kind |-> "local", variables |-> {}]
    ELSE m.environments

LocalEnvironments(m) ==
    {n \in DOMAIN DeclaredEnvironments(m) :
        DeclaredEnvironments(m)[n].kind = "local"}

resolve_local_environments(m) ==
    LET local == CHOOSE n \in LocalEnvironments(m) : TRUE
        settle(w) == IF w # None /\ w.environment = ""
                     THEN [w EXCEPT !.environment = local] ELSE w
    IN  [m EXCEPT
          !.environments = DeclaredEnvironments(m),
          !.datasets = [d \in DOMAIN m.datasets |->
              [m.datasets[d] EXCEPT !.worker = settle(@)]],
          !.problems = [p \in DOMAIN m.problems |->
              [m.problems[p] EXCEPT !.evaluator = settle(@),
                                    !.preparation = settle(@)]],
          !.implementations = [i \in DOMAIN m.implementations |->
              [m.implementations[i] EXCEPT !.worker = settle(@)]]]

\* What an execution policy says of the controls it leaves out.
PolicyDefaults ==
    [cpus |-> None, network |-> FALSE, worker_reuse |-> FALSE,
     warmup_runs |-> 0, timing_scope |-> "prepare_and_execute",
     primary_time |-> "timed_wall_time", run_order |-> "sequential",
     max_concurrency |-> 1, enforcement |-> "best_effort"]

OneShotPolicy == [kind |-> "one_shot", profile |-> None]

resolve_authoring_defaults(m) ==
    LET some(field) == \E k \in DOMAIN m.experiments :
                           m.experiments[k][field] = ""
        named(e) == [e EXCEPT
            !.execution_policy = IF @ = "" THEN "@local" ELSE @,
            !.observation_policy = IF @ = "" THEN "@final" ELSE @]
    IN  [m EXCEPT
          !.experiments = [k \in DOMAIN @ |-> named(@[k])],
          !.execution_policies =
              IF some("execution_policy") THEN @ @@ ("@local" :> Empty)
              ELSE @,
          !.observation_policies =
              IF some("observation_policy")
              THEN @ @@ ("@final" :> OneShotPolicy) ELSE @,
          !.implementations = [i \in DOMAIN @ |->
              IF @[i].problem_contracts = {}
              THEN [@[i] EXCEPT !.problem_contracts = DOMAIN m.problems]
              ELSE @[i]]]

\* Function implementations are one-shot, and say so by saying nothing.
DecodeImplementation(x) ==
    IF x.function /\ x.capabilities = {}
    THEN [x EXCEPT !.capabilities = {"one_shot"}] ELSE x

ImplementationDecodable(x) ==
    /\ DecodeImplementation(x).capabilities
           \cap {"one_shot", "buffered", "streaming", "fresh_sequence"} # {}
    /\ IF x.function
       THEN DecodeImplementation(x).capabilities = {"one_shot"}
       ELSE x.problem_contracts # {}

Bindings(m) ==
    UNION {ToSet(m.observation_policies[n].profile.implementations) :
              n \in {k \in DOMAIN m.observation_policies :
                        m.observation_policies[k].profile # None}}

\* Omitted names have exactly one meaning.
Decodable(m) ==
    /\ \A i \in DOMAIN m.implementations :
           ImplementationDecodable(m.implementations[i])
    /\ \A b \in Bindings(m) : BindingDecodable(b)
    /\ SomeOmitted(m) => Cardinality(LocalEnvironments(m)) = 1
    /\ m.default_experiment # None =>
           \E k \in DOMAIN m.experiments :
               m.experiments[k].name = m.default_experiment
    /\ \A i \in DOMAIN m.implementations :
           m.implementations[i].problem_contracts = {} =>
               Cardinality(DOMAIN m.problems) = 1

DecodeProfile(p) ==
    IF p = None THEN None
    ELSE [p EXCEPT !.implementations =
             [i \in DOMAIN @ |-> DecodeBinding(@[i])]]

Decode(m) ==
    LET d == resolve_authoring_defaults(resolve_local_environments(m)) IN
    [d EXCEPT
        !.implementations =
            [i \in DOMAIN @ |-> DecodeImplementation(@[i])],
        !.observation_policies =
            [n \in DOMAIN @ |->
                [@[n] EXCEPT !.profile = DecodeProfile(@)]]]

Policy(m, e) == m.execution_policies[e.execution_policy] @@ PolicyDefaults
Profile(m, e) == m.observation_policies[e.observation_policy].profile

-----------------------------------------------------------------------------
(* Schema documents *)

\* A repository path as an identifier, and a reference to the nearest
\* enclosing identifier; other identifiers have other forms.
repository_uri(path) == <<"repository", path>>
Fragment == <<"#">>

\* The identifiers that a schema and its subschemas declare, and what they
\* refer to: a fragment is relative to the nearest identifier on the way from
\* the root, or to the base.
normalize_schema_uris(schema, base) ==
    LET declared(at) == {k \in 0 .. Len(at) :
                            schema[SubSeq(at, 1, k)].id # None}
        enclosing(at) == IF declared(at) = {} THEN base
                         ELSE schema[SubSeq(at, 1, Max(declared(at)))].id
    IN  [identifiers |-> {schema[at].id : at \in DOMAIN schema} \ {None},
         references |->
             UNION {{IF r = Fragment THEN enclosing(at) ELSE r :
                        r \in schema[at].refs} : at \in DOMAIN schema}]

schema_resources(m, path) ==
    LET found == normalize_schema_uris(m.schemas[path].schema,
                                       repository_uri(path))
    IN  [found EXCEPT !.identifiers = @ \cup {repository_uri(path)}]

contract_schemas(c) ==
    {c.parameter_schema, c.result_schema, c.metric_schema}
        \cup c.dataset_schemas

schema_roots(m) ==
    UNION {{m.datasets[d].output_schema} \cup
           IF d \in Generated(m) THEN {m.datasets[d].parameter_schema}
           ELSE {} : d \in DOMAIN m.datasets}
        \cup {m.implementations[i].parameter_schema :
                  i \in DOMAIN m.implementations}
        \cup {m.problems[p].preparation.output_schema :
                  p \in {q \in DOMAIN m.problems :
                             m.problems[q].preparation # None}}
        \cup UNION {contract_schemas(m.problems[p].contract) :
                  p \in DOMAIN m.problems}

\* The file that an identifier stands for when no document declares it.
resolve_schema_reference(uri) ==
    IF uri[1] = "repository" THEN {uri[2]} ELSE {}

\* The documents a document needs, among the paths loaded so far: one that
\* declares the identifier, and otherwise the file of that name.
schema_dependencies(m, loaded, path) ==
    LET own == schema_resources(m, path).identifiers
        declaring(uri) == {p \in loaded :
                              uri \in schema_resources(m, p).identifiers}
    IN  UNION {IF declaring(uri) # {} THEN declaring(uri) \ {path}
               ELSE resolve_schema_reference(uri) :
                  uri \in schema_resources(m, path).references \ own}

Required(m, loaded) ==
    (schema_roots(m) \ {None})
        \cup UNION {schema_dependencies(m, loaded, p) : p \in loaded}

\* All files that can be read, round after round.
load_schema_documents(m) ==
    FoldLeft(LAMBDA loaded, round :
                 loaded \cup (Required(m, loaded) \cap DOMAIN m.schemas),
             {}, [round \in 1 .. Cardinality(DOMAIN m.schemas) |-> round])

\* Nothing that is needed is missing in the end, and an identifier is
\* declared by one document, or by equal ones.
SchemasComplete(m) ==
    LET loaded == load_schema_documents(m) IN
    /\ Required(m, loaded) \subseteq loaded
    /\ \A p, q \in loaded :
           schema_resources(m, p).identifiers
               \cap schema_resources(m, q).identifiers # {} =>
           m.schemas[p] = m.schemas[q]

\* The catalog is offline: every reference is to one of its resources.
SchemaCatalogValid(m) ==
    \A p \in load_schema_documents(m) :
        schema_resources(m, p).references \subseteq
            UNION {schema_resources(m, q).identifiers :
                      q \in load_schema_documents(m)}

validate_schema_references(m, c) ==
    contract_schemas(c) \subseteq load_schema_documents(m)

\* A document and all that it needs, directly or not.
Reachable(m, path) ==
    LET loaded == load_schema_documents(m) IN
    FoldLeft(LAMBDA found, round : found \cup
                 UNION {schema_dependencies(m, loaded, p) : p \in found},
             {path}, [round \in 1 .. Cardinality(loaded) |-> round])

\* A document admits its own names and those of the documents it needs.
Admitted(m, path) ==
    m.schemas[path].admits
        \cup UNION {m.schemas[p].admits : p \in Reachable(m, path) \ {path}}

schema_validate(m, path, parameters) ==
    DOMAIN parameters \subseteq Admitted(m, path)

-----------------------------------------------------------------------------
(* Checks on a decoded manifest *)

\* An experiment, or one of its cases, as a holder of parameter axes.
Holders(e) == {e} \cup {e.cases[c] : c \in DOMAIN e.cases}

validate_references(m) ==
    /\ \A w \in Workers(m) : w.environment \in DOMAIN m.environments
    /\ \A i \in DOMAIN m.implementations :
           m.implementations[i].problem_contracts \subseteq DOMAIN m.problems
    /\ \A k \in DOMAIN m.experiments : LET e == m.experiments[k] IN
           /\ e.problem \in DOMAIN m.problems
           /\ ToSet(e.datasets) \subseteq DOMAIN m.datasets
           /\ ToSet(e.implementations) \subseteq DOMAIN m.implementations
           /\ e.execution_policy \in DOMAIN m.execution_policies
           /\ e.observation_policy \in DOMAIN m.observation_policies

validate_named_parameter_axes(m, e, h) ==
    /\ DOMAIN h.dataset_parameters \subseteq ToSet(e.datasets)
    /\ DOMAIN h.implementation_parameters \subseteq ToSet(e.implementations)
    /\ \A d \in DOMAIN h.dataset_parameters :
           d \in Generated(m) /\ m.datasets[d].parameter_schema # None
    /\ \A i \in DOMAIN h.implementation_parameters :
           m.implementations[i].parameter_schema # None

validate_parameter_namespaces(m) ==
    /\ \A d \in Generated(m) :
           m.datasets[d].parameter_defaults # None =>
               m.datasets[d].parameter_schema # None
    /\ \A i \in DOMAIN m.implementations :
           m.implementations[i].parameter_defaults # None =>
               m.implementations[i].parameter_schema # None
    /\ \A k \in DOMAIN m.experiments : \A h \in Holders(m.experiments[k]) :
           validate_named_parameter_axes(m, m.experiments[k], h)

\* A policy's bounds: a positive count that its thresholds fit into.
ProfilePolicyValid(p) ==
    /\ p.max_observations > 0
    /\ p.thresholds <= p.max_observations

validate_dataset_selection(m, e) ==
    LET accepted == m.problems[e.problem].contract.dataset_schemas IN
    /\ (accepted = {}) = (e.datasets = <<>>)
    /\ \A d \in ToSet(e.datasets) : m.datasets[d].output_schema \in accepted

\* Warm-ups need a worker that is kept; cold timing needs one that is not.
PoliciesConsistent(m) ==
    \A n \in DOMAIN m.execution_policies :
        LET p == m.execution_policies[n] @@ PolicyDefaults IN
        /\ p.warmup_runs > 0 => p.worker_reuse
        /\ p.timing_scope = "cold_end_to_end" =>
               ~p.worker_reuse /\ p.warmup_runs = 0

\* The controls of a fresh sequence fit the policy and its control schema; a
\* buffered trace runs in a scope the contract authorizes.
BindingValid(m, e, i) ==
    LET p == Profile(m, e)
        b == p.implementations[i]
    IN  /\ i \in DOMAIN p.implementations
        /\ binding_validate(p, b)
        /\ b.delivery = "fresh_sequence" =>
               ToSet(expand(b.schedule)) \subseteq b.control_schema
        /\ b.delivery = "buffered" =>
               b.scope \in m.problems[e.problem].contract.scopes

required_capability(m, e, i) ==
    IF Profile(m, e) = None THEN "one_shot"
    ELSE Profile(m, e).implementations[i].delivery

ImplementationCompatible(m, e, i) ==
    /\ e.problem \in m.implementations[i].problem_contracts
    /\ Profile(m, e) # None => BindingValid(m, e, i)
    /\ required_capability(m, e, i) \in m.implementations[i].capabilities

ExperimentCompatible(m, e) ==
    /\ validate_dataset_selection(m, e)
    /\ Policy(m, e).timing_scope
           \in m.problems[e.problem].contract.allowed_timing_scopes
    /\ Profile(m, e) # None => ProfilePolicyValid(Profile(m, e))
    /\ \A i \in ToSet(e.implementations) : ImplementationCompatible(m, e, i)

validate_compatibility(m) ==
    /\ PoliciesConsistent(m)
    /\ \A k \in DOMAIN m.experiments :
           ExperimentCompatible(m, m.experiments[k])

\* No control of the local executor is enforced but open network access, so
\* "required" is always refused: it never isolates the file system.
local_controls(policy) ==
    {[name |-> "network", enforced |-> policy.network],
     [name |-> "filesystem_isolation", enforced |-> FALSE],
     [name |-> "dataset_immutability", enforced |-> FALSE],
     [name |-> "process_tree", enforced |-> FALSE]}
        \cup {[name |-> "cpus", enforced |-> FALSE] :
                c \in {policy.cpus} \ {None}}

validate_required_controls(policy) ==
    policy.enforcement = "required" =>
        \A c \in local_controls(policy) : c.enforced

-----------------------------------------------------------------------------
(* Parameters and candidates *)

expand_axes(axes) ==
    FoldLeft(LAMBDA combinations, n :
                 FlatMap(combinations, LAMBDA c :
                     [v \in DOMAIN axes[n] |-> (n :> axes[n][v]) @@ c]),
             <<Empty>>,
             SelectSeq(NameOrder, LAMBDA n : n \in DOMAIN axes))

\* What is supplied replaces the definition's defaults.
resolve_parameters(defaults, supplied) ==
    IF defaults = None THEN supplied ELSE supplied @@ defaults

\* A case's axes hide the experiment's, which hide the definition's grids.
expand_resolved_parameters(definition, base, overlay) ==
    IF definition.parameter_schema = None THEN <<Empty>>
    ELSE LET supplied == expand_axes(
                   overlay @@ base @@ definition.parameter_grids)
         IN  [k \in DOMAIN supplied |->
                 resolve_parameters(definition.parameter_defaults,
                                    supplied[k])]

Axes(named, n) == IF n \in DOMAIN named THEN named[n] ELSE Empty

\* The candidates of an experiment, or of one of its cases; h is the case,
\* or the experiment itself when it has none.
expand_source(m, e, h, source) ==
    LET problem == m.problems[e.problem]
        Problem == expand_resolved_parameters(problem.contract,
                       e.problem_parameters, h.problem_parameters)
        Dataset(d) ==
            IF d = "@unit" \/ m.datasets[d].kind = "fixed" THEN <<Empty>>
            ELSE expand_resolved_parameters(m.datasets[d],
                     Axes(e.dataset_parameters, d),
                     Axes(h.dataset_parameters, d))
        Implementation(i) ==
            expand_resolved_parameters(m.implementations[i],
                Axes(e.implementation_parameters, i),
                Axes(h.implementation_parameters, i))
        candidate(d, dp, pp, i, ip) ==
            [source |-> source, dataset |-> d, dataset_parameters |-> dp,
             problem |-> e.problem, problem_parameters |-> pp,
             implementation |-> i, implementation_parameters |-> ip]
    IN  FlatMap(IF e.datasets = <<>> THEN <<"@unit">> ELSE e.datasets,
          LAMBDA d : FlatMap(Dataset(d),
          LAMBDA dp : FlatMap(Problem,
          LAMBDA pp : FlatMap(e.implementations,
          LAMBDA i : [k \in DOMAIN Implementation(i) |->
              candidate(d, dp, pp, i, Implementation(i)[k])]))))

expand_experiment(m, e) ==
    IF e.cases = <<>> THEN expand_source(m, e, e, "experiment")
    ELSE FlatMap(e.cases, LAMBDA c : expand_source(m, e, c, c.name))

\* What tells candidates apart: not the case that produced them.
CandidateKey(c) ==
    <<c.dataset, c.dataset_parameters, c.problem, c.problem_parameters,
      c.implementation, c.implementation_parameters>>

insert_candidate(candidates) ==
    IsInjective([k \in DOMAIN candidates |-> CandidateKey(candidates[k])])

\* The resolved parameters of one candidate satisfy their schemas.
ParametersValid(m, c) ==
    LET dataset == m.datasets[c.dataset]
        implementation == m.implementations[c.implementation]
    IN  /\ schema_validate(m, m.problems[c.problem].contract
                                  .parameter_schema, c.problem_parameters)
        /\ c.dataset \in Generated(m) /\ dataset.parameter_schema # None =>
               schema_validate(m, dataset.parameter_schema,
                               c.dataset_parameters)
        /\ implementation.parameter_schema # None =>
               schema_validate(m, implementation.parameter_schema,
                               c.implementation_parameters)

expand_manifest_configurations(m) ==
    /\ validate_parameter_namespaces(m)
    /\ validate_compatibility(m)
    /\ \A k \in DOMAIN m.experiments :
         LET candidates == expand_experiment(m, m.experiments[k]) IN
         /\ \A c \in ToSet(candidates) : ParametersValid(m, c)
         /\ insert_candidate(candidates)

\* A manifest that "metewand run" plans: m as authored.
Plannable(m) ==
    /\ Decodable(m)
    /\ LET d == Decode(m) IN
         /\ validate_references(d)
         /\ SchemasComplete(d)
         /\ SchemaCatalogValid(d)
         /\ \A p \in DOMAIN d.problems :
                validate_schema_references(d, d.problems[p].contract)
         /\ expand_manifest_configurations(d)
         /\ \A k \in DOMAIN d.experiments :
                validate_required_controls(Policy(d, d.experiments[k]))
=============================================================================
