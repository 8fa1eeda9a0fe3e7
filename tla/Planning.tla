------------------------------ MODULE Planning ------------------------------
(***************************************************************************)
(* From a manifest to the measurements of a run and their order: the       *)
(* identities (src/core/identity.rs, records.rs), seeds (seed.rs), the     *)
(* logical plan (planning.rs), its selection (run/selection.rs), its       *)
(* resolution against what was materialized and observed on this host      *)
(* (run/resolution.rs) and the schedule (scheduling.rs).                   *)
(*                                                                         *)
(* An identity is a SHA-256 digest of a typed canonical record; here it is *)
(* the record itself, so that two are equal exactly when their records     *)
(* are.  Seeds are identities too.  Priorities are digests that are        *)
(* compared: rank gives them an arbitrary order.                           *)
(*                                                                         *)
(* A world is what resolution observes outside the manifest: "artifact",   *)
(* what materializing a dataset yields; "host", the machine;               *)
(* "inapplicable", the implementations that declare they cannot solve what *)
(* they are given; "checked", whether implementations are asked at all.    *)
(* A host has an operating system, an architecture, the digest of the      *)
(* program that workers run, the libraries that program loads, and the     *)
(* evidence of metewand.lock for each environment that is not local.       *)
(***************************************************************************)
EXTENDS ManifestExpansion

-----------------------------------------------------------------------------
(* Identities of definitions: m is decoded *)

\* A local environment without variables is the plain local one.
environment_record(n, definition) ==
    [name |-> n,
     kind |-> IF definition.kind = "local" /\ definition.variables = {}
              THEN [kind |-> "local"] ELSE definition]

EnvironmentDefinition(m, n) == environment_record(n, m.environments[n])

schema_identity_value_Root(m, path) ==
    [path |-> path, document |-> m.schemas[path]]

\* A schema with every document it reaches.
schema_identity_value(m, path) ==
    [path |-> path, document |-> m.schemas[path],
     dependencies |-> {<<p, m.schemas[p]>> :
                          p \in Reachable(m, path) \ {path}}]

schema_id(m, path) ==
    IF path = None THEN None ELSE schema_identity_value(m, path)

worker(m, w) ==
    [source_bundle |-> w.sources,
     environment |-> EnvironmentDefinition(m, w.environment)]

DatasetDefinition(m, d) ==
    IF d = "@unit" THEN [name |-> d, kind |-> "unit"]
    ELSE LET x == m.datasets[d] IN
         IF x.kind = "fixed"
         THEN [name |-> d, kind |-> "fixed", source_bundle |-> x.sources,
               output_schema |-> schema_id(m, x.output_schema)]
         ELSE [name |-> d, kind |-> "generated",
               materializer |-> worker(m, x.worker),
               parameter_schema |-> schema_id(m, x.parameter_schema),
               parameter_defaults |-> x.parameter_defaults,
               output_schema |-> schema_id(m, x.output_schema)]

\* The contract without its grids: they choose configurations.
contract_identity_value(m, c) ==
    [dataset_schemas |-> {schema_id(m, d) : d \in c.dataset_schemas},
     parameter_schema |-> schema_id(m, c.parameter_schema),
     result_schema |-> schema_id(m, c.result_schema),
     metric_schema |-> schema_id(m, c.metric_schema),
     allowed_timing_scopes |-> c.allowed_timing_scopes,
     semantics |-> c.semantics, scopes |-> c.scopes]

ProblemDefinition(m, p) ==
    LET x == m.problems[p] IN
    [name |-> p, contract |-> contract_identity_value(m, x.contract),
     parameter_defaults |-> x.contract.parameter_defaults,
     evaluator |-> worker(m, x.evaluator),
     preparation |->
         IF x.preparation = None THEN None
         ELSE [worker |-> worker(m, x.preparation),
               output_schema |-> schema_id(m, x.preparation.output_schema)]]

ImplementationDefinition(m, i) ==
    LET x == m.implementations[i] IN
    [name |-> i, worker |-> worker(m, x.worker),
     problem_contracts |-> {ProblemDefinition(m, p) :
                               p \in x.problem_contracts},
     parameter_schema |-> schema_id(m, x.parameter_schema),
     parameter_defaults |-> x.parameter_defaults,
     capabilities |-> x.capabilities]

ExecutionPolicy(m, e) ==
    [name |-> e.execution_policy, policy |-> Policy(m, e)]

\* The policy of an experiment, narrowed to one implementation's binding.
ObservationPolicy(m, e, i) ==
    LET p == Profile(m, e) IN
    [name |-> e.observation_policy,
     kind |-> IF p = None THEN "one_shot" ELSE "profile",
     profile |-> IF p = None THEN None
                 ELSE [max_observations |-> p.max_observations,
                       thresholds |-> p.thresholds,
                       max_checkpoint_bytes |-> p.max_checkpoint_bytes,
                       binding |-> p.implementations[i]]]

-----------------------------------------------------------------------------
(* Seeds *)

derive_dataset_seed(e, definition, parameters) ==
    [role |-> "dataset", seed |-> e.seed, definition |-> definition,
     parameters |-> parameters]

\* Implementations of one configured problem share it.
derive_implementation_seed(e, dataset, problem, repetition) ==
    [role |-> "implementation", seed |-> e.seed, dataset |-> dataset,
     problem |-> problem, repetition |-> repetition]

derive_scheduling_seed(m, e) ==
    [role |-> "scheduling", seed |-> e.seed, benchmark |-> m.name,
     experiment |-> e.name]

derive_attempt_scheduling_priority(seed, specification, role) ==
    [seed |-> seed, specification |-> specification, role |-> role]

-----------------------------------------------------------------------------
(* The logical plan *)

Delivery(m, e, i) ==
    IF Profile(m, e) = None THEN "one_shot"
    ELSE Profile(m, e).implementations[i].delivery

\* Observations of one repetition: a capture, or the points of a sequence.
Bound(m, e, i) ==
    IF Profile(m, e) = None THEN 1
    ELSE IF Delivery(m, e, i) = "fresh_sequence"
         THEN ScheduleLength(Profile(m, e).implementations[i].schedule)
         ELSE Profile(m, e).max_observations

\* Observation n = 0, 1, ... of a specification.
ObservationSlot(m, e, c, specification, n) ==
    LET bound == Bound(m, e, c.implementation) IN
    IF Delivery(m, e, c.implementation) = "fresh_sequence"
    THEN [specification |-> specification, measurement |-> n \div bound,
          fresh |-> [index |-> n % bound,
                     control |-> expand(Profile(m, e)
                         .implementations[c.implementation].schedule)
                             [(n % bound) + 1]]]
    ELSE [specification |-> specification, measurement |-> n,
          fresh |-> None]

LogicalAttemptSlot(seed, specification, role) ==
    [specification |-> specification, role |-> role,
     priority |-> derive_attempt_scheduling_priority(
                      seed, specification, role)]

Step_Single(m, e, i) == 1

\* How many observations a measured slot stands for.
Step(m, e, i) ==
    IF Delivery(m, e, i) = "fresh_sequence" THEN 1 ELSE Bound(m, e, i)

plan_specification(m, e, c, candidate, repetition) ==
    LET specification ==
          [candidate |-> candidate, repetition |-> repetition,
           seed |-> derive_implementation_seed(e, candidate.dataset,
                        candidate.problem, repetition)]
        seed == derive_scheduling_seed(m, e)
        count == e.measurement_repetitions * Bound(m, e, c.implementation)
        step == Step(m, e, c.implementation)
        observations == [n \in 1 .. count |->
            ObservationSlot(m, e, c, specification, n - 1)]
        warmups == [n \in 1 .. Policy(m, e).warmup_runs |->
            LogicalAttemptSlot(seed, specification,
                [kind |-> "warmup", index |-> n - 1, observation |-> None])]
        measured == [n \in 1 .. ((count + step - 1) \div step) |->
            LogicalAttemptSlot(seed, specification,
                [kind |-> "measured", index |-> 0,
                 observation |-> observations[(n - 1) * step + 1]])]
    IN  [specification |-> specification, observations |-> observations,
         attempts |-> warmups \o measured]

plan_candidate(m, e, c) ==
    LET definition == DatasetDefinition(m, c.dataset)
        dataset ==
          [definition |-> definition, parameters |-> c.dataset_parameters,
           seed |-> derive_dataset_seed(e, definition,
                                        c.dataset_parameters)]
        candidate ==
          [dataset |-> dataset,
           problem |-> [definition |-> ProblemDefinition(m, c.problem),
                        parameters |-> c.problem_parameters],
           implementation |->
             [definition |-> ImplementationDefinition(m, c.implementation),
              parameters |-> c.implementation_parameters,
              environment |-> EnvironmentDefinition(m,
                  m.implementations[c.implementation].worker.environment)],
           execution |-> ExecutionPolicy(m, e),
           observation |-> ObservationPolicy(m, e, c.implementation)]
    IN  [expanded |-> c, candidate |-> candidate,
         specifications |-> [r \in 1 .. e.implementation_repetitions |->
             plan_specification(m, e, c, candidate, r - 1)]]

plan_experiment(m, e) ==
    LET candidates == expand_experiment(m, e) IN
    [declaration |-> e, seed |-> derive_scheduling_seed(m, e),
     candidates |-> [k \in DOMAIN candidates |->
                        plan_candidate(m, e, candidates[k])]]

expand_manifest_logical_plan(m) ==
    [k \in DOMAIN m.experiments |-> plan_experiment(m, m.experiments[k])]

-----------------------------------------------------------------------------
(* Selection *)

\* The experiments asked for, or the default one, or all of them.
select_experiments(m, plan, names) ==
    LET selected == IF names # {} THEN names
                    ELSE {m.default_experiment} \ {None}
    IN  IF selected = {} THEN plan
        ELSE SelectSeq(plan, LAMBDA p : p.declaration.name \in selected)

\* The captures of a specification: the observations of each measured slot.
Captures(s, step) ==
    [o \in {s.observations[n] : n \in DOMAIN s.observations} |->
        LET n == CHOOSE k \in DOMAIN s.observations : s.observations[k] = o
        IN  {s.observations[k] : k \in
                {j \in DOMAIN s.observations :
                    (j - 1) \div step = (n - 1) \div step}}]

\* One specification reduced to the slots an identity in ids names.  A fresh
\* sequence is kept whole or dropped, a trajectory as well.
SelectSlots(m, e, p, s, ids) ==
    LET i == p.expanded.implementation
        whole == {p.candidate, s.specification} \cap ids # {}
        capture == Captures(s, Step(m, e, i))
        named(a) == \/ whole \/ a \in ids
                    \/ capture[a.role.observation] \cap ids # {}
        kept == SelectSeq(s.attempts,
                    LAMBDA a : a.role.kind = "warmup" \/ named(a))
        observed == UNION {capture[kept[k].role.observation] :
                              k \in {j \in DOMAIN kept :
                                        kept[j].role.kind = "measured"}}
    IN  IF Delivery(m, e, i) = "fresh_sequence"
        THEN IF whole \/ (ToSet(s.attempts) \cup ToSet(s.observations))
                             \cap ids # {}
             THEN s ELSE [s EXCEPT !.attempts = <<>>, !.observations = <<>>]
        ELSE [s EXCEPT !.attempts = kept,
                       !.observations = SelectSeq(s.observations,
                                            LAMBDA o : o \in observed)]

preselect(m, plan, ids) ==
    LET candidate(e, p) ==
            [p EXCEPT !.specifications = SelectSeq(
                [k \in DOMAIN @ |-> SelectSlots(m, e, p, @[k], ids)],
                LAMBDA s : s.observations # <<>>)]
        experiment(x) ==
            [x EXCEPT !.candidates = SelectSeq(
                [k \in DOMAIN @ |-> candidate(x.declaration, @[k])],
                LAMBDA p : p.specifications # <<>>)]
    IN  IF ids = {} THEN plan
        ELSE SelectSeq([k \in DOMAIN plan |-> experiment(plan[k])],
                       LAMBDA x : x.candidates # <<>>)

-----------------------------------------------------------------------------
(* Resolution and order *)

\* What is recorded of an environment on a host.  A local one is named by
\* its program: the libraries it loads are not looked at.
fingerprint(environment, name, host) ==
    IF environment.kind = "local"
    THEN [class |-> "development", os |-> host.os,
          architecture |-> host.architecture,
          program_sha256 |-> host.program, dependency_closure |-> None]
    ELSE [class |-> "locked", evidence |-> host.lock[name]]

\* A worker as launched: its sources and the environment as observed here.
ResolvedWorker(m, w, world) ==
    [worker |-> worker(m, w),
     fingerprint |-> fingerprint(m.environments[w.environment],
                                 w.environment, world.host)]

DatasetInstance(m, p, world) ==
    [configuration |-> p.candidate.dataset,
     artifact |-> IF p.expanded.dataset = "@unit" THEN "unit"
                  ELSE IF p.expanded.dataset \in Generated(m)
                       THEN world.artifact
                       ELSE m.datasets[p.expanded.dataset].sources]

ProblemInstance(m, p, world) ==
    [dataset |-> DatasetInstance(m, p, world),
     problem |-> p.candidate.problem,
     preparation |->
         IF m.problems[p.expanded.problem].preparation = None THEN None
         ELSE world.artifact]

\* Whether the implementation declares that it can solve the configuration,
\* as asked of it with these inputs; None when it is never asked.
Applicability(m, p, world) ==
    IF ~world.checked THEN None
    ELSE [candidate |-> p.candidate,
          inputs |-> DatasetInstance(m, p, world),
          outcome |-> p.expanded.implementation \notin world.inapplicable]

Applicable(m, p, world) ==
    \/ ~world.checked
    \/ p.expanded.implementation \notin world.inapplicable

ResolvedSpecification(m, p, s, world) ==
    [logical |-> s.specification,
     problem |-> ProblemInstance(m, p, world),
     applicability |-> Applicability(m, p, world),
     implementation |-> ResolvedWorker(m,
         m.implementations[p.expanded.implementation].worker, world),
     evaluator |-> ResolvedWorker(m,
         m.problems[p.expanded.problem].evaluator, world),
     executor |-> m.worker_timeouts]

\* The comparison block of an observation.  Only a streamed index is turned
\* into its repetition; a buffered one counts observations.
ComparisonBlock(m, e, p, s, o, world) ==
    LET i == p.expanded.implementation IN
    [dataset |-> DatasetInstance(m, p, world),
     problem |-> p.candidate.problem,
     repetition |-> s.specification.repetition,
     measurement |-> IF Delivery(m, e, i) = "streaming"
                     THEN o.measurement \div Bound(m, e, i)
                     ELSE o.measurement]

derive_block_scheduling_priority(seed, block) ==
    [seed |-> seed, block |-> block]

\* Whether the measured slot of observation o fills observation slot x.
Fills(m, e, i, o, x) ==
    IF Delivery(m, e, i) = "fresh_sequence" THEN x = o
    ELSE x.measurement \in o.measurement ..
                           (o.measurement + Bound(m, e, i) - 1)

\* The observation slots a measured slot fills.
SlotObservations(m, e, i, s, o) ==
    SelectSeq(s.observations, LAMBDA x : Fills(m, e, i, o, x))

\* A measured slot with what its worker will be given.
Measurement(m, x, p, s, a, world) ==
    LET e == x.declaration
        o == a.role.observation
        resolved == ResolvedSpecification(m, p, s, world)
        produced == SlotObservations(m, e, p.expanded.implementation, s, o)
        block == ComparisonBlock(m, e, p, s, o, world)
    IN  [slot |-> [logical |-> a, specification |-> resolved],
         observations |-> [k \in DOMAIN produced |->
             [logical |-> produced[k], specification |-> resolved]],
         given |-> p.expanded, declaration |-> e,
         repetition |-> s.specification.repetition,
         delivery |-> Delivery(m, e, p.expanded.implementation),
         round |-> IF o.fresh = None THEN 0 ELSE o.fresh.index,
         block |-> derive_block_scheduling_priority(x.seed, block),
         priority |-> a.priority]

resolve_candidate(m, x, p, world) ==
    IF ~Applicable(m, p, world) THEN <<>>
    ELSE FlatMap(p.specifications, LAMBDA s :
           LET measured == SelectSeq(s.attempts,
                               LAMBDA a : a.role.kind = "measured")
           IN  [k \in DOMAIN measured |->
                   Measurement(m, x, p, s, measured[k], world)])

Before_Blocks(a, b, rank) ==
    \/ rank[a.block] < rank[b.block]
    \/ rank[a.block] = rank[b.block] /\ a.round < b.round

\* Blocks in the order of their priorities, then rounds, then slots.
Before(a, b, rank) ==
    LET s == <<rank[a.block], a.round, rank[a.priority]>>
        t == <<rank[b.block], b.round, rank[b.priority]>>
    IN  \E k \in 1 .. 3 : s[k] < t[k] /\ \A j \in 1 .. k - 1 : s[j] = t[j]

schedule_slots(run_order, slots, rank) ==
    IF run_order = "randomized"
    THEN SortSeq(slots, LAMBDA a, b : Before(a, b, rank)) ELSE slots

\* The measurements of an experiment, in the order of its expansion.
Measurements(m, x, world) ==
    FlatMap(x.candidates, LAMBDA p : resolve_candidate(m, x, p, world))

\* The schedule of a plan: experiments one after the other.
Schedule(m, plan, world, rank) ==
    FlatMap(plan, LAMBDA x :
        schedule_slots(Policy(m, x.declaration).run_order,
                       Measurements(m, x, world), rank))

\* resolve refuses a plan that would run one slot twice, and one with
\* nothing to measure or with timing the local executor does not do.
Resolvable(m, plan) ==
    LET slots == FlatMap(plan, LAMBDA x : FlatMap(x.candidates, LAMBDA p :
                     FlatMap(p.specifications, LAMBDA s : s.attempts)))
    IN  /\ \A k \in DOMAIN plan :
              Policy(m, plan[k].declaration).primary_time
                  = "timed_wall_time"
        /\ slots # <<>>
        /\ IsInjective(slots)
=============================================================================
