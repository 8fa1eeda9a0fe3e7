----------------------------- MODULE PlanTables -----------------------------
(***************************************************************************)
(* What "metewand run" plans for each of a set of manifests, worlds and    *)
(* selections, tabulated once, with numbers for identities.  Beside each   *)
(* plan stand reference definitions, read from the manifest and not from   *)
(* identities: the work a measurement does and what a plan must cover.     *)
(***************************************************************************)
EXTENDS Planning, FiniteSetsExt

CONSTANTS
    Manifests,    \* the manifests the author writes, by their label
    Worlds,       \* what resolution may observe, by label
    Shuffle(_),   \* an injection of numbers: the order of digests
    Selections    \* "all", "candidate", "observation": what --select names

ASSUME SelectionsAssumption ==
    Selections \subseteq {"all", "candidate", "observation"}

PlanKeys == [manifest: DOMAIN Manifests, world: DOMAIN Worlds,
             selection: Selections]

\* A function with all its values, which TLC then keeps.
Tabulated(f) == f @@ Empty

DecodedManifests == [n \in DOMAIN Manifests |->
    IF Plannable(Manifests[n]) THEN Decode(Manifests[n]) ELSE None]

\* An identity of the plan: a candidate's, or the last observation's of the
\* first specification, in the middle of what its measurement captures.
SelectedIds(plan, selection) ==
    LET first == plan[1].candidates[1] IN
    CASE selection = "all" -> {}
      [] selection = "candidate" -> {first.candidate}
      [] selection = "observation" ->
            {Last(first.specifications[1].observations)}

LogicalPlans(decoded) ==
    [n \in {n \in DOMAIN Manifests : decoded[n] # None} |->
        LET m == decoded[n]
            plan == select_experiments(m,
                        expand_manifest_logical_plan(m), {})
        IN  [selection \in Selections |->
                preselect(m, plan, SelectedIds(plan, selection))]]

Accepted(decoded, plans) ==
    {k \in PlanKeys :
        /\ k.manifest \in DOMAIN plans
        /\ Resolvable(decoded[k.manifest], plans[k.manifest][k.selection])}

Number(S) == FoldSet(LAMBDA x, f : f @@ (x :> Cardinality(DOMAIN f)),
                     Empty, S)

\* The digests that are compared, in an order that is not that of their
\* contents.
Shuffled(digests) == [d \in DOMAIN digests |-> Shuffle(digests[d])]

Digests(decoded, plans, keys) ==
    LET compared(k) == {<<z.block, z.priority>> : z \in ToSet(
            FlatMap(plans[k.manifest][k.selection], LAMBDA x :
                Measurements(decoded[k.manifest], x, Worlds[k.world])))}
    IN  Shuffled(Number(UNION {{p[1], p[2]} :
                            p \in UNION {compared(k) : k \in keys}}))

Schedules(decoded, plans, keys, rank) ==
    [k \in keys |-> Schedule(decoded[k.manifest],
                             plans[k.manifest][k.selection],
                             Worlds[k.world], rank)]

AdmittedNames(m, path) == IF path = None THEN {} ELSE Admitted(m, path)

\* What the manifest and the lock let one know of the software of a worker.
\* The libraries of a local program and the machine's hardware are not in
\* it: docs/design.md leaves them to the author.
Software(environment, name, host) ==
    IF environment.kind = "local"
    THEN <<host.os, host.architecture, host.program>> ELSE <<host.lock[name]>>

\* What is run for candidate c of experiment e, on what and how.
Job(m, world, e, c, repetition) ==
    LET i == m.implementations[c.implementation]
        p == m.problems[c.problem]
        profile == Profile(m, e)
    IN  [sources |-> i.worker.sources,
         environment |-> m.environments[i.worker.environment],
         software |-> Software(m.environments[i.worker.environment],
                               i.worker.environment, world.host),
         data |-> IF c.dataset = "@unit" THEN "unit"
                  ELSE IF m.datasets[c.dataset].kind = "fixed"
                       THEN m.datasets[c.dataset].sources ELSE world.artifact,
         prepared |-> IF p.preparation = None THEN None
                      ELSE p.preparation.sources,
         parameters |-> <<c.dataset_parameters, c.problem_parameters,
                          c.implementation_parameters>>,
         admitted |-> <<AdmittedNames(m, p.contract.parameter_schema),
                        AdmittedNames(m, i.parameter_schema)>>,
         meaning |-> p.contract.semantics, judge |-> p.evaluator.sources,
         timeouts |-> m.worker_timeouts, policy |-> Policy(m, e),
         profile |-> IF profile = None THEN <<>>
                     ELSE <<profile.max_observations, profile.thresholds,
                            profile.max_checkpoint_bytes,
                            profile.implementations[c.implementation]>>,
         seed |-> <<e.seed, repetition>>]

\* The work of a measurement: its job and the observations it is to make.
Work(m, world, z) ==
    [job |-> Job(m, world, z.declaration, z.given, z.repetition),
     measures |-> {<<z.observations[k].logical.measurement,
                     z.observations[k].logical.fresh>> :
                       k \in DOMAIN z.observations}]

\* The observations of one measurement, counted from the manifest.
Promised(m, z) ==
    IF Profile(m, z.declaration) = None \/ z.delivery = "fresh_sequence"
    THEN 1 ELSE Profile(m, z.declaration).max_observations

\* What a candidate must be measured, counted from the manifest.
Owed(m, world, e, c) ==
    IF world.checked /\ c.implementation \in world.inapplicable THEN 0
    ELSE e.implementation_repetitions * e.measurement_repetitions
           * Bound(m, e, c.implementation)

Total(m, world) ==
    FoldLeft(LAMBDA sum, e :
        sum + FoldLeft(LAMBDA t, c : t + Owed(m, world, e, c), 0,
                       expand_experiment(m, e)), 0,
        SelectSeq(m.experiments, LAMBDA e :
            m.default_experiment \in {None, e.name}))

\* Every observation slot of the selected experiments once, and in each
\* measurement the observations of one repetition, all of them.
Covered(m, k, schedule) ==
    LET produced == FlatMap(schedule, LAMBDA z : z.observations)
        repetition(z) ==
            {o.logical.measurement \div Promised(m, z) :
                o \in ToSet(z.observations)}
    IN  /\ IsInjective(produced)
        /\ \A z \in ToSet(schedule) :
               /\ Len(z.observations) = Promised(m, z)
               /\ Cardinality(repetition(z)) = 1
        /\ k.selection = "all" =>
               Len(produced) = Total(m, Worlds[k.world])

Row(m, z, slots, observations, works, work) ==
    [slot |-> slots[z.slot],
     observations |-> {observations[z.observations[o]] :
                          o \in DOMAIN z.observations},
     work |-> works[work], delivery |-> z.delivery,
     experiment |-> z.declaration.name,
     shuffled |-> Policy(m, z.declaration).run_order = "randomized"]

\* How the candidates of a plan are observed, also the ones that turn out
\* to be inapplicable.
Deliveries(m, plan) ==
    UNION {{Delivery(m, x.declaration, p.expanded.implementation) :
               p \in ToSet(x.candidates)} : x \in ToSet(plan)}

Rows(decoded, plans, schedules, works, slots, observations, numbers) ==
    [k \in DOMAIN schedules |->
        [schedule |-> <<>> \o [j \in DOMAIN schedules[k] |->
            Row(decoded[k.manifest], schedules[k][j],
                slots, observations, numbers, works[k][j])],
         deliveries |-> Deliveries(decoded[k.manifest],
                                   plans[k.manifest][k.selection]),
         covered |-> Covered(decoded[k.manifest], k, schedules[k])]]

Numbered(decoded, plans, schedules, works, measured) ==
    Rows(decoded, plans, schedules, works,
         Number({z.slot : z \in measured}),
         Number(UNION {ToSet(z.observations) : z \in measured}),
         Number(UNION {ToSet(works[k]) : k \in DOMAIN works}))

Worked(decoded, plans, schedules) ==
    Numbered(decoded, plans, schedules,
        [k \in DOMAIN schedules |-> [j \in DOMAIN schedules[k] |->
            Work(decoded[k.manifest], Worlds[k.world], schedules[k][j])]],
        UNION {ToSet(schedules[k]) : k \in DOMAIN schedules})

Ordered(decoded, plans, keys) ==
    Worked(decoded, plans, Schedules(decoded, plans, keys,
                                     Digests(decoded, plans, keys)))

Planned(decoded, plans) == Ordered(decoded, plans, Accepted(decoded, plans))

Selected(decoded) == Planned(decoded, Tabulated(LogicalPlans(decoded)))

Refused == [k \in PlanKeys |-> None]

\* Every plan: its schedule with numbers for identities, and whether it
\* covers what the manifest asks for; None when it is refused.
PlanTable == Selected(Tabulated(DecodedManifests)) @@ Refused
=============================================================================
