------------------------------ MODULE MCResume ------------------------------
(* Manifests and worlds for model-checking Resume. *)
EXTENDS Resume

MCNameOrder == <<"k", "n">>

Worker(sources) == [sources |-> sources, environment |-> ""]

Implementation(sources, environment) ==
    [worker |-> [Worker(sources) EXCEPT !.environment = environment],
     function |-> FALSE, problem_contracts |-> {"p"},
     parameter_schema |-> "i.json", parameter_defaults |-> [k |-> 0],
     parameter_grids |-> Empty,
     capabilities |-> {"one_shot", "buffered", "streaming",
                       "fresh_sequence"}]

\* A function: what it leaves out is decoded.
Function(sources) ==
    [Implementation(sources, "") EXCEPT
        !.function = TRUE, !.problem_contracts = {}, !.capabilities = {}]

Subschema(id, refs) == [id |-> id, refs |-> refs]
Document(admits, schema) == [admits |-> admits, schema |-> schema]
Schema(id, refs) == <<>> :> Subschema(id, refs)

\* The implementations' schema takes its names from a document that declares
\* the identifier, and refers to itself.  The problem's names a file.
Schemas ==
    ("i.json" :> Document({}, Schema(None, {Fragment})
                     @@ (<<"items">> :> Subschema(None, {<<"urn", "names">>}))))
    @@ ("p.json" :> Document({}, Schema(None, {<<"repository", "q.json">>})))
    @@ ("q.json" :> Document({"n", "k"}, Schema(<<"urn", "names">>, {})))
    @@ ("rows" :> Document({}, Schema(None, {})))
    @@ ("result" :> Document({}, Schema(None, {})))

Experiment(name, seed, implementations) ==
    [name |-> name, problem |-> "p", datasets |-> <<"d">>,
     implementations |-> implementations, execution_policy |-> "shuffled",
     observation_policy |-> "", seed |-> seed,
     implementation_repetitions |-> 1, measurement_repetitions |-> 2,
     problem_parameters |-> Empty, dataset_parameters |-> Empty,
     implementation_parameters |-> Empty, cases |-> <<>>]

Binding(delivery) ==
    [delivery |-> delivery, scope |-> "loop",
     controls |-> {2, 4}, control_schema |-> None,
     schedule |-> [kind |-> "geometric", start |-> 2, ratio |-> 2,
                   count |-> 1, prefix |-> <<1>>],
     check_schedule |-> [kind |-> "geometric", start |-> 1, ratio |-> 2,
                         count |-> 2, prefix |-> <<>>]]

Trajectories(deliveries) ==
    [kind |-> "profile",
     profile |-> [max_observations |-> 2, thresholds |-> 0,
                  max_checkpoint_bytes |-> 1,
                  implementations |-> [i \in DOMAIN deliveries |->
                                          Binding(deliveries[i])]]]

Base ==
    [name |-> "bench", default_experiment |-> None, worker_timeouts |-> 1,
     environments |-> Empty, schemas |-> Schemas,
     datasets |-> [d |-> [kind |-> "generated", output_schema |-> "rows",
         worker |-> Worker("make"), parameter_schema |-> "p.json",
         parameter_defaults |-> [n |-> 1], parameter_grids |-> Empty]],
     problems |-> [p |-> [evaluator |-> Worker("judge"),
         preparation |-> None,
         contract |-> [dataset_schemas |-> {"rows"},
             parameter_schema |-> "p.json", parameter_defaults |-> None,
             result_schema |-> "result", metric_schema |-> "result",
             parameter_grids |-> Empty, semantics |-> "least",
             scopes |-> {"loop"},
             allowed_timing_scopes |-> {"prepare_and_execute"}]]],
     implementations |-> [i |-> Implementation("i1", ""),
                          j |-> Function("j1")],
     execution_policies |-> [shuffled |-> [run_order |-> "randomized"]],
     observation_policies |-> Empty,
     experiments |-> <<Experiment("e", 7, <<"i", "j">>)>>]

Single == [Base EXCEPT !.experiments[1].implementations = <<"i">>]

Profiled(deliveries, implementations, repetitions) ==
    [Base EXCEPT
        !.implementations.j = Implementation("j1", ""),
        !.observation_policies = [t |-> Trajectories(deliveries)],
        !.experiments = <<[Experiment("e", 7, implementations) EXCEPT
            !.observation_policy = "t",
            !.measurement_repetitions = repetitions]>>]

Case(name, k) ==
    [name |-> name, problem_parameters |-> Empty,
     dataset_parameters |-> Empty,
     implementation_parameters |-> [i |-> [k |-> <<k>>]]]

\* Implementations are reordered or removed; a source, an environment
\* variable, a schema that others refer to and the parameters of a default
\* experiment beside another are edited; deliveries change; two cases that say the same are refused.
MCManifests ==
    [base |-> Base,
     swapped |-> [Base EXCEPT
         !.experiments[1].implementations = <<"j", "i">>],
     edited |-> [Single EXCEPT !.implementations.i.worker.sources = "i2"],
     moved |-> [Single EXCEPT
         !.environments = [other |-> [kind |-> "local", variables |-> {"A"}]]],
     widened |-> [Single EXCEPT 
         !.schemas["q.json"].admits = {"k", "m", "n"}],
     grid |-> [Base EXCEPT
         !.default_experiment = "f",
         !.experiments = <<Experiment("e", 7, <<"i">>),
             [Experiment("f", 8, <<"i">>) EXCEPT
                 !.dataset_parameters = [d |-> [n |-> <<1, 2>>]],
                 !.measurement_repetitions = 1,
                 !.cases = <<Case("x", 0), Case("y", 1)>>]>>],
     buffered |-> Profiled([i |-> "buffered"], <<"i">>, 2),
     mixed |-> Profiled([i |-> "fresh_sequence", j |-> "streaming"],
                       <<"i", "j">>, 1),
     doubled |-> [Base EXCEPT
         !.experiments[1].cases = <<Case("x", 0), Case("y", 0)>>]]

\* The experiment is renamed between two invocations.
RenamedManifests ==
    [base |-> Single,
     renamed |-> [Single EXCEPT !.experiments[1].name = "f"]]

World(artifact, host, inapplicable, checked) ==
    [artifact |-> artifact, host |-> host, inapplicable |-> inapplicable,
     checked |-> checked]

Host(program, libraries) ==
    [os |-> "linux", architecture |-> "x86_64", program |-> program,
     libraries |-> libraries, lock |-> Empty]

\* The interpreter or only its libraries are upgraded, or the data are built
\* anew.
MCWorlds ==
    [here |-> World("a1", Host("p1", "l1"), {}, FALSE),
     upgraded |-> World("a1", Host("p2", "l1"), {}, FALSE),
     relinked |-> World("a1", Host("p1", "l2"), {}, FALSE),
     rebuilt |-> World("a2", Host("p1", "l1"), {"i"}, TRUE)]

\* One that can do everything, and one for each probe.
MCVolumes == {{}} \cup {{c} : c \in Capabilities}

OneVolume == {{}}

OneWorld == [here |-> World("a1", Host("p1", "l1"), {}, FALSE)]

MCShuffle(n) == (n * 37) % 101
=============================================================================
