----------------------------- MODULE LockedRuns -----------------------------
(***************************************************************************)
(* metewand lock, lock --check and run --locked over one repository whose  *)
(* author keeps editing it: src/runtime/lockfile.rs, locked_uv.rs,         *)
(* repository.rs, source_resolution.rs and run/resolution.rs.              *)
(*                                                                         *)
(* A tree is the manifest and the other captured files (worker sources,    *)
(* contracts, schemas, native dependency locks).  The manifest is named by *)
(* the backend of its one environment, "uv" or "nix".  A digest is the     *)
(* value it digests.  uv environments are generations in a data directory  *)
(* shared by every process of the user; Nix outputs live in a store that   *)
(* anybody may collect.  Reading the tree is one step; two reads of one    *)
(* command are two steps, and the author may edit between them.            *)
(***************************************************************************)
EXTENDS Naturals, Sequences, FiniteSets

CONSTANTS
    Procs,       \* commands that may be running at the same time
    Files,       \* contents of the captured files other than the manifest
    Backends,    \* manifests, each named by its environment's backend
    Commands,    \* the commands that are started
    MaxEdits,    \* edits by the author
    MaxCommands, \* commands started in a behaviour
    MaxGens,     \* uv generations ever created
    MaxDamage,   \* changes of installed packages behind Metewand's back
    None

ASSUME LockedRunsAssumption ==
    /\ Backends \subseteq {"uv", "nix"}
    /\ Commands \subseteq {"lock", "check", "run"}
    /\ {MaxEdits, MaxCommands, MaxGens, MaxDamage} \subseteq Nat
    /\ None \notin Procs \cup Nat

Trees == [manifest: Backends, files: Files]

\* What identifies a prepared environment: the environment's definition and
\* the captured source.  It is the key of a uv generation directory, and the
\* name of a Nix output.
Keys == [definition: Backends, source: Trees]

VARIABLES
    tree,    \* the author's working tree
    lock,    \* metewand.lock or None: [source, definition, env, worker]
    gens,    \* uv generations: [key, built, receipt, intact, orphan]
    current, \* current.json of each key
    guard,   \* the process that holds a key's .lock
    store,   \* Nix outputs and sources present in the store
    roots,   \* what each process has pinned
    proc,    \* the commands
    edits, commands, damage

vars == <<tree, lock, gens, current, guard, store, roots, proc,
          edits, commands, damage>>
uv == <<gens, current, guard>>
nix == <<store, roots>>
bounds == <<edits, commands, damage>>

\* "steady": nobody edited the tree from the start of the command to the
\* end of its comparison with the lock file.  A history variable.
Idle == [pc |-> "idle", op |-> None, manifest |-> None, expected |-> None,
         source |-> None, copy |-> None, env |-> None, lock |-> None,
         id |-> None, staged |-> None, steady |-> TRUE]

Init ==
    /\ tree \in Trees
    /\ lock = None /\ gens = <<>>
    /\ current = [k \in Keys |-> None]
    /\ guard = [k \in Keys |-> None]
    /\ store = {} /\ roots = [p \in Procs |-> {}]
    /\ proc = [p \in Procs |-> Idle]
    /\ edits = 0 /\ commands = 0 /\ damage = 0

\* captured_sources: the tracked files with their digests and modes.
Captured == tree

\* identify_source_bundle: the files that a worker's patterns select.
BundleIdentity == tree.files

\* The definition identity of the planned worker, its bundle read again.
WorkerId(p) == [definition |-> proc[p].manifest, files |-> BundleIdentity]

Set(p, rec) == proc' = [proc EXCEPT ![p] = rec]
At(p, pc) == proc[p].pc = pc

\* The end of a command, with or without an error: its temporary
\* directories, pinned roots and file locks go with it.
Leave(p) ==
    /\ Set(p, Idle)
    /\ roots' = [roots EXCEPT ![p] = {}]
    /\ guard' = [k \in Keys |-> IF guard[k] = p THEN None ELSE guard[k]]

Fail(p) == Leave(p) /\ UNCHANGED <<tree, lock, gens, current, store, bounds>>

-----------------------------------------------------------------------------
(* check_repository: the manifest, then what it names.                     *)

Start(p, op) ==
    /\ At(p, "idle") /\ commands < MaxCommands
    /\ Set(p, [Idle EXCEPT !.pc = "manifest", !.op = op,
                           !.manifest = tree.manifest])
    /\ commands' = commands + 1
    /\ UNCHANGED <<tree, lock, uv, nix, edits, damage>>

\* Contracts, schemas and the identities of the source bundles.
ReadSources(p) ==
    /\ At(p, "manifest")
    /\ Set(p, [proc[p] EXCEPT !.expected = BundleIdentity,
                 !.pc = IF proc[p].op = "lock" THEN "checked" ELSE "load"])
    /\ UNCHANGED <<tree, lock, uv, nix, bounds>>

-----------------------------------------------------------------------------
(* metewand lock: lock_with.                                               *)

CaptureSources(p) ==
    /\ At(p, "checked")
    /\ Set(p, [proc[p] EXCEPT !.pc = "captured", !.source = Captured])
    /\ UNCHANGED <<tree, lock, uv, nix, bounds>>

CopySnapshot(p) ==
    /\ At(p, "captured")
    /\ Set(p, [proc[p] EXCEPT !.pc = "copied", !.copy = tree])
    /\ UNCHANGED <<tree, lock, uv, nix, bounds>>

\* A snapshot is taken only of what the repository and the copy both hold
\* after the copy.
SnapshotMatches_root_only(p) == Captured = proc[p].source
SnapshotMatches(p) ==
    Captured = proc[p].source /\ proc[p].copy = proc[p].source

CheckSnapshot(p) ==
    /\ At(p, "copied")
    /\ \/ /\ SnapshotMatches(p)
          /\ Set(p, [proc[p] EXCEPT !.pc = proc[p].manifest])
          /\ UNCHANGED <<tree, lock, uv, nix, bounds>>
       \/ ~SnapshotMatches(p) /\ Fail(p)

Key(p) == [definition |-> proc[p].manifest, source |-> proc[p].source]

\* verify_in: the receipt is there and the installed files still match it.
Verifies(g) == gens[g].receipt /\ gens[g].intact

\* prepare_with up to guard.lock(): waits for another process preparing the
\* same key, then reuses the current generation if it verifies.
LockKey_unguarded(p, k) == guard' = [guard EXCEPT ![k] = p]
LockKey(p, k) == guard[k] = None /\ guard' = [guard EXCEPT ![k] = p]

Reusable(k) == current[k] # None /\ Verifies(current[k])

PrepareUv(p) ==
    LET k == Key(p) IN
    /\ At(p, "uv")
    /\ \/ /\ guard[k] = None /\ Reusable(k)
          /\ Set(p, [proc[p] EXCEPT !.pc = "prepared", !.env = current[k],
                                    !.copy = None])
          /\ UNCHANGED <<gens, guard>>
       \/ /\ ~Reusable(k) /\ Len(gens) < MaxGens
          /\ LockKey(p, k)
          /\ gens' = Append(gens, [key |-> k, built |-> None,
                                   receipt |-> FALSE, intact |-> TRUE,
                                   orphan |-> FALSE])
          /\ Set(p, [proc[p] EXCEPT !.pc = "sync", !.env = Len(gens) + 1])
    /\ UNCHANGED <<tree, lock, current, nix, bounds>>

\* uv sync into the new generation, from the snapshot.  A failure removes
\* the temporary directory.
UvSync(p) ==
    /\ At(p, "sync")
    /\ \/ /\ gens' = [gens EXCEPT ![proc[p].env].built = proc[p].copy]
          /\ Set(p, [proc[p] EXCEPT !.pc = "synced"])
          /\ UNCHANGED <<tree, lock, current, guard, nix, bounds>>
       \/ Fail(p)

\* The receipt is durable and the directory kept before current.json names
\* the generation.
WriteReceipt(p) ==
    /\ At(p, "synced")
    /\ gens' = [gens EXCEPT ![proc[p].env].receipt = TRUE]
    /\ Set(p, [proc[p] EXCEPT !.pc = "kept"])
    /\ UNCHANGED <<tree, lock, current, guard, nix, bounds>>

PublishCurrent(p) ==
    LET k == Key(p) g == proc[p].env IN
    /\ At(p, "kept")
    /\ \/ /\ Verifies(g)
          /\ current' = [current EXCEPT ![k] = g]
          /\ guard' = [guard EXCEPT ![k] = None]
          /\ Set(p, [proc[p] EXCEPT !.pc = "prepared", !.copy = None])
          /\ UNCHANGED <<tree, lock, gens, nix, bounds>>
       \/ ~Verifies(g) /\ Fail(p)

\* nix store add of the snapshot; it is not rooted yet.
AddSnapshot(p) ==
    /\ At(p, "nix")
    /\ store' = store \cup {proc[p].copy}
    /\ Set(p, [proc[p] EXCEPT !.pc = "added"])
    /\ UNCHANGED <<tree, lock, uv, roots, bounds>>

\* pin: nix-store --realise --add-root, with substitution and building
\* disabled, so that a path that was collected is an error.
Pin_nothing(p, paths) == paths \subseteq store /\ UNCHANGED roots
Pin(p, paths) ==
    /\ paths \subseteq store
    /\ roots' = [roots EXCEPT ![p] = @ \cup paths]

PinSnapshot(p) ==
    /\ At(p, "added")
    /\ \/ /\ Pin(p, {proc[p].copy})
          /\ Set(p, [proc[p] EXCEPT !.pc = "build"])
          /\ UNCHANGED <<tree, lock, uv, store, bounds>>
       \/ ~({proc[p].copy} \subseteq store) /\ Fail(p)

\* nix build --out-link realises and roots the output in one operation; it
\* reads the snapshot's store path.
NixBuild(p) ==
    LET out == [definition |-> proc[p].manifest, source |-> proc[p].copy] IN
    /\ At(p, "build")
    /\ \/ /\ proc[p].copy \in store
          /\ store' = store \cup {out}
          /\ roots' = [roots EXCEPT ![p] = @ \cup {out}]
          /\ Set(p, [proc[p] EXCEPT !.pc = "prepared", !.env = out,
                                    !.copy = None])
          /\ UNCHANGED <<tree, lock, uv, bounds>>
       \/ Fail(p)

-----------------------------------------------------------------------------
(* resolve_worker_with_lock: workers are launched from a private copy of   *)
(* their source bundle.  metewand lock resolves them to record them, the   *)
(* others to compare them with the record.                                 *)

\* workers: definition identities read the bundles again.
SelectWorkers(p) ==
    /\ At(p, "prepared")
    /\ Set(p, [proc[p] EXCEPT !.pc = "stage", !.id = WorkerId(p)])
    /\ UNCHANGED <<tree, lock, uv, nix, bounds>>

\* resolve_source: the bundle is the expected one before the copy, and after
\* it the bundle and the copy both are.
StageWorker(p) ==
    /\ At(p, "stage")
    /\ \/ /\ BundleIdentity = proc[p].expected
          /\ Set(p, [proc[p] EXCEPT !.pc = "copy"])
          /\ UNCHANGED <<tree, lock, uv, nix, bounds>>
       \/ BundleIdentity # proc[p].expected /\ Fail(p)

CopyBundle(p) ==
    /\ At(p, "copy")
    /\ Set(p, [proc[p] EXCEPT !.pc = "recheck", !.staged = tree.files])
    /\ UNCHANGED <<tree, lock, uv, nix, bounds>>

StagedMatches_root_only(p) == BundleIdentity = proc[p].expected
StagedMatches(p) ==
    BundleIdentity = proc[p].expected /\ proc[p].staged = proc[p].expected

\* locked_program: the executable is looked up in the prepared environment.
Present(p) == IF proc[p].manifest = "nix" THEN proc[p].env \in store
              ELSE gens[proc[p].env].receipt

CheckCopy(p) ==
    /\ At(p, "recheck")
    /\ \/ /\ StagedMatches(p) /\ Present(p)
          /\ Set(p, [proc[p] EXCEPT !.pc = "staged"])
          /\ UNCHANGED <<tree, lock, uv, nix, bounds>>
       \/ ~(StagedMatches(p) /\ Present(p)) /\ Fail(p)

-----------------------------------------------------------------------------
(* The end of metewand lock: the sources once more, then the file.         *)

RecaptureSources(p) ==
    /\ At(p, "staged") /\ proc[p].op = "lock"
    /\ \/ /\ Captured = proc[p].source
          /\ Set(p, [proc[p] EXCEPT !.pc = "write"])
          /\ UNCHANGED <<tree, lock, uv, nix, bounds>>
       \/ Captured # proc[p].source /\ Fail(p)

\* A temporary file renamed over metewand.lock, unless nothing changes.
WriteLock(p) ==
    /\ At(p, "write")
    /\ lock' = [source |-> proc[p].source, definition |-> proc[p].manifest,
                env |-> proc[p].env, worker |-> proc[p].id]
    /\ Leave(p)
    /\ UNCHANGED <<tree, gens, current, store, bounds>>

-----------------------------------------------------------------------------
(* lock --check and run --locked: load, then the same resolution.          *)

ReadLock(p) ==
    /\ At(p, "load")
    /\ \/ /\ lock # None
          /\ Set(p, [proc[p] EXCEPT !.pc = "compare", !.lock = lock])
          /\ UNCHANGED <<tree, lock, uv, nix, bounds>>
       \/ lock = None /\ Fail(p)

SourcesMatch(p) == Captured = proc[p].lock.source

CompareSources(p) ==
    /\ At(p, "compare")
    /\ \/ /\ SourcesMatch(p)
          /\ Set(p, [proc[p] EXCEPT !.pc = "definitions"])
          /\ UNCHANGED <<tree, lock, uv, nix, bounds>>
       \/ ~SourcesMatch(p) /\ Fail(p)

\* The definitions of the plan's workers and environments, the workers'
\* bundles read again, against the entries of the file.
RecordedWorker(p) == WorkerId(p) = proc[p].lock.worker

CompareDefinitions(p) ==
    /\ At(p, "definitions")
    /\ \/ /\ proc[p].lock.definition = proc[p].manifest /\ RecordedWorker(p)
          /\ Set(p, [proc[p] EXCEPT !.pc = "verify",
                                    !.env = proc[p].lock.env])
          /\ UNCHANGED <<tree, lock, uv, nix, bounds>>
       \/ /\ ~(proc[p].lock.definition = proc[p].manifest
                 /\ RecordedWorker(p))
          /\ Fail(p)

\* locked_uv::verify, or verify_paths of the outputs and the sources.
Verified(l) == IF l.definition = "nix" THEN {l.env, l.source} \subseteq store
               ELSE Verifies(l.env)

VerifyEnvironment(p) ==
    /\ At(p, "verify")
    /\ \/ /\ Verified(proc[p].lock)
          /\ Set(p, [proc[p] EXCEPT
                       !.pc = IF proc[p].op = "run" THEN "pin" ELSE "stage"])
          /\ UNCHANGED <<tree, lock, uv, nix, bounds>>
       \/ ~Verified(proc[p].lock) /\ Fail(p)

\* VerifiedLock::load roots what it verified for the whole invocation.
LockedPaths(l) == IF l.definition = "nix" THEN {l.env, l.source} ELSE {}

PinLocked(p) ==
    LET paths == LockedPaths(proc[p].lock) IN
    /\ At(p, "pin")
    /\ \/ /\ Pin(p, paths)
          /\ Set(p, [proc[p] EXCEPT !.pc = "stage"])
          /\ UNCHANGED <<tree, lock, uv, store, bounds>>
       \/ ~(paths \subseteq store) /\ Fail(p)

\* verify_worker: the launch is the one recorded for the worker's definition,
\* whose bundle is read yet again.  lock --check ends here.
VerifyWorker(p) ==
    /\ At(p, "staged") /\ proc[p].op # "lock"
    /\ \/ /\ RecordedWorker(p) /\ proc[p].op = "run"
          /\ Set(p, [proc[p] EXCEPT !.pc = "dataset"])
          /\ UNCHANGED <<tree, lock, uv, nix, bounds>>
       \/ (RecordedWorker(p) => proc[p].op = "check") /\ Fail(p)

-----------------------------------------------------------------------------
(* A run launches its workers from the staged copy, in the environment:    *)
(* while it is resolved, to materialize datasets, to prepare problems and  *)
(* to ask for applicability, and then for its attempts.                    *)

\* ResolvedWorker::verify: the repository still holds the planned bundle.
Unchanged(p) == BundleIdentity = proc[p].expected

Goto(p, pc) ==
    /\ Set(p, [proc[p] EXCEPT !.pc = pc])
    /\ UNCHANGED <<tree, lock, uv, nix, bounds>>

\* A launch of the resolution verifies before and after; a change fails the
\* run before anything is registered.
Checked(p, pc) == (Unchanged(p) /\ Goto(p, pc)) \/ (~Unchanged(p) /\ Fail(p))

\* A fixed dataset, or one the cache has, needs no worker.
ResolveDataset(p) ==
    At(p, "dataset") /\ (Checked(p, "materializing") \/ Goto(p, "problem"))
DatasetMaterialized(p) == At(p, "materializing") /\ Checked(p, "problem")

\* Nor does a problem without preparation, or one already prepared.
ResolvePreparation(p) ==
    At(p, "problem") /\ (Checked(p, "preparing") \/ Goto(p, "candidate"))
ProblemPrepared(p) == At(p, "preparing") /\ Checked(p, "candidate")

\* Implementations that declare no applicability are always applicable.
ResolveApplicability(p) ==
    At(p, "candidate") /\ (Checked(p, "asking") \/ Goto(p, "ready"))
ApplicabilityKnown(p) == At(p, "asking") /\ Checked(p, "ready")

\* An attempt whose inputs have changed fails without a launch.
Launch(p) == At(p, "ready") /\ Unchanged(p) /\ Goto(p, "launched")
EndLaunch(p) == At(p, "launched") /\ Goto(p, "ready")

\* The last attempt is over.
EndRun(p) == At(p, "ready") /\ Fail(p)

-----------------------------------------------------------------------------
(* The environment.                                                        *)

\* The commands that have not compared the tree with their lock file yet.
Comparing == {"manifest", "load", "compare"}

Edit ==
    /\ edits < MaxEdits
    /\ \E t \in Trees :
        /\ t # tree
        /\ t.manifest = tree.manifest \/ t.files = tree.files
        /\ tree' = t
    /\ edits' = edits + 1
    /\ proc' = [p \in Procs |->
                  IF proc[p].op = "run" /\ proc[p].pc \in Comparing
                  THEN [proc[p] EXCEPT !.steady = FALSE] ELSE proc[p]]
    /\ UNCHANGED <<lock, uv, nix, commands, damage>>

\* nix-collect-garbage removes anything that no root keeps.
Collect ==
    /\ \E x \in store \ UNION {roots[p] : p \in Procs} :
        store' = store \ {x}
    /\ UNCHANGED <<tree, lock, uv, roots, proc, bounds>>

\* Somebody installs into, or removes from, a prepared uv environment.
Damage ==
    /\ damage < MaxDamage
    /\ \E g \in DOMAIN gens :
        gens[g].receipt /\ gens' = [gens EXCEPT ![g].intact = FALSE]
    /\ damage' = damage + 1
    /\ UNCHANGED <<tree, lock, current, guard, nix, proc, edits, commands>>

\* A killed command: the file lock is released and an unfinished generation
\* stays behind.
Crash(p) ==
    /\ ~At(p, "idle")
    /\ Leave(p)
    /\ gens' = [g \in DOMAIN gens |->
                  IF At(p, "kept") /\ proc[p].env = g
                  THEN [gens[g] EXCEPT !.orphan = TRUE] ELSE gens[g]]
    /\ UNCHANGED <<tree, lock, current, store, bounds>>

Step(p) ==
    \/ \E op \in Commands : Start(p, op)
    \/ ReadSources(p) \/ CaptureSources(p) \/ CopySnapshot(p)
    \/ CheckSnapshot(p) \/ PrepareUv(p) \/ UvSync(p) \/ WriteReceipt(p)
    \/ PublishCurrent(p) \/ AddSnapshot(p) \/ PinSnapshot(p) \/ NixBuild(p)
    \/ SelectWorkers(p) \/ StageWorker(p) \/ CopyBundle(p) \/ CheckCopy(p)
    \/ RecaptureSources(p) \/ WriteLock(p) \/ ReadLock(p)
    \/ CompareSources(p) \/ CompareDefinitions(p) \/ VerifyEnvironment(p)
    \/ PinLocked(p) \/ VerifyWorker(p)
    \/ ResolveDataset(p) \/ DatasetMaterialized(p) \/ ResolvePreparation(p)
    \/ ProblemPrepared(p) \/ ResolveApplicability(p) \/ ApplicabilityKnown(p)
    \/ Launch(p) \/ EndLaunch(p) \/ EndRun(p) \/ Crash(p)

Next == Edit \/ Collect \/ Damage \/ \E p \in Procs : Step(p)

Spec == Init /\ [][Next]_vars

-----------------------------------------------------------------------------
(* Properties.                                                             *)

\* The states of a run in which a worker of it is running.
WorkerRuns(p) ==
    proc[p].pc \in {"materializing", "preparing", "asking", "launched"}

\* A launched worker of a locked run uses an environment that was built from
\* exactly the tree the run's lock file records, under the definition the
\* run was planned with, however the author edits while the lock is made or
\* checked (lockfile.rs, snapshot and prepare_with's key).
EnvironmentAsLocked ==
    \A p \in Procs : WorkerRuns(p) =>
        LET l == proc[p].lock IN
        /\ l.definition = proc[p].manifest
        /\ IF l.definition = "nix"
           THEN l.env = [definition |-> l.definition, source |-> l.source]
           ELSE /\ gens[l.env].built = l.source
                /\ gens[l.env].key.definition = l.definition

\* If nobody edits while a run plans and compares the lock file, then
\* whatever is edited, locked again or restored later, the workers it
\* launches and the plan they serve are those of the tree the lock records
\* (lockfile.rs, load; source_resolution.rs, resolve_source).
SteadyRunAsLocked ==
    \A p \in Procs : WorkerRuns(p) =>
        /\ proc[p].staged = proc[p].expected
        /\ proc[p].steady =>
            /\ proc[p].manifest = proc[p].lock.source.manifest
            /\ proc[p].staged = proc[p].lock.source.files

\* Concurrent and repeated locks share one generation: an undamaged complete
\* generation is the current one of its key, or its maker is about to
\* publish it, or was killed just before; and current.json never names an
\* incomplete one (locked_uv.rs, the guard and the order of publication).
GenerationsShared ==
    /\ \A k \in Keys : current[k] # None => gens[current[k]].receipt
    /\ \A g \in DOMAIN gens :
        (gens[g].receipt /\ gens[g].intact) =>
            \/ current[gens[g].key] = g
            \/ gens[g].orphan
            \/ \E p \in Procs : At(p, "kept") /\ proc[p].env = g

\* Nothing a run is about to launch, and nothing a lock is about to record,
\* can be collected from the Nix store (lockfile.rs, pin and VerifiedLock).
OutputsStayRooted ==
    \A p \in Procs :
        /\ WorkerRuns(p) \/ At(p, "ready") =>
            LockedPaths(proc[p].lock) \subseteq store
        /\ At(p, "write") => Present(p)
=============================================================================
