------------------------------- MODULE Resume -------------------------------
(***************************************************************************)
(* metewand run, then metewand run --resume over the same output directory *)
(* while the author edits the manifest, hosts change, processes die and    *)
(* the power fails: src/runtime/run.rs, run/resolution.rs,                 *)
(* run_store/durable.rs, coordination.rs, recovery.rs, publisher.rs and    *)
(* publication.rs, over the plans of Planning.                             *)
(*                                                                         *)
(* One process uses the directory at a time (RunStore has the others), its *)
(* slots run one after the other, and a lease has expired by the time the  *)
(* next process starts.  Slots, observation slots and works are numbered,  *)
(* so that a state holds numbers for identities.  The database is SQLite   *)
(* with synchronous commits: a committed row survives.  A file or a        *)
(* directory entry survives a power failure only once it was synchronized. *)
(***************************************************************************)
EXTENDS PlanTables

CONSTANTS
    FirstWorlds,  \* the worlds before anything changes
    Volumes,      \* file systems for the directory: what each cannot do
    MaxEdits,     \* edits of the manifest and changes of the world
    MaxRuns,      \* invocations
    MaxAttempts,  \* attempts ever started in the directory
    MaxFaults     \* crashes and power failures

\* What the store needs of the file system it lies on.
Capabilities == {"local", "locks", "record_locks", "rename", "sqlite"}

ASSUME ResumeAssumption ==
    /\ FirstWorlds \subseteq DOMAIN Worlds
    /\ Volumes \subseteq SUBSET Capabilities
    /\ {MaxEdits, MaxRuns, MaxAttempts, MaxFaults} \subseteq Nat

-----------------------------------------------------------------------------
VARIABLES
    tree,     \* the manifest and the world an invocation would find now, and
              \* the volume that holds the directory
    run,      \* the invocation
    store,    \* run.sqlite3 and the directory around it
    objects,  \* directories of attempts: [<<attempt, kind>> -> directory]
    last,     \* the plan of the invocation before, or None (history)
    edits, runs, faults

vars == <<tree, run, store, objects, last, edits, runs, faults>>
counters == <<edits, runs, faults>>

\* The plan of an invocation is kept after its end, as history.  "todo"
\* holds positions of the plan, "attempt" the attempt that is being
\* finalized, "kind" the directory it publishes and "step" how far it is.
Idle == [pc |-> "idle", plan |-> None, resume |-> FALSE, retry |-> FALSE,
         next |-> 1, todo |-> <<>>, attempt |-> 0, kind |-> "outcome",
         step |-> "none"]

\* "version" is 0 in a database whose schema was not written; "slots" maps
\* registered attempt slots to their delivery, "owner" observation slots to
\* the attempt slot that fills them.  In an attempt, "artifact" says whether
\* the directory of its observation has a row, "row" whether the observation
\* has one.
Nothing == [exists |-> FALSE, database |-> FALSE, version |-> 0,
            slots |-> Empty, owner |-> Empty, attempts |-> <<>>]

\* A directory of another version of the program.
Newer == [Nothing EXCEPT !.exists = TRUE, !.database = TRUE, !.version = 9]

Init ==
    /\ tree \in [manifest: DOMAIN Manifests, world: FirstWorlds,
                 volume: Volumes]
    /\ run = Idle
    /\ store \in {Nothing, Newer}
    /\ objects = Empty
    /\ last = None
    /\ edits = 0 /\ runs = 0 /\ faults = 0

-----------------------------------------------------------------------------
(* Between invocations *)

Edit ==
    /\ run.pc = "idle" /\ edits < MaxEdits
    /\ \/ \E n \in DOMAIN Manifests \ {tree.manifest} :
              tree' = [tree EXCEPT !.manifest = n]
       \/ \E n \in DOMAIN Worlds \ {tree.world} :
              tree' = [tree EXCEPT !.world = n]
    /\ edits' = edits + 1
    /\ UNCHANGED <<run, store, objects, last, runs, faults>>

-----------------------------------------------------------------------------
(* Planning and opening the directory *)

\* A resumed directory has a database; a new one does not exist.
destination(resume) ==
    IF resume THEN store.exists /\ store.database ELSE ~store.exists

Start ==
    /\ run.pc = "idle" /\ runs < MaxRuns
    /\ \E resume, retry \in BOOLEAN,
          plan \in {PlanTable[[manifest |-> tree.manifest,
                               world |-> tree.world,
                               selection |-> selection]] :
                       selection \in Selections} \ {None} :
         /\ retry => resume
         /\ destination(resume)
         /\ run' = [Idle EXCEPT !.plan = plan, !.resume = resume,
                      !.retry = retry,
                      !.pc = IF resume THEN "lock" ELSE "create"]
    /\ last' = run.plan
    /\ runs' = runs + 1
    /\ UNCHANGED <<tree, store, objects, edits, faults>>

Abort == run' = [Idle EXCEPT !.plan = run.plan]

\* create_private_directory and the synchronization of its parent.
CreateDirectory ==
    /\ run.pc = "create"
    /\ store' = [store EXCEPT !.exists = TRUE]
    /\ run' = [run EXCEPT !.pc = "lock"]
    /\ UNCHANGED <<tree, objects, last, counters>>

\* The next step of opening the store, when nothing speaks against it.
Proceed(from, allowed, to) ==
    /\ run.pc = from
    /\ IF allowed THEN run' = [run EXCEPT !.pc = to] ELSE Abort

reject_network_filesystem(volume) == "local" \in volume

\* The initialization lock is free: no other process opens the directory.
AcquireLock ==
    /\ Proceed("lock", ~reject_network_filesystem(tree.volume), "preflight")
    /\ UNCHANGED <<tree, store, objects, last, counters>>

\* Two descriptors exclude each other, and a release lets the other in.
probe_locks(volume) == "locks" \notin volume

\* A record lock excludes another process, and only while it is held.
probe_record_lock(volume) == "record_locks" \notin volume

\* A rename keeps the contents and replaces no directory, full or empty.
probe_rename(volume) == "rename" \notin volume

\* One writer at a time, and readers see what was committed.
probe_sqlite(volume) == "sqlite" \notin volume

\* What the store relies on is tried in a directory that is then removed.
preflight ==
    /\ Proceed("preflight",
               /\ probe_locks(tree.volume)
               /\ probe_record_lock(tree.volume)
               /\ probe_rename(tree.volume)
               /\ probe_sqlite(tree.volume), "open")
    /\ UNCHANGED <<tree, store, objects, last, counters>>

\* open_database creates an empty file before the schema is written.
OpenDatabase ==
    /\ run.pc = "open"
    /\ store' = [store EXCEPT !.database = TRUE]
    /\ run' = [run EXCEPT !.pc = "verify"]
    /\ UNCHANGED <<tree, objects, last, counters>>

\* An empty database or one of the layouts this program writes, checked
\* before the journal is configured: other stores stay as they are.
verify_schema ==
    /\ Proceed("verify", store.version \in 0 .. 3, "layout")
    /\ UNCHANGED <<tree, store, objects, last, counters>>

\* The layout a new directory gets; a resumed one is opened without a wish.
Layout ==
    CASE run.resume -> 1
      [] run.plan.deliveries \cap {"fresh_sequence", "streaming"} # {} -> 3
      [] "buffered" \in run.plan.deliveries -> 2
      [] OTHER -> 1

\* The schema is written in one transaction, into an empty database only.
InitializeStore ==
    /\ run.pc = "layout"
    /\ store' = [store EXCEPT !.version = IF @ = 0 THEN Layout ELSE @]
    /\ run' = [run EXCEPT !.pc = IF run.resume THEN "recover"
                                 ELSE "register"]
    /\ UNCHANGED <<tree, objects, last, counters>>

-----------------------------------------------------------------------------
(* Publishing a directory *)

Running == {a \in DOMAIN store.attempts :
              store.attempts[a].state = "running"}

\* The completion marker is there and every file is what it lists.
verify_finalized_directory(o) ==
    /\ o.place = "final" /\ o.marker
    /\ o.files # "torn"

Current == <<run.attempt, run.kind>>

Publishing(step) == run.pc \in {"recover", "execute"} /\ run.step = step

Advance(step, o) ==
    /\ objects' = [x \in DOMAIN objects \cup {Current} |->
                     IF x = Current THEN o ELSE objects[x]]
    /\ run' = [run EXCEPT !.step = step]
    /\ UNCHANGED <<tree, store, last, counters>>

\* A private staging directory, itself synchronized, and its files.
Populate ==
    /\ Publishing("stage")
    /\ Advance("files", [place |-> "stage", files |-> "dirty",
                         marker |-> FALSE, entry |-> "synced"])

\* prepare_directory: every file, then every directory, bottom up.
SyncFiles ==
    /\ Publishing("files")
    /\ Advance("marker", [objects[Current] EXCEPT !.files = "synced"])

\* prepare_directory: the marker is written last, and synchronized.
WriteMarker ==
    /\ Publishing("marker")
    /\ Advance("rename", [objects[Current] EXCEPT !.marker = TRUE])

\* rename_no_replace into a name that only this attempt uses.
Rename ==
    /\ Publishing("rename")
    /\ Advance("parents", [objects[Current] EXCEPT !.place = "final",
                                                   !.entry = "dirty"])

\* publish_prepared_directory: both parents of the rename.
SyncParents ==
    /\ Publishing("parents")
    /\ Advance("commit", [objects[Current] EXCEPT !.entry = "synced"])

Publish(a, kind) ==
    run' = [run EXCEPT !.attempt = a, !.kind = kind, !.step = "stage"]

\* publish_artifact: the directory gets its row, before the observation.
CommitArtifact ==
    /\ Publishing("commit") /\ run.kind = "observation"
    /\ store' = [store EXCEPT !.attempts[run.attempt].artifact = TRUE]
    /\ run' = [run EXCEPT !.step = "register"]
    /\ UNCHANGED <<tree, objects, last, counters>>

Owns(z) == \A o \in z.observations : store.owner[o] = z.slot

\* register_observation: the row names the attempt slot as the owner of the
\* observation slot; if another one is, the error ends the run.
CommitObservation ==
    /\ Publishing("register")
    /\ IF ~Owns(run.plan.schedule[Head(run.todo)])
       THEN Abort /\ UNCHANGED store
       ELSE /\ store' = [store EXCEPT !.attempts[run.attempt].row = TRUE]
            /\ Publish(run.attempt, "outcome")
    /\ UNCHANGED <<tree, objects, last, counters>>

\* The terminal transaction.
Finish(a, result) ==
    store' = [store EXCEPT !.attempts[a].state = result]

CommitOutcome ==
    /\ Publishing("commit") /\ run.kind = "outcome"
    /\ Finish(run.attempt, store.attempts[run.attempt].result)
    /\ run' = [run EXCEPT !.step = "none", !.attempt = 0,
                 !.todo = IF run.pc = "execute" THEN Tail(@) ELSE @]
    /\ UNCHANGED <<tree, objects, last, counters>>

-----------------------------------------------------------------------------
(* Recovery *)

SyncTree_Trusting(o) == o

\* What no row names yet is synchronized again before one does, as its owner
\* may have died before it did so.
SyncTree(o) == [o EXCEPT !.files = "synced", !.entry = "synced"]

Complete(x) == x \in DOMAIN objects /\ verify_finalized_directory(objects[x])

\* The attempts, in whatever state, whose observation is complete and has no
\* row.
Unnamed == {a \in DOMAIN store.attempts :
              ~store.attempts[a].artifact /\ Complete(<<a, "observation">>)}

\* find_orphans gives every such directory its row; others stay unnamed.
ImportObservation(a) ==
    /\ run.pc = "recover" /\ run.step = "none" /\ a \in Unnamed
    /\ objects' = [objects EXCEPT ![<<a, "observation">>] = SyncTree(@)]
    /\ store' = [store EXCEPT !.attempts[a].artifact = TRUE]
    /\ UNCHANGED <<tree, run, last, counters>>

\* find_orphans is done and attempts are looked at.
Recovering == run.pc = "recover" /\ run.step = "none" /\ Unnamed = {}

\* The directories that the outcome of an attempt refers to.
Roots(a) == IF store.attempts[a].row THEN {<<a, "observation">>} ELSE {}

\* A complete outcome whose roots are complete.
Orphan(a) == \A x \in Roots(a) \cup {<<a, "outcome">>} : Complete(x)

\* Roots, then the outcome, are synchronized, and the outcome is adopted.
ImportOutcome(a) ==
    /\ Recovering /\ a \in Running /\ Orphan(a)
    /\ objects' = [x \in DOMAIN objects |->
                     IF x \in Roots(a) \cup {<<a, "outcome">>}
                     THEN SyncTree(objects[x]) ELSE objects[x]]
    /\ Finish(a, store.attempts[a].result)
    /\ UNCHANGED <<tree, run, last, counters>>

\* Anything less is never named; the model keeps the interruption that is
\* published beside it.
Interrupt(a) ==
    /\ Recovering /\ a \in Running /\ ~Orphan(a)
    /\ store' = [store EXCEPT !.attempts[a].result = "failed"]
    /\ Publish(a, "outcome")
    /\ UNCHANGED <<tree, objects, last, counters>>

RecoveryDone ==
    /\ Recovering /\ Running = {}
    /\ run' = [run EXCEPT !.pc = "register"]
    /\ UNCHANGED <<tree, store, objects, last, counters>>

-----------------------------------------------------------------------------
(* Registration and execution *)

\* The layouts that can hold a delivery.
Supports(delivery) ==
    CASE delivery = "one_shot" -> {1, 2, 3}
      [] delivery = "buffered" -> {2, 3}
      [] OTHER -> {3}

\* register_execution: the first slot to name an observation slot owns it.
Registered(z) ==
    [store EXCEPT
        !.slots = @ @@ (z.slot :> z.delivery),
        !.owner = @ @@ [o \in z.observations |-> z.slot]]

Accepting(slot) == \E a \in DOMAIN store.attempts :
    store.attempts[a].slot = slot /\ store.attempts[a].state = "accepted"

Attempted(slot) == \E a \in DOMAIN store.attempts :
    store.attempts[a].slot = slot

\* slot_progress: what is left to do.
Eligible(slot) ==
    ~Accepting(slot) /\ (Attempted(slot) => run.retry)

Register ==
    /\ run.pc = "register" /\ run.next \in DOMAIN run.plan.schedule
    /\ LET z == run.plan.schedule[run.next] IN
         IF store.version \notin Supports(z.delivery)
         THEN Abort /\ UNCHANGED store
         ELSE /\ store' = Registered(z)
              /\ run' = [run EXCEPT !.next = @ + 1,
                   !.todo = IF Eligible(z.slot) THEN Append(@, run.next)
                            ELSE @]
    /\ UNCHANGED <<tree, objects, last, counters>>

RegistrationDone ==
    /\ run.pc = "register" /\ run.next \notin DOMAIN run.plan.schedule
    /\ run' = [run EXCEPT !.pc = "execute"]
    /\ UNCHANGED <<tree, store, objects, last, counters>>

\* Reserve an attempt, run its workers, and publish what they produced.
Execute ==
    /\ run.pc = "execute" /\ run.step = "none" /\ run.todo # <<>>
    /\ Len(store.attempts) < MaxAttempts
    /\ \E result \in {"accepted", "failed"} :
         LET z == run.plan.schedule[Head(run.todo)] IN
         /\ store' = [store EXCEPT !.attempts = Append(@,
                [slot |-> z.slot, work |-> z.work, state |-> "running",
                 result |-> result, artifact |-> FALSE, row |-> FALSE])]
         /\ Publish(Len(store.attempts) + 1,
                    IF result = "accepted" THEN "observation"
                    ELSE "outcome")
    /\ UNCHANGED <<tree, objects, last, counters>>

\* The schedule is done, or --max-attempts was reached.
Stop ==
    /\ run.pc = "execute" /\ run.step = "none"
    /\ Abort
    /\ UNCHANGED <<tree, store, objects, last, counters>>

-----------------------------------------------------------------------------
(* Faults *)

\* The process dies; the files it wrote are still what it wrote.
Crash ==
    /\ run.pc # "idle" /\ faults < MaxFaults
    /\ Abort
    /\ faults' = faults + 1
    /\ UNCHANGED <<tree, store, objects, last, edits, runs>>

\* What may be left of a directory: unsynchronized files may be torn, an
\* unsynchronized rename may be undone.
Survives(o) ==
    LET files == IF o.files = "dirty" THEN {"synced", "torn"} ELSE {o.files}
        places == IF o.entry = "dirty" THEN {"stage", "final"} ELSE {o.place}
    IN  {[place |-> left[1], files |-> left[2], marker |-> o.marker,
          entry |-> "synced"] : left \in places \X files}

PowerLoss ==
    /\ faults < MaxFaults
    /\ Abort
    /\ objects' \in {f \in [DOMAIN objects ->
                         UNION {Survives(objects[x]) :
                                   x \in DOMAIN objects}] :
                        \A x \in DOMAIN objects :
                            f[x] \in Survives(objects[x])}
    /\ faults' = faults + 1
    /\ UNCHANGED <<tree, store, last, edits, runs>>

Next ==
    \/ Edit \/ Start \/ CreateDirectory \/ AcquireLock \/ preflight
    \/ OpenDatabase \/ verify_schema \/ InitializeStore
    \/ Populate \/ SyncFiles \/ WriteMarker \/ Rename \/ SyncParents
    \/ CommitArtifact \/ CommitObservation \/ CommitOutcome
    \/ \E a \in Unnamed : ImportObservation(a)
    \/ \E a \in Running : ImportOutcome(a) \/ Interrupt(a)
    \/ RecoveryDone \/ Register \/ RegistrationDone \/ Execute \/ Stop
    \/ Crash \/ PowerLoss

Spec == Init /\ [][Next]_vars

-----------------------------------------------------------------------------
(* Properties *)

\* A result is reused for a slot of the schedule only when it came from the
\* work this schedule would run: the identities of resolution.rs and
\* identity.rs leave out nothing that the manifest, the data and the program
\* (or the lock) say of a measurement, so after an edit of a source, a
\* parameter, a policy or an evaluator, and with other data or another
\* program, operating system or architecture, --resume runs the measurement
\* again.  It does not after an upgrade of the libraries that a local program
\* loads, or on other hardware: dependency_closure is null (resolution.rs),
\* and a world that differs in these alone does the same work.
ReusedWorkIsSame ==
    run.plan # None =>
        \A j \in DOMAIN run.plan.schedule, a \in DOMAIN store.attempts :
            /\ store.attempts[a].state = "accepted"
            /\ store.attempts[a].slot = run.plan.schedule[j].slot
            => store.attempts[a].work = run.plan.schedule[j].work

\* The schedule of an invocation has every observation slot of the selected
\* experiments exactly once, and each measurement holds the observations of
\* one repetition, all of them, also when a selection named one in the
\* middle of a capture: plan_specification's step_by, preselect's chunks
\* and resolve_candidate's filter agree for every delivery.
CoveredOnce == run.plan # None => run.plan.covered

\* Two slots of a randomized experiment that the invocation before also had
\* keep their order, whatever was added, removed or selected in between: no
\* priority (derive_attempt_scheduling_priority and
\* derive_block_scheduling_priority) depends on the other members.
OrderStable ==
    run.plan # None /\ last # None =>
        LET now == run.plan.schedule
            was == last.schedule
        IN  \A i, j \in DOMAIN now, u, v \in DOMAIN was :
              /\ i < j /\ now[i].slot = was[u].slot
              /\ now[j].slot = was[v].slot
              /\ now[i].shuffled /\ now[i].experiment = now[j].experiment
              => u < v

\* Every directory that a committed row names is complete, whenever the
\* process dies or the power fails: prepare_directory and
\* publish_prepared_directory, and recovery's two imports, of observations
\* left without a row and of outcomes, synchronize what a row will name
\* before the row is committed.
ReferencesDurable ==
    \A a \in DOMAIN store.attempts :
        /\ store.attempts[a].artifact =>
               verify_finalized_directory(objects[<<a, "observation">>])
        /\ store.attempts[a].state # "running" =>
               verify_finalized_directory(objects[<<a, "outcome">>])

\* A slot registered for a measurement owns the observation slots that the
\* measurement fills ("A measured execution that produces one observation
\* slot.", records.rs), so that "Resume preserves accepted slots and fills
\* eligible unfinished work." (docs/design.md).
SlotsOwnObservations ==
    run.pc = "execute" =>
        \A j \in DOMAIN run.plan.schedule :
            \A o \in run.plan.schedule[j].observations :
                store.owner[o] = run.plan.schedule[j].slot
=============================================================================
