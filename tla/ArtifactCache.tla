---------------------------- MODULE ArtifactCache ----------------------------
(***************************************************************************)
(* The dataset artifact cache (src/runtime/artifact_store.rs and            *)
(* artifact_store/{maintenance,catalog}.rs) as the processes that share a   *)
(* cache directory use it: runs that look up, materialize, publish, root    *)
(* and view datasets, maintenance commands that root and collect them, and  *)
(* owners that die at any point.                                            *)
(*                                                                          *)
(* The cache lock is a blocking kernel lock.  A step is what happens        *)
(* between two points where a crash, or another process, can tell the       *)
(* difference: a namespace change, a catalog transaction, or the taking of  *)
(* the lock.  An operation that changes nothing and fails (collection of a  *)
(* target that does not verify, an unknown root) is no step, and neither    *)
(* are the reports (verify_targets, roots, dry runs).  What quarantine/     *)
(* keeps is never read again and is left out.                               *)
(***************************************************************************)
EXTENDS Naturals, FiniteSets

CONSTANTS
    Procs,     \* processes that have the cache open
    Digests,   \* tree digests, i.e. content addresses
    Recipes,   \* dataset and problem derivations
    RootNames, \* names of durable roots, such as run:<output directory>
    None

ASSUME CacheAssumption == None \notin Digests \cup Recipes \cup Procs

VARIABLES
    objects,    \* objects/<digest>: none, good, or bad (fails verify_object)
    garbage,    \* garbage/<digest>: none, good, bad, or partly removed
    mapping,    \* derivations/<recipe>: the digest it is bound to
    registered, \* catalog table objects
    roots,      \* catalog table roots: <<name, digest>>
    pending,    \* catalog table gc_pending: none, intent or detached
    leases,     \* lease directories whose kernel lock is held
    lock,       \* the process that holds the cache lock
    proc        \* where each process stands

vars == <<objects, garbage, mapping, registered, roots, pending, leases,
          lock, proc>>
catalog == <<registered, roots, pending>>

Purposes == {"publication", "read", "mapping", "view"}
LeaseRecord(p, purpose, d) == <<p, purpose, d>>
Idle == [pc |-> "idle", d |-> None, r |-> None, todo |-> {}]

\* The process counters at which a StoredArtifact is in the caller's hands.
Holding == {"bind", "binding", "bound", "held", "viewing", "view"}
Waiting == {"get", "reading", "miss", "make", "staged", "drop"}
Locked == {"published", "found", "gc_garbage", "gc_clear", "gc_live",
           "gc_move", "gc_mark", "gc_sweep", "gc_forget"}

Init ==
    /\ objects = [d \in Digests |-> "none"]
    /\ garbage = [d \in Digests |-> "none"]
    /\ mapping = [r \in Recipes |-> None]
    /\ registered = {} /\ roots = {}
    /\ pending = [d \in Digests |-> "none"]
    /\ leases = {}
    /\ lock = None
    /\ proc = [p \in Procs |-> Idle]

At(p, pc) == proc[p].pc = pc
Goto(p, pc) == proc' = [proc EXCEPT ![p].pc = pc]

-----------------------------------------------------------------------------
(***************************************************************************)
(* Locks, leases and verification.                                          *)
(***************************************************************************)

\* lease(): the directory, its kernel lock and its record appear under the
\* cache lock, which is released before the lease is used.
TakeLease(p, purpose, d) ==
    /\ lock = None
    /\ leases' = leases \cup {LeaseRecord(p, purpose, d)}
    /\ UNCHANGED lock

\* Seeded fault: the guard is still held when the lease is dropped.
Release_Late(p) == lock' = p

\* Guards are declared after leases, so an early return gives the cache lock
\* back before the leases are dropped, and dropping one takes it again.
Release(p) == lock' = None

\* An operation fails: its locals go out of scope.
Fail(p) ==
    /\ Release(p)
    /\ proc' = [proc EXCEPT ![p] = [Idle EXCEPT !.pc = "drop"]]

\* verify_or_quarantine: a damaged object leaves the live address space.
Quarantine(d) == objects' = [objects EXCEPT ![d] = "none"]
Verified(d) == objects[d] = "good"

\* Lease::drop, one lease at a time, for a value that goes out of scope.
DropLease(p, from, purposes, next) ==
    /\ At(p, from)
    /\ lock = None
    /\ \E l \in leases :
          /\ l[1] = p /\ l[2] \in purposes
          /\ leases' = leases \ {l}
          /\ IF \E m \in leases \ {l} : m[1] = p /\ m[2] \in purposes
               THEN UNCHANGED proc
               ELSE IF next = "idle"
                      THEN proc' = [proc EXCEPT ![p] = Idle]
                      ELSE Goto(p, next)
    /\ UNCHANGED <<objects, garbage, mapping, catalog, lock>>

-----------------------------------------------------------------------------
(***************************************************************************)
(* A run resolves a dataset: it looks the recipe up, or constructs the      *)
(* dataset and publishes it.                                                *)
(***************************************************************************)

\* lookup_dataset reads the mapping without any lock.
LookupDataset(p, r) ==
    /\ At(p, "idle")
    /\ proc' = [proc EXCEPT ![p] =
          IF mapping[r] = None THEN [Idle EXCEPT !.pc = "make", !.r = r]
          ELSE [Idle EXCEPT !.pc = "get", !.r = r, !.d = mapping[r]]]
    /\ UNCHANGED <<objects, garbage, mapping, catalog, leases, lock>>

GetLease(p) ==
    /\ At(p, "get")
    /\ TakeLease(p, "read", proc[p].d)
    /\ Goto(p, "reading")
    /\ UNCHANGED <<objects, garbage, mapping, catalog>>

\* get(): nothing at the address is a miss, damage is an error, and a good
\* object is registered before it is handed out.
Get(p) ==
    LET d == proc[p].d IN
    /\ At(p, "reading")
    /\ lock = None
    /\ \/ /\ objects[d] = "none"
          /\ Release(p) /\ UNCHANGED objects
          /\ proc' = [proc EXCEPT ![p].pc = "miss", ![p].d = None]
       \/ objects[d] = "bad" /\ Quarantine(d) /\ Fail(p)
       \/ objects[d] = "good" /\ lock' = p /\ Goto(p, "found") /\ UNCHANGED objects
    /\ UNCHANGED <<garbage, mapping, catalog, leases>>

GetMiss(p) == DropLease(p, "miss", {"read"}, "make")

\* materialize_dataset or prepare_problem fails: a worker, the schema of its
\* output, or an input that changed.
MaterializeFails(p) ==
    /\ At(p, "make")
    /\ proc' = [proc EXCEPT ![p] = Idle]
    /\ UNCHANGED <<objects, garbage, mapping, catalog, leases, lock>>

\* import_tree takes its lease, then copies and verifies into the directory of
\* that lease without the cache lock; a tree that changed meanwhile is an error.
ImportTree(p, d) ==
    /\ TakeLease(p, "publication", d)
    /\ \/ proc' = [proc EXCEPT ![p].pc = "staged", ![p].d = d]
       \/ proc' = [proc EXCEPT ![p] = [Idle EXCEPT !.pc = "drop"]]
    /\ UNCHANGED <<objects, garbage, mapping, catalog>>

\* materialize_dataset or prepare_problem succeeds with some tree: nothing
\* makes two constructions of a recipe produce the same bytes.
Materialize(p, d) == At(p, "make") /\ ImportTree(p, d)

\* A dataset of the repository is imported without a recipe.
ImportReady(p, d) == At(p, "idle") /\ ImportTree(p, d)

\* The staged object is renamed to its address, or compared with the object
\* that is already there.
ImportPublish(p) ==
    LET d == proc[p].d IN
    /\ At(p, "staged")
    /\ lock = None
    /\ IF objects[d] = "bad"
         THEN Quarantine(d) /\ Fail(p)
         ELSE /\ objects' = [objects EXCEPT ![d] = "good"]
              /\ lock' = p
              /\ Goto(p, "published")
    /\ UNCHANGED <<garbage, mapping, catalog, leases>>

\* register_object, still under the lock; then the artifact is returned.
Register(p) ==
    /\ proc[p].pc \in {"published", "found"}
    /\ registered' = registered \cup {proc[p].d}
    /\ lock' = None
    /\ Goto(p, IF At(p, "found") \/ proc[p].r = None THEN "held" ELSE "bind")
    /\ UNCHANGED <<objects, garbage, mapping, roots, pending, leases>>

MappingLease(p) ==
    /\ At(p, "bind")
    /\ TakeLease(p, "mapping", proc[p].d)
    /\ Goto(p, "binding")
    /\ UNCHANGED <<objects, garbage, mapping, catalog>>

\* publish_dataset binds the recipe, or finds it bound: to the same output,
\* whose first receipt is kept, or to another, which is a conflict.
PublishMapping(p) ==
    LET d == proc[p].d
        r == proc[p].r IN
    /\ At(p, "binding")
    /\ lock = None
    /\ \/ ~Verified(d) /\ Quarantine(d) /\ Fail(p) /\ UNCHANGED mapping
       \/ /\ Verified(d) /\ mapping[r] \notin {None, d}
          /\ Fail(p) /\ UNCHANGED <<objects, mapping>>
       \/ /\ Verified(d) /\ mapping[r] \in {None, d}
          /\ mapping' = [mapping EXCEPT ![r] = d]
          /\ Release(p) /\ Goto(p, "bound") /\ UNCHANGED objects
    /\ UNCHANGED <<garbage, catalog, leases>>

MappingDone(p) == DropLease(p, "bound", {"mapping"}, "held")

-----------------------------------------------------------------------------
(***************************************************************************)
(* A run uses the dataset it holds.                                         *)
(***************************************************************************)

\* update_root: adding verifies the object, registers it and inserts the
\* edge; a run roots what it holds, a command any object.
AddRoot(name, d) ==
    /\ lock = None
    /\ Verified(d)
    /\ registered' = registered \cup {d}
    /\ roots' = roots \cup {<<name, d>>}
    /\ UNCHANGED <<objects, garbage, mapping, pending, leases, lock>>

RunRoot(p, name) == At(p, "held") /\ AddRoot(name, proc[p].d) /\ UNCHANGED proc
CommandRoot(p, name, d) == At(p, "idle") /\ AddRoot(name, d) /\ UNCHANGED proc

RemoveRoot(p, name, d) ==
    /\ At(p, "idle")
    /\ lock = None
    /\ <<name, d>> \in roots
    /\ roots' = roots \ {<<name, d>>}
    /\ UNCHANGED <<objects, garbage, mapping, registered, pending, leases,
                   lock, proc>>

ViewLease(p) ==
    /\ At(p, "held")
    /\ TakeLease(p, "view", proc[p].d)
    /\ Goto(p, "viewing")
    /\ UNCHANGED <<objects, garbage, mapping, catalog>>

\* private_view and DatasetView::verify check the canonical object under the
\* cache lock, the copy included; damage ends the run's use of the artifact.
\* The code may keep the value until the run ends: its leases, dropped here at
\* once, would only protect the address for longer.
CheckObject(p, from, next) ==
    /\ At(p, from)
    /\ lock = None
    /\ \/ Verified(proc[p].d) /\ Goto(p, next) /\ UNCHANGED <<objects, lock>>
       \/ ~Verified(proc[p].d) /\ Quarantine(proc[p].d) /\ Fail(p)
    /\ UNCHANGED <<garbage, mapping, catalog, leases>>

PrivateView(p) == CheckObject(p, "viewing", "view")
VerifyView(p) == CheckObject(p, "view", "view")
VerifyArtifact(p) == CheckObject(p, "held", "held")
DropView(p) == DropLease(p, "view", {"view"}, "held")

\* The run ends, and its values go out of scope.
EndUse(p) ==
    /\ At(p, "held")
    /\ proc' = [proc EXCEPT ![p] = [Idle EXCEPT !.pc = "drop"]]
    /\ UNCHANGED <<objects, garbage, mapping, catalog, leases, lock>>

DropAll(p) == DropLease(p, "drop", Purposes, "idle")

-----------------------------------------------------------------------------
(***************************************************************************)
(* Collection.  The cache lock is held from the snapshot to the last        *)
(* target; every step below leaves something a crash can expose.            *)
(***************************************************************************)

\* Seeded fault: a lease taken for publication does not protect, on the
\* ground that its object is not published yet.
Protected_Readers(d) ==
    \/ \E name \in RootNames : <<name, d>> \in roots
    \/ \E l \in leases : l[3] = d /\ l[2] # "publication"

\* leases_by_digest and the roots of the snapshot.
Protected(d) ==
    \/ \E name \in RootNames : <<name, d>> \in roots
    \/ \E l \in leases : l[3] = d

Deletable(d) ==
    /\ ~Protected(d)
    /\ objects[d] # "none" \/ garbage[d] # "none" \/ pending[d] # "none"

\* The whole selection must be acceptable before anything is detached.
Acceptable(d) ==
    /\ d \in registered
    /\ ~Protected(d) =>
          /\ objects[d] \in {"none", "good"}
          /\ garbage[d] # "none" =>
                \/ pending[d] = "detached"
                \/ pending[d] = "intent" /\ garbage[d] = "good"

Collect(p) ==
    /\ At(p, "idle")
    /\ lock = None
    /\ \E targets \in SUBSET registered :
          /\ \A d \in targets : Acceptable(d)
          /\ \E d \in targets :
                /\ Deletable(d)
                /\ proc' = [proc EXCEPT ![p] =
                      [pc |-> "gc_garbage", d |-> d, r |-> None,
                       todo |-> {e \in targets \ {d} : Deletable(e)}]]
    /\ lock' = p
    /\ UNCHANGED <<objects, garbage, mapping, catalog, leases>>

\* One step of the collection of the current target: a catalog write.
Mark(p, from, state, next) ==
    /\ At(p, from)
    /\ pending' = [pending EXCEPT ![proc[p].d] = state]
    /\ Goto(p, next)
    /\ UNCHANGED <<objects, garbage, mapping, registered, roots, leases, lock>>

\* What an earlier collection detached goes first.
ClaimGarbage(p) ==
    /\ At(p, "gc_garbage") /\ garbage[proc[p].d] # "none"
    /\ Mark(p, "gc_garbage", "detached", "gc_clear")

NoGarbage(p) ==
    /\ At(p, "gc_garbage") /\ garbage[proc[p].d] = "none"
    /\ Goto(p, "gc_live")
    /\ UNCHANGED <<objects, garbage, mapping, catalog, leases, lock>>

\* remove_dir_all can die half way.
Sweep(p, from, next) ==
    /\ At(p, from)
    /\ \/ garbage' = [garbage EXCEPT ![proc[p].d] = "partial"] /\ UNCHANGED proc
       \/ garbage' = [garbage EXCEPT ![proc[p].d] = "none"] /\ Goto(p, next)
    /\ UNCHANGED <<objects, mapping, catalog, leases, lock>>

ClearGarbage(p) == Sweep(p, "gc_clear", "gc_live")
SweepDetached(p) == Sweep(p, "gc_sweep", "gc_forget")

\* Seeded fault: the rename goes first and the claim is recorded after it.
ClaimLive_Unrecorded(p) ==
    /\ At(p, "gc_live") /\ objects[proc[p].d] # "none"
    /\ Goto(p, "gc_move")
    /\ UNCHANGED <<objects, garbage, mapping, catalog, leases, lock>>

ClaimLive(p) ==
    /\ At(p, "gc_live") /\ objects[proc[p].d] # "none"
    /\ Mark(p, "gc_live", "intent", "gc_move")

NoLive(p) ==
    /\ At(p, "gc_live") /\ objects[proc[p].d] = "none"
    /\ Goto(p, "gc_forget")
    /\ UNCHANGED <<objects, garbage, mapping, catalog, leases, lock>>

Detach(p) ==
    LET d == proc[p].d IN
    /\ At(p, "gc_move")
    /\ garbage' = [garbage EXCEPT ![d] = objects[d]]
    /\ objects' = [objects EXCEPT ![d] = "none"]
    /\ Goto(p, "gc_mark")
    /\ UNCHANGED <<mapping, catalog, leases, lock>>

MarkDetached(p) == Mark(p, "gc_mark", "detached", "gc_sweep")

\* forget deletes both rows; then the next target, or the end.
Forget(p) ==
    /\ At(p, "gc_forget")
    /\ pending' = [pending EXCEPT ![proc[p].d] = "none"]
    /\ registered' = registered \ {proc[p].d}
    /\ IF proc[p].todo = {}
         THEN lock' = None /\ proc' = [proc EXCEPT ![p] = Idle]
         ELSE /\ UNCHANGED lock
              /\ \E d \in proc[p].todo :
                    proc' = [proc EXCEPT ![p].pc = "gc_garbage", ![p].d = d,
                                         ![p].todo = @ \ {d}]
    /\ UNCHANGED <<objects, garbage, mapping, roots, leases>>

-----------------------------------------------------------------------------
(***************************************************************************)
(* The environment.                                                         *)
(***************************************************************************)

\* Bytes beneath objects/ are changed behind the program's back.
Tamper(d) ==
    /\ objects[d] = "good"
    /\ objects' = [objects EXCEPT ![d] = "bad"]
    /\ UNCHANGED <<garbage, mapping, catalog, leases, lock, proc>>

\* A process dies; the kernel gives up its locks, its lease directories stay
\* behind and count for nothing (quarantine_abandoned_leases, which would move
\* them away, has no caller in the program).
Crash(p) ==
    /\ proc[p] # Idle
    /\ lock' = IF lock = p THEN None ELSE lock
    /\ leases' = {l \in leases : l[1] # p}
    /\ proc' = [proc EXCEPT ![p] = Idle]
    /\ UNCHANGED <<objects, garbage, mapping, catalog>>

\* The steps a process takes without waiting for a decision of its user.
Step(p) ==
    \/ GetLease(p) \/ Get(p) \/ GetMiss(p) \/ MaterializeFails(p)
    \/ (\E d \in Digests : Materialize(p, d)) \/ ImportPublish(p) \/ Register(p)
    \/ MappingLease(p) \/ PublishMapping(p) \/ MappingDone(p)
    \/ PrivateView(p) \/ VerifyView(p) \/ DropView(p) \/ DropAll(p)
    \/ ClaimGarbage(p) \/ NoGarbage(p) \/ ClearGarbage(p)
    \/ ClaimLive(p) \/ NoLive(p) \/ Detach(p) \/ MarkDetached(p)
    \/ SweepDetached(p) \/ Forget(p)

Next ==
    \/ \E p \in Procs :
          \/ Step(p) \/ ViewLease(p) \/ VerifyArtifact(p)
          \/ EndUse(p) \/ Collect(p) \/ Crash(p)
          \/ \E r \in Recipes : LookupDataset(p, r)
          \/ \E d \in Digests : ImportReady(p, d)
          \/ \E name \in RootNames :
                \/ RunRoot(p, name)
                \/ \E d \in Digests :
                      CommandRoot(p, name, d) \/ RemoveRoot(p, name, d)
    \/ \E d \in Digests : Tamper(d)

Spec == Init /\ [][Next]_vars

-----------------------------------------------------------------------------
(***************************************************************************)
(* Properties.                                                              *)
(***************************************************************************)
\* Whenever no collection is running, what lies in garbage/ is accounted for
\* in gc_pending, and only a detached tree may be incomplete: a collection
\* that died anywhere between its intent, the rename and the removal, with
\* re-imports of the same tree in between, never leaves "unclaimed garbage"
\* on which every later collection of that target would fail
\* (maintenance.rs collect).
GarbageClaimed ==
    \A d \in Digests :
       lock = None /\ garbage[d] # "none" =>
          /\ d \in registered
          /\ pending[d] # "none"
          /\ garbage[d] = "partial" => pending[d] = "detached"

\* Whoever has the cache lock can go on: no operation waits for the lock it
\* holds itself, which a kernel lock taken through a second handle would make
\* it do, not even when it fails and drops its leases (Lease::drop).
HolderNotWaiting == \A p \in Procs : lock = p => ENABLED Step(p)

Pins ==
    LET holders == {p \in Procs : proc[p].pc \in Holding} IN
    {<<<<"run", p>>, proc[p].d>> : p \in holders}
    \cup {<<<<"root", edge[1]>>, edge[2]>> : edge \in roots}

Promise == INSTANCE ContentStore WITH
    live <- objects, pins <- Pins, bound <- mapping,
    Holders <- ({"run"} \X Procs) \cup ({"root"} \X RootNames)

\* The cache keeps its promise: an intact tree that a run holds or a root
\* names is never collected or replaced, whatever collections, imports of the
\* same bytes and crashes happen around it; only damage, once noticed, takes
\* it away; and a recipe's tree never changes.
KeepsItsPromise == Promise!Spec
=============================================================================
