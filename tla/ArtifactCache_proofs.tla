------------------------ MODULE ArtifactCache_proofs ------------------------
(***************************************************************************)
(* Proofs about ArtifactCache, for every set of processes, digests, recipes *)
(* and root names: garbage is always claimed, and the cache implements      *)
(* ContentStore.                                                            *)
(*                                                                          *)
(* Everything rests on the cache lock.  A process is at a locked step       *)
(* exactly while it has the lock; leases and roots only appear while nobody *)
(* has it.  So what a collection found unprotected when it started stays    *)
(* unprotected until its last target, while whoever holds a tree has had a  *)
(* lease on it since before it saw the tree.                                *)
(***************************************************************************)
EXTENDS ArtifactCache, TLAPS

Trees == {"none", "good", "bad"}
Collecting == {"gc_garbage", "gc_clear", "gc_live", "gc_move", "gc_mark",
               "gc_sweep", "gc_forget"}
PCs == {"idle"} \cup Holding \cup Waiting \cup Locked

ProcType == [pc : PCs, d : Digests \cup {None}, r : Recipes \cup {None},
             todo : SUBSET Digests]

Shape ==
    /\ objects \in [Digests -> Trees]
    /\ garbage \in [Digests -> Trees \cup {"partial"}]
    /\ mapping \in [Recipes -> Digests \cup {None}]
    /\ registered \subseteq Digests
    /\ roots \subseteq RootNames \X Digests
    /\ pending \in [Digests -> {"none", "intent", "detached"}]
    /\ leases \subseteq Procs \X Purposes \X Digests
    /\ lock \in Procs \cup {None}
    /\ proc \in [Procs -> ProcType]

\* Where a process is on its way to, or has, a tree, its digest is one; and
\* where it works for a recipe, the recipe is one.
Aimed ==
    \A p \in Procs :
        /\ proc[p].pc \in (Holding \cup Collecting \cup
                {"get", "reading", "staged", "published", "found"}) => proc[p].d \in Digests
        /\ proc[p].pc \in {"bind", "binding"} => proc[p].r \in Recipes

\* The lock is held exactly where the code is inside a guard.
LockWhereUsed == \A p \in Procs : lock = p <=> proc[p].pc \in Locked

\* From before it looks at a tree until its locals go out of scope, a process
\* has the lease of get or of import_tree on it.
LeaseBehindHold ==
    \A p \in Procs :
        proc[p].pc \in (Holding \cup {"reading", "staged", "published", "found"}) =>
           \E purpose \in {"read", "publication"} :
              LeaseRecord(p, purpose, proc[p].d) \in leases

\* What is about to be handed out is there.
SeenUnderLock ==
    \A p \in Procs :
        proc[p].pc \in {"published", "found"} => objects[proc[p].d] # "none"

\* A collection's current and remaining targets stay unprotected.
TargetsFree ==
    \A p \in Procs, d \in Digests :
        proc[p].pc \in Collecting /\ (d = proc[p].d \/ d \in proc[p].todo) =>
           d \in registered /\ ~Protected(d)

\* GarbageClaimed, but at every moment, also within a collection.
ClaimedAlways ==
    \A d \in Digests : garbage[d] # "none" =>
        /\ d \in registered
        /\ pending[d] # "none"
        /\ garbage[d] = "partial" => pending[d] = "detached"

\* How far the collection of the current target has come.
CollectionProgress ==
    \A p \in Procs :
        /\ proc[p].pc \in Collecting => proc[p].d \notin proc[p].todo
        /\ proc[p].pc \in {"gc_live", "gc_move", "gc_forget"} => garbage[proc[p].d] = "none"
        /\ proc[p].pc \in {"gc_clear", "gc_sweep"} => pending[proc[p].d] = "detached"
        /\ proc[p].pc \in {"gc_move", "gc_mark"} => pending[proc[p].d] = "intent"

IInv ==
    /\ Shape /\ Aimed /\ LockWhereUsed /\ LeaseBehindHold /\ SeenUnderLock
    /\ TargetsFree /\ ClaimedAlways /\ CollectionProgress
-----------------------------------------------------------------------------
(***************************************************************************)
(* Steps of one kind.                                                       *)
(***************************************************************************)
\* Protection only ever shrinks where no lease is taken and no root added.
LEMMA ProtectedFrame ==
    ASSUME roots' \subseteq roots, leases' \subseteq leases
    PROVE  \A d : ~Protected(d) => ~Protected(d)'
BY DEF Protected

\* Lease::drop gives up one lease of the kind that goes out of scope; every
\* other lease stays.
LEMMA DropLeaseEffect ==
    ASSUME IInv, NEW p \in Procs, NEW from, NEW purposes, NEW next,
           DropLease(p, from, purposes, next)
    PROVE  /\ proc[p].pc = from /\ lock = None
           /\ leases' \subseteq leases
           /\ \A m \in leases : m[1] # p \/ m[2] \notin purposes => m \in leases'
           /\ \/ UNCHANGED proc
              \/ next = "idle" /\ proc' = [proc EXCEPT ![p] = Idle]
              \/ next # "idle" /\ proc' = [proc EXCEPT ![p].pc = next]
           /\ UNCHANGED <<objects, garbage, mapping, registered, roots, pending, lock>>
BY DEF DropLease, At, Goto, catalog

\* A step taken under the free lock by a process that is not collecting, after
\* which it may have the lock: nobody else is inside a guard.
LEMMA FreeLockStep ==
    ASSUME IInv, NEW p \in Procs, NEW new \in ProcType, lock = None,
           proc' = [proc EXCEPT ![p] = new],
           objects' \in [Digests -> Trees],
           mapping' \in [Recipes -> Digests \cup {None}],
           leases' \subseteq Procs \X Purposes \X Digests, leases \subseteq leases',
           UNCHANGED <<garbage, registered, roots, pending>>,
           new.pc \notin Collecting,
           lock' = IF new.pc \in Locked THEN p ELSE None,
           new.pc \in (Holding \cup {"get", "reading", "staged", "published", "found"}) =>
              new.d \in Digests,
           new.pc \in {"bind", "binding"} => new.r \in Recipes,
           new.pc \in (Holding \cup {"reading", "staged", "published", "found"}) =>
              \E purpose \in {"read", "publication"} :
                 LeaseRecord(p, purpose, new.d) \in leases',
           new.pc \in {"published", "found"} => objects'[new.d] # "none"
    PROVE  IInv'
<1>1. \A q \in Procs : proc[q].pc \notin Locked
  BY CacheAssumption DEF IInv, Shape, LockWhereUsed
<1>2. /\ proc'[p] = new
      /\ \A q \in Procs \ {p} : proc'[q] = proc[q]
      /\ \A q \in Procs : proc'[q].pc \notin Collecting
  BY <1>1 DEF IInv, Shape, Locked, Collecting
<1>3. Shape'
  BY DEF IInv, Shape, Locked
<1>4. Aimed' /\ LockWhereUsed'
  BY <1>1, <1>2, CacheAssumption DEF IInv, Shape, Aimed, LockWhereUsed
<1>5. LeaseBehindHold'
  BY <1>2 DEF IInv, LeaseBehindHold
<1>6. SeenUnderLock'
  BY <1>1, <1>2 DEF IInv, SeenUnderLock, Locked
<1>7. TargetsFree' /\ ClaimedAlways' /\ CollectionProgress'
  BY <1>2 DEF IInv, TargetsFree, ClaimedAlways, CollectionProgress, Collecting
<1> QED BY <1>3, <1>4, <1>5, <1>6, <1>7 DEF IInv

\* A process that gives up drops what it has.
LEMMA GiveUpStep ==
    ASSUME IInv, NEW p \in Procs, lock = None, lock' = None,
           proc' = [proc EXCEPT ![p] = [Idle EXCEPT !.pc = "drop"]],
           objects' \in [Digests -> Trees],
           leases' \subseteq Procs \X Purposes \X Digests, leases \subseteq leases',
           UNCHANGED <<garbage, mapping, registered, roots, pending>>
    PROVE  IInv'
<1> DEFINE new == [Idle EXCEPT !.pc = "drop"]
<1>1. new \in ProcType /\ new.pc = "drop"
  BY DEF Idle, ProcType, PCs, Waiting
<1>2. mapping' \in [Recipes -> Digests \cup {None}]
  BY DEF IInv, Shape
<1> HIDE DEF new
<1>3. proc' = [proc EXCEPT ![p] = new]
  BY DEF new
<1> QED BY <1>1, <1>2, <1>3, FreeLockStep DEF Holding, Locked, Collecting

\* A process that holds a tree goes on holding it.
LEMMA HoldOnStep ==
    ASSUME IInv, NEW p \in Procs, lock = None, lock' = None,
           proc[p].pc \in Holding, NEW next \in Holding \ {"bind", "binding"},
           proc' = [proc EXCEPT ![p].pc = next],
           mapping' \in [Recipes -> Digests \cup {None}],
           leases' \subseteq Procs \X Purposes \X Digests, leases \subseteq leases',
           UNCHANGED <<objects, garbage, registered, roots, pending>>
    PROVE  IInv'
<1> DEFINE new == [proc[p] EXCEPT !.pc = next]
<1>1. new \in ProcType /\ new.pc = next /\ new.d = proc[p].d
  BY DEF IInv, Shape, ProcType, PCs
<1>2. /\ proc[p].d \in Digests
      /\ \E purpose \in {"read", "publication"} : LeaseRecord(p, purpose, proc[p].d) \in leases
  BY DEF IInv, Aimed, LeaseBehindHold
<1>3. objects' \in [Digests -> Trees]
  BY DEF IInv, Shape
<1>4. next \notin Locked /\ next \notin Collecting /\ next \notin {"published", "found"}
  BY DEF Holding, Locked, Collecting
<1>5. proc' = [proc EXCEPT ![p] = new]
  OBVIOUS
<1> HIDE DEF new
<1> QED BY <1>1, <1>2, <1>3, <1>4, <1>5, FreeLockStep

LEMMA ImportTreeKeeps ==
    ASSUME IInv, NEW p \in Procs, NEW d \in Digests, ImportTree(p, d)
    PROVE  IInv'
<1>1. /\ lock = None /\ lock' = None
      /\ leases' = leases \cup {<<p, "publication", d>>}
      /\ UNCHANGED <<objects, garbage, mapping, registered, roots, pending>>
  BY DEF ImportTree, TakeLease, LeaseRecord, catalog
<1>2. /\ objects' \in [Digests -> Trees] /\ mapping' \in [Recipes -> Digests \cup {None}]
      /\ leases' \subseteq Procs \X Purposes \X Digests /\ leases \subseteq leases'
  BY <1>1 DEF IInv, Shape, Purposes
<1>3. CASE proc' = [proc EXCEPT ![p].pc = "staged", ![p].d = d]
  <2> DEFINE new == [proc[p] EXCEPT !.pc = "staged", !.d = d]
  <2>1. new \in ProcType /\ new.pc = "staged" /\ new.d = d
    BY DEF IInv, Shape, ProcType, PCs, Waiting
  <2>2. LeaseRecord(p, "publication", d) \in leases'
    BY <1>1 DEF LeaseRecord
  <2>3. proc' = [proc EXCEPT ![p] = new]
    BY <1>3
  <2> HIDE DEF new
  <2> QED BY <1>1, <1>2, <2>1, <2>2, <2>3, FreeLockStep DEF Holding, Locked, Collecting
<1>4. CASE proc' = [proc EXCEPT ![p] = [Idle EXCEPT !.pc = "drop"]]
  BY <1>1, <1>2, <1>4, GiveUpStep
<1> QED BY <1>3, <1>4 DEF ImportTree

LEMMA PublishMappingKeeps ==
    ASSUME IInv, NEW p \in Procs, PublishMapping(p)
    PROVE  IInv'
<1>1. /\ proc[p].pc = "binding" /\ lock = None
      /\ UNCHANGED <<garbage, registered, roots, pending, leases>>
  BY DEF PublishMapping, At, catalog
<1>2. proc[p].d \in Digests /\ proc[p].r \in Recipes
  BY <1>1 DEF IInv, Aimed, Holding
<1>3. leases' \subseteq Procs \X Purposes \X Digests
  BY <1>1 DEF IInv, Shape
<1>4. CASE Fail(p) /\ UNCHANGED mapping
  <2>1. objects' \in {objects, [objects EXCEPT ![proc[p].d] = "none"]}
    BY DEF PublishMapping, Quarantine
  <2>2. objects' \in [Digests -> Trees]
    BY <1>2, <2>1 DEF IInv, Shape, Trees
  <2> QED BY <1>1, <1>3, <1>4, <2>2, GiveUpStep DEF Fail, Release
<1>5. CASE /\ mapping' = [mapping EXCEPT ![proc[p].r] = proc[p].d]
           /\ Release(p) /\ Goto(p, "bound") /\ UNCHANGED objects
  <2>1. mapping' \in [Recipes -> Digests \cup {None}]
    BY <1>2, <1>5 DEF IInv, Shape
  <2> QED BY <1>1, <1>3, <1>5, <2>1, HoldOnStep DEF Goto, Release, Holding
<1> QED BY <1>4, <1>5 DEF PublishMapping

LEMMA CheckObjectKeeps ==
    ASSUME IInv, NEW p \in Procs, NEW from \in Holding,
           NEW next \in {"view", "held"}, CheckObject(p, from, next)
    PROVE  IInv'
<1>1. /\ proc[p].pc = from /\ lock = None
      /\ UNCHANGED <<garbage, mapping, registered, roots, pending, leases>>
  BY DEF CheckObject, At, catalog
<1>2. /\ mapping' \in [Recipes -> Digests \cup {None}]
      /\ leases' \subseteq Procs \X Purposes \X Digests
  BY <1>1 DEF IInv, Shape
<1>3. CASE Goto(p, next) /\ UNCHANGED <<objects, lock>>
  BY <1>1, <1>2, <1>3, HoldOnStep DEF Goto, Holding
<1>4. CASE Quarantine(proc[p].d) /\ Fail(p)
  <2>1. objects' \in [Digests -> Trees]
    BY <1>4 DEF Quarantine, IInv, Shape, Trees
  <2> QED BY <1>1, <1>2, <1>4, <2>1, GiveUpStep DEF Fail, Release
<1> QED BY <1>3, <1>4 DEF CheckObject
-----------------------------------------------------------------------------
(***************************************************************************)
(* Every action keeps the invariant.                                        *)
(***************************************************************************)
LEMMA GetMissKeeps ==
    ASSUME IInv, NEW p \in Procs, GetMiss(p)
    PROVE  IInv'
<1>1. DropLease(p, "miss", {"read"}, "make")
  BY DEF GetMiss
<1>2. /\ proc[p].pc = "miss" /\ lock = None
      /\ leases' \subseteq leases
      /\ \A m \in leases : m[1] # p \/ m[2] \notin {"read"} => m \in leases'
      /\ UNCHANGED proc \/ proc' = [proc EXCEPT ![p].pc = "make"]
      /\ UNCHANGED <<objects, garbage, mapping, registered, roots, pending, lock>>
  BY <1>1, DropLeaseEffect
<1>3. Shape'
  BY <1>2 DEF IInv, Shape, ProcType, Idle, Holding, Waiting, Locked, Collecting, PCs
<1>4. Aimed' /\ LockWhereUsed' /\ SeenUnderLock'
  BY <1>2 DEF IInv, Shape, ProcType, Aimed, LockWhereUsed, SeenUnderLock, Idle, Holding,
     Waiting, Locked, Collecting, PCs
<1>5. LeaseBehindHold'
  BY <1>2 DEF IInv, Shape, ProcType, LeaseBehindHold, LeaseRecord, Idle, Holding,
     Waiting, Locked, Collecting, PCs
<1>6. TargetsFree'
  BY <1>2, ProtectedFrame DEF IInv, Shape, ProcType, TargetsFree, Idle, Holding,
     Waiting, Locked, Collecting, PCs
<1>7. ClaimedAlways' /\ CollectionProgress'
  BY <1>2 DEF IInv, Shape, ProcType, ClaimedAlways, CollectionProgress, Idle, Holding,
     Waiting, Locked, Collecting, PCs
<1> QED BY <1>3, <1>4, <1>5, <1>6, <1>7 DEF IInv

LEMMA MappingDoneKeeps ==
    ASSUME IInv, NEW p \in Procs, MappingDone(p)
    PROVE  IInv'
<1>1. DropLease(p, "bound", {"mapping"}, "held")
  BY DEF MappingDone
<1>2. /\ proc[p].pc = "bound" /\ lock = None
      /\ leases' \subseteq leases
      /\ \A m \in leases : m[1] # p \/ m[2] \notin {"mapping"} => m \in leases'
      /\ UNCHANGED proc \/ proc' = [proc EXCEPT ![p].pc = "held"]
      /\ UNCHANGED <<objects, garbage, mapping, registered, roots, pending, lock>>
  BY <1>1, DropLeaseEffect
<1>3. Shape'
  BY <1>2 DEF IInv, Shape, ProcType, Idle, Holding, Waiting, Locked, Collecting, PCs
<1>4. Aimed' /\ LockWhereUsed' /\ SeenUnderLock'
  BY <1>2 DEF IInv, Shape, ProcType, Aimed, LockWhereUsed, SeenUnderLock, Idle, Holding,
     Waiting, Locked, Collecting, PCs
<1>5. LeaseBehindHold'
  BY <1>2 DEF IInv, Shape, ProcType, LeaseBehindHold, LeaseRecord, Idle, Holding,
     Waiting, Locked, Collecting, PCs
<1>6. TargetsFree'
  BY <1>2, ProtectedFrame DEF IInv, Shape, ProcType, TargetsFree, Idle, Holding,
     Waiting, Locked, Collecting, PCs
<1>7. ClaimedAlways' /\ CollectionProgress'
  BY <1>2 DEF IInv, Shape, ProcType, ClaimedAlways, CollectionProgress, Idle, Holding,
     Waiting, Locked, Collecting, PCs
<1> QED BY <1>3, <1>4, <1>5, <1>6, <1>7 DEF IInv

LEMMA DropViewKeeps ==
    ASSUME IInv, NEW p \in Procs, DropView(p)
    PROVE  IInv'
<1>1. DropLease(p, "view", {"view"}, "held")
  BY DEF DropView
<1>2. /\ proc[p].pc = "view" /\ lock = None
      /\ leases' \subseteq leases
      /\ \A m \in leases : m[1] # p \/ m[2] \notin {"view"} => m \in leases'
      /\ UNCHANGED proc \/ proc' = [proc EXCEPT ![p].pc = "held"]
      /\ UNCHANGED <<objects, garbage, mapping, registered, roots, pending, lock>>
  BY <1>1, DropLeaseEffect
<1>3. Shape'
  BY <1>2 DEF IInv, Shape, ProcType, Idle, Holding, Waiting, Locked, Collecting, PCs
<1>4. Aimed' /\ LockWhereUsed' /\ SeenUnderLock'
  BY <1>2 DEF IInv, Shape, ProcType, Aimed, LockWhereUsed, SeenUnderLock, Idle, Holding,
     Waiting, Locked, Collecting, PCs
<1>5. LeaseBehindHold'
  BY <1>2 DEF IInv, Shape, ProcType, LeaseBehindHold, LeaseRecord, Idle, Holding,
     Waiting, Locked, Collecting, PCs
<1>6. TargetsFree'
  BY <1>2, ProtectedFrame DEF IInv, Shape, ProcType, TargetsFree, Idle, Holding,
     Waiting, Locked, Collecting, PCs
<1>7. ClaimedAlways' /\ CollectionProgress'
  BY <1>2 DEF IInv, Shape, ProcType, ClaimedAlways, CollectionProgress, Idle, Holding,
     Waiting, Locked, Collecting, PCs
<1> QED BY <1>3, <1>4, <1>5, <1>6, <1>7 DEF IInv

LEMMA DropAllKeeps ==
    ASSUME IInv, NEW p \in Procs, DropAll(p)
    PROVE  IInv'
<1>1. DropLease(p, "drop", Purposes, "idle")
  BY DEF DropAll
<1>2. /\ proc[p].pc = "drop" /\ lock = None
      /\ leases' \subseteq leases
      /\ \A m \in leases : m[1] # p \/ m[2] \notin Purposes => m \in leases'
      /\ UNCHANGED proc \/ proc' = [proc EXCEPT ![p] = Idle]
      /\ UNCHANGED <<objects, garbage, mapping, registered, roots, pending, lock>>
  BY <1>1, DropLeaseEffect
<1>3. Shape'
  BY <1>2 DEF IInv, Shape, ProcType, Idle, Holding, Waiting, Locked, Collecting, PCs
<1>4. Aimed' /\ LockWhereUsed' /\ SeenUnderLock'
  <2>1. Aimed'
    <3> SUFFICES ASSUME proc' = [proc EXCEPT ![p] = Idle] PROVE Aimed'
      BY <1>2 DEF IInv, Aimed
    <3>1. proc'[p] = Idle /\ \A q \in Procs : q # p => proc'[q] = proc[q]
      BY DEF IInv, Shape
    <3> QED BY <3>1 DEF IInv, Aimed, Idle, Holding, Collecting
  <2>2. LockWhereUsed'
    BY <1>2 DEF IInv, Shape, ProcType, LockWhereUsed, Idle, Locked
  <2>3. SeenUnderLock'
    BY <1>2 DEF IInv, Shape, ProcType, SeenUnderLock, Idle, Holding, Waiting, Locked,
       Collecting, PCs
  <2> QED BY <2>1, <2>2, <2>3
<1>5. LeaseBehindHold'
  BY <1>2 DEF IInv, Shape, ProcType, LeaseBehindHold, LeaseRecord, Idle, Holding,
     Waiting, Locked, Collecting, PCs
<1>6. TargetsFree'
  BY <1>2, ProtectedFrame DEF IInv, Shape, ProcType, TargetsFree, Idle, Holding,
     Waiting, Locked, Collecting, PCs
<1>7. ClaimedAlways' /\ CollectionProgress'
  BY <1>2 DEF IInv, Shape, ProcType, ClaimedAlways, CollectionProgress, Idle, Holding,
     Waiting, Locked, Collecting, PCs
<1> QED BY <1>3, <1>4, <1>5, <1>6, <1>7 DEF IInv

LEMMA ViewLeaseKeeps ==
    ASSUME IInv, NEW p \in Procs, ViewLease(p)
    PROVE  IInv'
<1>1. /\ proc[p].pc = "held" /\ lock = None /\ lock' = None
      /\ leases' = leases \cup {<<p, "view", proc[p].d>>}
      /\ UNCHANGED <<objects, garbage, mapping, registered, roots, pending>>
      /\ proc' = [proc EXCEPT ![p].pc = "viewing"]
  BY DEF ViewLease, At, Goto, TakeLease, LeaseRecord, catalog
<1>2. /\ mapping' \in [Recipes -> Digests \cup {None}]
      /\ leases' \subseteq Procs \X Purposes \X Digests
  BY <1>1 DEF IInv, Shape, Aimed, Holding, Purposes
<1> QED BY <1>1, <1>2, HoldOnStep DEF Holding

LEMMA LookupDatasetKeeps ==
    ASSUME IInv, NEW p \in Procs, NEW r \in Recipes, LookupDataset(p, r)
    PROVE  IInv'
<1>1. Shape'
  BY CacheAssumption DEF IInv, Shape, ProcType, Trees, Aimed, LookupDataset, Idle, At,
       catalog, Holding, Waiting, Locked, Collecting, PCs
<1>2. Aimed' /\ LockWhereUsed' /\ LeaseBehindHold' /\ SeenUnderLock'
  BY CacheAssumption DEF IInv, Shape, ProcType, Aimed, LockWhereUsed, LeaseBehindHold,
       SeenUnderLock, LookupDataset, Idle, LeaseRecord, At, catalog, Holding, Waiting,
       Locked, Collecting, PCs
<1>3. ClaimedAlways' /\ CollectionProgress'
  BY CacheAssumption DEF IInv, Shape, ProcType, Trees, Aimed, LockWhereUsed,
       TargetsFree, ClaimedAlways, CollectionProgress, LookupDataset, Idle, At, catalog,
       Holding, Waiting, Locked, Collecting, PCs
<1>4. \A e \in Digests : ~Protected(e) => ~Protected(e)'
  BY ProtectedFrame DEF LookupDataset, Idle, catalog
<1>5. TargetsFree'
  BY <1>4, CacheAssumption DEF IInv, Shape, ProcType, TargetsFree, LockWhereUsed,
       LookupDataset, Idle, At, catalog, Holding, Waiting, Locked, Collecting, PCs
<1> QED BY <1>1, <1>2, <1>3, <1>5 DEF IInv

LEMMA GetLeaseKeeps ==
    ASSUME IInv, NEW p \in Procs, GetLease(p)
    PROVE  IInv'
<1>1. Shape'
  BY CacheAssumption DEF IInv, Shape, ProcType, Trees, Aimed, GetLease, TakeLease,
       LeaseRecord, Purposes, Goto, At, catalog, Holding, Waiting, Locked, Collecting,
       PCs
<1>2. Aimed' /\ LockWhereUsed' /\ LeaseBehindHold' /\ SeenUnderLock'
  BY CacheAssumption DEF IInv, Shape, ProcType, Aimed, LockWhereUsed, LeaseBehindHold,
       SeenUnderLock, GetLease, TakeLease, LeaseRecord, Purposes, Goto, At, catalog,
       Holding, Waiting, Locked, Collecting, PCs
<1>3. ClaimedAlways' /\ CollectionProgress'
  BY CacheAssumption DEF IInv, Shape, ProcType, Trees, Aimed, LockWhereUsed,
       TargetsFree, ClaimedAlways, CollectionProgress, GetLease, TakeLease, LeaseRecord,
       Purposes, Goto, At, catalog, Holding, Waiting, Locked, Collecting, PCs
<1>4. TargetsFree'
  BY CacheAssumption DEF IInv, Shape, ProcType, TargetsFree, LockWhereUsed, GetLease,
       TakeLease, LeaseRecord, Purposes, Goto, At, catalog, Holding, Waiting, Locked,
       Collecting, PCs
<1> QED BY <1>1, <1>2, <1>3, <1>4 DEF IInv

LEMMA GetKeeps ==
    ASSUME IInv, NEW p \in Procs, Get(p)
    PROVE  IInv'
<1>1. Shape'
  BY SMTT(30), CacheAssumption DEF IInv, Shape, ProcType, Trees, Aimed, Get, Release, Fail,
       Quarantine, Goto, Idle, At, catalog, Holding, Waiting, Locked, Collecting, PCs
<1>2. Aimed' /\ LockWhereUsed' /\ LeaseBehindHold' /\ SeenUnderLock'
  BY SMTT(30), CacheAssumption DEF IInv, Shape, ProcType, Aimed, LockWhereUsed, LeaseBehindHold,
       SeenUnderLock, Get, Release, Fail, Quarantine, Goto, Idle, LeaseRecord, At,
       catalog, Holding, Waiting, Locked, Collecting, PCs
<1>3. ClaimedAlways' /\ CollectionProgress'
  BY SMTT(30), CacheAssumption DEF IInv, Shape, ProcType, Trees, Aimed, LockWhereUsed,
       TargetsFree, ClaimedAlways, CollectionProgress, Get, Release, Fail, Quarantine,
       Goto, Idle, At, catalog, Holding, Waiting, Locked, Collecting, PCs
<1>4. TargetsFree'
  BY CacheAssumption DEF IInv, Shape, ProcType, TargetsFree, LockWhereUsed, Get,
       Release, Fail, Quarantine, Goto, Idle, At, catalog, Holding, Waiting, Locked,
       Collecting, PCs
<1> QED BY <1>1, <1>2, <1>3, <1>4 DEF IInv

LEMMA MaterializeFailsKeeps ==
    ASSUME IInv, NEW p \in Procs, MaterializeFails(p)
    PROVE  IInv'
<1>1. Shape'
  BY CacheAssumption DEF IInv, Shape, ProcType, Trees, Aimed, MaterializeFails, Idle,
       At, catalog, Holding, Waiting, Locked, Collecting, PCs
<1>2. Aimed' /\ LockWhereUsed' /\ LeaseBehindHold' /\ SeenUnderLock'
  BY CacheAssumption DEF IInv, Shape, ProcType, Aimed, LockWhereUsed, LeaseBehindHold,
       SeenUnderLock, MaterializeFails, Idle, LeaseRecord, At, catalog, Holding,
       Waiting, Locked, Collecting, PCs
<1>3. ClaimedAlways' /\ CollectionProgress'
  BY CacheAssumption DEF IInv, Shape, ProcType, Trees, Aimed, LockWhereUsed,
       TargetsFree, ClaimedAlways, CollectionProgress, MaterializeFails, Idle, At,
       catalog, Holding, Waiting, Locked, Collecting, PCs
<1>4. \A e \in Digests : ~Protected(e) => ~Protected(e)'
  BY ProtectedFrame DEF MaterializeFails, Idle, catalog
<1>5. TargetsFree'
  BY <1>4, CacheAssumption DEF IInv, Shape, ProcType, TargetsFree, LockWhereUsed,
       MaterializeFails, Idle, At, catalog, Holding, Waiting, Locked, Collecting, PCs
<1> QED BY <1>1, <1>2, <1>3, <1>5 DEF IInv

LEMMA ImportPublishKeeps ==
    ASSUME IInv, NEW p \in Procs, ImportPublish(p)
    PROVE  IInv'
<1>1. Shape'
  BY CacheAssumption DEF IInv, Shape, ProcType, Trees, Aimed, ImportPublish, Fail,
       Release, Quarantine, Goto, Idle, At, catalog, Holding, Waiting, Locked,
       Collecting, PCs
<1>2. Aimed' /\ LockWhereUsed' /\ LeaseBehindHold' /\ SeenUnderLock'
  BY SMTT(30), CacheAssumption DEF IInv, Shape, ProcType, Aimed, LockWhereUsed, LeaseBehindHold,
       SeenUnderLock, ImportPublish, Fail, Release, Quarantine, Goto, Idle, LeaseRecord,
       At, catalog, Holding, Waiting, Locked, Collecting, PCs
<1>3. ClaimedAlways' /\ CollectionProgress'
  BY CacheAssumption DEF IInv, Shape, ProcType, Trees, Aimed, LockWhereUsed,
       TargetsFree, ClaimedAlways, CollectionProgress, ImportPublish, Fail, Release,
       Quarantine, Goto, Idle, At, catalog, Holding, Waiting, Locked, Collecting, PCs
<1>4. \A e \in Digests : ~Protected(e) => ~Protected(e)'
  BY ProtectedFrame DEF ImportPublish, Fail, Release, Quarantine, Goto, Idle, catalog
<1>5. TargetsFree'
  BY SMTT(30), <1>4, CacheAssumption DEF IInv, Shape, ProcType, TargetsFree, LockWhereUsed,
       ImportPublish, Fail, Release, Quarantine, Goto, Idle, At, catalog, Holding,
       Waiting, Locked, Collecting, PCs
<1> QED BY <1>1, <1>2, <1>3, <1>5 DEF IInv

LEMMA RegisterKeeps ==
    ASSUME IInv, NEW p \in Procs, Register(p)
    PROVE  IInv'
<1>1. Shape'
  BY CacheAssumption DEF IInv, Shape, ProcType, Trees, Aimed, Register, Goto, At,
       catalog, Holding, Waiting, Locked, Collecting, PCs
<1>2. Aimed' /\ LockWhereUsed' /\ LeaseBehindHold' /\ SeenUnderLock'
  BY CacheAssumption DEF IInv, Shape, ProcType, Aimed, LockWhereUsed, LeaseBehindHold,
       SeenUnderLock, Register, Goto, LeaseRecord, At, catalog, Holding, Waiting,
       Locked, Collecting, PCs
<1>3. ClaimedAlways' /\ CollectionProgress'
  BY CacheAssumption DEF IInv, Shape, ProcType, Trees, Aimed, LockWhereUsed,
       TargetsFree, ClaimedAlways, CollectionProgress, Register, Goto, At, catalog,
       Holding, Waiting, Locked, Collecting, PCs
<1>4. \A e \in Digests : ~Protected(e) => ~Protected(e)'
  BY ProtectedFrame DEF Register, Goto, catalog
<1>5. TargetsFree'
  BY <1>4, CacheAssumption DEF IInv, Shape, ProcType, TargetsFree, LockWhereUsed,
       Register, Goto, At, catalog, Holding, Waiting, Locked, Collecting, PCs
<1> QED BY <1>1, <1>2, <1>3, <1>5 DEF IInv

LEMMA MappingLeaseKeeps ==
    ASSUME IInv, NEW p \in Procs, MappingLease(p)
    PROVE  IInv'
<1>1. Shape'
  BY CacheAssumption DEF IInv, Shape, ProcType, Trees, Aimed, MappingLease, TakeLease,
       LeaseRecord, Purposes, Goto, At, catalog, Holding, Waiting, Locked, Collecting,
       PCs
<1>2. Aimed' /\ LockWhereUsed' /\ LeaseBehindHold' /\ SeenUnderLock'
  BY CacheAssumption DEF IInv, Shape, ProcType, Aimed, LockWhereUsed, LeaseBehindHold,
       SeenUnderLock, MappingLease, TakeLease, LeaseRecord, Purposes, Goto, At, catalog,
       Holding, Waiting, Locked, Collecting, PCs
<1>3. ClaimedAlways' /\ CollectionProgress'
  BY CacheAssumption DEF IInv, Shape, ProcType, Trees, Aimed, LockWhereUsed,
       TargetsFree, ClaimedAlways, CollectionProgress, MappingLease, TakeLease,
       LeaseRecord, Purposes, Goto, At, catalog, Holding, Waiting, Locked, Collecting,
       PCs
<1>4. TargetsFree'
  BY CacheAssumption DEF IInv, Shape, ProcType, TargetsFree, LockWhereUsed,
       MappingLease, TakeLease, LeaseRecord, Purposes, Goto, At, catalog, Holding,
       Waiting, Locked, Collecting, PCs
<1> QED BY <1>1, <1>2, <1>3, <1>4 DEF IInv

LEMMA RunRootKeeps ==
    ASSUME IInv, NEW p \in Procs, NEW name \in RootNames, RunRoot(p, name)
    PROVE  IInv'
<1>1. Shape'
  BY CacheAssumption DEF IInv, Shape, ProcType, Trees, Aimed, RunRoot, AddRoot,
       Verified, At, catalog, Holding, Waiting, Locked, Collecting, PCs
<1>2. Aimed' /\ LockWhereUsed' /\ LeaseBehindHold' /\ SeenUnderLock'
  BY CacheAssumption DEF IInv, Shape, ProcType, Aimed, LockWhereUsed, LeaseBehindHold,
       SeenUnderLock, RunRoot, AddRoot, Verified, LeaseRecord, At, catalog, Holding,
       Waiting, Locked, Collecting, PCs
<1>3. ClaimedAlways' /\ CollectionProgress'
  BY CacheAssumption DEF IInv, Shape, ProcType, Trees, Aimed, LockWhereUsed,
       TargetsFree, ClaimedAlways, CollectionProgress, RunRoot, AddRoot, Verified, At,
       catalog, Holding, Waiting, Locked, Collecting, PCs
<1>4. TargetsFree'
  BY CacheAssumption DEF IInv, Shape, ProcType, TargetsFree, LockWhereUsed, RunRoot,
       AddRoot, Verified, At, catalog, Holding, Waiting, Locked, Collecting, PCs
<1> QED BY <1>1, <1>2, <1>3, <1>4 DEF IInv

LEMMA CommandRootKeeps ==
    ASSUME IInv, NEW p \in Procs, NEW name \in RootNames, NEW d \in Digests, CommandRoot(p, name, d)
    PROVE  IInv'
<1>1. Shape'
  BY CacheAssumption DEF IInv, Shape, ProcType, Trees, Aimed, CommandRoot, AddRoot,
       Verified, At, catalog, Holding, Waiting, Locked, Collecting, PCs
<1>2. Aimed' /\ LockWhereUsed' /\ LeaseBehindHold' /\ SeenUnderLock'
  BY CacheAssumption DEF IInv, Shape, ProcType, Aimed, LockWhereUsed, LeaseBehindHold,
       SeenUnderLock, CommandRoot, AddRoot, Verified, LeaseRecord, At, catalog, Holding,
       Waiting, Locked, Collecting, PCs
<1>3. ClaimedAlways' /\ CollectionProgress'
  BY CacheAssumption DEF IInv, Shape, ProcType, Trees, Aimed, LockWhereUsed,
       TargetsFree, ClaimedAlways, CollectionProgress, CommandRoot, AddRoot, Verified,
       At, catalog, Holding, Waiting, Locked, Collecting, PCs
<1>4. TargetsFree'
  BY CacheAssumption DEF IInv, Shape, ProcType, TargetsFree, LockWhereUsed,
       CommandRoot, AddRoot, Verified, At, catalog, Holding, Waiting, Locked,
       Collecting, PCs
<1> QED BY <1>1, <1>2, <1>3, <1>4 DEF IInv

LEMMA RemoveRootKeeps ==
    ASSUME IInv, NEW p \in Procs, NEW name \in RootNames, NEW d \in Digests, RemoveRoot(p, name, d)
    PROVE  IInv'
<1>1. Shape'
  BY CacheAssumption DEF IInv, Shape, ProcType, Trees, Aimed, RemoveRoot, At, catalog,
       Holding, Waiting, Locked, Collecting, PCs
<1>2. Aimed' /\ LockWhereUsed' /\ LeaseBehindHold' /\ SeenUnderLock'
  BY CacheAssumption DEF IInv, Shape, ProcType, Aimed, LockWhereUsed, LeaseBehindHold,
       SeenUnderLock, RemoveRoot, LeaseRecord, At, catalog, Holding, Waiting, Locked,
       Collecting, PCs
<1>3. ClaimedAlways' /\ CollectionProgress'
  BY CacheAssumption DEF IInv, Shape, ProcType, Trees, Aimed, LockWhereUsed,
       TargetsFree, ClaimedAlways, CollectionProgress, RemoveRoot, At, catalog, Holding,
       Waiting, Locked, Collecting, PCs
<1>4. \A e \in Digests : ~Protected(e) => ~Protected(e)'
  BY ProtectedFrame DEF RemoveRoot, catalog
<1>5. TargetsFree'
  BY <1>4, CacheAssumption DEF IInv, Shape, ProcType, TargetsFree, LockWhereUsed,
       RemoveRoot, At, catalog, Holding, Waiting, Locked, Collecting, PCs
<1> QED BY <1>1, <1>2, <1>3, <1>5 DEF IInv

LEMMA EndUseKeeps ==
    ASSUME IInv, NEW p \in Procs, EndUse(p)
    PROVE  IInv'
<1>1. Shape'
  BY CacheAssumption DEF IInv, Shape, ProcType, Trees, Aimed, EndUse, Idle, At,
       catalog, Holding, Waiting, Locked, Collecting, PCs
<1>2. Aimed' /\ LockWhereUsed' /\ LeaseBehindHold' /\ SeenUnderLock'
  BY CacheAssumption DEF IInv, Shape, ProcType, Aimed, LockWhereUsed, LeaseBehindHold,
       SeenUnderLock, EndUse, Idle, LeaseRecord, At, catalog, Holding, Waiting, Locked,
       Collecting, PCs
<1>3. ClaimedAlways' /\ CollectionProgress'
  BY CacheAssumption DEF IInv, Shape, ProcType, Trees, Aimed, LockWhereUsed,
       TargetsFree, ClaimedAlways, CollectionProgress, EndUse, Idle, At, catalog,
       Holding, Waiting, Locked, Collecting, PCs
<1>4. \A e \in Digests : ~Protected(e) => ~Protected(e)'
  BY ProtectedFrame DEF EndUse, Idle, catalog
<1>5. TargetsFree'
  BY <1>4, CacheAssumption DEF IInv, Shape, ProcType, TargetsFree, LockWhereUsed,
       EndUse, Idle, At, catalog, Holding, Waiting, Locked, Collecting, PCs
<1> QED BY <1>1, <1>2, <1>3, <1>5 DEF IInv

LEMMA CollectKeeps ==
    ASSUME IInv, NEW p \in Procs, Collect(p)
    PROVE  IInv'
<1>1. Shape'
  BY CacheAssumption DEF IInv, Shape, ProcType, Trees, Aimed, Collect, At, catalog,
       Holding, Waiting, Locked, Collecting, PCs
<1>2. Aimed' /\ LockWhereUsed' /\ LeaseBehindHold' /\ SeenUnderLock'
  BY CacheAssumption DEF IInv, Shape, ProcType, Aimed, LockWhereUsed, LeaseBehindHold,
       SeenUnderLock, Collect, LeaseRecord, At, catalog, Holding, Waiting, Locked,
       Collecting, PCs
<1>3. ClaimedAlways' /\ CollectionProgress'
  BY CacheAssumption DEF IInv, Shape, ProcType, Trees, Aimed, LockWhereUsed,
       TargetsFree, ClaimedAlways, CollectionProgress, Collect, At, catalog, Holding,
       Waiting, Locked, Collecting, PCs
<1>4. \A e \in Digests : ~Protected(e) => ~Protected(e)'
  BY ProtectedFrame DEF Collect, catalog
<1>5. TargetsFree'
  BY <1>4, CacheAssumption DEF IInv, Shape, ProcType, TargetsFree, LockWhereUsed,
       Acceptable, Deletable, Collect, At, catalog, Holding, Waiting, Locked,
       Collecting, PCs
<1> QED BY <1>1, <1>2, <1>3, <1>5 DEF IInv

LEMMA ClaimGarbageKeeps ==
    ASSUME IInv, NEW p \in Procs, ClaimGarbage(p)
    PROVE  IInv'
<1>1. Shape'
  BY CacheAssumption DEF IInv, Shape, ProcType, Trees, Aimed, ClaimGarbage, Mark,
       Goto, At, catalog, Holding, Waiting, Locked, Collecting, PCs
<1>2. Aimed' /\ LockWhereUsed' /\ LeaseBehindHold' /\ SeenUnderLock'
  BY CacheAssumption DEF IInv, Shape, ProcType, Aimed, LockWhereUsed, LeaseBehindHold,
       SeenUnderLock, ClaimGarbage, Mark, Goto, LeaseRecord, At, catalog, Holding,
       Waiting, Locked, Collecting, PCs
<1>3. ClaimedAlways' /\ CollectionProgress'
  BY CacheAssumption DEF IInv, Shape, ProcType, Trees, Aimed, LockWhereUsed,
       TargetsFree, ClaimedAlways, CollectionProgress, ClaimGarbage, Mark, Goto, At,
       catalog, Holding, Waiting, Locked, Collecting, PCs
<1>4. \A e \in Digests : ~Protected(e) => ~Protected(e)'
  BY ProtectedFrame DEF ClaimGarbage, Mark, Goto, catalog
<1>5. TargetsFree'
  BY <1>4, CacheAssumption DEF IInv, Shape, ProcType, TargetsFree, LockWhereUsed,
       ClaimGarbage, Mark, Goto, At, catalog, Holding, Waiting, Locked, Collecting, PCs
<1> QED BY <1>1, <1>2, <1>3, <1>5 DEF IInv

LEMMA NoGarbageKeeps ==
    ASSUME IInv, NEW p \in Procs, NoGarbage(p)
    PROVE  IInv'
<1>1. Shape'
  BY CacheAssumption DEF IInv, Shape, ProcType, Trees, Aimed, NoGarbage, Goto, At,
       catalog, Holding, Waiting, Locked, Collecting, PCs
<1>2. Aimed' /\ LockWhereUsed' /\ LeaseBehindHold' /\ SeenUnderLock'
  BY CacheAssumption DEF IInv, Shape, ProcType, Aimed, LockWhereUsed, LeaseBehindHold,
       SeenUnderLock, NoGarbage, Goto, LeaseRecord, At, catalog, Holding, Waiting,
       Locked, Collecting, PCs
<1>3. ClaimedAlways' /\ CollectionProgress'
  BY CacheAssumption DEF IInv, Shape, ProcType, Trees, Aimed, LockWhereUsed,
       TargetsFree, ClaimedAlways, CollectionProgress, NoGarbage, Goto, At, catalog,
       Holding, Waiting, Locked, Collecting, PCs
<1>4. \A e \in Digests : ~Protected(e) => ~Protected(e)'
  BY ProtectedFrame DEF NoGarbage, Goto, catalog
<1>5. TargetsFree'
  BY <1>4, CacheAssumption DEF IInv, Shape, ProcType, TargetsFree, LockWhereUsed,
       NoGarbage, Goto, At, catalog, Holding, Waiting, Locked, Collecting, PCs
<1> QED BY <1>1, <1>2, <1>3, <1>5 DEF IInv

LEMMA ClearGarbageKeeps ==
    ASSUME IInv, NEW p \in Procs, ClearGarbage(p)
    PROVE  IInv'
<1>1. Shape'
  BY CacheAssumption DEF IInv, Shape, ProcType, Trees, Aimed, ClearGarbage, Sweep,
       Goto, At, catalog, Holding, Waiting, Locked, Collecting, PCs
<1>2. Aimed' /\ LockWhereUsed' /\ LeaseBehindHold' /\ SeenUnderLock'
  BY CacheAssumption DEF IInv, Shape, ProcType, Aimed, LockWhereUsed, LeaseBehindHold,
       SeenUnderLock, ClearGarbage, Sweep, Goto, LeaseRecord, At, catalog, Holding,
       Waiting, Locked, Collecting, PCs
<1>3. ClaimedAlways' /\ CollectionProgress'
  BY CacheAssumption DEF IInv, Shape, ProcType, Trees, Aimed, LockWhereUsed,
       TargetsFree, ClaimedAlways, CollectionProgress, ClearGarbage, Sweep, Goto, At,
       catalog, Holding, Waiting, Locked, Collecting, PCs
<1>4. \A e \in Digests : ~Protected(e) => ~Protected(e)'
  BY ProtectedFrame DEF ClearGarbage, Sweep, Goto, catalog
<1>5. TargetsFree'
  BY <1>4, CacheAssumption DEF IInv, Shape, ProcType, TargetsFree, LockWhereUsed,
       ClearGarbage, Sweep, Goto, At, catalog, Holding, Waiting, Locked, Collecting, PCs
<1> QED BY <1>1, <1>2, <1>3, <1>5 DEF IInv

LEMMA SweepDetachedKeeps ==
    ASSUME IInv, NEW p \in Procs, SweepDetached(p)
    PROVE  IInv'
<1>1. Shape'
  BY CacheAssumption DEF IInv, Shape, ProcType, Trees, Aimed, SweepDetached, Sweep,
       Goto, At, catalog, Holding, Waiting, Locked, Collecting, PCs
<1>2. Aimed' /\ LockWhereUsed' /\ LeaseBehindHold' /\ SeenUnderLock'
  BY CacheAssumption DEF IInv, Shape, ProcType, Aimed, LockWhereUsed, LeaseBehindHold,
       SeenUnderLock, SweepDetached, Sweep, Goto, LeaseRecord, At, catalog, Holding,
       Waiting, Locked, Collecting, PCs
<1>3. ClaimedAlways' /\ CollectionProgress'
  BY CacheAssumption DEF IInv, Shape, ProcType, Trees, Aimed, LockWhereUsed,
       TargetsFree, ClaimedAlways, CollectionProgress, SweepDetached, Sweep, Goto, At,
       catalog, Holding, Waiting, Locked, Collecting, PCs
<1>4. \A e \in Digests : ~Protected(e) => ~Protected(e)'
  BY ProtectedFrame DEF SweepDetached, Sweep, Goto, catalog
<1>5. TargetsFree'
  BY <1>4, CacheAssumption DEF IInv, Shape, ProcType, TargetsFree, LockWhereUsed,
       SweepDetached, Sweep, Goto, At, catalog, Holding, Waiting, Locked, Collecting,
       PCs
<1> QED BY <1>1, <1>2, <1>3, <1>5 DEF IInv

LEMMA ClaimLiveKeeps ==
    ASSUME IInv, NEW p \in Procs, ClaimLive(p)
    PROVE  IInv'
<1>1. Shape'
  BY CacheAssumption DEF IInv, Shape, ProcType, Trees, Aimed, ClaimLive, Mark, Goto,
       At, catalog, Holding, Waiting, Locked, Collecting, PCs
<1>2. Aimed' /\ LockWhereUsed' /\ LeaseBehindHold' /\ SeenUnderLock'
  BY CacheAssumption DEF IInv, Shape, ProcType, Aimed, LockWhereUsed, LeaseBehindHold,
       SeenUnderLock, ClaimLive, Mark, Goto, LeaseRecord, At, catalog, Holding, Waiting,
       Locked, Collecting, PCs
<1>3. ClaimedAlways' /\ CollectionProgress'
  BY CacheAssumption DEF IInv, Shape, ProcType, Trees, Aimed, LockWhereUsed,
       TargetsFree, ClaimedAlways, CollectionProgress, ClaimLive, Mark, Goto, At,
       catalog, Holding, Waiting, Locked, Collecting, PCs
<1>4. \A e \in Digests : ~Protected(e) => ~Protected(e)'
  BY ProtectedFrame DEF ClaimLive, Mark, Goto, catalog
<1>5. TargetsFree'
  BY <1>4, CacheAssumption DEF IInv, Shape, ProcType, TargetsFree, LockWhereUsed,
       ClaimLive, Mark, Goto, At, catalog, Holding, Waiting, Locked, Collecting, PCs
<1> QED BY <1>1, <1>2, <1>3, <1>5 DEF IInv

LEMMA NoLiveKeeps ==
    ASSUME IInv, NEW p \in Procs, NoLive(p)
    PROVE  IInv'
<1>1. Shape'
  BY CacheAssumption DEF IInv, Shape, ProcType, Trees, Aimed, NoLive, Goto, At,
       catalog, Holding, Waiting, Locked, Collecting, PCs
<1>2. Aimed' /\ LockWhereUsed' /\ LeaseBehindHold' /\ SeenUnderLock'
  BY CacheAssumption DEF IInv, Shape, ProcType, Aimed, LockWhereUsed, LeaseBehindHold,
       SeenUnderLock, NoLive, Goto, LeaseRecord, At, catalog, Holding, Waiting, Locked,
       Collecting, PCs
<1>3. ClaimedAlways' /\ CollectionProgress'
  BY CacheAssumption DEF IInv, Shape, ProcType, Trees, Aimed, LockWhereUsed,
       TargetsFree, ClaimedAlways, CollectionProgress, NoLive, Goto, At, catalog,
       Holding, Waiting, Locked, Collecting, PCs
<1>4. \A e \in Digests : ~Protected(e) => ~Protected(e)'
  BY ProtectedFrame DEF NoLive, Goto, catalog
<1>5. TargetsFree'
  BY <1>4, CacheAssumption DEF IInv, Shape, ProcType, TargetsFree, LockWhereUsed,
       NoLive, Goto, At, catalog, Holding, Waiting, Locked, Collecting, PCs
<1> QED BY <1>1, <1>2, <1>3, <1>5 DEF IInv

LEMMA DetachKeeps ==
    ASSUME IInv, NEW p \in Procs, Detach(p)
    PROVE  IInv'
<1>1. Shape'
  BY CacheAssumption DEF IInv, Shape, ProcType, Trees, Aimed, Detach, Goto, At,
       catalog, Holding, Waiting, Locked, Collecting, PCs
<1>2. Aimed' /\ LockWhereUsed' /\ LeaseBehindHold' /\ SeenUnderLock'
  BY CacheAssumption DEF IInv, Shape, ProcType, Aimed, LockWhereUsed, LeaseBehindHold,
       SeenUnderLock, Detach, Goto, LeaseRecord, At, catalog, Holding, Waiting, Locked,
       Collecting, PCs
<1>3. ClaimedAlways' /\ CollectionProgress'
  BY CacheAssumption DEF IInv, Shape, ProcType, Trees, Aimed, LockWhereUsed,
       TargetsFree, ClaimedAlways, CollectionProgress, Detach, Goto, At, catalog,
       Holding, Waiting, Locked, Collecting, PCs
<1>4. \A e \in Digests : ~Protected(e) => ~Protected(e)'
  BY ProtectedFrame DEF Detach, Goto, catalog
<1>5. TargetsFree'
  BY <1>4, CacheAssumption DEF IInv, Shape, ProcType, TargetsFree, LockWhereUsed,
       Detach, Goto, At, catalog, Holding, Waiting, Locked, Collecting, PCs
<1> QED BY <1>1, <1>2, <1>3, <1>5 DEF IInv

LEMMA MarkDetachedKeeps ==
    ASSUME IInv, NEW p \in Procs, MarkDetached(p)
    PROVE  IInv'
<1>1. Shape'
  BY CacheAssumption DEF IInv, Shape, ProcType, Trees, Aimed, MarkDetached, Mark,
       Goto, At, catalog, Holding, Waiting, Locked, Collecting, PCs
<1>2. Aimed' /\ LockWhereUsed' /\ LeaseBehindHold' /\ SeenUnderLock'
  BY CacheAssumption DEF IInv, Shape, ProcType, Aimed, LockWhereUsed, LeaseBehindHold,
       SeenUnderLock, MarkDetached, Mark, Goto, LeaseRecord, At, catalog, Holding,
       Waiting, Locked, Collecting, PCs
<1>3. ClaimedAlways' /\ CollectionProgress'
  BY CacheAssumption DEF IInv, Shape, ProcType, Trees, Aimed, LockWhereUsed,
       TargetsFree, ClaimedAlways, CollectionProgress, MarkDetached, Mark, Goto, At,
       catalog, Holding, Waiting, Locked, Collecting, PCs
<1>4. \A e \in Digests : ~Protected(e) => ~Protected(e)'
  BY ProtectedFrame DEF MarkDetached, Mark, Goto, catalog
<1>5. TargetsFree'
  BY <1>4, CacheAssumption DEF IInv, Shape, ProcType, TargetsFree, LockWhereUsed,
       MarkDetached, Mark, Goto, At, catalog, Holding, Waiting, Locked, Collecting, PCs
<1> QED BY <1>1, <1>2, <1>3, <1>5 DEF IInv

LEMMA CrashKeeps ==
    ASSUME IInv, NEW p \in Procs, Crash(p)
    PROVE  IInv'
<1>1. Shape'
  BY CacheAssumption DEF IInv, Shape, ProcType, Trees, Aimed, Crash, Idle, At,
       catalog, Holding, Waiting, Locked, Collecting, PCs
<1>2. Aimed' /\ LockWhereUsed' /\ LeaseBehindHold' /\ SeenUnderLock'
  BY CacheAssumption DEF IInv, Shape, ProcType, Aimed, LockWhereUsed, LeaseBehindHold,
       SeenUnderLock, Crash, Idle, LeaseRecord, At, catalog, Holding, Waiting, Locked,
       Collecting, PCs
<1>3. ClaimedAlways' /\ CollectionProgress'
  BY CacheAssumption DEF IInv, Shape, ProcType, Trees, Aimed, LockWhereUsed,
       TargetsFree, ClaimedAlways, CollectionProgress, Crash, Idle, At, catalog,
       Holding, Waiting, Locked, Collecting, PCs
<1>4. \A e \in Digests : ~Protected(e) => ~Protected(e)'
  BY ProtectedFrame DEF Crash, Idle, catalog
<1>5. TargetsFree'
  BY <1>4, CacheAssumption DEF IInv, Shape, ProcType, TargetsFree, LockWhereUsed,
       Crash, Idle, At, catalog, Holding, Waiting, Locked, Collecting, PCs
<1> QED BY <1>1, <1>2, <1>3, <1>5 DEF IInv

LEMMA TamperKeeps ==
    ASSUME IInv, NEW d \in Digests, Tamper(d)
    PROVE  IInv'
<1>1. Shape' /\ SeenUnderLock'
  BY DEF IInv, Shape, Trees, SeenUnderLock, Tamper, catalog
<1>2. /\ Aimed' /\ LockWhereUsed' /\ LeaseBehindHold' /\ ClaimedAlways'
      /\ CollectionProgress'
  BY DEF IInv, Aimed, LockWhereUsed, LeaseBehindHold, ClaimedAlways, CollectionProgress,
         Tamper, catalog
<1>3. TargetsFree'
  BY ProtectedFrame DEF IInv, TargetsFree, Tamper, catalog
<1> QED BY <1>1, <1>2, <1>3 DEF IInv

\* forget is the one step that takes a registration away, and the collection
\* may go on with its next target.
LEMMA ForgetKeeps ==
    ASSUME IInv, NEW p \in Procs, Forget(p)
    PROVE  IInv'
<1> DEFINE d == proc[p].d
<1>1. /\ proc[p].pc = "gc_forget"
      /\ pending' = [pending EXCEPT ![d] = "none"] /\ registered' = registered \ {d}
      /\ UNCHANGED <<objects, garbage, mapping, roots, leases>>
  BY DEF Forget, At
<1>2. /\ d \in Digests /\ garbage[d] = "none" /\ lock = p
      /\ \A q \in Procs \ {p} : proc[q].pc \notin Locked
  BY <1>1 DEF IInv, Aimed, CollectionProgress, LockWhereUsed, Locked, Collecting
<1>3. ClaimedAlways'
  BY <1>1, <1>2 DEF IInv, Shape, ClaimedAlways
<1>4. \A e : ~Protected(e) => ~Protected(e)'
  BY <1>1, ProtectedFrame
<1>5. d \notin proc[p].todo
  BY <1>1 DEF IInv, CollectionProgress, Collecting
<1> HIDE DEF d
<1>6. CASE lock' = None /\ proc' = [proc EXCEPT ![p] = Idle]
  <2>1. Shape'
    BY <1>1, <1>2, <1>6 DEF IInv, Shape, ProcType, Idle, PCs
  <2>2. /\ proc'[p].pc = "idle" /\ \A q \in Procs \ {p} : proc'[q] = proc[q]
        /\ \A q \in Procs : proc'[q].pc \notin Locked
    BY <1>2, <1>6 DEF IInv, Shape, Idle, Locked
  <2>3. Aimed' /\ LockWhereUsed' /\ LeaseBehindHold' /\ SeenUnderLock'
    BY <1>1, <1>6, <2>2, CacheAssumption DEF IInv, Aimed, LockWhereUsed,
       LeaseBehindHold, SeenUnderLock,
       Holding, Locked, Collecting
  <2>4. TargetsFree' /\ CollectionProgress'
    BY <2>2 DEF TargetsFree, CollectionProgress, Locked, Collecting
  <2> QED BY <1>3, <2>1, <2>3, <2>4 DEF IInv
<1>7. CASE /\ UNCHANGED lock
           /\ \E e \in proc[p].todo :
                 proc' = [proc EXCEPT ![p].pc = "gc_garbage", ![p].d = e,
                                      ![p].todo = @ \ {e}]
  <2>1. PICK e \in proc[p].todo :
          proc' = [proc EXCEPT ![p].pc = "gc_garbage", ![p].d = e, ![p].todo = @ \ {e}]
    BY <1>7
  <2> DEFINE new == [pc |-> "gc_garbage", d |-> e, r |-> proc[p].r,
                     todo |-> proc[p].todo \ {e}]
  <2>2. e \in Digests /\ proc[p].todo \subseteq Digests
    BY DEF IInv, Shape, ProcType
  <2>3. proc' = [proc EXCEPT ![p] = new] /\ new \in ProcType
    BY <2>1, <2>2 DEF IInv, Shape, ProcType, PCs, Locked
  <2>4. /\ proc'[p] = new /\ \A q \in Procs \ {p} : proc'[q] = proc[q]
        /\ new.pc = "gc_garbage" /\ new.d = e /\ new.todo = proc[p].todo \ {e}
    BY <2>3 DEF IInv, Shape
  <2> HIDE DEF new
  <2>5. Shape'
    BY <1>1, <1>2, <1>7, <2>3 DEF IInv, Shape
  <2>6. Aimed' /\ LockWhereUsed' /\ LeaseBehindHold' /\ SeenUnderLock'
    BY ZenonT(40), <1>1, <1>2, <1>7, <2>2, <2>4, CacheAssumption DEF IInv, Aimed, LockWhereUsed,
       LeaseBehindHold, SeenUnderLock, Holding, Locked, Collecting
  <2>7. TargetsFree'
    BY <1>1, <1>2, <1>4, <1>5, <2>4 DEF IInv, TargetsFree, Locked, Collecting
  <2>8. CollectionProgress'
    BY <1>2, <2>4 DEF IInv, CollectionProgress, Locked, Collecting
  <2> QED BY <1>3, <2>5, <2>6, <2>7, <2>8 DEF IInv
<1> QED BY <1>6, <1>7 DEF Forget

LEMMA StepKeeps ==
    ASSUME IInv, NEW p \in Procs, Step(p)
    PROVE  IInv'
BY GetLeaseKeeps, GetKeeps, GetMissKeeps, MaterializeFailsKeeps, ImportTreeKeeps,
   ImportPublishKeeps, RegisterKeeps, MappingLeaseKeeps, PublishMappingKeeps,
   MappingDoneKeeps, CheckObjectKeeps, DropViewKeeps, DropAllKeeps, ClaimGarbageKeeps,
   NoGarbageKeeps, ClearGarbageKeeps, ClaimLiveKeeps, NoLiveKeeps, DetachKeeps,
   MarkDetachedKeeps, SweepDetachedKeeps, ForgetKeeps
   DEF Step, Materialize, PrivateView, VerifyView, Holding

LEMMA Inductive == IInv /\ [Next]_vars => IInv'
<1> SUFFICES ASSUME IInv, [Next]_vars PROVE IInv'
  OBVIOUS
<1>1. ASSUME NEW p \in Procs, Step(p) PROVE IInv'
  BY <1>1, StepKeeps
<1>2. ASSUME NEW p \in Procs, ViewLease(p) PROVE IInv'
  BY <1>2, ViewLeaseKeeps
<1>3. ASSUME NEW p \in Procs, VerifyArtifact(p) PROVE IInv'
  BY <1>3, CheckObjectKeeps DEF VerifyArtifact, Holding
<1>4. ASSUME NEW p \in Procs, EndUse(p) PROVE IInv'
  BY <1>4, EndUseKeeps
<1>5. ASSUME NEW p \in Procs, Collect(p) PROVE IInv'
  BY <1>5, CollectKeeps
<1>6. ASSUME NEW p \in Procs, Crash(p) PROVE IInv'
  BY <1>6, CrashKeeps
<1>7. ASSUME NEW p \in Procs, NEW r \in Recipes, LookupDataset(p, r) PROVE IInv'
  BY <1>7, LookupDatasetKeeps
<1>8. ASSUME NEW p \in Procs, NEW d \in Digests, ImportReady(p, d) PROVE IInv'
  BY <1>8, ImportTreeKeeps DEF ImportReady
<1>9. ASSUME NEW p \in Procs, NEW name \in RootNames, RunRoot(p, name) PROVE IInv'
  BY <1>9, RunRootKeeps
<1>10. ASSUME NEW p \in Procs, NEW name \in RootNames, NEW d \in Digests,
              CommandRoot(p, name, d) \/ RemoveRoot(p, name, d)
       PROVE  IInv'
  BY <1>10, CommandRootKeeps, RemoveRootKeeps
<1>11. ASSUME NEW d \in Digests, Tamper(d) PROVE IInv'
  BY <1>11, TamperKeeps
<1>12. CASE UNCHANGED vars
  <2>1. /\ Shape' /\ Aimed' /\ LockWhereUsed' /\ LeaseBehindHold' /\ SeenUnderLock'
        /\ ClaimedAlways' /\ CollectionProgress'
    BY <1>12 DEF IInv, vars, Shape, Aimed, LockWhereUsed, LeaseBehindHold, SeenUnderLock,
                 ClaimedAlways, CollectionProgress
  <2>2. TargetsFree'
    BY <1>12, ProtectedFrame DEF IInv, vars, TargetsFree
  <2> QED BY <2>1, <2>2 DEF IInv
<1> QED BY <1>1, <1>2, <1>3, <1>4, <1>5, <1>6, <1>7, <1>8, <1>9, <1>10, <1>11, <1>12
           DEF Next

LEMMA Initially == Init => IInv
<1> SUFFICES ASSUME Init PROVE IInv
  OBVIOUS
<1>1. Shape
  BY DEF Init, Shape, ProcType, Idle, PCs, Trees
<1>2. \A p \in Procs : proc[p].pc = "idle"
  BY DEF Init, Idle
<1>3. Aimed /\ LockWhereUsed /\ LeaseBehindHold /\ SeenUnderLock
  BY <1>2, CacheAssumption DEF Init, Aimed, LockWhereUsed, LeaseBehindHold, SeenUnderLock,
                               Holding, Locked, Collecting
<1>4. TargetsFree /\ ClaimedAlways /\ CollectionProgress
  BY <1>2 DEF Init, TargetsFree, ClaimedAlways, CollectionProgress, Collecting
<1> QED BY <1>1, <1>3, <1>4 DEF IInv

LEMMA Invariant == Spec => []IInv
BY Initially, Inductive, PTL DEF Spec

\* GarbageClaimed holds of every cache: whatever crashes, re-imports and
\* collections happened, what lies in garbage/ is registered and accounted for
\* in gc_pending, so a later collection can finish it (maintenance.rs collect).
THEOREM GarbageIsClaimed == Spec => []GarbageClaimed
<1>1. IInv => GarbageClaimed
  BY DEF IInv, ClaimedAlways, GarbageClaimed
<1> QED BY <1>1, Invariant, PTL

\* The cache lock is held exactly inside the guarded sections of the code: a
\* process that has it is never at an operation that takes it, not even after
\* a failure, when its leases are dropped (Lease::drop, Release).
THEOREM LockHeldWhereUsed == Spec => []LockWhereUsed
<1>1. IInv => LockWhereUsed
  BY DEF IInv
<1> QED BY <1>1, Invariant, PTL
-----------------------------------------------------------------------------
(***************************************************************************)
(* The refinement.  A hold becomes a pin when the artifact is handed out,   *)
(* an edge of the catalog when it is inserted.                              *)
(***************************************************************************)
\* A step that neither starts nor ends a hold.
LEMMA PinsKept ==
    ASSUME UNCHANGED roots,
           \A q \in Procs : /\ proc[q].pc \in Holding <=> proc'[q].pc \in Holding
                            /\ proc[q].pc \in Holding => proc'[q].d = proc[q].d
    PROVE  Pins' = Pins
BY DEF Pins

LEMMA PinGained ==
    ASSUME NEW p \in Procs, UNCHANGED roots, proc[p].pc \notin Holding,
           proc'[p].pc \in Holding, \A q \in Procs \ {p} : proc'[q] = proc[q]
    PROVE  Pins' = Pins \cup {<<<<"run", p>>, proc'[p].d>>}
BY DEF Pins

LEMMA PinLost ==
    ASSUME NEW p \in Procs, UNCHANGED roots, proc[p].pc \in Holding,
           proc'[p].pc \notin Holding, \A q \in Procs \ {p} : proc'[q] = proc[q]
    PROVE  Pins' = Pins \ {<<<<"run", p>>, proc[p].d>>}
BY DEF Pins

LEMMA RootGained ==
    ASSUME IInv, UNCHANGED proc, NEW name \in RootNames, NEW d \in Digests,
           roots' = roots \cup {<<name, d>>}
    PROVE  Pins' = Pins \cup {<<<<"root", name>>, d>>}
<1>1. \A x : x \in Pins' <=>
             \/ \E p \in Procs : proc[p].pc \in Holding /\ x = <<<<"run", p>>, proc[p].d>>
             \/ \E edge \in roots \cup {<<name, d>>} : x = <<<<"root", edge[1]>>, edge[2]>>
  BY DEF Pins
<1>2. \A x : x \in Pins <=>
             \/ \E p \in Procs : proc[p].pc \in Holding /\ x = <<<<"run", p>>, proc[p].d>>
             \/ \E edge \in roots : x = <<<<"root", edge[1]>>, edge[2]>>
  BY DEF Pins
<1>3. <<name, d>>[1] = name /\ <<name, d>>[2] = d
  OBVIOUS
<1> QED BY <1>1, <1>2, <1>3

LEMMA RootLost ==
    ASSUME IInv, UNCHANGED proc, NEW name, NEW d, roots' = roots \ {<<name, d>>}
    PROVE  Pins' = Pins \ {<<<<"root", name>>, d>>}
BY DEF Pins, IInv, Shape

Abstract == [Promise!Next]_(Promise!vars)
AllHolders == ({"run"} \X Procs) \cup ({"root"} \X RootNames)

\* A step that leaves the objects, the mapping and every hold alone.
LEMMA Quiet ==
    ASSUME UNCHANGED <<objects, mapping, roots>>,
           \A q \in Procs : /\ proc[q].pc \in Holding <=> proc'[q].pc \in Holding
                            /\ proc[q].pc \in Holding => proc'[q].d = proc[q].d
    PROVE  Abstract
<1>1. Pins' = Pins
  BY PinsKept
<1> QED BY <1>1 DEF Abstract, Promise!vars

\* A process notices damage, or that the tree is gone, and gives up.
LEMMA NoticeDamage ==
    ASSUME IInv, NEW p \in Procs, NEW d \in Digests, d = proc[p].d, objects[d] # "good",
           objects' = [objects EXCEPT ![d] = "none"], UNCHANGED <<mapping, roots>>,
           proc' = [proc EXCEPT ![p] = [Idle EXCEPT !.pc = "drop"]]
    PROVE  Abstract
<1>1. /\ proc'[p].pc \notin Holding
      /\ \A q \in Procs \ {p} : proc'[q] = proc[q]
  BY DEF IInv, Shape, Idle, Holding
<1>2. objects[d] \in {"none", "bad"} /\ (objects[d] = "none" => objects' = objects)
  BY DEF IInv, Shape, Trees
<1>3. Pins' = Pins \/ Pins' = Pins \ {<<<<"run", p>>, d>>}
  <2>1. CASE proc[p].pc \in Holding
    BY <1>1, <2>1, PinLost
  <2>2. CASE proc[p].pc \notin Holding
    BY <1>1, <2>2, PinsKept
  <2> QED BY <2>1, <2>2
<1>4. <<"run", p>> \in AllHolders
  BY DEF AllHolders
<1>5. CASE objects[d] = "bad"
  <2>1. Promise!Discard(d)
    BY <1>3, <1>4, <1>5 DEF Promise!Discard, AllHolders
  <2> QED BY <2>1 DEF Abstract, Promise!Next
<1>6. CASE objects[d] = "none" /\ Pins' = Pins
  BY <1>2, <1>6 DEF Abstract, Promise!vars
<1>7. CASE objects[d] = "none" /\ Pins' = Pins \ {<<<<"run", p>>, d>>}
  <2>1. Promise!Unpin(<<"run", p>>, d)
    BY <1>2, <1>7 DEF Promise!Unpin
  <2> QED BY <1>4, <2>1 DEF Abstract, Promise!Next, AllHolders
<1> QED BY <1>2, <1>3, <1>5, <1>6, <1>7

\* A hold ends: a run is done with its tree, or dies.
LEMMA HoldEnds ==
    ASSUME IInv, NEW p \in Procs, UNCHANGED <<objects, mapping, roots>>,
           proc'[p].pc \notin Holding, \A q \in Procs \ {p} : proc'[q] = proc[q]
    PROVE  Abstract
<1>1. CASE proc[p].pc \in Holding
  <2>1. Pins' = Pins \ {<<<<"run", p>>, proc[p].d>>}
    BY <1>1, PinLost
  <2>2. Promise!Unpin(<<"run", p>>, proc[p].d)
    BY <2>1 DEF Promise!Unpin
  <2>3. proc[p].d \in Digests /\ <<"run", p>> \in AllHolders
    BY <1>1 DEF IInv, Aimed, AllHolders
  <2> QED BY <2>2, <2>3 DEF Abstract, Promise!Next, AllHolders
<1>2. CASE proc[p].pc \notin Holding
  BY <1>2, Quiet
<1> QED BY <1>1, <1>2

LEMMA RegisterPins ==
    ASSUME IInv, NEW p \in Procs, Register(p)
    PROVE  Abstract
<1>1. /\ proc[p].pc \in {"published", "found"} /\ UNCHANGED <<objects, mapping, roots>>
      /\ \E next \in {"held", "bind"} : proc' = [proc EXCEPT ![p].pc = next]
  BY DEF Register, Goto
<1>2. /\ proc[p].pc \notin Holding /\ proc'[p].pc \in Holding /\ proc'[p].d = proc[p].d
      /\ \A q \in Procs \ {p} : proc'[q] = proc[q]
  BY <1>1 DEF IInv, Shape, ProcType, Holding
<1>3. /\ proc[p].d \in Digests /\ objects[proc[p].d] # "none"
      /\ <<"run", p>> \in AllHolders
  BY <1>1 DEF IInv, Aimed, SeenUnderLock, AllHolders
<1>4. Pins' = Pins \cup {<<<<"run", p>>, proc[p].d>>}
  BY <1>1, <1>2, PinGained
<1>5. Promise!Pin(<<"run", p>>, proc[p].d)
  BY <1>1, <1>3, <1>4 DEF Promise!Pin
<1> QED BY <1>3, <1>5 DEF Abstract, Promise!Next, AllHolders

LEMMA AddRootPins ==
    ASSUME IInv, NEW name \in RootNames, NEW d \in Digests, AddRoot(name, d),
           UNCHANGED proc
    PROVE  Abstract
<1>1. Pins' = Pins \cup {<<<<"root", name>>, d>>}
  BY RootGained DEF AddRoot
<1>2. Promise!Pin(<<"root", name>>, d)
  BY <1>1 DEF Promise!Pin, AddRoot, Verified
<1>3. <<"root", name>> \in AllHolders
  BY DEF AllHolders
<1> QED BY <1>2, <1>3 DEF Abstract, Promise!Next, AllHolders

LEMMA RemoveRootUnpins ==
    ASSUME IInv, NEW p \in Procs, NEW name \in RootNames, NEW d \in Digests,
           RemoveRoot(p, name, d)
    PROVE  Abstract
<1>1. Pins' = Pins \ {<<<<"root", name>>, d>>}
  BY RootLost DEF RemoveRoot
<1>2. Promise!Unpin(<<"root", name>>, d)
  BY <1>1 DEF Promise!Unpin, RemoveRoot
<1>3. <<"root", name>> \in AllHolders
  BY DEF AllHolders
<1> QED BY <1>2, <1>3 DEF Abstract, Promise!Next, AllHolders

\* The heart of the promise: what a collection detaches has no lease and no
\* root, so nobody holds it.
LEMMA DetachCollects ==
    ASSUME IInv, NEW p \in Procs, Detach(p)
    PROVE  Abstract
<1> DEFINE d == proc[p].d
<1>1. /\ proc[p].pc = "gc_move" /\ objects' = [objects EXCEPT ![d] = "none"]
      /\ proc' = [proc EXCEPT ![p].pc = "gc_mark"] /\ UNCHANGED <<mapping, roots>>
  BY DEF Detach, At, Goto, catalog
<1>2. d \in Digests /\ ~Protected(d)
  BY <1>1 DEF IInv, Aimed, TargetsFree, Collecting
<1>3. Pins' = Pins
  <2>1. \A q \in Procs : /\ proc[q].pc \in Holding <=> proc'[q].pc \in Holding
                         /\ proc[q].pc \in Holding => proc'[q].d = proc[q].d
    BY <1>1 DEF IInv, Shape, ProcType, Holding
  <2> QED BY <1>1, <2>1, PinsKept
<1>4. \A h \in AllHolders : <<h, d>> \notin Pins
  <2>1. ASSUME NEW q \in Procs, proc[q].pc \in Holding, proc[q].d = d PROVE FALSE
    <3>1. \E purpose : <<q, purpose, d>> \in leases
      BY <2>1 DEF IInv, LeaseBehindHold, LeaseRecord
    <3> QED BY <1>2, <3>1 DEF Protected
  <2>2. ASSUME NEW edge \in roots, edge[2] = d PROVE FALSE
    <3>1. edge[1] \in RootNames /\ edge = <<edge[1], edge[2]>>
      BY <2>2 DEF IInv, Shape
    <3> QED BY <1>2, <2>2, <3>1 DEF Protected
  <2> QED BY <2>1, <2>2 DEF Pins
<1> HIDE DEF d
<1>5. Promise!Collect(d)
  BY <1>1, <1>3, <1>4 DEF Promise!Collect, AllHolders
<1> QED BY <1>2, <1>5 DEF Abstract, Promise!Next

LEMMA TamperDamages ==
    ASSUME NEW d \in Digests, Tamper(d)
    PROVE  Abstract
<1>1. Pins' = Pins
  BY PinsKept DEF Tamper, catalog
<1>2. Promise!Damage(d)
  BY <1>1 DEF Promise!Damage, Tamper
<1> QED BY <1>2 DEF Abstract, Promise!Next

LEMMA GetMaps ==
    ASSUME IInv, NEW p \in Procs, Get(p)
    PROVE  Abstract
<1>1. proc[p].pc = "reading" /\ proc[p].d \in Digests /\ UNCHANGED <<mapping, roots>>
  BY DEF Get, At, catalog, IInv, Aimed
<1>2. CASE objects[proc[p].d] = "bad" /\ Quarantine(proc[p].d) /\ Fail(p)
  BY <1>1, <1>2, NoticeDamage DEF Quarantine, Fail
<1>3. CASE /\ UNCHANGED objects
           /\ \/ proc' = [proc EXCEPT ![p].pc = "miss", ![p].d = None]
              \/ proc' = [proc EXCEPT ![p].pc = "found"]
  <2>1. \A q \in Procs : /\ proc[q].pc \in Holding <=> proc'[q].pc \in Holding
                         /\ proc[q].pc \in Holding => proc'[q].d = proc[q].d
    BY <1>1, <1>3 DEF IInv, Shape, ProcType, Holding
  <2> QED BY <1>1, <1>3, <2>1, Quiet
<1> QED BY <1>2, <1>3 DEF Get, Goto

LEMMA ImportPublishMaps ==
    ASSUME IInv, NEW p \in Procs, ImportPublish(p)
    PROVE  Abstract
<1> DEFINE d == proc[p].d
<1>1. proc[p].pc = "staged" /\ d \in Digests /\ UNCHANGED <<mapping, roots>>
  BY DEF ImportPublish, At, catalog, IInv, Aimed
<1>2. CASE objects[d] = "bad"
  BY <1>1, <1>2, NoticeDamage DEF ImportPublish, Quarantine, Fail
<1>3. CASE objects[d] # "bad"
  <2>1. /\ objects' = [objects EXCEPT ![d] = "good"]
        /\ proc' = [proc EXCEPT ![p].pc = "published"]
    BY <1>3 DEF ImportPublish, Goto
  <2>2. \A q \in Procs : /\ proc[q].pc \in Holding <=> proc'[q].pc \in Holding
                         /\ proc[q].pc \in Holding => proc'[q].d = proc[q].d
    BY <1>1, <2>1 DEF IInv, Shape, ProcType, Holding
  <2>3. objects[d] \in {"none", "good"}
    BY <1>1, <1>3 DEF IInv, Shape, Trees
  <2>4. CASE objects[d] = "good"
    <3>1. objects' = objects
      BY <1>1, <2>1, <2>4 DEF IInv, Shape
    <3> QED BY <1>1, <2>2, <3>1, Quiet
  <2>5. CASE objects[d] = "none"
    <3>1. Pins' = Pins
      BY <1>1, <2>2, PinsKept
    <3>2. Promise!Publish(d)
      BY <1>1, <2>1, <2>5, <3>1 DEF Promise!Publish
    <3> QED BY <1>1, <3>2 DEF Abstract, Promise!Next
  <2> QED BY <2>3, <2>4, <2>5
<1> QED BY <1>2, <1>3

\* A recipe that is bound already is bound to this tree, or the step fails.
LEMMA PublishMappingBinds ==
    ASSUME IInv, NEW p \in Procs, PublishMapping(p)
    PROVE  Abstract
<1> DEFINE d == proc[p].d
           r == proc[p].r
<1>1. /\ proc[p].pc = "binding" /\ d \in Digests /\ r \in Recipes /\ UNCHANGED roots
  BY DEF PublishMapping, At, catalog, IInv, Aimed, Holding
<1>2. CASE ~Verified(d) /\ Quarantine(d) /\ Fail(p) /\ UNCHANGED mapping
  BY <1>1, <1>2, NoticeDamage DEF Verified, Quarantine, Fail
<1>3. CASE Fail(p) /\ UNCHANGED <<objects, mapping>>
  <2>1. proc'[p].pc \notin Holding /\ \A q \in Procs \ {p} : proc'[q] = proc[q]
    BY <1>3 DEF Fail, Idle, Holding, IInv, Shape
  <2> QED BY <1>1, <1>3, <2>1, HoldEnds
<1>4. CASE /\ Verified(d) /\ mapping[r] \in {None, d}
           /\ mapping' = [mapping EXCEPT ![r] = d]
           /\ Goto(p, "bound") /\ UNCHANGED objects
  <2>1. \A q \in Procs : /\ proc[q].pc \in Holding <=> proc'[q].pc \in Holding
                         /\ proc[q].pc \in Holding => proc'[q].d = proc[q].d
    BY <1>1, <1>4 DEF Goto, IInv, Shape, ProcType, Holding
  <2>2. CASE mapping[r] = d
    <3>1. mapping' = mapping
      BY <1>1, <1>4, <2>2 DEF IInv, Shape
    <3> QED BY <1>1, <1>4, <2>1, <3>1, Quiet
  <2>3. CASE mapping[r] = None
    <3>1. Pins' = Pins
      BY <1>1, <2>1, PinsKept
    <3>2. Promise!Bind(r, d)
      BY <1>4, <2>3, <3>1 DEF Promise!Bind, Verified
    <3> QED BY <1>1, <3>2 DEF Abstract, Promise!Next
  <2> QED BY <1>4, <2>2, <2>3
<1> QED BY <1>2, <1>3, <1>4 DEF PublishMapping

LEMMA CheckObjectMaps ==
    ASSUME IInv, NEW p \in Procs, NEW from \in Holding, NEW next \in Holding,
           CheckObject(p, from, next)
    PROVE  Abstract
<1>1. proc[p].pc = from /\ proc[p].d \in Digests /\ UNCHANGED <<mapping, roots>>
  BY DEF CheckObject, At, catalog, IInv, Aimed
<1>2. CASE Goto(p, next) /\ UNCHANGED objects
  <2>1. \A q \in Procs : /\ proc[q].pc \in Holding <=> proc'[q].pc \in Holding
                         /\ proc[q].pc \in Holding => proc'[q].d = proc[q].d
    BY <1>1, <1>2 DEF Goto, IInv, Shape, ProcType
  <2> QED BY <1>1, <1>2, <2>1, Quiet
<1>3. CASE ~Verified(proc[p].d) /\ Quarantine(proc[p].d) /\ Fail(p)
  BY <1>1, <1>3, NoticeDamage DEF Verified, Quarantine, Fail
<1> QED BY <1>2, <1>3 DEF CheckObject

\* Leases, lookups and the bookkeeping of a collection are invisible.
LEMMA LeasesAreQuiet ==
    ASSUME IInv, NEW p \in Procs,
           \/ GetLease(p) \/ MappingLease(p) \/ ViewLease(p) \/ GetMiss(p)
           \/ MappingDone(p) \/ DropView(p) \/ DropAll(p)
    PROVE  Abstract
<1>1. UNCHANGED <<objects, mapping, roots>>
  BY DEF GetLease, MappingLease, ViewLease, GetMiss, MappingDone, DropView, DropAll,
         DropLease, catalog
<1>2. /\ \A q \in Procs \ {p} : proc'[q] = proc[q]
      /\ proc[p].pc \in Holding <=> proc'[p].pc \in Holding
      /\ proc[p].pc \in Holding => proc'[p].d = proc[p].d
  <2>1. CASE GetLease(p) \/ MappingLease(p) \/ ViewLease(p)
    BY <2>1 DEF GetLease, MappingLease, ViewLease, At, Goto, IInv, Shape, ProcType, Holding
  <2>2. CASE GetMiss(p) \/ MappingDone(p) \/ DropView(p)
    <3>1. \/ UNCHANGED proc
          \/ proc[p].pc = "miss" /\ proc' = [proc EXCEPT ![p].pc = "make"]
          \/ proc[p].pc \in {"bound", "view"} /\ proc' = [proc EXCEPT ![p].pc = "held"]
      BY <2>2, DropLeaseEffect DEF GetMiss, MappingDone, DropView
    <3> QED BY <3>1 DEF IInv, Shape, ProcType, Holding
  <2>3. CASE DropAll(p)
    <3>1. proc[p].pc = "drop" /\ (UNCHANGED proc \/ proc' = [proc EXCEPT ![p] = Idle])
      BY <2>3, DropLeaseEffect DEF DropAll
    <3> QED BY <3>1 DEF IInv, Shape, Idle, Holding
  <2> QED BY <2>1, <2>2, <2>3
<1> QED BY <1>1, <1>2, Quiet

LEMMA ImportTreeIsQuiet ==
    ASSUME IInv, NEW p \in Procs, NEW d \in Digests, proc[p].pc \in {"make", "idle"},
           ImportTree(p, d)
    PROVE  Abstract
<1>1. /\ UNCHANGED <<objects, mapping, roots>>
      /\ \/ proc' = [proc EXCEPT ![p].pc = "staged", ![p].d = d]
         \/ proc' = [proc EXCEPT ![p] = [Idle EXCEPT !.pc = "drop"]]
  BY DEF ImportTree, catalog
<1>2. /\ \A q \in Procs \ {p} : proc'[q] = proc[q]
      /\ proc[p].pc \notin Holding /\ proc'[p].pc \notin Holding
  BY <1>1 DEF IInv, Shape, ProcType, Idle, Holding
<1> QED BY <1>1, <1>2, Quiet

LEMMA LookupIsQuiet ==
    ASSUME IInv, NEW p \in Procs,
           MaterializeFails(p) \/ \E r \in Recipes : LookupDataset(p, r)
    PROVE  Abstract
<1>1. UNCHANGED <<objects, mapping, roots>>
  BY DEF MaterializeFails, LookupDataset, catalog
<1>2. /\ \A q \in Procs \ {p} : proc'[q] = proc[q]
      /\ proc[p].pc \notin Holding /\ proc'[p].pc \notin Holding
  <2>1. CASE MaterializeFails(p)
    BY <2>1 DEF MaterializeFails, At, IInv, Shape, Idle, Holding
  <2>2. ASSUME NEW r \in Recipes, LookupDataset(p, r)
        PROVE  /\ \A q \in Procs \ {p} : proc'[q] = proc[q]
               /\ proc[p].pc = "idle" /\ proc'[p].pc \in {"make", "get"}
    BY <2>2 DEF LookupDataset, At, IInv, Shape, Idle
  <2> QED BY <2>1, <2>2 DEF Holding
<1> QED BY <1>1, <1>2, Quiet

LEMMA CollectionIsQuiet ==
    ASSUME IInv, NEW p \in Procs,
           \/ Collect(p) \/ ClaimGarbage(p) \/ NoGarbage(p) \/ ClearGarbage(p)
           \/ ClaimLive(p) \/ NoLive(p) \/ MarkDetached(p) \/ SweepDetached(p)
           \/ Forget(p)
    PROVE  Abstract
<1>1. UNCHANGED <<objects, mapping, roots>>
  BY DEF Collect, ClaimGarbage, NoGarbage, ClearGarbage, ClaimLive, NoLive, MarkDetached,
         SweepDetached, Forget, Mark, Sweep, catalog
<1>2. /\ \A q \in Procs \ {p} : proc'[q] = proc[q]
      /\ proc[p].pc \notin Holding /\ proc'[p].pc \notin Holding
  <2>1. CASE Collect(p)
    BY <2>1 DEF Collect, At, IInv, Shape, Holding
  <2>2. CASE Forget(p)
    <3>1. /\ proc[p].pc = "gc_forget"
          /\ \/ proc' = [proc EXCEPT ![p] = Idle]
             \/ \E d, todo : proc' = [proc EXCEPT ![p].pc = "gc_garbage", ![p].d = d,
                                                  ![p].todo = todo]
      BY <2>2 DEF Forget, At
    <3>2. CASE proc' = [proc EXCEPT ![p] = Idle]
      BY <3>1, <3>2 DEF IInv, Shape, Idle, Holding
    <3>3. ASSUME NEW d, NEW todo,
                 proc' = [proc EXCEPT ![p].pc = "gc_garbage", ![p].d = d, ![p].todo = todo]
          PROVE  /\ \A q \in Procs \ {p} : proc'[q] = proc[q]
                 /\ proc'[p].pc = "gc_garbage"
      BY <3>3 DEF IInv, Shape, ProcType
    <3> QED BY <3>1, <3>2, <3>3 DEF Holding
  <2>3. CASE ClaimGarbage(p) \/ ClaimLive(p) \/ MarkDetached(p)
    BY <2>3 DEF ClaimGarbage, ClaimLive, MarkDetached, Mark, At, Goto, IInv, Shape,
                ProcType, Holding
  <2>4. CASE NoGarbage(p) \/ NoLive(p) \/ ClearGarbage(p) \/ SweepDetached(p)
    BY <2>4 DEF NoGarbage, NoLive, ClearGarbage, SweepDetached, Sweep, At, Goto, IInv,
                Shape, ProcType, Holding
  <2> QED BY <2>1, <2>2, <2>3, <2>4
<1> QED BY <1>1, <1>2, Quiet

LEMMA HoldEndsMaps ==
    ASSUME IInv, NEW p \in Procs, EndUse(p) \/ Crash(p)
    PROVE  Abstract
<1>1. /\ UNCHANGED <<objects, mapping, roots>>
      /\ proc'[p].pc \notin Holding /\ \A q \in Procs \ {p} : proc'[q] = proc[q]
  BY DEF EndUse, Crash, catalog, IInv, Shape, Idle, Holding
<1> QED BY <1>1, HoldEnds

LEMMA Refines == IInv /\ [Next]_vars => Abstract
<1> SUFFICES ASSUME IInv, [Next]_vars PROVE Abstract
  OBVIOUS
<1>1. ASSUME NEW p \in Procs, Step(p) PROVE Abstract
  BY <1>1, LeasesAreQuiet, LookupIsQuiet, CollectionIsQuiet, ImportTreeIsQuiet, GetMaps,
     ImportPublishMaps, RegisterPins, PublishMappingBinds, CheckObjectMaps, DetachCollects
     DEF Step, Materialize, At, PrivateView, VerifyView, Holding
<1>2. ASSUME NEW p \in Procs, ViewLease(p) \/ Collect(p) \/ EndUse(p) \/ Crash(p)
      PROVE  Abstract
  BY <1>2, LeasesAreQuiet, CollectionIsQuiet, HoldEndsMaps
<1>3. ASSUME NEW p \in Procs, VerifyArtifact(p) PROVE Abstract
  BY <1>3, CheckObjectMaps DEF VerifyArtifact, Holding
<1>4. ASSUME NEW p \in Procs, NEW r \in Recipes, LookupDataset(p, r) PROVE Abstract
  BY <1>4, LookupIsQuiet
<1>5. ASSUME NEW p \in Procs, NEW d \in Digests, ImportReady(p, d) PROVE Abstract
  BY <1>5, ImportTreeIsQuiet DEF ImportReady, At
<1>6. ASSUME NEW p \in Procs, NEW name \in RootNames, RunRoot(p, name) PROVE Abstract
  <2>1. proc[p].d \in Digests
    BY <1>6 DEF RunRoot, At, IInv, Aimed, Holding
  <2> QED BY <1>6, <2>1, AddRootPins DEF RunRoot
<1>7. ASSUME NEW p \in Procs, NEW name \in RootNames, NEW d \in Digests,
             CommandRoot(p, name, d) \/ RemoveRoot(p, name, d)
      PROVE  Abstract
  BY <1>7, AddRootPins, RemoveRootUnpins DEF CommandRoot
<1>8. ASSUME NEW d \in Digests, Tamper(d) PROVE Abstract
  BY <1>8, TamperDamages
<1>9. CASE UNCHANGED vars
  BY <1>9, Quiet DEF vars
<1> QED BY <1>1, <1>2, <1>3, <1>4, <1>5, <1>6, <1>7, <1>8, <1>9 DEF Next

\* The cache implements ContentStore (KeepsItsPromise): whatever collections,
\* imports of the same bytes, roots and crashes happen around it, an intact
\* tree that a run holds (StoredArtifact) or a root names is neither collected
\* nor replaced, and publish_dataset never rebinds a recipe.
THEOREM CacheKeepsItsPromise == Spec => KeepsItsPromise
<1>1. Init => Promise!Init
  <2>1. ASSUME Init PROVE Pins = {}
    <3>1. roots = {} /\ \A p \in Procs : proc[p].pc \notin Holding
      BY <2>1 DEF Init, Idle, Holding
    <3> QED BY <3>1 DEF Pins
  <2> QED BY <2>1 DEF Init, Promise!Init
<1>2. IInv /\ [Next]_vars => [Promise!Next]_(Promise!vars)
  BY Refines DEF Abstract
<1> QED BY <1>1, <1>2, Invariant, PTL DEF Spec, KeepsItsPromise, Promise!Spec
=============================================================================
