------------------------- MODULE LockedRuns_proofs -------------------------
(***************************************************************************)
(* Proofs about LockedRuns, for every set of processes, file contents,      *)
(* manifests and commands, and every number of edits, generations and       *)
(* damages: what a locked run launches is what its lock file records, uv    *)
(* generations are shared, and nothing in use can be collected.             *)
(*                                                                          *)
(* The argument follows a command from step to step (Local): what it has    *)
(* read, what its lock record says of the environment, what it has pinned.  *)
(* Generations only gain content (Grow), so a record once true stays true.  *)
(***************************************************************************)
EXTENDS LockedRuns, TLAPS

Uv == {"uv", "sync", "synced", "kept"}
Making == {"sync", "synced", "kept"}
Nix == {"nix", "added", "build"}
Staging == {"stage", "copy", "recheck", "staged"}
Running == {"dataset", "materializing", "problem", "preparing", "candidate",
            "asking", "ready", "launched"}
LockOnly == {"checked", "captured", "copied", "prepared", "write"} \cup Uv \cup Nix
LoadOnly == {"load", "compare", "definitions", "verify", "pin"}
PCs == {"idle", "manifest"} \cup LockOnly \cup LoadOnly \cup Staging \cup Running

Generations == [key : Keys, built : Trees \cup {None}, receipt : BOOLEAN,
                intact : BOOLEAN, orphan : BOOLEAN]

IsRecord(r) == r = [pc |-> r.pc, op |-> r.op, manifest |-> r.manifest,
                    expected |-> r.expected, source |-> r.source, copy |-> r.copy,
                    env |-> r.env, lock |-> r.lock, id |-> r.id,
                    staged |-> r.staged, steady |-> r.steady]

Shape ==
    /\ tree \in Trees
    /\ gens \in Seq(Generations)
    /\ DOMAIN current = Keys
    /\ guard \in [Keys -> Procs \cup {None}]
    /\ DOMAIN roots = Procs
    /\ DOMAIN proc = Procs
    /\ \A p \in Procs : IsRecord(proc[p]) /\ proc[p].pc \in PCs

\* Environment e was made from source s for definition m.
EnvMade(m, s, e) ==
    /\ m \in Backends /\ s \in Trees
    /\ m = "nix" => e = [definition |-> m, source |-> s]
    /\ m # "nix" => /\ e \in DOMAIN gens
                    /\ gens[e].key = [definition |-> m, source |-> s]
                    /\ gens[e].built = s
                    /\ gens[e].receipt

LockOK(l) == EnvMade(l.definition, l.source, l.env)

KeyOf(r) == [definition |-> r.manifest, source |-> r.source]

\* A generation in the making belongs to one process, which has its key.
InTheMaking(p, r) ==
    /\ r.env \in DOMAIN gens
    /\ gens[r.env].key = KeyOf(r)
    /\ guard[KeyOf(r)] = p
    /\ ~Reusable(KeyOf(r))
    /\ r.pc \in {"sync", "synced"} => ~gens[r.env].receipt
    /\ r.pc \in {"synced", "kept"} => gens[r.env].built = r.source
    /\ r.pc = "kept" => gens[r.env].receipt

\* What a command knows, by where it stands.
Local(p, r) ==
    /\ r.pc # "idle" => r.manifest \in Backends
    /\ r.pc \in LockOnly => r.op = "lock"
    /\ r.pc \in LoadOnly => r.op # "lock"
    /\ r.pc \in Running => r.op = "run"
    /\ r.pc \in {"captured", "copied"} => r.source \in Trees
    /\ r.pc \in Uv \cup Nix => r.source \in Trees /\ r.copy = r.source
    /\ r.pc \in Uv => r.manifest = "uv"
    /\ r.pc \in Nix => r.manifest = "nix"
    /\ r.pc \in Making => InTheMaking(p, r)

\* What a locking command has prepared.
Prepared(p, r) ==
    r.op = "lock" /\ r.pc \in Staging \cup {"prepared", "write"} =>
        /\ EnvMade(r.manifest, r.source, r.env)
        /\ r.manifest = "nix" => r.env \in roots[p]

\* What a command has read from the lock file and compared with the tree.
Loaded(p, r) ==
    /\ r.op # "lock" /\ r.pc \in (LoadOnly \cup Staging \cup Running) \ {"load"} =>
          LockOK(r.lock)
    /\ r.op # "lock" /\ r.pc \in Staging \cup Running \cup {"verify", "pin"} =>
          r.lock.definition = r.manifest
    /\ r.op = "run" /\ r.pc \in Staging \cup Running =>
          LockedPaths(r.lock) \subseteq roots[p]

\* What a run planned, if nobody edited meanwhile, and what it staged.
Planned(r) ==
    /\ r.op = "run" /\ r.steady /\ r.pc \in Comparing =>
          /\ r.manifest = tree.manifest
          /\ r.pc # "manifest" => r.expected = tree.files
    /\ r.op = "run" /\ r.steady
       /\ r.pc \in {"definitions", "verify", "pin"} \cup Staging \cup Running =>
          /\ r.manifest = r.lock.source.manifest
          /\ r.expected = r.lock.source.files
    /\ r.pc \in Running \cup {"staged"} => r.staged = r.expected

Known(p, r) == Local(p, r) /\ Prepared(p, r) /\ Loaded(p, r) /\ Planned(r)

\* A receipt vouches for the source its key names.
ReceiptsTrue ==
    \A g \in DOMAIN gens : gens[g].receipt => gens[g].built = gens[g].key.source

\* current.json names a complete generation of its key.
CurrentTrue ==
    \A k \in Keys : current[k] # None =>
        /\ current[k] \in DOMAIN gens
        /\ gens[current[k]].key = k
        /\ gens[current[k]].receipt

RootsKeep == \A p \in Procs : roots[p] \subseteq store

IInv ==
    /\ Shape /\ ReceiptsTrue /\ CurrentTrue /\ RootsKeep /\ GenerationsShared
    /\ (lock # None => LockOK(lock))
    /\ \A p \in Procs : Known(p, proc[p])

-----------------------------------------------------------------------------
(***************************************************************************)
(* The sequence of generations: changing one, marking some, adding one.     *)
(***************************************************************************)
LEMMA GensUpdate ==
    ASSUME NEW f \in Seq(Generations), NEW e \in DOMAIN f, NEW x \in Generations, NEW f2,
           f2 = [f EXCEPT ![e] = x]
    PROVE  f2 \in Seq(Generations) /\ DOMAIN f2 = DOMAIN f /\ f2[e] = x
           /\ \A g \in DOMAIN f : g # e => f2[g] = f[g]
OBVIOUS

LEMMA GensMap ==
    ASSUME NEW f \in Seq(Generations), NEW f2, DOMAIN f2 = DOMAIN f,
           f2 = [i \in DOMAIN f2 |-> f2[i]],
           \A g \in DOMAIN f : f2[g] \in Generations
    PROVE  f2 \in Seq(Generations)
<1>1. DOMAIN f = 1..Len(f) /\ Len(f) \in Nat
  OBVIOUS
<1>2. f2 \in [1..Len(f) -> Generations]
  BY <1>1
<1> QED BY <1>1, <1>2

LEMMA GensAppend ==
    ASSUME NEW f \in Seq(Generations), NEW x \in Generations
    PROVE  /\ Append(f, x) \in Seq(Generations)
           /\ DOMAIN Append(f, x) = DOMAIN f \cup {Len(f) + 1}
           /\ Len(f) + 1 \notin DOMAIN f
           /\ Append(f, x)[Len(f) + 1] = x
           /\ \A g \in DOMAIN f : Append(f, x)[g] = f[g]
OBVIOUS

-----------------------------------------------------------------------------
(***************************************************************************)
(* Frames.                                                                  *)
(***************************************************************************)
\* Generations keep their keys, and complete ones their content.
Grow ==
    /\ DOMAIN gens \subseteq DOMAIN gens'
    /\ \A g \in DOMAIN gens :
        /\ gens'[g].key = gens[g].key
        /\ gens[g].receipt => gens'[g].receipt /\ gens'[g].built = gens[g].built

LEMMA EnvMadeGrows ==
    ASSUME Grow, NEW m, NEW s, NEW e, EnvMade(m, s, e)
    PROVE  EnvMade(m, s, e)'
BY DEF Grow, EnvMade

\* What a command knows stays true when others work.
LEMMA KnownFrame ==
    ASSUME Grow, NEW q \in Procs, NEW r, Known(q, r), roots[q] \subseteq roots'[q],
           UNCHANGED tree, r.pc \in Making => InTheMaking(q, r)'
    PROVE  Known(q, r)'
<1>1. Local(q, r)'
  BY DEF Known, Local
<1>2. Prepared(q, r)'
  BY EnvMadeGrows DEF Known, Prepared
<1>3. Loaded(q, r)'
  BY EnvMadeGrows DEF Known, Loaded, LockOK, LockedPaths
<1>4. Planned(r)'
  BY DEF Known, Planned
<1> QED BY <1>1, <1>2, <1>3, <1>4 DEF Known

\* A step of p alone that only changes what p knows.
LEMMA LocalStep ==
    ASSUME IInv, NEW p \in Procs, NEW new,
           UNCHANGED <<tree, lock, gens, current, guard, store, roots>>,
           proc' = [proc EXCEPT ![p] = new], proc[p].pc # "kept",
           IsRecord(new), new.pc \in PCs, Known(p, new)
    PROVE  IInv'
<1>1. /\ proc'[p] = new /\ \A q \in Procs \ {p} : proc'[q] = proc[q]
      /\ DOMAIN proc' = Procs
  BY DEF IInv, Shape
<1>2. Shape'
  BY <1>1 DEF IInv, Shape
<1>3. Grow
  BY DEF Grow
<1>4. ASSUME NEW q \in Procs, NEW r, Known(q, r) PROVE Known(q, r)'
  <2>1. r.pc \in Making => InTheMaking(q, r)'
    BY <1>4 DEF Known, Local, InTheMaking, Reusable, Verifies
  <2> QED BY <1>3, <1>4, <2>1, KnownFrame
<1>5. \A q \in Procs : Known(q, proc[q])'
  BY <1>1, <1>4 DEF IInv
<1>6. ReceiptsTrue' /\ CurrentTrue' /\ RootsKeep' /\ (lock # None => LockOK(lock))'
  BY <1>3, EnvMadeGrows DEF IInv, ReceiptsTrue, CurrentTrue, RootsKeep, LockOK
<1>7. GenerationsShared'
  BY <1>1 DEF IInv, GenerationsShared, At
<1> QED BY <1>2, <1>5, <1>6, <1>7 DEF IInv

\* The end of a command frees its key and its roots; generations stay as they
\* are, up to the mark of an orphan.
LEMMA LeaveStep ==
    ASSUME IInv, NEW p \in Procs, Leave(p), UNCHANGED <<tree, current, store>>,
           gens' \in Seq(Generations), DOMAIN gens' = DOMAIN gens,
           \A g \in DOMAIN gens :
              /\ gens'[g].key = gens[g].key /\ gens'[g].built = gens[g].built
              /\ gens'[g].receipt = gens[g].receipt /\ gens'[g].intact = gens[g].intact
              /\ gens[g].orphan => gens'[g].orphan,
           proc[p].pc = "kept" =>
              gens'[proc[p].env].orphan \/ ~Verifies(proc[p].env),
           (lock # None => LockOK(lock))'
    PROVE  IInv'
<1>1. /\ proc'[p] = Idle /\ \A q \in Procs \ {p} : proc'[q] = proc[q]
      /\ DOMAIN proc' = Procs
      /\ roots'[p] = {} /\ \A q \in Procs \ {p} : roots'[q] = roots[q]
      /\ DOMAIN roots' = Procs
      /\ guard' \in [Keys -> Procs \cup {None}]
      /\ \A k \in Keys, q \in Procs \ {p} : guard[k] = q => guard'[k] = q
  BY DEF IInv, Shape, Leave, Set
<1>2. IsRecord(Idle) /\ Idle.pc = "idle" /\ Idle.op = None
  BY DEF IsRecord, Idle
<1>3. Shape'
  BY <1>1, <1>2 DEF IInv, Shape, PCs
<1>4. Grow
  BY DEF Grow
<1>5. ASSUME NEW q \in Procs \ {p} PROVE Known(q, proc[q])'
  <2>1. Known(q, proc[q])
    BY DEF IInv
  <2>2. proc[q].pc \in Making => KeyOf(proc[q]) \in Keys
    BY <2>1 DEF Known, Local, KeyOf, Keys, Making, Uv
  <2>3. proc[q].pc \in Making => InTheMaking(q, proc[q])'
    BY <1>1, <2>1, <2>2 DEF Known, Local, InTheMaking, KeyOf, Reusable, Verifies,
       IInv, CurrentTrue
  <2> QED BY <1>1, <1>4, <2>1, <2>3, KnownFrame
<1>6. Known(p, proc[p])'
  BY <1>1, <1>2 DEF Known, Local, Prepared, Loaded, Planned, LockOnly, LoadOnly,
     Uv, Nix, Making, Staging, Running, Comparing
<1>7. ReceiptsTrue' /\ CurrentTrue' /\ RootsKeep'
  BY <1>1 DEF IInv, ReceiptsTrue, CurrentTrue, RootsKeep
<1>8. GenerationsShared'
  BY <1>1 DEF IInv, CurrentTrue, GenerationsShared, At, Verifies
<1> QED BY <1>3, <1>5, <1>6, <1>7, <1>8 DEF IInv

-----------------------------------------------------------------------------
(***************************************************************************)
(* The steps of a command that change nothing but what the command knows.   *)
(* Each names the new record once, says which of its fields changed and     *)
(* re-establishes the four parts of Known for it.                           *)
(***************************************************************************)
LEMMA FailKeeps ==
    ASSUME IInv, NEW p \in Procs, Fail(p),
           proc[p].pc = "kept" => ~Verifies(proc[p].env)
    PROVE  IInv'
<1>1. /\ Leave(p) /\ UNCHANGED <<tree, lock, gens, current, store>>
  BY DEF Fail
<1>2. (lock # None => LockOK(lock))'
  BY <1>1, EnvMadeGrows DEF IInv, LockOK, Grow
<1>3. gens \in Seq(Generations)
  BY DEF IInv, Shape
<1> QED BY <1>1, <1>2, <1>3, LeaveStep

LEMMA ReadSourcesKeeps ==
    ASSUME IInv, NEW p \in Procs, ReadSources(p)
    PROVE  IInv'
<1> DEFINE new == [proc[p] EXCEPT
                     !.pc = IF proc[p].op = "lock" THEN "checked" ELSE "load",
                     !.expected = tree.files]
<1>0. new = [proc[p] EXCEPT !.pc = IF proc[p].op = "lock" THEN "checked" ELSE "load",
                            !.expected = tree.files]
  OBVIOUS
<1>1. /\ proc[p].pc = "manifest" /\ Known(p, proc[p]) /\ IsRecord(proc[p])
      /\ tree \in Trees /\ proc' = [proc EXCEPT ![p] = new]
      /\ UNCHANGED <<tree, lock, gens, current, guard, store, roots>>
  BY DEF IInv, Shape, ReadSources, BundleIdentity, Set, At, uv, nix
<1> HIDE DEF new
<1>2. /\ IsRecord(new)
      /\ new.pc = (IF proc[p].op = "lock" THEN "checked" ELSE "load")
      /\ new.expected = tree.files
      /\ new.op = proc[p].op /\ new.manifest = proc[p].manifest
      /\ new.source = proc[p].source
      /\ new.copy = proc[p].copy /\ new.env = proc[p].env /\ new.lock = proc[p].lock
      /\ new.id = proc[p].id /\ new.staged = proc[p].staged
      /\ new.steady = proc[p].steady
  BY <1>0, <1>1, Zenon DEF IsRecord
<1>3. new.pc \in PCs /\ Local(p, new)
  BY <1>1, <1>2 DEF Known, Local, PCs, LockOnly, LoadOnly, Uv, Nix, Making, Staging,
     Running, Comparing
<1>4. Prepared(p, new)
  BY <1>1, <1>2 DEF Known, Local, Prepared, PCs, LockOnly, LoadOnly, Uv, Nix, Making,
     Staging, Running, Comparing
<1>5. Loaded(p, new)
  BY <1>1, <1>2 DEF Known, Local, Loaded, LockedPaths, PCs, LockOnly, LoadOnly, Uv,
     Nix, Making, Staging, Running, Comparing
<1>6. Planned(new)
  BY <1>1, <1>2 DEF Known, Local, Planned, PCs, LockOnly, LoadOnly, Uv, Nix, Making,
     Staging, Running, Comparing
<1> QED BY <1>1, <1>2, <1>3, <1>4, <1>5, <1>6, LocalStep DEF Known

LEMMA CaptureSourcesKeeps ==
    ASSUME IInv, NEW p \in Procs, CaptureSources(p)
    PROVE  IInv'
<1> DEFINE new == [proc[p] EXCEPT !.pc = "captured", !.source = tree]
<1>0. new = [proc[p] EXCEPT !.pc = "captured", !.source = tree]
  OBVIOUS
<1>1. /\ proc[p].pc = "checked" /\ Known(p, proc[p]) /\ IsRecord(proc[p])
      /\ tree \in Trees /\ proc' = [proc EXCEPT ![p] = new]
      /\ UNCHANGED <<tree, lock, gens, current, guard, store, roots>>
  BY DEF IInv, Shape, CaptureSources, Captured, Set, At, uv, nix
<1> HIDE DEF new
<1>2. /\ IsRecord(new)
      /\ new.pc = "captured" /\ new.source = tree
      /\ new.op = proc[p].op /\ new.manifest = proc[p].manifest
      /\ new.expected = proc[p].expected
      /\ new.copy = proc[p].copy /\ new.env = proc[p].env /\ new.lock = proc[p].lock
      /\ new.id = proc[p].id /\ new.staged = proc[p].staged
      /\ new.steady = proc[p].steady
  BY <1>0, <1>1, Zenon DEF IsRecord
<1>3. new.pc \in PCs /\ Local(p, new)
  BY <1>1, <1>2 DEF Known, Local, PCs, LockOnly, LoadOnly, Uv, Nix, Making, Staging,
     Running, Comparing
<1>4. Prepared(p, new)
  BY <1>1, <1>2 DEF Known, Local, Prepared, PCs, LockOnly, LoadOnly, Uv, Nix, Making,
     Staging, Running, Comparing
<1>5. Loaded(p, new)
  BY <1>1, <1>2 DEF Known, Local, Loaded, LockedPaths, PCs, LockOnly, LoadOnly, Uv,
     Nix, Making, Staging, Running, Comparing
<1>6. Planned(new)
  BY <1>1, <1>2 DEF Known, Local, Planned, PCs, LockOnly, LoadOnly, Uv, Nix, Making,
     Staging, Running, Comparing
<1> QED BY <1>1, <1>2, <1>3, <1>4, <1>5, <1>6, LocalStep DEF Known

LEMMA CopySnapshotKeeps ==
    ASSUME IInv, NEW p \in Procs, CopySnapshot(p)
    PROVE  IInv'
<1> DEFINE new == [proc[p] EXCEPT !.pc = "copied", !.copy = tree]
<1>0. new = [proc[p] EXCEPT !.pc = "copied", !.copy = tree]
  OBVIOUS
<1>1. /\ proc[p].pc = "captured" /\ Known(p, proc[p]) /\ IsRecord(proc[p])
      /\ tree \in Trees /\ proc' = [proc EXCEPT ![p] = new]
      /\ UNCHANGED <<tree, lock, gens, current, guard, store, roots>>
  BY DEF IInv, Shape, CopySnapshot, Set, At, uv, nix
<1> HIDE DEF new
<1>2. /\ IsRecord(new)
      /\ new.pc = "copied" /\ new.copy = tree
      /\ new.op = proc[p].op /\ new.manifest = proc[p].manifest
      /\ new.expected = proc[p].expected
      /\ new.source = proc[p].source /\ new.env = proc[p].env /\ new.lock = proc[p].lock
      /\ new.id = proc[p].id /\ new.staged = proc[p].staged
      /\ new.steady = proc[p].steady
  BY <1>0, <1>1, Zenon DEF IsRecord
<1>3. new.pc \in PCs /\ Local(p, new)
  BY <1>1, <1>2 DEF Known, Local, PCs, LockOnly, LoadOnly, Uv, Nix, Making, Staging,
     Running, Comparing
<1>4. Prepared(p, new)
  BY <1>1, <1>2 DEF Known, Local, Prepared, PCs, LockOnly, LoadOnly, Uv, Nix, Making,
     Staging, Running, Comparing
<1>5. Loaded(p, new)
  BY <1>1, <1>2 DEF Known, Local, Loaded, LockedPaths, PCs, LockOnly, LoadOnly, Uv,
     Nix, Making, Staging, Running, Comparing
<1>6. Planned(new)
  BY <1>1, <1>2 DEF Known, Local, Planned, PCs, LockOnly, LoadOnly, Uv, Nix, Making,
     Staging, Running, Comparing
<1> QED BY <1>1, <1>2, <1>3, <1>4, <1>5, <1>6, LocalStep DEF Known

LEMMA CheckSnapshotKeeps ==
    ASSUME IInv, NEW p \in Procs, CheckSnapshot(p)
    PROVE  IInv'
<1> DEFINE new == [proc[p] EXCEPT !.pc = proc[p].manifest]
<1>1. CASE ~Fail(p)
  <2>1. /\ proc[p].pc = "copied" /\ Known(p, proc[p]) /\ IsRecord(proc[p])
        /\ tree \in Trees /\ proc' = [proc EXCEPT ![p] = new]
        /\ proc[p].copy = proc[p].source
        /\ UNCHANGED <<tree, lock, gens, current, guard, store, roots>>
    BY <1>1 DEF IInv, Shape, CheckSnapshot, SnapshotMatches, Set, At, uv, nix
  <2>0. new = [proc[p] EXCEPT !.pc = proc[p].manifest]
    OBVIOUS
  <2> HIDE DEF new
  <2>2. /\ IsRecord(new)
        /\ new.pc = proc[p].manifest
        /\ new.op = proc[p].op /\ new.manifest = proc[p].manifest
        /\ new.expected = proc[p].expected
        /\ new.source = proc[p].source /\ new.copy = proc[p].copy
        /\ new.env = proc[p].env
        /\ new.lock = proc[p].lock /\ new.id = proc[p].id /\ new.staged = proc[p].staged
        /\ new.steady = proc[p].steady
    BY <2>0, <2>1, Zenon DEF IsRecord
  <2>3. new.pc \in PCs /\ Local(p, new)
    BY <2>1, <2>2, LockedRunsAssumption DEF Known, Local, PCs, LockOnly, LoadOnly, Uv,
       Nix, Making, Staging, Running, Comparing
  <2>4. Prepared(p, new)
    BY <2>1, <2>2, LockedRunsAssumption DEF Known, Local, Prepared, PCs, LockOnly,
       LoadOnly, Uv, Nix, Making, Staging, Running, Comparing
  <2>5. Loaded(p, new)
    BY <2>1, <2>2, LockedRunsAssumption DEF Known, Local, Loaded, LockedPaths, PCs,
       LockOnly, LoadOnly, Uv, Nix, Making, Staging, Running, Comparing
  <2>6. Planned(new)
    BY <2>1, <2>2, LockedRunsAssumption DEF Known, Local, Planned, PCs, LockOnly,
       LoadOnly, Uv, Nix, Making, Staging, Running, Comparing
  <2> QED BY <2>1, <2>2, <2>3, <2>4, <2>5, <2>6, LocalStep DEF Known
<1>2. CASE Fail(p)
  BY <1>2, FailKeeps DEF CheckSnapshot, At
<1> QED BY <1>1, <1>2

LEMMA SelectWorkersKeeps ==
    ASSUME IInv, NEW p \in Procs, SelectWorkers(p)
    PROVE  IInv'
<1> DEFINE new == [proc[p] EXCEPT !.pc = "stage", !.id = WorkerId(p)]
<1>0. new = [proc[p] EXCEPT !.pc = "stage", !.id = WorkerId(p)]
  OBVIOUS
<1>1. /\ proc[p].pc = "prepared" /\ Known(p, proc[p]) /\ IsRecord(proc[p])
      /\ tree \in Trees /\ proc' = [proc EXCEPT ![p] = new]
      /\ UNCHANGED <<tree, lock, gens, current, guard, store, roots>>
  BY DEF IInv, Shape, SelectWorkers, Set, At, uv, nix
<1> HIDE DEF new
<1>2. /\ IsRecord(new)
      /\ new.pc = "stage" /\ new.id = WorkerId(p)
      /\ new.op = proc[p].op /\ new.manifest = proc[p].manifest
      /\ new.expected = proc[p].expected
      /\ new.source = proc[p].source /\ new.copy = proc[p].copy /\ new.env = proc[p].env
      /\ new.lock = proc[p].lock /\ new.staged = proc[p].staged
      /\ new.steady = proc[p].steady
  BY <1>0, <1>1, Zenon DEF IsRecord
<1>3. new.pc \in PCs /\ Local(p, new)
  BY <1>1, <1>2 DEF Known, Local, PCs, LockOnly, LoadOnly, Uv, Nix, Making, Staging,
     Running, Comparing
<1>4. Prepared(p, new)
  BY <1>1, <1>2 DEF Known, Local, Prepared, PCs, LockOnly, LoadOnly, Uv, Nix, Making,
     Staging, Running, Comparing
<1>5. Loaded(p, new)
  BY <1>1, <1>2 DEF Known, Local, Loaded, LockedPaths, PCs, LockOnly, LoadOnly, Uv,
     Nix, Making, Staging, Running, Comparing
<1>6. Planned(new)
  BY <1>1, <1>2 DEF Known, Local, Planned, PCs, LockOnly, LoadOnly, Uv, Nix, Making,
     Staging, Running, Comparing
<1> QED BY <1>1, <1>2, <1>3, <1>4, <1>5, <1>6, LocalStep DEF Known

LEMMA StageWorkerKeeps ==
    ASSUME IInv, NEW p \in Procs, StageWorker(p)
    PROVE  IInv'
<1> DEFINE new == [proc[p] EXCEPT !.pc = "copy"]
<1>1. CASE ~Fail(p)
  <2>1. /\ proc[p].pc = "stage" /\ Known(p, proc[p]) /\ IsRecord(proc[p])
        /\ tree \in Trees /\ proc' = [proc EXCEPT ![p] = new]
        /\ UNCHANGED <<tree, lock, gens, current, guard, store, roots>>
    BY <1>1 DEF IInv, Shape, StageWorker, Set, At, uv, nix
  <2>0. new = [proc[p] EXCEPT !.pc = "copy"]
    OBVIOUS
  <2> HIDE DEF new
  <2>2. /\ IsRecord(new)
        /\ new.pc = "copy"
        /\ new.op = proc[p].op /\ new.manifest = proc[p].manifest
        /\ new.expected = proc[p].expected
        /\ new.source = proc[p].source /\ new.copy = proc[p].copy
        /\ new.env = proc[p].env
        /\ new.lock = proc[p].lock /\ new.id = proc[p].id /\ new.staged = proc[p].staged
        /\ new.steady = proc[p].steady
    BY <2>0, <2>1, Zenon DEF IsRecord
  <2>3. new.pc \in PCs /\ Local(p, new)
    BY <2>1, <2>2 DEF Known, Local, PCs, LockOnly, LoadOnly, Uv, Nix, Making, Staging,
       Running, Comparing
  <2>4. Prepared(p, new)
    BY <2>1, <2>2 DEF Known, Local, Prepared, PCs, LockOnly, LoadOnly, Uv, Nix,
       Making, Staging, Running, Comparing
  <2>5. Loaded(p, new)
    BY <2>1, <2>2 DEF Known, Local, Loaded, LockedPaths, PCs, LockOnly, LoadOnly, Uv,
       Nix, Making, Staging, Running, Comparing
  <2>6. Planned(new)
    BY <2>1, <2>2 DEF Known, Local, Planned, PCs, LockOnly, LoadOnly, Uv, Nix, Making,
       Staging, Running, Comparing
  <2> QED BY <2>1, <2>2, <2>3, <2>4, <2>5, <2>6, LocalStep DEF Known
<1>2. CASE Fail(p)
  BY <1>2, FailKeeps DEF StageWorker, At
<1> QED BY <1>1, <1>2

LEMMA CopyBundleKeeps ==
    ASSUME IInv, NEW p \in Procs, CopyBundle(p)
    PROVE  IInv'
<1> DEFINE new == [proc[p] EXCEPT !.pc = "recheck", !.staged = tree.files]
<1>0. new = [proc[p] EXCEPT !.pc = "recheck", !.staged = tree.files]
  OBVIOUS
<1>1. /\ proc[p].pc = "copy" /\ Known(p, proc[p]) /\ IsRecord(proc[p])
      /\ tree \in Trees /\ proc' = [proc EXCEPT ![p] = new]
      /\ UNCHANGED <<tree, lock, gens, current, guard, store, roots>>
  BY DEF IInv, Shape, CopyBundle, Set, At, uv, nix
<1> HIDE DEF new
<1>2. /\ IsRecord(new)
      /\ new.pc = "recheck" /\ new.staged = tree.files
      /\ new.op = proc[p].op /\ new.manifest = proc[p].manifest
      /\ new.expected = proc[p].expected
      /\ new.source = proc[p].source /\ new.copy = proc[p].copy /\ new.env = proc[p].env
      /\ new.lock = proc[p].lock /\ new.id = proc[p].id /\ new.steady = proc[p].steady
  BY <1>0, <1>1, Zenon DEF IsRecord
<1>3. new.pc \in PCs /\ Local(p, new)
  BY <1>1, <1>2 DEF Known, Local, PCs, LockOnly, LoadOnly, Uv, Nix, Making, Staging,
     Running, Comparing
<1>4. Prepared(p, new)
  BY <1>1, <1>2 DEF Known, Local, Prepared, PCs, LockOnly, LoadOnly, Uv, Nix, Making,
     Staging, Running, Comparing
<1>5. Loaded(p, new)
  BY <1>1, <1>2 DEF Known, Local, Loaded, LockedPaths, PCs, LockOnly, LoadOnly, Uv,
     Nix, Making, Staging, Running, Comparing
<1>6. Planned(new)
  BY <1>1, <1>2 DEF Known, Local, Planned, PCs, LockOnly, LoadOnly, Uv, Nix, Making,
     Staging, Running, Comparing
<1> QED BY <1>1, <1>2, <1>3, <1>4, <1>5, <1>6, LocalStep DEF Known

LEMMA CheckCopyKeeps ==
    ASSUME IInv, NEW p \in Procs, CheckCopy(p)
    PROVE  IInv'
<1> DEFINE new == [proc[p] EXCEPT !.pc = "staged"]
<1>1. CASE ~Fail(p)
  <2>1. /\ proc[p].pc = "recheck" /\ Known(p, proc[p]) /\ IsRecord(proc[p])
        /\ tree \in Trees /\ proc' = [proc EXCEPT ![p] = new]
        /\ proc[p].staged = proc[p].expected
        /\ UNCHANGED <<tree, lock, gens, current, guard, store, roots>>
    BY <1>1 DEF IInv, Shape, CheckCopy, StagedMatches, Set, At, uv, nix
  <2>0. new = [proc[p] EXCEPT !.pc = "staged"]
    OBVIOUS
  <2> HIDE DEF new
  <2>2. /\ IsRecord(new)
        /\ new.pc = "staged"
        /\ new.op = proc[p].op /\ new.manifest = proc[p].manifest
        /\ new.expected = proc[p].expected
        /\ new.source = proc[p].source /\ new.copy = proc[p].copy
        /\ new.env = proc[p].env
        /\ new.lock = proc[p].lock /\ new.id = proc[p].id /\ new.staged = proc[p].staged
        /\ new.steady = proc[p].steady
    BY <2>0, <2>1, Zenon DEF IsRecord
  <2>3. new.pc \in PCs /\ Local(p, new)
    BY <2>1, <2>2 DEF Known, Local, PCs, LockOnly, LoadOnly, Uv, Nix, Making, Staging,
       Running, Comparing
  <2>4. Prepared(p, new)
    BY <2>1, <2>2 DEF Known, Local, Prepared, PCs, LockOnly, LoadOnly, Uv, Nix,
       Making, Staging, Running, Comparing
  <2>5. Loaded(p, new)
    BY <2>1, <2>2 DEF Known, Local, Loaded, LockedPaths, PCs, LockOnly, LoadOnly, Uv,
       Nix, Making, Staging, Running, Comparing
  <2>6. Planned(new)
    BY <2>1, <2>2 DEF Known, Local, Planned, PCs, LockOnly, LoadOnly, Uv, Nix, Making,
       Staging, Running, Comparing
  <2> QED BY <2>1, <2>2, <2>3, <2>4, <2>5, <2>6, LocalStep DEF Known
<1>2. CASE Fail(p)
  BY <1>2, FailKeeps DEF CheckCopy, At
<1> QED BY <1>1, <1>2

LEMMA RecaptureSourcesKeeps ==
    ASSUME IInv, NEW p \in Procs, RecaptureSources(p)
    PROVE  IInv'
<1> DEFINE new == [proc[p] EXCEPT !.pc = "write"]
<1>1. CASE ~Fail(p)
  <2>1. /\ proc[p].pc = "staged" /\ Known(p, proc[p]) /\ IsRecord(proc[p])
        /\ tree \in Trees /\ proc' = [proc EXCEPT ![p] = new]
        /\ proc[p].op = "lock"
        /\ UNCHANGED <<tree, lock, gens, current, guard, store, roots>>
    BY <1>1 DEF IInv, Shape, RecaptureSources, Set, At, uv, nix
  <2>0. new = [proc[p] EXCEPT !.pc = "write"]
    OBVIOUS
  <2> HIDE DEF new
  <2>2. /\ IsRecord(new)
        /\ new.pc = "write"
        /\ new.op = proc[p].op /\ new.manifest = proc[p].manifest
        /\ new.expected = proc[p].expected
        /\ new.source = proc[p].source /\ new.copy = proc[p].copy
        /\ new.env = proc[p].env
        /\ new.lock = proc[p].lock /\ new.id = proc[p].id /\ new.staged = proc[p].staged
        /\ new.steady = proc[p].steady
    BY <2>0, <2>1, Zenon DEF IsRecord
  <2>3. new.pc \in PCs /\ Local(p, new)
    BY <2>1, <2>2 DEF Known, Local, PCs, LockOnly, LoadOnly, Uv, Nix, Making, Staging,
       Running, Comparing
  <2>4. Prepared(p, new)
    BY <2>1, <2>2 DEF Known, Local, Prepared, PCs, LockOnly, LoadOnly, Uv, Nix,
       Making, Staging, Running, Comparing
  <2>5. Loaded(p, new)
    BY <2>1, <2>2 DEF Known, Local, Loaded, LockedPaths, PCs, LockOnly, LoadOnly, Uv,
       Nix, Making, Staging, Running, Comparing
  <2>6. Planned(new)
    BY <2>1, <2>2 DEF Known, Local, Planned, PCs, LockOnly, LoadOnly, Uv, Nix, Making,
       Staging, Running, Comparing
  <2> QED BY <2>1, <2>2, <2>3, <2>4, <2>5, <2>6, LocalStep DEF Known
<1>2. CASE Fail(p)
  BY <1>2, FailKeeps DEF RecaptureSources, At
<1> QED BY <1>1, <1>2

LEMMA ReadLockKeeps ==
    ASSUME IInv, NEW p \in Procs, ReadLock(p)
    PROVE  IInv'
<1> DEFINE new == [proc[p] EXCEPT !.pc = "compare", !.lock = lock]
<1>1. CASE ~Fail(p)
  <2>1. /\ proc[p].pc = "load" /\ Known(p, proc[p]) /\ IsRecord(proc[p])
        /\ tree \in Trees /\ proc' = [proc EXCEPT ![p] = new]
        /\ LockOK(lock)
        /\ UNCHANGED <<tree, lock, gens, current, guard, store, roots>>
    BY <1>1 DEF IInv, Shape, ReadLock, Set, At, uv, nix
  <2>0. new = [proc[p] EXCEPT !.pc = "compare", !.lock = lock]
    OBVIOUS
  <2> HIDE DEF new
  <2>2. /\ IsRecord(new)
        /\ new.pc = "compare" /\ new.lock = lock
        /\ new.op = proc[p].op /\ new.manifest = proc[p].manifest
        /\ new.expected = proc[p].expected
        /\ new.source = proc[p].source /\ new.copy = proc[p].copy
        /\ new.env = proc[p].env
        /\ new.id = proc[p].id /\ new.staged = proc[p].staged
        /\ new.steady = proc[p].steady
    BY <2>0, <2>1, Zenon DEF IsRecord
  <2>3. new.pc \in PCs /\ Local(p, new)
    BY <2>1, <2>2 DEF Known, Local, PCs, LockOnly, LoadOnly, Uv, Nix, Making, Staging,
       Running, Comparing
  <2>4. Prepared(p, new)
    BY <2>1, <2>2 DEF Known, Local, Prepared, PCs, LockOnly, LoadOnly, Uv, Nix,
       Making, Staging, Running, Comparing
  <2>5. Loaded(p, new)
    BY <2>1, <2>2 DEF Known, Local, Loaded, LockedPaths, PCs, LockOnly, LoadOnly, Uv,
       Nix, Making, Staging, Running, Comparing
  <2>6. Planned(new)
    BY <2>1, <2>2 DEF Known, Local, Planned, PCs, LockOnly, LoadOnly, Uv, Nix, Making,
       Staging, Running, Comparing
  <2> QED BY <2>1, <2>2, <2>3, <2>4, <2>5, <2>6, LocalStep DEF Known
<1>2. CASE Fail(p)
  BY <1>2, FailKeeps DEF ReadLock, At
<1> QED BY <1>1, <1>2

LEMMA CompareSourcesKeeps ==
    ASSUME IInv, NEW p \in Procs, CompareSources(p)
    PROVE  IInv'
<1> DEFINE new == [proc[p] EXCEPT !.pc = "definitions"]
<1>1. CASE ~Fail(p)
  <2>1. /\ proc[p].pc = "compare" /\ Known(p, proc[p]) /\ IsRecord(proc[p])
        /\ tree \in Trees /\ proc' = [proc EXCEPT ![p] = new]
        /\ tree = proc[p].lock.source
        /\ UNCHANGED <<tree, lock, gens, current, guard, store, roots>>
    BY <1>1 DEF IInv, Shape, CompareSources, SourcesMatch, Captured, Set, At, uv, nix
  <2>0. new = [proc[p] EXCEPT !.pc = "definitions"]
    OBVIOUS
  <2> HIDE DEF new
  <2>2. /\ IsRecord(new)
        /\ new.pc = "definitions"
        /\ new.op = proc[p].op /\ new.manifest = proc[p].manifest
        /\ new.expected = proc[p].expected
        /\ new.source = proc[p].source /\ new.copy = proc[p].copy
        /\ new.env = proc[p].env
        /\ new.lock = proc[p].lock /\ new.id = proc[p].id /\ new.staged = proc[p].staged
        /\ new.steady = proc[p].steady
    BY <2>0, <2>1, Zenon DEF IsRecord
  <2>3. new.pc \in PCs /\ Local(p, new)
    BY <2>1, <2>2 DEF Known, Local, PCs, LockOnly, LoadOnly, Uv, Nix, Making, Staging,
       Running, Comparing
  <2>4. Prepared(p, new)
    BY <2>1, <2>2 DEF Known, Local, Prepared, PCs, LockOnly, LoadOnly, Uv, Nix,
       Making, Staging, Running, Comparing
  <2>5. Loaded(p, new)
    BY <2>1, <2>2 DEF Known, Local, Loaded, LockedPaths, PCs, LockOnly, LoadOnly, Uv,
       Nix, Making, Staging, Running, Comparing
  <2>6. Planned(new)
    BY <2>1, <2>2 DEF Known, Local, Planned, PCs, LockOnly, LoadOnly, Uv, Nix, Making,
       Staging, Running, Comparing
  <2> QED BY <2>1, <2>2, <2>3, <2>4, <2>5, <2>6, LocalStep DEF Known
<1>2. CASE Fail(p)
  BY <1>2, FailKeeps DEF CompareSources, At
<1> QED BY <1>1, <1>2

LEMMA CompareDefinitionsKeeps ==
    ASSUME IInv, NEW p \in Procs, CompareDefinitions(p)
    PROVE  IInv'
<1> DEFINE new == [proc[p] EXCEPT !.pc = "verify", !.env = proc[p].lock.env]
<1>1. CASE ~Fail(p)
  <2>1. /\ proc[p].pc = "definitions" /\ Known(p, proc[p]) /\ IsRecord(proc[p])
        /\ tree \in Trees /\ proc' = [proc EXCEPT ![p] = new]
        /\ proc[p].lock.definition = proc[p].manifest
        /\ UNCHANGED <<tree, lock, gens, current, guard, store, roots>>
    BY <1>1 DEF IInv, Shape, CompareDefinitions, Set, At, uv, nix
  <2>0. new = [proc[p] EXCEPT !.pc = "verify", !.env = proc[p].lock.env]
    OBVIOUS
  <2> HIDE DEF new
  <2>2. /\ IsRecord(new)
        /\ new.pc = "verify" /\ new.env = proc[p].lock.env
        /\ new.op = proc[p].op /\ new.manifest = proc[p].manifest
        /\ new.expected = proc[p].expected
        /\ new.source = proc[p].source /\ new.copy = proc[p].copy
        /\ new.lock = proc[p].lock
        /\ new.id = proc[p].id /\ new.staged = proc[p].staged
        /\ new.steady = proc[p].steady
    BY <2>0, <2>1, Zenon DEF IsRecord
  <2>3. new.pc \in PCs /\ Local(p, new)
    BY <2>1, <2>2 DEF Known, Local, PCs, LockOnly, LoadOnly, Uv, Nix, Making, Staging,
       Running, Comparing
  <2>4. Prepared(p, new)
    BY <2>1, <2>2 DEF Known, Local, Prepared, PCs, LockOnly, LoadOnly, Uv, Nix,
       Making, Staging, Running, Comparing
  <2>5. Loaded(p, new)
    BY <2>1, <2>2 DEF Known, Local, Loaded, LockedPaths, PCs, LockOnly, LoadOnly, Uv,
       Nix, Making, Staging, Running, Comparing
  <2>6. Planned(new)
    BY <2>1, <2>2 DEF Known, Local, Planned, PCs, LockOnly, LoadOnly, Uv, Nix, Making,
       Staging, Running, Comparing
  <2> QED BY <2>1, <2>2, <2>3, <2>4, <2>5, <2>6, LocalStep DEF Known
<1>2. CASE Fail(p)
  BY <1>2, FailKeeps DEF CompareDefinitions, At
<1> QED BY <1>1, <1>2

LEMMA VerifyEnvironmentKeeps ==
    ASSUME IInv, NEW p \in Procs, VerifyEnvironment(p)
    PROVE  IInv'
<1> DEFINE new == [proc[p] EXCEPT !.pc = IF proc[p].op = "run" THEN "pin" ELSE "stage"]
<1>1. CASE ~Fail(p)
  <2>1. /\ proc[p].pc = "verify" /\ Known(p, proc[p]) /\ IsRecord(proc[p])
        /\ tree \in Trees /\ proc' = [proc EXCEPT ![p] = new]
        /\ UNCHANGED <<tree, lock, gens, current, guard, store, roots>>
    BY <1>1 DEF IInv, Shape, VerifyEnvironment, Set, At, uv, nix
  <2>0. new = [proc[p] EXCEPT !.pc = IF proc[p].op = "run" THEN "pin" ELSE "stage"]
    OBVIOUS
  <2> HIDE DEF new
  <2>2. /\ IsRecord(new)
        /\ new.pc = (IF proc[p].op = "run" THEN "pin" ELSE "stage")
        /\ new.op = proc[p].op /\ new.manifest = proc[p].manifest
        /\ new.expected = proc[p].expected
        /\ new.source = proc[p].source /\ new.copy = proc[p].copy
        /\ new.env = proc[p].env
        /\ new.lock = proc[p].lock /\ new.id = proc[p].id /\ new.staged = proc[p].staged
        /\ new.steady = proc[p].steady
    BY <2>0, <2>1, Zenon DEF IsRecord
  <2>3. new.pc \in PCs /\ Local(p, new)
    BY <2>1, <2>2 DEF Known, Local, PCs, LockOnly, LoadOnly, Uv, Nix, Making, Staging,
       Running, Comparing
  <2>4. Prepared(p, new)
    BY <2>1, <2>2 DEF Known, Local, Prepared, PCs, LockOnly, LoadOnly, Uv, Nix,
       Making, Staging, Running, Comparing
  <2>5. Loaded(p, new)
    BY <2>1, <2>2 DEF Known, Local, Loaded, LockedPaths, PCs, LockOnly, LoadOnly, Uv,
       Nix, Making, Staging, Running, Comparing
  <2>6. Planned(new)
    BY <2>1, <2>2 DEF Known, Local, Planned, PCs, LockOnly, LoadOnly, Uv, Nix, Making,
       Staging, Running, Comparing
  <2> QED BY <2>1, <2>2, <2>3, <2>4, <2>5, <2>6, LocalStep DEF Known
<1>2. CASE Fail(p)
  BY <1>2, FailKeeps DEF VerifyEnvironment, At
<1> QED BY <1>1, <1>2

LEMMA VerifyWorkerKeeps ==
    ASSUME IInv, NEW p \in Procs, VerifyWorker(p)
    PROVE  IInv'
<1> DEFINE new == [proc[p] EXCEPT !.pc = "dataset"]
<1>1. CASE ~Fail(p)
  <2>1. /\ proc[p].pc = "staged" /\ Known(p, proc[p]) /\ IsRecord(proc[p])
        /\ tree \in Trees /\ proc' = [proc EXCEPT ![p] = new]
        /\ proc[p].op = "run"
        /\ UNCHANGED <<tree, lock, gens, current, guard, store, roots>>
    BY <1>1 DEF IInv, Shape, VerifyWorker, Set, At, uv, nix
  <2>0. new = [proc[p] EXCEPT !.pc = "dataset"]
    OBVIOUS
  <2> HIDE DEF new
  <2>2. /\ IsRecord(new)
        /\ new.pc = "dataset"
        /\ new.op = proc[p].op /\ new.manifest = proc[p].manifest
        /\ new.expected = proc[p].expected
        /\ new.source = proc[p].source /\ new.copy = proc[p].copy
        /\ new.env = proc[p].env
        /\ new.lock = proc[p].lock /\ new.id = proc[p].id /\ new.staged = proc[p].staged
        /\ new.steady = proc[p].steady
    BY <2>0, <2>1, Zenon DEF IsRecord
  <2>3. new.pc \in PCs /\ Local(p, new)
    BY <2>1, <2>2 DEF Known, Local, PCs, LockOnly, LoadOnly, Uv, Nix, Making, Staging,
       Running, Comparing
  <2>4. Prepared(p, new)
    BY <2>1, <2>2 DEF Known, Local, Prepared, PCs, LockOnly, LoadOnly, Uv, Nix,
       Making, Staging, Running, Comparing
  <2>5. Loaded(p, new)
    BY <2>1, <2>2 DEF Known, Local, Loaded, LockedPaths, PCs, LockOnly, LoadOnly, Uv,
       Nix, Making, Staging, Running, Comparing
  <2>6. Planned(new)
    BY <2>1, <2>2 DEF Known, Local, Planned, PCs, LockOnly, LoadOnly, Uv, Nix, Making,
       Staging, Running, Comparing
  <2> QED BY <2>1, <2>2, <2>3, <2>4, <2>5, <2>6, LocalStep DEF Known
<1>2. CASE Fail(p)
  BY <1>2, FailKeeps DEF VerifyWorker, At
<1> QED BY <1>1, <1>2

LEMMA StartKeeps ==
    ASSUME IInv, NEW p \in Procs, NEW op \in Commands, Start(p, op)
    PROVE  IInv'
<1> DEFINE new == [Idle EXCEPT !.pc = "manifest", !.op = op, !.manifest = tree.manifest]
<1>1. /\ proc[p].pc = "idle" /\ tree.manifest \in Backends
      /\ proc' = [proc EXCEPT ![p] = new]
      /\ UNCHANGED <<tree, lock, gens, current, guard, store, roots>>
  BY DEF IInv, Shape, Trees, Start, Set, At, uv, nix
<1>2. new = [Idle EXCEPT !.pc = "manifest", !.op = op, !.manifest = tree.manifest]
  OBVIOUS
<1> HIDE DEF new
<1>3. IsRecord(Idle)
  BY DEF IsRecord, Idle
<1>4. /\ IsRecord(new) /\ new.pc = "manifest" /\ new.op = op
      /\ new.manifest = tree.manifest
  BY <1>2, <1>3, Zenon DEF IsRecord
<1>5. new.pc \in PCs /\ Known(p, new)
  BY <1>1, <1>4 DEF Known, Local, Prepared, Loaded, Planned, PCs, LockOnly, LoadOnly,
     Uv,
     Nix, Making, Staging, Running, Comparing
<1> QED BY <1>1, <1>4, <1>5, LocalStep

\* Every step of a run that has resolved its worker.
LEMMA GotoKeeps ==
    ASSUME IInv, NEW p \in Procs, proc[p].pc \in Running, NEW pc \in Running, Goto(p, pc)
    PROVE  IInv'
<1> DEFINE new == [proc[p] EXCEPT !.pc = pc]
<1>1. /\ Known(p, proc[p]) /\ IsRecord(proc[p]) /\ proc' = [proc EXCEPT ![p] = new]
      /\ UNCHANGED <<tree, lock, gens, current, guard, store, roots>>
  BY DEF IInv, Shape, Goto, Set, uv, nix
<1>2. new = [proc[p] EXCEPT !.pc = pc]
  OBVIOUS
<1> HIDE DEF new
<1>3. /\ IsRecord(new) /\ new.pc = pc /\ new.op = proc[p].op
      /\ new.manifest = proc[p].manifest /\ new.lock = proc[p].lock
      /\ new.steady = proc[p].steady /\ new.expected = proc[p].expected
      /\ new.staged = proc[p].staged
  BY <1>1, <1>2, Zenon DEF IsRecord
<1>4. new.pc \in PCs /\ Known(p, new)
  BY <1>1, <1>3 DEF Known, Local, Prepared, Loaded, Planned, PCs, LockOnly, LoadOnly,
     Uv,
     Nix, Making, Staging, Running, Comparing
<1>5. proc[p].pc # "kept"
  BY DEF Running
<1> QED BY <1>1, <1>3, <1>4, <1>5, LocalStep

LEMMA RunningKeeps ==
    ASSUME IInv, NEW p \in Procs,
           \/ ResolveDataset(p) \/ DatasetMaterialized(p) \/ ResolvePreparation(p)
           \/ ProblemPrepared(p) \/ ResolveApplicability(p) \/ ApplicabilityKnown(p)
           \/ Launch(p) \/ EndLaunch(p) \/ EndRun(p)
    PROVE  IInv'
<1>1. proc[p].pc \in Running /\ ((\E pc \in Running : Goto(p, pc)) \/ Fail(p))
  BY DEF ResolveDataset, DatasetMaterialized, ResolvePreparation, ProblemPrepared,
         ResolveApplicability, ApplicabilityKnown, Launch, EndLaunch, EndRun, Checked, At,
         Running
<1>2. proc[p].pc # "kept"
  BY <1>1 DEF Running
<1> QED BY <1>1, <1>2, GotoKeeps, FailKeeps

-----------------------------------------------------------------------------
(***************************************************************************)
(* Steps that change the generations or the store.                          *)
(***************************************************************************)
LEMMA SharedStep ==
    ASSUME IInv, NEW p \in Procs, NEW new, proc' = [proc EXCEPT ![p] = new],
           IsRecord(new), new.pc \in PCs, UNCHANGED <<tree, lock>>,
           Grow, gens' \in Seq(Generations), DOMAIN current' = Keys,
           guard' \in [Keys -> Procs \cup {None}], DOMAIN roots' = Procs,
           \A q \in Procs \ {p} : roots[q] \subseteq roots'[q],
           \A q \in Procs \ {p} : \A r :
              r.manifest \in Backends /\ r.source \in Trees /\ InTheMaking(q, r)
                 => InTheMaking(q, r)',
           ReceiptsTrue', CurrentTrue', GenerationsShared', RootsKeep', Known(p, new)'
    PROVE  IInv'
<1>1. /\ proc'[p] = new /\ \A q \in Procs \ {p} : proc'[q] = proc[q]
      /\ DOMAIN proc' = Procs
  BY DEF IInv, Shape
<1>2. Shape'
  BY <1>1 DEF IInv, Shape
<1>3. ASSUME NEW q \in Procs \ {p} PROVE Known(q, proc[q])'
  <2>1. Known(q, proc[q])
    BY DEF IInv
  <2>2. proc[q].pc \in Making =>
          /\ proc[q].manifest \in Backends /\ proc[q].source \in Trees
          /\ InTheMaking(q, proc[q])
    BY <2>1 DEF Known, Local, Making, Uv
  <2> QED BY <1>1, <2>1, <2>2, KnownFrame
<1>4. (lock # None => LockOK(lock))'
  BY EnvMadeGrows DEF IInv, LockOK
<1> QED BY <1>1, <1>2, <1>3, <1>4 DEF IInv

\* The others' generations are not touched by a process that works on one
\* generation of a key of its own.
LEMMA OthersMaking ==
    ASSUME IInv, NEW p \in Procs, NEW k \in Keys, guard[k] \in {None, p},
           \A j \in Keys \ {k} : guard'[j] = guard[j] /\ current'[j] = current[j],
           NEW e, \A g \in DOMAIN gens \ {e} : g \in DOMAIN gens' /\ gens'[g] = gens[g],
           e \in DOMAIN gens => gens[e].key = k,
           NEW q \in Procs \ {p}, NEW r, r.manifest \in Backends, r.source \in Trees,
           InTheMaking(q, r)
    PROVE  InTheMaking(q, r)'
<1>1. KeyOf(r) \in Keys
  BY DEF KeyOf, Keys
<1>2. KeyOf(r) # k
  BY LockedRunsAssumption DEF InTheMaking
<1>3. current'[KeyOf(r)] = current[KeyOf(r)] /\ guard'[KeyOf(r)] = q
  BY <1>1, <1>2 DEF InTheMaking
<1>4. r.env \in DOMAIN gens \ {e} /\ gens'[r.env] = gens[r.env]
  BY <1>2 DEF InTheMaking
<1>5. current[KeyOf(r)] # None => gens'[current[KeyOf(r)]] = gens[current[KeyOf(r)]]
  BY <1>1, <1>2 DEF IInv, CurrentTrue
<1>6. ~Reusable(KeyOf(r))'
  BY <1>3, <1>5 DEF InTheMaking, Reusable, Verifies, KeyOf
<1> QED BY <1>3, <1>4, <1>6 DEF InTheMaking, KeyOf

LEMMA PrepareUvKeeps ==
    ASSUME IInv, NEW p \in Procs, PrepareUv(p)
    PROVE  IInv'
<1>0. PICK k : k = [definition |-> proc[p].manifest, source |-> proc[p].source]
  OBVIOUS
<1>1. /\ proc[p].pc = "uv" /\ Known(p, proc[p]) /\ IsRecord(proc[p])
      /\ UNCHANGED <<tree, lock, current, store, roots>>
  BY DEF IInv, Shape, PrepareUv, At, nix
<1>2. /\ proc[p].manifest = "uv" /\ proc[p].manifest \in Backends
      /\ proc[p].source \in Trees /\ proc[p].copy = proc[p].source /\ proc[p].op = "lock"
  BY <1>1 DEF Known, Local, Uv, LockOnly
<1>3. k \in Keys /\ k.source = proc[p].source
  BY <1>0, <1>2 DEF Keys
<1>4. CASE /\ Reusable(k)
           /\ proc' = [proc EXCEPT ![p] = [proc[p] EXCEPT !.pc = "prepared", !.env = current[k],
                                                          !.copy = None]]
           /\ UNCHANGED <<gens, guard>>
  <2> DEFINE new == [proc[p] EXCEPT !.pc = "prepared", !.env = current[k], !.copy = None]
  <2>1. new = [proc[p] EXCEPT !.pc = "prepared", !.env = current[k], !.copy = None]
    OBVIOUS
  <2> HIDE DEF new
  <2>2. /\ IsRecord(new) /\ new.pc = "prepared" /\ new.env = current[k]
        /\ new.op = proc[p].op /\ new.manifest = proc[p].manifest
        /\ new.source = proc[p].source
    BY <1>1, <2>1, Zenon DEF IsRecord
  <2>3. EnvMade(proc[p].manifest, proc[p].source, current[k])
    <3>1. /\ current[k] \in DOMAIN gens /\ gens[current[k]].key = k
          /\ gens[current[k]].receipt
      BY <1>3, <1>4 DEF IInv, CurrentTrue, Reusable
    <3>2. gens[current[k]].built = k.source
      BY <3>1 DEF IInv, ReceiptsTrue
    <3> QED BY <1>0, <1>2, <1>3, <3>1, <3>2 DEF EnvMade
  <2>4. new.pc \in PCs /\ Known(p, new)
    BY <1>2, <2>2, <2>3 DEF Known, Local, Prepared, Loaded, Planned, PCs, LockOnly,
       LoadOnly,
       Uv, Nix, Making, Staging, Running, Comparing
  <2>5. proc' = [proc EXCEPT ![p] = new]
    BY <1>4, <2>1
  <2> QED BY <1>1, <1>4, <2>2, <2>4, <2>5, LocalStep
<1>5. CASE /\ ~Reusable(k) /\ guard[k] = None /\ guard' = [guard EXCEPT ![k] = p]
           /\ gens' = Append(gens, [key |-> k, built |-> None, receipt |-> FALSE,
                                    intact |-> TRUE, orphan |-> FALSE])
           /\ proc' = [proc EXCEPT ![p] = [proc[p] EXCEPT !.pc = "sync", !.env = Len(gens) + 1]]
  <2> DEFINE fresh == [key |-> k, built |-> None, receipt |-> FALSE, intact |-> TRUE,
                         orphan |-> FALSE]
  <2>0. PICK e : e = Len(gens) + 1
    OBVIOUS
  <2>1. PICK new : new = [proc[p] EXCEPT !.pc = "sync", !.env = e]
    OBVIOUS
  <2>2. /\ fresh \in Generations /\ fresh.key = k /\ ~fresh.receipt
    BY <1>3 DEF Generations
  <2>3. gens' = Append(gens, fresh) /\ gens \in Seq(Generations)
    BY <1>5 DEF IInv, Shape
  <2>4. proc' = [proc EXCEPT ![p] = new]
    BY <1>5, <2>0, <2>1
  <2> HIDE DEF fresh
  <2>5. /\ gens' \in Seq(Generations) /\ DOMAIN gens' = DOMAIN gens \cup {e}
        /\ e \notin DOMAIN gens /\ gens'[e] = fresh
        /\ \A g \in DOMAIN gens : gens'[g] = gens[g]
    BY <2>0, <2>2, <2>3, GensAppend
  <2>6. /\ IsRecord(new) /\ new.pc = "sync" /\ new.env = e
        /\ new.op = proc[p].op /\ new.manifest = proc[p].manifest
        /\ new.source = proc[p].source /\ new.copy = proc[p].copy
    BY <1>1, <2>1, Zenon DEF IsRecord
  <2>7. Grow
    BY <2>5 DEF Grow
  <2>8. /\ guard' \in [Keys -> Procs \cup {None}] /\ guard'[k] = p
        /\ \A j \in Keys \ {k} : guard'[j] = guard[j]
    BY <1>3, <1>5 DEF IInv, Shape
  <2>9. \A q \in Procs \ {p} : \A r :
           r.manifest \in Backends /\ r.source \in Trees /\ InTheMaking(q, r)
              => InTheMaking(q, r)'
    BY <1>1, <1>3, <1>5, <2>5, <2>8, OthersMaking
  <2>10. ReceiptsTrue'
    BY <2>2, <2>5 DEF IInv, ReceiptsTrue
  <2>11. CurrentTrue'
    BY <1>1, <2>5 DEF IInv, CurrentTrue
  <2>12. /\ proc[p].pc # "kept" /\ \A q \in Procs \ {p} : proc'[q] = proc[q]
    BY <1>1, <2>4 DEF IInv, Shape
  <2>13. GenerationsShared'
    BY <1>1, <2>2, <2>5, <2>12 DEF IInv, GenerationsShared, CurrentTrue, At
  <2>14. InTheMaking(p, new)'
    <3>1. KeyOf(new) = k
      BY <1>0, <2>6 DEF KeyOf
    <3>2. ~Reusable(k)'
      BY <1>1, <1>3, <1>5, <2>5 DEF Reusable, Verifies, IInv, CurrentTrue
    <3> QED BY <2>2, <2>5, <2>6, <2>8, <3>1, <3>2 DEF InTheMaking, KeyOf
  <2>15. Known(p, new)'
    BY <1>2, <2>6, <2>14 DEF Known, Local, Prepared, Loaded, Planned, LockOnly,
       LoadOnly,
       Uv, Nix, Making, Staging, Running, Comparing
  <2>16. RootsKeep' /\ DOMAIN roots' = Procs /\ DOMAIN current' = Keys
    BY <1>1 DEF IInv, Shape, RootsKeep
  <2>17. new.pc \in PCs
    BY <2>6 DEF PCs, LockOnly, Uv
  <2> QED BY <1>1, <2>4, <2>5, <2>6, <2>7, <2>8, <2>9, <2>10, <2>11, <2>13, <2>15, <2>16,
             <2>17, SharedStep
<1> QED BY <1>0, <1>4, <1>5 DEF PrepareUv, Key, LockKey, Set

\* A process at work on its own generation changes only that one.
LEMMA MakingStep ==
    ASSUME IInv, NEW p \in Procs, proc[p].pc \in {"sync", "synced"},
           NEW e, e = proc[p].env, NEW x \in Generations, gens' = [gens EXCEPT ![e] = x],
           x.key = gens[e].key, x.receipt => x.built = proc[p].source,
           UNCHANGED <<tree, lock, current, guard, store, roots>>,
           NEW new, proc' = [proc EXCEPT ![p] = new], IsRecord(new),
           new.op = proc[p].op, new.manifest = proc[p].manifest, new.source = proc[p].source,
           new.copy = proc[p].copy, new.env = e,
           \/ new.pc = "synced" /\ ~x.receipt /\ x.built = proc[p].source
           \/ new.pc = "kept" /\ x.receipt
    PROVE  IInv'
<1>1. Known(p, proc[p]) /\ gens \in Seq(Generations)
  BY DEF IInv, Shape
<1>2. /\ proc[p].op = "lock" /\ proc[p].manifest = "uv" /\ proc[p].manifest \in Backends
      /\ proc[p].source \in Trees /\ proc[p].copy = proc[p].source
      /\ InTheMaking(p, proc[p])
  BY <1>1 DEF Known, Local, Making, Uv, LockOnly
<1>3. PICK k : k = KeyOf(proc[p])
  OBVIOUS
<1>4. /\ k \in Keys /\ guard[k] = p /\ e \in DOMAIN gens /\ gens[e].key = k
      /\ k.source = proc[p].source /\ ~Reusable(k) /\ ~gens[e].receipt /\ KeyOf(new) = k
  BY <1>2, <1>3 DEF InTheMaking, KeyOf, Keys
<1>5. /\ gens' \in Seq(Generations) /\ DOMAIN gens' = DOMAIN gens /\ gens'[e] = x
      /\ \A g \in DOMAIN gens \ {e} : gens'[g] = gens[g]
  BY <1>1, <1>4, GensUpdate
<1>6. Grow
  BY <1>4, <1>5 DEF Grow
<1>7. \A q \in Procs \ {p} : \A r :
         r.manifest \in Backends /\ r.source \in Trees /\ InTheMaking(q, r)
            => InTheMaking(q, r)'
  BY <1>4, <1>5, OthersMaking
<1>8. \A j \in Keys : current[j] # e
  <2>1. e # None
    BY <1>1, <1>4, LockedRunsAssumption
  <2> QED BY <1>4, <2>1 DEF IInv, CurrentTrue
<1>9. ReceiptsTrue' /\ CurrentTrue'
  BY <1>4, <1>5, <1>8 DEF IInv, ReceiptsTrue, CurrentTrue
<1>10. /\ proc'[p] = new /\ \A q \in Procs \ {p} : proc'[q] = proc[q]
  BY DEF IInv, Shape
<1>11. GenerationsShared'
  BY <1>4, <1>5, <1>8, <1>10 DEF IInv, GenerationsShared, CurrentTrue, At
<1>12. ~Reusable(k)'
  BY <1>4, <1>5, <1>8 DEF Reusable, Verifies, IInv, CurrentTrue
<1>13. InTheMaking(p, new)'
  BY <1>2, <1>4, <1>5, <1>12 DEF InTheMaking, KeyOf
<1>14. Known(p, new)' /\ new.pc \in PCs
  BY <1>2, <1>13 DEF Known, Local, Prepared, Loaded, Planned, PCs, LockOnly, LoadOnly,
     Uv, Nix, Making, Staging, Running, Comparing
<1>15. /\ RootsKeep' /\ DOMAIN roots' = Procs /\ DOMAIN current' = Keys
       /\ guard' \in [Keys -> Procs \cup {None}]
  BY DEF IInv, Shape, RootsKeep
<1> QED BY <1>5, <1>6, <1>7, <1>9, <1>11, <1>14, <1>15, SharedStep

LEMMA UvSyncKeeps ==
    ASSUME IInv, NEW p \in Procs, UvSync(p)
    PROVE  IInv'
<1>1. proc[p].pc = "sync" /\ Known(p, proc[p]) /\ IsRecord(proc[p])
  BY DEF UvSync, At, IInv, Shape
<1>2. /\ proc[p].source \in Trees /\ proc[p].copy = proc[p].source
      /\ proc[p].env \in DOMAIN gens /\ ~gens[proc[p].env].receipt
  BY <1>1 DEF Known, Local, InTheMaking, Making, Uv
<1>3. CASE /\ gens' = [gens EXCEPT ![proc[p].env].built = proc[p].copy]
           /\ proc' = [proc EXCEPT ![p] = [proc[p] EXCEPT !.pc = "synced"]]
           /\ UNCHANGED <<tree, lock, current, guard, store, roots>>
  <2>1. PICK e : e = proc[p].env
    OBVIOUS
  <2>2. gens[e] \in Generations
    BY <1>2, <2>1 DEF IInv, Shape
  <2>3. PICK x : x = [gens[e] EXCEPT !.built = proc[p].copy]
    OBVIOUS
  <2>4. PICK new : new = [proc[p] EXCEPT !.pc = "synced"]
    OBVIOUS
  <2>5. /\ x \in Generations /\ x.key = gens[e].key /\ x.built = proc[p].source
        /\ ~x.receipt
    BY <1>2, <2>1, <2>2, <2>3 DEF Generations
  <2>6. /\ IsRecord(new) /\ new.pc = "synced" /\ new.op = proc[p].op
        /\ new.manifest = proc[p].manifest /\ new.source = proc[p].source
        /\ new.copy = proc[p].copy /\ new.env = proc[p].env
    BY <1>1, <2>4, Zenon DEF IsRecord
  <2>7. gens' = [gens EXCEPT ![e] = x]
    BY <1>3, <2>1, <2>3
  <2>8. proc' = [proc EXCEPT ![p] = new]
    BY <1>3, <2>4
  <2>9. /\ new.env = e /\ (x.receipt => x.built = proc[p].source)
        /\ \/ new.pc = "synced" /\ ~x.receipt /\ x.built = proc[p].source
           \/ new.pc = "kept" /\ x.receipt
        /\ proc[p].pc \in {"sync", "synced"}
    BY <1>1, <2>1, <2>5, <2>6
  <2>10. UNCHANGED <<tree, lock, current, guard, store, roots>>
    BY <1>3
  <2> QED BY <2>1, <2>5, <2>6, <2>7, <2>8, <2>9, <2>10, MakingStep
<1>4. CASE Fail(p)
  BY <1>1, <1>4, FailKeeps
<1> QED BY <1>3, <1>4 DEF UvSync, Set, nix

LEMMA WriteReceiptKeeps ==
    ASSUME IInv, NEW p \in Procs, WriteReceipt(p)
    PROVE  IInv'
<1>1. /\ proc[p].pc = "synced" /\ Known(p, proc[p]) /\ IsRecord(proc[p])
      /\ gens' = [gens EXCEPT ![proc[p].env].receipt = TRUE]
      /\ proc' = [proc EXCEPT ![p] = [proc[p] EXCEPT !.pc = "kept"]]
      /\ UNCHANGED <<tree, lock, current, guard, store, roots>>
  BY DEF WriteReceipt, At, Set, nix, IInv, Shape
<1>2. /\ proc[p].env \in DOMAIN gens /\ gens[proc[p].env].built = proc[p].source
  BY <1>1 DEF Known, Local, InTheMaking, Making, Uv
<1>3. PICK e : e = proc[p].env
  OBVIOUS
<1>4. gens[e] \in Generations
  BY <1>2, <1>3 DEF IInv, Shape
<1>5. PICK x : x = [gens[e] EXCEPT !.receipt = TRUE]
  OBVIOUS
<1>6. PICK new : new = [proc[p] EXCEPT !.pc = "kept"]
  OBVIOUS
<1>7. /\ x \in Generations /\ x.key = gens[e].key /\ x.built = proc[p].source
      /\ x.receipt
  BY <1>2, <1>3, <1>4, <1>5 DEF Generations
<1>8. /\ IsRecord(new) /\ new.pc = "kept" /\ new.op = proc[p].op
      /\ new.manifest = proc[p].manifest /\ new.source = proc[p].source
      /\ new.copy = proc[p].copy /\ new.env = proc[p].env
  BY <1>1, <1>6, Zenon DEF IsRecord
<1>9. gens' = [gens EXCEPT ![e] = x] /\ proc' = [proc EXCEPT ![p] = new]
  BY <1>1, <1>3, <1>5, <1>6
<1> QED BY ZenonT(40), <1>1, <1>3, <1>7, <1>8, <1>9, MakingStep

\* current.json moves to the new generation; the one it named did not verify.
LEMMA PublishCurrentKeeps ==
    ASSUME IInv, NEW p \in Procs, PublishCurrent(p)
    PROVE  IInv'
<1>1. proc[p].pc = "kept" /\ Known(p, proc[p]) /\ IsRecord(proc[p])
  BY DEF PublishCurrent, At, IInv, Shape
<1>2. /\ proc[p].op = "lock" /\ proc[p].manifest = "uv" /\ proc[p].manifest \in Backends
      /\ proc[p].source \in Trees /\ InTheMaking(p, proc[p])
  BY <1>1 DEF Known, Local, Making, Uv, LockOnly
<1>3. PICK k : k = KeyOf(proc[p])
  OBVIOUS
<1>4. PICK e : e = proc[p].env
  OBVIOUS
<1>5. /\ k \in Keys /\ guard[k] = p /\ e \in DOMAIN gens /\ gens[e].key = k
      /\ k.source = proc[p].source /\ ~Reusable(k) /\ gens[e].receipt
      /\ gens[e].built = proc[p].source
  BY <1>1, <1>2, <1>3, <1>4 DEF InTheMaking, KeyOf, Keys
<1>6. CASE /\ current' = [current EXCEPT ![k] = e] /\ guard' = [guard EXCEPT ![k] = None]
           /\ proc' = [proc EXCEPT ![p] = [proc[p] EXCEPT !.pc = "prepared", !.copy = None]]
           /\ UNCHANGED <<tree, lock, gens, store, roots>>
  <2>1. PICK new : new = [proc[p] EXCEPT !.pc = "prepared", !.copy = None]
    OBVIOUS
  <2>2. /\ IsRecord(new) /\ new.pc = "prepared" /\ new.op = proc[p].op
        /\ new.manifest = proc[p].manifest /\ new.source = proc[p].source /\ new.env = e
    BY <1>1, <1>4, <2>1, Zenon DEF IsRecord
  <2>3. /\ guard' \in [Keys -> Procs \cup {None}]
        /\ current'[k] = e /\ DOMAIN current' = Keys
        /\ \A j \in Keys \ {k} : guard'[j] = guard[j] /\ current'[j] = current[j]
    BY <1>5, <1>6 DEF IInv, Shape
  <2>4. Grow /\ gens' \in Seq(Generations)
    BY <1>6 DEF Grow, IInv, Shape
  <2>5. \A q \in Procs \ {p} : \A r :
           r.manifest \in Backends /\ r.source \in Trees /\ InTheMaking(q, r)
              => InTheMaking(q, r)'
    BY <1>5, <1>6, <2>3, OthersMaking
  <2>6. ReceiptsTrue' /\ CurrentTrue'
    BY <1>5, <1>6, <2>3 DEF IInv, ReceiptsTrue, CurrentTrue
  <2>7. proc' = [proc EXCEPT ![p] = new]
    BY <1>6, <2>1
  <2>8. /\ proc'[p] = new /\ \A q \in Procs \ {p} : proc'[q] = proc[q]
    BY <2>7 DEF IInv, Shape
  <2>9. GenerationsShared'
    <3>1. \A j \in Keys : current'[j] # None => gens'[current'[j]].receipt
      BY <2>6 DEF CurrentTrue
    <3>2. ASSUME NEW g \in DOMAIN gens', gens'[g].receipt, gens'[g].intact
          PROVE  \/ current'[gens'[g].key] = g
                 \/ gens'[g].orphan
                 \/ \E q \in Procs : proc'[q].pc = "kept" /\ proc'[q].env = g
      <4>1. /\ gens'[g] = gens[g] /\ g \in DOMAIN gens /\ gens[g].key \in Keys
            /\ g \in Nat
        <5>1. g \in DOMAIN gens /\ gens \in Seq(Generations)
          BY <1>6 DEF IInv, Shape
        <5>2. gens[g] \in Generations /\ g \in Nat
          BY <5>1
        <5> QED BY <1>6, <5>1, <5>2 DEF Generations
      <4>2. CASE gens[g].key = k
        <5>1. current[k] # g
          BY <1>5, <3>2, <4>1, LockedRunsAssumption DEF Reusable, Verifies, IInv,
             CurrentTrue
        <5>2. CASE g = e
          BY <2>3, <4>1, <4>2, <5>2
        <5>3. CASE g # e
          BY <1>4, <2>8, <3>2, <4>1, <4>2, <5>1, <5>3 DEF IInv, GenerationsShared, At
        <5> QED BY <5>2, <5>3
      <4>3. CASE gens[g].key # k
        BY <1>4, <1>5, <2>3, <2>8, <3>2, <4>1, <4>3 DEF IInv, GenerationsShared, At
      <4> QED BY <4>2, <4>3
    <3> QED BY <3>1, <3>2 DEF GenerationsShared, At
  <2>10. EnvMade(new.manifest, new.source, new.env)'
    BY <1>2, <1>3, <1>5, <1>6, <2>2 DEF EnvMade, KeyOf
  <2>11. Known(p, new)' /\ new.pc \in PCs
    BY <1>2, <2>2, <2>10 DEF Known, Local, Prepared, Loaded, Planned, PCs, LockOnly,
       LoadOnly,
       Uv, Nix, Making, Staging, Running, Comparing
  <2>12. RootsKeep' /\ DOMAIN roots' = Procs
    BY <1>6 DEF IInv, Shape, RootsKeep
  <2> QED BY <1>6, <2>2, <2>3, <2>4, <2>5, <2>6, <2>7, <2>9, <2>11, <2>12, SharedStep
<1>7. CASE ~Verifies(proc[p].env) /\ Fail(p)
  BY <1>7, FailKeeps
<1> QED BY <1>3, <1>4, <1>6, <1>7 DEF PublishCurrent, Set, nix, Key, KeyOf

\* A step that adds to the store or to p's roots.
LEMMA StoreStep ==
    ASSUME IInv, NEW p \in Procs, NEW new, proc' = [proc EXCEPT ![p] = new],
           IsRecord(new), new.pc \in PCs, proc[p].pc # "kept",
           UNCHANGED <<tree, lock, gens, current, guard>>,
           store \subseteq store', DOMAIN roots' = Procs, roots'[p] \subseteq store',
           \A q \in Procs \ {p} : roots'[q] = roots[q], Known(p, new)'
    PROVE  IInv'
<1>1. /\ proc'[p] = new /\ \A q \in Procs \ {p} : proc'[q] = proc[q]
  BY DEF IInv, Shape
<1>2. Grow /\ gens' \in Seq(Generations) /\ DOMAIN current' = Keys
      /\ guard' \in [Keys -> Procs \cup {None}]
  BY DEF Grow, IInv, Shape
<1>3. \A q \in Procs \ {p} : \A r :
         r.manifest \in Backends /\ r.source \in Trees /\ InTheMaking(q, r)
            => InTheMaking(q, r)'
  BY DEF InTheMaking, Reusable, Verifies
<1>4. ReceiptsTrue' /\ CurrentTrue' /\ RootsKeep'
  BY DEF IInv, ReceiptsTrue, CurrentTrue, RootsKeep
<1>5. GenerationsShared'
  BY <1>1 DEF IInv, GenerationsShared, At
<1> QED BY <1>2, <1>3, <1>4, <1>5, SharedStep

LEMMA AddSnapshotKeeps ==
    ASSUME IInv, NEW p \in Procs, AddSnapshot(p)
    PROVE  IInv'
<1>1. PICK new : new = [proc[p] EXCEPT !.pc = "added"]
  OBVIOUS
<1>2. /\ proc[p].pc = "nix" /\ Known(p, proc[p]) /\ IsRecord(proc[p])
      /\ proc' = [proc EXCEPT ![p] = new] /\ store \subseteq store'
      /\ UNCHANGED <<tree, lock, gens, current, guard, roots>>
      /\ DOMAIN roots = Procs /\ roots[p] \subseteq store
  BY <1>1 DEF AddSnapshot, At, Set, uv, IInv, Shape, RootsKeep
<1>3. /\ IsRecord(new) /\ new.pc = "added" /\ new.op = proc[p].op
      /\ new.manifest = proc[p].manifest /\ new.source = proc[p].source
      /\ new.copy = proc[p].copy
  BY <1>1, <1>2, Zenon DEF IsRecord
<1>4. new.pc \in PCs /\ Known(p, new)'
  BY <1>2, <1>3 DEF Known, Local, Prepared, Loaded, Planned, PCs, LockOnly, LoadOnly,
     Uv,
     Nix, Making, Staging, Running, Comparing
<1>5. roots'[p] \subseteq store' /\ DOMAIN roots' = Procs /\ proc[p].pc # "kept"
  BY <1>2
<1> QED BY <1>2, <1>3, <1>4, <1>5, StoreStep

LEMMA PinSnapshotKeeps ==
    ASSUME IInv, NEW p \in Procs, PinSnapshot(p)
    PROVE  IInv'
<1>1. proc[p].pc = "added" /\ Known(p, proc[p]) /\ IsRecord(proc[p])
  BY DEF PinSnapshot, At, IInv, Shape
<1>2. CASE ~Fail(p)
  <2>1. PICK new : new = [proc[p] EXCEPT !.pc = "build"]
    OBVIOUS
  <2>2. /\ proc' = [proc EXCEPT ![p] = new] /\ proc[p].copy \in store
        /\ roots' = [roots EXCEPT ![p] = @ \cup {proc[p].copy}]
        /\ UNCHANGED <<tree, lock, gens, current, guard, store>>
    BY <1>2, <2>1 DEF PinSnapshot, Pin, Set, uv
  <2>3. /\ IsRecord(new) /\ new.pc = "build" /\ new.op = proc[p].op
        /\ new.manifest = proc[p].manifest /\ new.source = proc[p].source
        /\ new.copy = proc[p].copy
    BY <1>1, <2>1, Zenon DEF IsRecord
  <2>4. new.pc \in PCs /\ Known(p, new)'
    BY <1>1, <2>3 DEF Known, Local, Prepared, Loaded, Planned, PCs, LockOnly,
       LoadOnly, Uv,
       Nix, Making, Staging, Running, Comparing
  <2>5. /\ DOMAIN roots' = Procs /\ roots'[p] \subseteq store'
        /\ \A q \in Procs \ {p} : roots'[q] = roots[q]
        /\ store \subseteq store' /\ proc[p].pc # "kept"
    BY <1>1, <2>2 DEF IInv, Shape, RootsKeep
  <2> QED BY <2>2, <2>3, <2>4, <2>5, StoreStep
<1>3. CASE Fail(p)
  BY <1>1, <1>3, FailKeeps
<1> QED BY <1>2, <1>3

LEMMA NixBuildKeeps ==
    ASSUME IInv, NEW p \in Procs, NixBuild(p)
    PROVE  IInv'
<1>1. proc[p].pc = "build" /\ Known(p, proc[p]) /\ IsRecord(proc[p])
  BY DEF NixBuild, At, IInv, Shape
<1>2. CASE ~Fail(p)
  <2>1. PICK out : out = [definition |-> proc[p].manifest, source |-> proc[p].copy]
    OBVIOUS
  <2>2. PICK new : new = [proc[p] EXCEPT !.pc = "prepared", !.env = out, !.copy = None]
    OBVIOUS
  <2>3. /\ proc' = [proc EXCEPT ![p] = new] /\ store' = store \cup {out}
        /\ roots' = [roots EXCEPT ![p] = @ \cup {out}]
        /\ UNCHANGED <<tree, lock, gens, current, guard>>
    BY <1>2, <2>1, <2>2 DEF NixBuild, Set, uv
  <2>4. /\ IsRecord(new) /\ new.pc = "prepared" /\ new.op = proc[p].op
        /\ new.manifest = proc[p].manifest /\ new.source = proc[p].source
        /\ new.env = out
    BY <1>1, <2>2, Zenon DEF IsRecord
  <2>5. /\ DOMAIN roots' = Procs /\ roots'[p] \subseteq store' /\ out \in roots'[p]
        /\ \A q \in Procs \ {p} : roots'[q] = roots[q]
        /\ store \subseteq store' /\ proc[p].pc # "kept"
    BY <1>1, <2>3 DEF IInv, Shape, RootsKeep
  <2>6. /\ proc[p].op = "lock" /\ proc[p].manifest = "nix" /\ proc[p].manifest \in Backends
        /\ proc[p].source \in Trees /\ proc[p].copy = proc[p].source
    BY <1>1 DEF Known, Local, LockOnly, Nix
  <2>7. EnvMade(new.manifest, new.source, new.env)'
    BY <2>1, <2>4, <2>6 DEF EnvMade
  <2>8. new.pc \in PCs /\ Known(p, new)'
    BY <2>4, <2>5, <2>6, <2>7 DEF Known, Local, Prepared, Loaded, Planned, PCs,
       LockOnly,
       LoadOnly, Uv, Nix, Making, Staging, Running, Comparing
  <2> QED BY <2>3, <2>4, <2>5, <2>8, StoreStep
<1>3. CASE Fail(p)
  BY <1>1, <1>3, FailKeeps
<1> QED BY <1>2, <1>3

LEMMA PinLockedKeeps ==
    ASSUME IInv, NEW p \in Procs, PinLocked(p)
    PROVE  IInv'
<1>1. proc[p].pc = "pin" /\ Known(p, proc[p]) /\ IsRecord(proc[p])
  BY DEF PinLocked, At, IInv, Shape
<1>2. CASE ~Fail(p)
  <2>1. PICK paths : paths = LockedPaths(proc[p].lock)
    OBVIOUS
  <2>2. PICK new : new = [proc[p] EXCEPT !.pc = "stage"]
    OBVIOUS
  <2>3. /\ proc' = [proc EXCEPT ![p] = new] /\ paths \subseteq store
        /\ roots' = [roots EXCEPT ![p] = @ \cup paths]
        /\ UNCHANGED <<tree, lock, gens, current, guard, store>>
    BY <1>2, <2>1, <2>2 DEF PinLocked, Pin, Set, uv
  <2>4. /\ IsRecord(new) /\ new.pc = "stage" /\ new.op = proc[p].op
        /\ new.manifest = proc[p].manifest /\ new.lock = proc[p].lock
        /\ new.steady = proc[p].steady /\ new.expected = proc[p].expected
    BY <1>1, <2>2, Zenon DEF IsRecord
  <2>5. /\ DOMAIN roots' = Procs /\ roots'[p] \subseteq store' /\ paths \subseteq roots'[p]
        /\ \A q \in Procs \ {p} : roots'[q] = roots[q]
        /\ store \subseteq store' /\ proc[p].pc # "kept"
    BY <1>1, <2>3 DEF IInv, Shape, RootsKeep
  <2>6. LockedPaths(new.lock) = paths
    BY <2>1, <2>4
  <2>7. LockOK(new.lock)'
    BY <1>1, <2>3, <2>4 DEF Known, Loaded, Local, LockOK, EnvMade, LoadOnly
  <2>8. new.pc \in PCs /\ Known(p, new)'
    BY <1>1, <2>3, <2>4, <2>5, <2>6, <2>7 DEF Known, Local, Prepared, Loaded,
       LockedPaths,
       Planned, PCs, LockOnly, LoadOnly, Uv, Nix, Making, Staging, Running, Comparing
  <2> QED BY <2>3, <2>4, <2>5, <2>8, StoreStep
<1>3. CASE Fail(p)
  BY <1>1, <1>3, FailKeeps
<1> QED BY <1>2, <1>3

LEMMA WriteLockKeeps ==
    ASSUME IInv, NEW p \in Procs, WriteLock(p)
    PROVE  IInv'
<1>1. /\ proc[p].pc = "write" /\ Known(p, proc[p]) /\ Leave(p)
      /\ UNCHANGED <<tree, gens, current, store>>
      /\ lock' = [source |-> proc[p].source, definition |-> proc[p].manifest,
                  env |-> proc[p].env, worker |-> proc[p].id]
  BY DEF WriteLock, At, IInv
<1>2. EnvMade(proc[p].manifest, proc[p].source, proc[p].env)
  BY <1>1 DEF Known, Local, Prepared, LockOnly
<1>3. (lock # None => LockOK(lock))'
  BY <1>1, <1>2 DEF LockOK, EnvMade
<1>4. gens \in Seq(Generations)
  BY DEF IInv, Shape
<1> QED BY <1>1, <1>3, <1>4, LeaveStep

-----------------------------------------------------------------------------
(***************************************************************************)
(* The author, the collector, damage and crashes.                           *)
(***************************************************************************)
LEMMA EditKeeps ==
    ASSUME IInv, Edit
    PROVE  IInv'
<1>1. /\ tree' \in Trees /\ UNCHANGED <<lock, gens, current, guard, store, roots>>
      /\ proc' = [p \in Procs |->
                    IF proc[p].op = "run" /\ proc[p].pc \in Comparing
                    THEN [proc[p] EXCEPT !.steady = FALSE] ELSE proc[p]]
  BY DEF Edit, uv, nix
<1>2. ASSUME NEW p \in Procs
      PROVE  /\ IsRecord(proc'[p])
             /\ proc'[p].pc = proc[p].pc /\ proc'[p].op = proc[p].op
             /\ proc'[p].manifest = proc[p].manifest /\ proc'[p].source = proc[p].source
             /\ proc'[p].copy = proc[p].copy /\ proc'[p].env = proc[p].env
             /\ proc'[p].lock = proc[p].lock /\ proc'[p].expected = proc[p].expected
             /\ proc'[p].staged = proc[p].staged
             /\ proc[p].op = "run" /\ proc[p].pc \in Comparing => ~proc'[p].steady
             /\ proc'[p].steady => proc[p].steady
  <2>1. IsRecord(proc[p])
    BY DEF IInv, Shape
  <2>2. CASE proc[p].op = "run" /\ proc[p].pc \in Comparing
    <3>1. proc'[p] = [proc[p] EXCEPT !.steady = FALSE]
      BY <1>1, <2>2
    <3> QED BY <2>1, <3>1, Zenon DEF IsRecord
  <2>3. CASE ~(proc[p].op = "run" /\ proc[p].pc \in Comparing)
    <3>1. proc'[p] = proc[p]
      BY <1>1, <2>3
    <3> QED BY <2>1, <2>3, <3>1
  <2> QED BY <2>2, <2>3
<1>3. Shape'
  BY <1>1, <1>2 DEF IInv, Shape
<1>4. ReceiptsTrue' /\ CurrentTrue' /\ RootsKeep'
  BY <1>1 DEF IInv, ReceiptsTrue, CurrentTrue, RootsKeep
<1>5. GenerationsShared'
  BY <1>1, <1>2 DEF IInv, GenerationsShared, At
<1>6. (lock # None => LockOK(lock))'
  BY <1>1 DEF IInv, LockOK, EnvMade
<1>7. ASSUME NEW p \in Procs PROVE Known(p, proc[p])'
  <2>1. Known(p, proc[p])
    BY DEF IInv
  <2>2. InTheMaking(p, proc[p]) => InTheMaking(p, proc[p])'
    BY <1>1, <1>2 DEF InTheMaking, KeyOf, Reusable, Verifies
  <2>3. Local(p, proc[p])'
    BY <1>2, <2>1, <2>2 DEF Known, Local
  <2>4. Prepared(p, proc[p])'
    BY <1>1, <1>2, <2>1 DEF Known, Prepared, EnvMade
  <2>5. Loaded(p, proc[p])'
    BY <1>1, <1>2, <2>1 DEF Known, Loaded, LockOK, EnvMade, LockedPaths
  <2>6. Planned(proc[p])'
    BY <1>2, <2>1 DEF Known, Planned
  <2> QED BY <2>3, <2>4, <2>5, <2>6 DEF Known
<1> QED BY <1>3, <1>4, <1>5, <1>6, <1>7 DEF IInv

LEMMA CollectKeeps ==
    ASSUME IInv, Collect
    PROVE  IInv'
<1>1. UNCHANGED <<tree, lock, gens, current, guard, roots, proc>>
  BY DEF Collect, uv
<1>2. RootsKeep'
  BY <1>1 DEF IInv, RootsKeep, Collect
<1>3. Shape' /\ ReceiptsTrue' /\ CurrentTrue' /\ GenerationsShared'
  BY <1>1 DEF IInv, Shape, ReceiptsTrue, CurrentTrue, GenerationsShared, At
<1>4. Grow
  BY <1>1 DEF Grow
<1>5. (lock # None => LockOK(lock))'
  BY <1>1, <1>4, EnvMadeGrows DEF IInv, LockOK
<1>6. ASSUME NEW p \in Procs PROVE Known(p, proc[p])'
  <2>1. Known(p, proc[p])
    BY DEF IInv
  <2>2. proc[p].pc \in Making => InTheMaking(p, proc[p])'
    BY <1>1, <2>1 DEF Known, Local, InTheMaking, KeyOf, Reusable, Verifies
  <2> QED BY <1>1, <1>4, <2>1, <2>2, KnownFrame
<1> QED BY <1>2, <1>3, <1>5, <1>6 DEF IInv

LEMMA DamageKeeps ==
    ASSUME IInv, Damage
    PROVE  IInv'
<1>1. PICK e \in DOMAIN gens :
        gens[e].receipt /\ gens' = [gens EXCEPT ![e].intact = FALSE]
  BY DEF Damage
<1>2. UNCHANGED <<tree, lock, current, guard, store, roots, proc>>
  BY DEF Damage, nix
<1>3. gens \in Seq(Generations) /\ gens[e] \in Generations
  BY DEF IInv, Shape
<1>4. PICK x : x = [gens[e] EXCEPT !.intact = FALSE]
  OBVIOUS
<1>5. /\ x \in Generations /\ x.key = gens[e].key /\ x.built = gens[e].built
      /\ x.receipt = gens[e].receipt /\ ~x.intact /\ x.orphan = gens[e].orphan
  BY <1>3, <1>4 DEF Generations
<1>6. gens' = [gens EXCEPT ![e] = x]
  BY <1>1, <1>4
<1>7. /\ gens' \in Seq(Generations) /\ DOMAIN gens' = DOMAIN gens /\ gens'[e] = x
      /\ \A g \in DOMAIN gens : g # e => gens'[g] = gens[g]
  BY <1>3, <1>5, <1>6, GensUpdate
<1>8. Grow
  BY <1>5, <1>7 DEF Grow
<1>9. Shape' /\ ReceiptsTrue' /\ CurrentTrue' /\ RootsKeep'
  BY <1>2, <1>5, <1>7 DEF IInv, Shape, ReceiptsTrue, CurrentTrue, RootsKeep
<1>10. GenerationsShared'
  BY <1>2, <1>5, <1>7 DEF IInv, CurrentTrue, GenerationsShared, At
<1>11. (lock # None => LockOK(lock))'
  BY <1>2, <1>8, EnvMadeGrows DEF IInv, LockOK
<1>12. ASSUME NEW p \in Procs PROVE Known(p, proc[p])'
  <2>1. Known(p, proc[p])
    BY DEF IInv
  <2>2. proc[p].pc \in Making => KeyOf(proc[p]) \in Keys
    BY <2>1 DEF Known, Local, KeyOf, Keys, Making, Uv
  <2>3. proc[p].pc \in Making => InTheMaking(p, proc[p])'
    BY <1>2, <1>5, <1>7, <2>1, <2>2 DEF Known, Local, InTheMaking, KeyOf, Reusable,
       Verifies,
       IInv, CurrentTrue
  <2> QED BY <1>2, <1>8, <2>1, <2>3, KnownFrame
<1> QED BY <1>9, <1>10, <1>11, <1>12 DEF IInv

LEMMA CrashKeeps ==
    ASSUME IInv, NEW p \in Procs, Crash(p)
    PROVE  IInv'
<1>1. /\ Leave(p) /\ UNCHANGED <<tree, lock, current, store>>
      /\ gens' = [g \in DOMAIN gens |->
                    IF proc[p].pc = "kept" /\ proc[p].env = g
                    THEN [gens[g] EXCEPT !.orphan = TRUE] ELSE gens[g]]
  BY DEF Crash, At
<1>2. gens \in Seq(Generations)
  BY DEF IInv, Shape
<1>3. ASSUME NEW g \in DOMAIN gens
      PROVE  /\ gens'[g] \in Generations
             /\ gens'[g].key = gens[g].key /\ gens'[g].built = gens[g].built
             /\ gens'[g].receipt = gens[g].receipt /\ gens'[g].intact = gens[g].intact
             /\ gens[g].orphan => gens'[g].orphan
             /\ proc[p].pc = "kept" /\ proc[p].env = g => gens'[g].orphan
  <2>1. gens[g] \in Generations
    BY <1>2
  <2>2. CASE proc[p].pc = "kept" /\ proc[p].env = g
    <3>1. gens'[g] = [gens[g] EXCEPT !.orphan = TRUE]
      BY <1>1, <2>2
    <3> QED BY <2>1, <3>1 DEF Generations
  <2>3. CASE ~(proc[p].pc = "kept" /\ proc[p].env = g)
    <3>1. gens'[g] = gens[g]
      BY <1>1, <2>3
    <3> QED BY <2>1, <2>3, <3>1
  <2> QED BY <2>2, <2>3
<1>4. DOMAIN gens' = DOMAIN gens /\ gens' \in Seq(Generations)
  BY <1>1, <1>2, <1>3, GensMap
<1>5. proc[p].pc = "kept" => proc[p].env \in DOMAIN gens
  BY DEF IInv, Known, Local, InTheMaking, Making
<1>6. (lock # None => LockOK(lock))'
  <2>1. Grow
    BY <1>3, <1>4 DEF Grow
  <2> QED BY <1>1, <2>1, EnvMadeGrows DEF IInv, LockOK
<1> QED BY <1>1, <1>3, <1>4, <1>5, <1>6, LeaveStep

-----------------------------------------------------------------------------
(***************************************************************************)
(* The invariant, and what it gives.                                        *)
(***************************************************************************)
LEMMA StepKeeps ==
    ASSUME IInv, NEW p \in Procs, Step(p)
    PROVE  IInv'
BY StartKeeps, ReadSourcesKeeps, CaptureSourcesKeeps, CopySnapshotKeeps,
   CheckSnapshotKeeps, PrepareUvKeeps, UvSyncKeeps, WriteReceiptKeeps,
   PublishCurrentKeeps, AddSnapshotKeeps, PinSnapshotKeeps, NixBuildKeeps,
   SelectWorkersKeeps, StageWorkerKeeps, CopyBundleKeeps, CheckCopyKeeps,
   RecaptureSourcesKeeps, WriteLockKeeps, ReadLockKeeps, CompareSourcesKeeps,
   CompareDefinitionsKeeps, VerifyEnvironmentKeeps, PinLockedKeeps, VerifyWorkerKeeps,
   RunningKeeps, CrashKeeps
   DEF Step

LEMMA Inductive == IInv /\ [Next]_vars => IInv'
<1> SUFFICES ASSUME IInv, [Next]_vars PROVE IInv'
  OBVIOUS
<1>1. CASE Edit
  BY <1>1, EditKeeps
<1>2. CASE Collect
  BY <1>2, CollectKeeps
<1>3. CASE Damage
  BY <1>3, DamageKeeps
<1>4. ASSUME NEW p \in Procs, Step(p) PROVE IInv'
  BY <1>4, StepKeeps
<1>5. CASE UNCHANGED vars
  <2>1. Grow /\ UNCHANGED <<tree, lock, gens, current, guard, store, roots, proc>>
    BY <1>5 DEF Grow, vars
  <2>2. ASSUME NEW p \in Procs PROVE Known(p, proc[p])'
    <3>1. Known(p, proc[p])
      BY DEF IInv
    <3>2. proc[p].pc \in Making => InTheMaking(p, proc[p])'
      BY <2>1, <3>1 DEF Known, Local, InTheMaking, KeyOf, Reusable, Verifies
    <3> QED BY <2>1, <3>1, <3>2, KnownFrame
  <2>3. /\ Shape' /\ ReceiptsTrue' /\ CurrentTrue' /\ RootsKeep' /\ GenerationsShared'
        /\ (lock # None => LockOK(lock))'
    BY <2>1, EnvMadeGrows DEF IInv, Shape, ReceiptsTrue, CurrentTrue, RootsKeep,
       GenerationsShared, At, LockOK
  <2> QED BY <2>2, <2>3 DEF IInv
<1> QED BY <1>1, <1>2, <1>3, <1>4, <1>5 DEF Next

LEMMA Initially == Init => IInv
<1> SUFFICES ASSUME Init PROVE IInv
  OBVIOUS
<1>1. IsRecord(Idle) /\ Idle.pc = "idle" /\ Idle.op = None
  BY DEF IsRecord, Idle
<1>2. \A p \in Procs : proc[p] = Idle
  BY DEF Init
<1>3. Shape
  BY <1>1, <1>2 DEF Init, Shape, PCs
<1>4. ReceiptsTrue /\ CurrentTrue /\ RootsKeep /\ GenerationsShared
  BY DEF Init, ReceiptsTrue, CurrentTrue, RootsKeep, GenerationsShared
<1>5. ASSUME NEW p \in Procs PROVE Known(p, proc[p])
  BY <1>1, <1>2 DEF Known, Local, Prepared, Loaded, Planned, LockOnly, LoadOnly, Uv,
     Nix,
     Making, Staging, Running, Comparing
<1>6. lock = None
  BY DEF Init
<1> QED BY <1>3, <1>4, <1>5, <1>6 DEF IInv

LEMMA Invariant == Spec => []IInv
BY Initially, Inductive, PTL DEF Spec

\* A launched worker of a locked run uses an environment that was built from
\* exactly the tree its lock file records, under the definition the run was
\* planned with, whatever is edited, locked, damaged, collected or killed
\* meanwhile (lockfile.rs, snapshot and load; locked_uv.rs, prepare_with).
THEOREM EnvironmentsAsLocked == Spec => []EnvironmentAsLocked
<1>1. IInv => EnvironmentAsLocked
  <2> SUFFICES ASSUME IInv, NEW p \in Procs, WorkerRuns(p)
               PROVE  LET l == proc[p].lock IN
                      /\ l.definition = proc[p].manifest
                      /\ IF l.definition = "nix"
                         THEN l.env = [definition |-> l.definition, source |-> l.source]
                         ELSE /\ gens[l.env].built = l.source
                              /\ gens[l.env].key.definition = l.definition
    BY DEF EnvironmentAsLocked
  <2>1. Known(p, proc[p]) /\ proc[p].pc \in Running
    BY DEF IInv, WorkerRuns, Running
  <2>2. LockOK(proc[p].lock) /\ proc[p].lock.definition = proc[p].manifest
    BY <2>1 DEF Known, Local, Loaded, Running
  <2> QED BY <2>2 DEF LockOK, EnvMade
<1> QED BY <1>1, Invariant, PTL

\* If nobody edits while a run plans and compares, the workers it launches and
\* the plan they serve are those of the tree the lock file records, whatever
\* happens later (lockfile.rs, load; source_resolution.rs, resolve_source).
THEOREM SteadyRunsAsLocked == Spec => []SteadyRunAsLocked
<1>1. IInv => SteadyRunAsLocked
  <2>1. ASSUME IInv, NEW p \in Procs, WorkerRuns(p)
        PROVE  Known(p, proc[p]) /\ proc[p].pc \in Running
    BY <2>1 DEF IInv, WorkerRuns, Running
  <2> QED BY <2>1 DEF SteadyRunAsLocked, Known, Local, Planned
<1> QED BY <1>1, Invariant, PTL

\* Concurrent and repeated locks share generations: an undamaged complete one
\* is the current one of its key, or about to be, or its maker was killed just
\* before; and current.json names only complete ones (locked_uv.rs).
THEOREM GenerationsAreShared == Spec => []GenerationsShared
<1>1. IInv => GenerationsShared
  BY DEF IInv
<1> QED BY <1>1, Invariant, PTL

\* Nothing a run is about to launch, and nothing a lock is about to record, is
\* ever missing from the Nix store, whoever collects it (lockfile.rs, pin).
THEOREM OutputsAreRooted == Spec => []OutputsStayRooted
<1>1. IInv => OutputsStayRooted
  <2> SUFFICES ASSUME IInv, NEW p \in Procs
               PROVE  /\ WorkerRuns(p) \/ At(p, "ready") =>
                            LockedPaths(proc[p].lock) \subseteq store
                      /\ At(p, "write") => Present(p)
    BY DEF OutputsStayRooted
  <2>1. Known(p, proc[p]) /\ roots[p] \subseteq store
    BY DEF IInv, RootsKeep
  <2>2. ASSUME WorkerRuns(p) \/ At(p, "ready")
        PROVE  LockedPaths(proc[p].lock) \subseteq store
    <3>1. proc[p].pc \in Running
      BY <2>2 DEF WorkerRuns, At, Running
    <3> QED BY <2>1, <3>1 DEF Known, Local, Loaded
  <2>3. ASSUME At(p, "write") PROVE Present(p)
    BY <2>1, <2>3 DEF At, Known, Local, Prepared, EnvMade, Present, LockOnly
  <2> QED BY <2>2, <2>3
<1> QED BY <1>1, Invariant, PTL
=============================================================================
