---------------------------- MODULE Resume_proofs ----------------------------
(***************************************************************************)
(* Proofs about a directory that is run and resumed, for all manifests,    *)
(* worlds, volumes and bounds: every directory that a committed row names  *)
(* is complete, whenever the process dies or the power fails.              *)
(***************************************************************************)
EXTENDS Resume, SequenceTheorems, TLAPS

-----------------------------------------------------------------------------
(* Shapes *)

Steps == {"none", "stage", "files", "marker", "rename", "parents", "commit",
          "register"}

Directory == [place: {"stage", "final"}, files: {"dirty", "synced", "torn"},
              marker: BOOLEAN, entry: {"dirty", "synced"}]

RunShape(r) ==
    r = [pc |-> r.pc, plan |-> r.plan, resume |-> r.resume,
         retry |-> r.retry, next |-> r.next, todo |-> r.todo,
         attempt |-> r.attempt, kind |-> r.kind, step |-> r.step]

StoreShape(s) ==
    s = [exists |-> s.exists, database |-> s.database, version |-> s.version,
         slots |-> s.slots, owner |-> s.owner, attempts |-> s.attempts]

AttemptShape(t) ==
    t = [slot |-> t.slot, work |-> t.work, state |-> t.state,
         result |-> t.result, artifact |-> t.artifact, row |-> t.row]

\* Slots and works are whatever the plans hold.
AttemptsShape(attempts) ==
    /\ \E S : attempts \in Seq(S)
    /\ \A a \in DOMAIN attempts : AttemptShape(attempts[a])

\* The state is of these shapes.
ShapeInv ==
    /\ RunShape(run) /\ run.step \in Steps
    /\ StoreShape(store) /\ AttemptsShape(store.attempts)
    /\ objects \in [DOMAIN objects -> Directory]

-----------------------------------------------------------------------------
(* The inductive invariant *)

\* Nothing of a directory can be lost any more.
Durable(x) ==
    /\ x \in DOMAIN objects
    /\ objects[x].place = "final" /\ objects[x].marker
    /\ objects[x].files = "synced" /\ objects[x].entry = "synced"

NamedAreDurable ==
    \A a \in DOMAIN store.attempts :
        /\ store.attempts[a].artifact => Durable(<<a, "observation">>)
        /\ store.attempts[a].state # "running" => Durable(<<a, "outcome">>)

\* The directory being published is one that no row names yet.
NothingNamesIt ==
    run.step # "none" =>
        /\ run.pc \in {"recover", "execute"}
        /\ run.kind \in {"observation", "outcome"}
        /\ run.attempt \in DOMAIN store.attempts
        /\ store.attempts[run.attempt].state = "running"
        /\ run.kind = "observation" /\ run.step # "register" =>
               ~store.attempts[run.attempt].artifact

\* How far it is: each step relies on the ones before.
Progress ==
    /\ run.step \in {"files", "marker", "rename", "parents"} =>
           Current \in DOMAIN objects
    /\ run.step \in {"files", "marker", "rename"} =>
           objects[Current].entry = "synced"
    /\ run.step \in {"marker", "rename"} => objects[Current].files = "synced"
    /\ run.step = "rename" => objects[Current].marker
    /\ run.step = "parents" =>
           /\ objects[Current].place = "final" /\ objects[Current].marker
           /\ objects[Current].files = "synced"
    /\ run.step = "commit" => Durable(Current)

DurableInv == ShapeInv /\ NamedAreDurable /\ NothingNamesIt /\ Progress

-----------------------------------------------------------------------------
(* Shapes are kept *)

LEMMA RunPlan ==
    ASSUME NEW r, RunShape(r), NEW plan
    PROVE  LET q == [r EXCEPT !.plan = plan] IN
           /\ RunShape(q) /\ q.pc = r.pc /\ q.step = r.step
           /\ q.plan = plan /\ q.todo = r.todo
BY DEF RunShape

LEMMA IdleShape == /\ RunShape(Idle) /\ Idle.pc = "idle" /\ Idle.step = "none"
                   /\ Idle.plan = None /\ Idle.todo = <<>>
BY DEF RunShape, Idle

LEMMA RunPc ==
    ASSUME NEW r, RunShape(r), NEW pc
    PROVE  LET q == [r EXCEPT !.pc = pc] IN
           /\ RunShape(q) /\ q.pc = pc /\ q.step = r.step
           /\ q.attempt = r.attempt /\ q.kind = r.kind
           /\ q.plan = r.plan /\ q.todo = r.todo
BY DEF RunShape

LEMMA RunStep ==
    ASSUME NEW r, RunShape(r), NEW step
    PROVE  LET q == [r EXCEPT !.step = step] IN
           /\ RunShape(q) /\ q.pc = r.pc /\ q.step = step
           /\ q.attempt = r.attempt /\ q.kind = r.kind
           /\ q.plan = r.plan /\ q.todo = r.todo
BY DEF RunShape

\* What Publish makes of an invocation.
Published(r, a, kind) == [r EXCEPT !.attempt = a, !.kind = kind, !.step = "stage"]

LEMMA RunPublish ==
    ASSUME NEW r, RunShape(r), NEW a, NEW kind
    PROVE  LET q == Published(r, a, kind) IN
           /\ RunShape(q) /\ q.pc = r.pc /\ q.step = "stage"
           /\ q.attempt = a /\ q.kind = kind
           /\ q.plan = r.plan /\ q.todo = r.todo
<1> DEFINE q == Published(r, a, kind)
           q1 == [r EXCEPT !.attempt = a]
           q2 == [q1 EXCEPT !.kind = kind]
<1>1. q = [q2 EXCEPT !.step = "stage"]
  BY DEF Published
<1>2. /\ RunShape(q1) /\ q1.pc = r.pc /\ q1.attempt = a
      /\ q1.plan = r.plan /\ q1.todo = r.todo
  BY DEF RunShape
<1> HIDE DEF q1
<1>3. /\ RunShape(q2) /\ q2.pc = r.pc /\ q2.attempt = a /\ q2.kind = kind
      /\ q2.plan = r.plan /\ q2.todo = r.todo
  BY <1>2 DEF RunShape
<1> HIDE DEF q2, q
<1>4. /\ RunShape(q) /\ q.pc = r.pc /\ q.step = "stage"
      /\ q.attempt = a /\ q.kind = kind
      /\ q.plan = r.plan /\ q.todo = r.todo
  BY <1>1, <1>3, RunStep
<1> QED BY <1>4 DEF q

LEMMA StoreAttempts ==
    ASSUME NEW s, StoreShape(s), NEW attempts
    PROVE  LET q == [s EXCEPT !.attempts = attempts] IN
           StoreShape(q) /\ q.attempts = attempts
BY DEF StoreShape

LEMMA AttemptFields ==
    ASSUME NEW t, AttemptShape(t), NEW v
    PROVE  /\ LET q == [t EXCEPT !.row = v] IN
              AttemptShape(q) /\ q.slot = t.slot /\ q.work = t.work
           /\ LET q == [t EXCEPT !.artifact = v] IN
              AttemptShape(q) /\ q.slot = t.slot /\ q.work = t.work
           /\ LET q == [t EXCEPT !.state = v] IN
              AttemptShape(q) /\ q.slot = t.slot /\ q.work = t.work
           /\ LET q == [t EXCEPT !.result = v] IN
              AttemptShape(q) /\ q.slot = t.slot /\ q.work = t.work
BY DEF AttemptShape

\* The updates of an attempt that the transactions make.
Rowed(t, v) == [t EXCEPT !.row = v]
Named(t, v) == [t EXCEPT !.artifact = v]
Stated(t, v) == [t EXCEPT !.state = v]
Failed(t) == [t EXCEPT !.result = "failed"]

LEMMA AttemptRowed ==
    ASSUME NEW t, AttemptShape(t), NEW v
    PROVE  /\ AttemptShape(Rowed(t, v)) /\ Rowed(t, v).artifact = t.artifact
           /\ Rowed(t, v).state = t.state
BY DEF AttemptShape, Rowed

LEMMA AttemptNamed ==
    ASSUME NEW t, AttemptShape(t), NEW v
    PROVE  AttemptShape(Named(t, v)) /\ Named(t, v).state = t.state
BY DEF AttemptShape, Named

LEMMA AttemptStated ==
    ASSUME NEW t, AttemptShape(t), NEW v
    PROVE  AttemptShape(Stated(t, v)) /\ Stated(t, v).artifact = t.artifact
BY DEF AttemptShape, Stated

LEMMA AttemptFailed ==
    ASSUME NEW t, AttemptShape(t)
    PROVE  /\ AttemptShape(Failed(t)) /\ Failed(t).artifact = t.artifact
           /\ Failed(t).state = t.state
BY DEF AttemptShape, Failed

LEMMA ReplaceAttempt ==
    ASSUME NEW attempts, AttemptsShape(attempts),
           NEW a \in DOMAIN attempts, NEW t, AttemptShape(t)
    PROVE  LET q == [attempts EXCEPT ![a] = t] IN
           /\ AttemptsShape(q) /\ DOMAIN q = DOMAIN attempts /\ q[a] = t
           /\ \A b \in DOMAIN attempts : b # a => q[b] = attempts[b]
<1> DEFINE q == [attempts EXCEPT ![a] = t]
<1>1. PICK S : attempts \in Seq(S)
  BY DEF AttemptsShape
<1>2. q \in Seq(S \cup {t})
  BY <1>1, SeqMonotonic, ExceptSeq, LenProperties
<1> QED BY <1>1, <1>2 DEF AttemptsShape

LEMMA AppendAttempt ==
    ASSUME NEW attempts, AttemptsShape(attempts), NEW t, AttemptShape(t)
    PROVE  LET q == Append(attempts, t)
               n == Len(attempts) + 1 IN
           /\ AttemptsShape(q) /\ n \in DOMAIN q /\ q[n] = t
           /\ \A b \in DOMAIN q : b # n => b \in DOMAIN attempts /\ q[b] = attempts[b]
<1>1. PICK S : attempts \in Seq(S)
  BY DEF AttemptsShape
<1>2. attempts \in Seq(S \cup {t})
  BY <1>1
<1>3. /\ Append(attempts, t) \in Seq(S \cup {t})
      /\ Len(attempts) \in Nat
      /\ DOMAIN attempts = 1 .. Len(attempts)
      /\ DOMAIN Append(attempts, t) = 1 .. (Len(attempts) + 1)
      /\ Append(attempts, t)[Len(attempts) + 1] = t
      /\ \A b \in 1 .. Len(attempts) : Append(attempts, t)[b] = attempts[b]
  BY <1>2
<1> QED BY <1>3 DEF AttemptsShape

\* What Start, Register and CommitOutcome make of an invocation, and Register
\* of the store.
Started(r, plan, resume, retry, pc) ==
    [r EXCEPT !.plan = plan, !.resume = resume, !.retry = retry, !.pc = pc]

Counted(r, next, todo) == [r EXCEPT !.next = next, !.todo = todo]

Ended(r, todo) == [r EXCEPT !.step = "none", !.attempt = 0, !.todo = todo]

Owned(s, slots, owner) == [s EXCEPT !.slots = slots, !.owner = owner]

LEMMA RunRegister ==
    ASSUME NEW r, RunShape(r), NEW next, NEW todo
    PROVE  LET q == Counted(r, next, todo) IN
           /\ RunShape(q) /\ q.step = r.step /\ q.pc = r.pc
           /\ q.plan = r.plan /\ q.todo = todo
<1> DEFINE q1 == [r EXCEPT !.next = next]
<1>1. RunShape(q1) /\ q1.step = r.step /\ q1.pc = r.pc /\ q1.plan = r.plan
  BY DEF RunShape
<1> HIDE DEF q1
<1>2. LET q == [q1 EXCEPT !.todo = todo] IN
      /\ RunShape(q) /\ q.step = r.step /\ q.pc = r.pc
      /\ q.plan = r.plan /\ q.todo = todo
  BY <1>1 DEF RunShape
<1> QED BY <1>2 DEF q1, Counted

LEMMA RunDone ==
    ASSUME NEW r, RunShape(r), NEW todo
    PROVE  LET q == Ended(r, todo) IN
           /\ RunShape(q) /\ q.step = "none" /\ q.pc = r.pc
           /\ q.plan = r.plan /\ q.todo = todo
<1> DEFINE q1 == [r EXCEPT !.step = "none"]
           q2 == [q1 EXCEPT !.attempt = 0]
<1>1. RunShape(q1) /\ q1.step = "none" /\ q1.pc = r.pc /\ q1.plan = r.plan
  BY DEF RunShape
<1> HIDE DEF q1
<1>2. RunShape(q2) /\ q2.step = "none" /\ q2.pc = r.pc /\ q2.plan = r.plan
  BY <1>1 DEF RunShape
<1> HIDE DEF q2
<1>3. LET q == [q2 EXCEPT !.todo = todo] IN
      /\ RunShape(q) /\ q.step = "none" /\ q.pc = r.pc
      /\ q.plan = r.plan /\ q.todo = todo
  BY <1>2 DEF RunShape
<1> QED BY <1>3 DEF q1, q2, Ended

LEMMA RunStart ==
    ASSUME NEW r, RunShape(r), NEW plan, NEW resume, NEW retry, NEW pc
    PROVE  /\ RunShape(Started(r, plan, resume, retry, pc))
           /\ Started(r, plan, resume, retry, pc).step = r.step
           /\ Started(r, plan, resume, retry, pc).plan = plan
           /\ Started(r, plan, resume, retry, pc).todo = r.todo
<1> DEFINE q1 == [r EXCEPT !.plan = plan]
           q2 == [q1 EXCEPT !.resume = resume]
           q3 == [q2 EXCEPT !.retry = retry]
<1>1. RunShape(q1) /\ q1.step = r.step /\ q1.plan = plan /\ q1.todo = r.todo
  BY RunPlan
<1> HIDE DEF q1
<1>2. RunShape(q2) /\ q2.step = r.step /\ q2.plan = plan /\ q2.todo = r.todo
  BY <1>1 DEF RunShape
<1> HIDE DEF q2
<1>3. RunShape(q3) /\ q3.step = r.step /\ q3.plan = plan /\ q3.todo = r.todo
  BY <1>2 DEF RunShape
<1> HIDE DEF q3
<1>4. LET q == [q3 EXCEPT !.pc = pc] IN
      RunShape(q) /\ q.step = r.step /\ q.plan = plan /\ q.todo = r.todo
  BY <1>3, RunPc
<1> QED BY <1>4 DEF q1, q2, q3, Started

LEMMA StoreFields ==
    ASSUME NEW s, StoreShape(s), NEW v, NEW q,
           \/ q = [s EXCEPT !.exists = v]
           \/ q = [s EXCEPT !.database = v]
           \/ q = [s EXCEPT !.version = v]
    PROVE  StoreShape(q) /\ q.attempts = s.attempts
<1>1. CASE q = [s EXCEPT !.exists = v]
  BY <1>1 DEF StoreShape
<1>2. CASE q = [s EXCEPT !.database = v]
  BY <1>2 DEF StoreShape
<1>3. CASE q = [s EXCEPT !.version = v]
  BY <1>3 DEF StoreShape
<1> QED BY <1>1, <1>2, <1>3

Versioned(s, v) == [s EXCEPT !.version = v]

LEMMA StoreVersion ==
    ASSUME NEW s, StoreShape(s), NEW v
    PROVE  StoreShape(Versioned(s, v)) /\ Versioned(s, v).attempts = s.attempts
BY DEF StoreShape, Versioned

LEMMA StoreOwned ==
    ASSUME NEW s, StoreShape(s), NEW v, NEW w
    PROVE  StoreShape(Owned(s, v, w)) /\ Owned(s, v, w).attempts = s.attempts
<1> DEFINE q1 == [s EXCEPT !.slots = v]
<1>1. StoreShape(q1) /\ q1.attempts = s.attempts
  BY DEF StoreShape
<1> HIDE DEF q1
<1>2. StoreShape([q1 EXCEPT !.owner = w]) /\ [q1 EXCEPT !.owner = w].attempts = s.attempts
  BY <1>1 DEF StoreShape
<1> QED BY <1>2 DEF q1, Owned

-----------------------------------------------------------------------------
(* Steps that publish nothing *)

\* No directory is being published and none that a row names is touched.
LEMMA Rests ==
    ASSUME DurableInv, RunShape(run'), run'.step = "none",
           StoreShape(store'), store'.attempts = store.attempts,
           objects' = objects
    PROVE  DurableInv'
<1>1. ShapeInv'
  BY DEF DurableInv, ShapeInv, Steps
<1>2. NamedAreDurable'
  BY DEF DurableInv, NamedAreDurable, Durable
<1>3. NothingNamesIt' /\ Progress'
  BY DEF NothingNamesIt, Progress
<1> QED BY <1>1, <1>2, <1>3 DEF DurableInv

LEMMA Aborts ==
    ASSUME Abort
    PROVE  /\ RunShape(run') /\ run'.step = "none" /\ run'.pc = "idle"
           /\ run'.plan = run.plan /\ run'.todo = <<>>
BY IdleShape, RunPlan DEF Abort

LEMMA Proceeds ==
    ASSUME DurableInv, NEW from, NEW allowed, NEW to, Proceed(from, allowed, to),
           from \notin {"recover", "execute"}
    PROVE  RunShape(run') /\ run'.step = "none"
<1>1. RunShape(run) /\ run.step = "none"
  BY DEF DurableInv, ShapeInv, NothingNamesIt, Proceed
<1>2. CASE run' = [run EXCEPT !.pc = to]
  BY <1>1, <1>2, RunPc
<1>3. CASE Abort
  BY <1>3, Aborts
<1> QED BY <1>2, <1>3 DEF Proceed

LEMMA Quiet ==
    ASSUME DurableInv,
           \/ Edit \/ Start \/ CreateDirectory \/ AcquireLock \/ preflight
           \/ OpenDatabase \/ verify_schema \/ InitializeStore
           \/ RecoveryDone \/ Register \/ RegistrationDone \/ Stop \/ Crash
    PROVE  DurableInv'
<1> USE DEF DurableInv, ShapeInv
<1>1. CASE Edit
  BY <1>1, Rests DEF Edit, NothingNamesIt
<1>2. CASE Start
  <2>1. \E resume, retry, plan :
          run' = Started(Idle, plan, resume, retry, IF resume THEN "lock" ELSE "create")
    BY <1>2, Zenon DEF Start, Started
  <2>2. PICK resume, retry, plan, pc : run' = Started(Idle, plan, resume, retry, pc)
    BY <2>1, Zenon
  <2>3. RunShape(run') /\ run'.step = "none"
    BY <2>2, IdleShape, RunStart
  <2> QED BY <1>2, <2>3, Rests DEF Start
<1>3. CASE CreateDirectory \/ OpenDatabase
  <2>1. run.step = "none"
    BY <1>3 DEF CreateDirectory, OpenDatabase, NothingNamesIt
  <2>2. PICK pc : run' = [run EXCEPT !.pc = pc]
    BY <1>3 DEF CreateDirectory, OpenDatabase
  <2>3. RunShape(run') /\ run'.step = "none"
    BY <2>1, <2>2, RunPc
  <2>4. \/ store' = [store EXCEPT !.exists = TRUE]
        \/ store' = [store EXCEPT !.database = TRUE]
    BY <1>3 DEF CreateDirectory, OpenDatabase
  <2>5. StoreShape(store') /\ store'.attempts = store.attempts
    BY <2>4, StoreFields, Zenon
  <2> QED BY <1>3, <2>3, <2>5, Rests DEF CreateDirectory, OpenDatabase
<1>4. CASE AcquireLock \/ preflight \/ verify_schema
  <2>1. RunShape(run') /\ run'.step = "none"
    BY <1>4, Proceeds DEF AcquireLock, preflight, verify_schema
  <2> QED BY <1>4, <2>1, Rests DEF AcquireLock, preflight, verify_schema
<1>5. CASE InitializeStore
  <2>1. PICK version, pc : /\ store' = [store EXCEPT !.version = version]
                           /\ run' = [run EXCEPT !.pc = pc]
    BY <1>5 DEF InitializeStore
  <2>2. run.step = "none"
    BY <1>5 DEF InitializeStore, NothingNamesIt
  <2>3. RunShape(run') /\ run'.step = "none"
    BY <2>1, <2>2, RunPc
  <2>4. StoreShape(store') /\ store'.attempts = store.attempts
    BY <2>1, StoreFields, Zenon
  <2> QED BY <1>5, <2>3, <2>4, Rests DEF InitializeStore
<1>6. CASE RecoveryDone \/ RegistrationDone
  <2>1. run.step = "none" /\ \E pc : run' = [run EXCEPT !.pc = pc]
    BY <1>6 DEF RecoveryDone, Recovering, RegistrationDone, NothingNamesIt
  <2>2. RunShape(run') /\ run'.step = "none"
    BY <2>1, RunPc
  <2> QED BY <1>6, <2>2, Rests DEF RecoveryDone, RegistrationDone
<1>7. CASE Register
  <2>1. run.step = "none"
    BY <1>7 DEF Register, NothingNamesIt
  <2>2. \/ Abort /\ UNCHANGED store
        \/ /\ \E slots, owner : store' = Owned(store, slots, owner)
           /\ \E next, todo : run' = Counted(run, next, todo)
    BY <1>7 DEF Register, Registered, Owned, Counted
  <2>3. RunShape(run') /\ run'.step = "none"
    BY <2>1, <2>2, Aborts, RunRegister
  <2>4. StoreShape(store') /\ store'.attempts = store.attempts
    BY <2>2, StoreOwned
  <2> QED BY <1>7, <2>3, <2>4, Rests DEF Register
<1>8. CASE Stop \/ Crash
  BY <1>8, Aborts, Rests DEF Stop, Crash
<1> QED BY <1>1, <1>2, <1>3, <1>4, <1>5, <1>6, <1>7, <1>8

-----------------------------------------------------------------------------
(* Steps of a publication *)

\* One directory is replaced, which no row names.
LEMMA Advances ==
    ASSUME DurableInv, NEW step \in Steps, NEW o \in Directory, Advance(step, o),
           run.step \notin {"none", "register"}
    PROVE  /\ ShapeInv' /\ NamedAreDurable' /\ NothingNamesIt'
           /\ run'.step = step /\ Current' = Current
           /\ Current \in DOMAIN objects' /\ objects'[Current] = o
<1> USE DEF DurableInv, ShapeInv
<1>1. /\ RunShape(run') /\ run'.pc = run.pc /\ run'.step = step
      /\ run'.attempt = run.attempt /\ run'.kind = run.kind
  BY RunStep DEF Advance
<1>2. store' = store
  BY DEF Advance
<1>3. Current' = Current
  BY <1>1 DEF Current
<1>4. /\ DOMAIN objects' = DOMAIN objects \cup {Current}
      /\ objects'[Current] = o
      /\ \A x \in DOMAIN objects : x # Current => objects'[x] = objects[x]
      /\ objects' \in [DOMAIN objects' -> Directory]
  <2> HIDE DEF DurableInv
  <2>1. objects \in [DOMAIN objects -> Directory]
    BY DEF DurableInv
  <2> QED BY <2>1 DEF Advance
<1>5. NamedAreDurable'
  <2> SUFFICES ASSUME NEW a \in DOMAIN store.attempts
               PROVE  /\ store.attempts[a].artifact => Durable(<<a, "observation">>)'
                      /\ store.attempts[a].state # "running" => Durable(<<a, "outcome">>)'
    BY <1>2 DEF NamedAreDurable
  <2>1. \A x : Durable(x) /\ x # Current => Durable(x)'
    BY <1>4 DEF Durable
  <2>2. /\ store.attempts[a].artifact => <<a, "observation">> # Current
        /\ store.attempts[a].state # "running" => <<a, "outcome">> # Current
    BY DEF NothingNamesIt, Current
  <2> QED BY <2>1, <2>2 DEF NamedAreDurable
<1>6. NothingNamesIt'
  BY <1>1, <1>2 DEF NothingNamesIt
<1> QED BY <1>1, <1>2, <1>3, <1>4, <1>5, <1>6

LEMMA Publications ==
    ASSUME DurableInv,
           Populate \/ SyncFiles \/ WriteMarker \/ Rename \/ SyncParents
    PROVE  DurableInv'
<1>1. Current \in DOMAIN objects => objects[Current] \in Directory
  BY DEF DurableInv, ShapeInv
<1>2. ASSUME NEW step \in Steps \ {"register"}, NEW o \in Directory, Advance(step, o),
             run.step \notin {"none", "register"},
             step \in {"files", "marker", "rename"} => o.entry = "synced",
             step \in {"marker", "rename"} => o.files = "synced",
             step = "rename" => o.marker,
             step \in {"parents", "commit"} =>
                 o.place = "final" /\ o.marker /\ o.files = "synced",
             step = "commit" => o.entry = "synced"
      PROVE  DurableInv'
  <2>1. /\ ShapeInv' /\ NamedAreDurable' /\ NothingNamesIt'
        /\ run'.step = step /\ Current' = Current
        /\ Current \in DOMAIN objects' /\ objects'[Current] = o
    BY <1>2, Advances
  <2>2. Progress'
    BY <1>2, <2>1 DEF Progress, Durable
  <2> QED BY <2>1, <2>2 DEF DurableInv
<1>3. CASE Populate
  <2> DEFINE o == [place |-> "stage", files |-> "dirty", marker |-> FALSE,
                   entry |-> "synced"]
  <2>1. o \in Directory /\ "files" \in Steps
    BY DEF Directory, Steps
  <2> QED BY <1>2, <1>3, <2>1 DEF Populate, Publishing
<1>4. CASE SyncFiles
  <2> DEFINE o == [objects[Current] EXCEPT !.files = "synced"]
  <2>1. /\ Current \in DOMAIN objects /\ objects[Current] \in Directory
        /\ objects[Current].entry = "synced"
    BY <1>1, <1>4 DEF DurableInv, Progress, SyncFiles, Publishing
  <2>2. /\ o \in Directory /\ o.files = "synced" /\ o.entry = "synced"
        /\ "marker" \in Steps
    BY <2>1 DEF Directory, Steps
  <2>3. Advance("marker", o) /\ run.step = "files"
    BY <1>4 DEF SyncFiles, Publishing
  <2> HIDE DEF o
  <2> QED BY <1>2, <2>2, <2>3
<1>5. CASE WriteMarker
  <2> DEFINE o == [objects[Current] EXCEPT !.marker = TRUE]
  <2>1. /\ Current \in DOMAIN objects /\ objects[Current] \in Directory
        /\ objects[Current].files = "synced" /\ objects[Current].entry = "synced"
    BY <1>1, <1>5 DEF DurableInv, Progress, WriteMarker, Publishing
  <2>2. /\ o \in Directory /\ o.files = "synced" /\ o.entry = "synced" /\ o.marker
        /\ "rename" \in Steps
    BY <2>1 DEF Directory, Steps
  <2>3. Advance("rename", o) /\ run.step = "marker"
    BY <1>5 DEF WriteMarker, Publishing
  <2> HIDE DEF o
  <2> QED BY <1>2, <2>2, <2>3
<1>6. CASE Rename
  <2> DEFINE o == [objects[Current] EXCEPT !.place = "final", !.entry = "dirty"]
  <2>1. /\ Current \in DOMAIN objects /\ objects[Current] \in Directory
        /\ objects[Current].files = "synced" /\ objects[Current].marker
    BY <1>1, <1>6 DEF DurableInv, Progress, Rename, Publishing
  <2>2. /\ o \in Directory /\ o.files = "synced" /\ o.place = "final" /\ o.marker
        /\ "parents" \in Steps
    BY <2>1 DEF Directory, Steps
  <2>3. Advance("parents", o) /\ run.step = "rename"
    BY <1>6 DEF Rename, Publishing
  <2> HIDE DEF o
  <2> QED BY <1>2, <2>2, <2>3
<1>7. CASE SyncParents
  <2> DEFINE o == [objects[Current] EXCEPT !.entry = "synced"]
  <2>1. /\ Current \in DOMAIN objects /\ objects[Current] \in Directory
        /\ objects[Current].files = "synced" /\ objects[Current].marker
        /\ objects[Current].place = "final"
    BY <1>1, <1>7 DEF DurableInv, Progress, SyncParents, Publishing
  <2>2. /\ o \in Directory /\ o.files = "synced" /\ o.place = "final" /\ o.marker
        /\ o.entry = "synced" /\ "commit" \in Steps
    BY <2>1 DEF Directory, Steps
  <2>3. Advance("commit", o) /\ run.step = "parents"
    BY <1>7 DEF SyncParents, Publishing
  <2> HIDE DEF o
  <2> QED BY <1>2, <2>2, <2>3
<1> QED BY <1>3, <1>4, <1>5, <1>6, <1>7

-----------------------------------------------------------------------------
(* Steps that commit a row or open an attempt *)

\* One attempt is replaced and the directories it names are durable.
LEMMA Commits ==
    ASSUME DurableInv, NEW a \in DOMAIN store.attempts, NEW t, AttemptShape(t),
           StoreShape(store'), store'.attempts = [store.attempts EXCEPT ![a] = t],
           objects' \in [DOMAIN objects' -> Directory],
           \A x : Durable(x) => Durable(x)',
           t.artifact => Durable(<<a, "observation">>)',
           t.state # "running" => Durable(<<a, "outcome">>)',
           RunShape(run'), run'.step \in Steps
    PROVE  /\ ShapeInv' /\ NamedAreDurable'
           /\ DOMAIN store'.attempts = DOMAIN store.attempts /\ store'.attempts[a] = t
<1>1. /\ AttemptsShape(store'.attempts)
      /\ DOMAIN store'.attempts = DOMAIN store.attempts
      /\ store'.attempts[a] = t
      /\ \A b \in DOMAIN store.attempts : b # a => store'.attempts[b] = store.attempts[b]
  BY ReplaceAttempt DEF DurableInv, ShapeInv
<1>2. ShapeInv'
  BY <1>1 DEF ShapeInv
<1>3. NamedAreDurable'
  BY <1>1 DEF DurableInv, NamedAreDurable
<1> QED BY <1>1, <1>2, <1>3

LEMMA ObservationCommits ==
    ASSUME DurableInv, CommitObservation
    PROVE  DurableInv'
<1> DEFINE a == run.attempt
           t == [store.attempts[a] EXCEPT !.row = TRUE]
<1>1. /\ objects' = objects
      /\ run.pc \in {"recover", "execute"}
      /\ a \in DOMAIN store.attempts /\ store.attempts[a].state = "running"
      /\ store.attempts[a].artifact => Durable(<<a, "observation">>)
  BY DEF CommitObservation, Publishing, DurableInv, NothingNamesIt, NamedAreDurable
<1>2. CASE Abort /\ UNCHANGED store
  BY <1>1, <1>2, Aborts, Rests DEF DurableInv, ShapeInv
<1>3. CASE /\ store' = [store EXCEPT !.attempts[run.attempt].row = TRUE]
           /\ Publish(run.attempt, "outcome")
  <2>1. /\ AttemptShape(t) /\ t.artifact = store.attempts[a].artifact
        /\ t.state = "running"
    <3>1. AttemptShape(store.attempts[a])
      BY <1>1 DEF DurableInv, ShapeInv, AttemptsShape
    <3>2. t = Rowed(store.attempts[a], TRUE)
      BY DEF Rowed
    <3> HIDE DEF t
    <3>3. /\ AttemptShape(t) /\ t.artifact = store.attempts[a].artifact
          /\ t.state = store.attempts[a].state
      BY <3>1, <3>2, AttemptRowed, ZenonT(60)
    <3> QED BY <1>1, <3>3
  <2> HIDE DEF t
  <2>2. StoreShape(store') /\ store'.attempts = [store.attempts EXCEPT ![a] = t]
    <3>1. store' = [store EXCEPT !.attempts = [store.attempts EXCEPT ![a] = t]]
      BY <1>3 DEF t, DurableInv, ShapeInv, StoreShape
    <3> QED BY <3>1, StoreAttempts DEF DurableInv, ShapeInv
  <2>3. /\ RunShape(run') /\ run'.step = "stage" /\ run'.pc = run.pc
        /\ run'.attempt = a /\ run'.kind = "outcome"
    <3>1. run' = Published(run, a, "outcome")
      BY <1>3 DEF Publish, Published
    <3> QED BY <3>1, RunPublish DEF DurableInv, ShapeInv
  <2>4. \A x : Durable(x) => Durable(x)'
    BY <1>1 DEF Durable
  <2>5. /\ ShapeInv' /\ NamedAreDurable'
        /\ DOMAIN store'.attempts = DOMAIN store.attempts /\ store'.attempts[a] = t
    BY <1>1, <2>1, <2>2, <2>3, <2>4, Commits DEF DurableInv, ShapeInv, Steps
  <2>6. NothingNamesIt' /\ Progress'
    BY <1>1, <2>1, <2>3, <2>5 DEF NothingNamesIt, Progress
  <2> QED BY <2>5, <2>6 DEF DurableInv
<1> QED BY <1>2, <1>3 DEF CommitObservation

LEMMA ArtifactCommits ==
    ASSUME DurableInv, CommitArtifact
    PROVE  DurableInv'
<1> DEFINE a == run.attempt
           t == [store.attempts[a] EXCEPT !.artifact = TRUE]
<1>1. /\ run.kind = "observation" /\ objects' = objects
      /\ run.pc \in {"recover", "execute"}
      /\ a \in DOMAIN store.attempts /\ store.attempts[a].state = "running"
      /\ Durable(<<a, "observation">>)
  BY DEF CommitArtifact, Publishing, DurableInv, NothingNamesIt, Progress, Current
<1>2. AttemptShape(t) /\ t.state = "running"
  <2>1. AttemptShape(store.attempts[a])
    BY <1>1 DEF DurableInv, ShapeInv, AttemptsShape
  <2>2. t = Named(store.attempts[a], TRUE)
    BY DEF Named
  <2> HIDE DEF t
  <2> QED BY <1>1, <2>1, <2>2, AttemptNamed
<1> HIDE DEF t
<1>3. StoreShape(store') /\ store'.attempts = [store.attempts EXCEPT ![a] = t]
  <2>1. store' = [store EXCEPT !.attempts = [store.attempts EXCEPT ![a] = t]]
    BY DEF CommitArtifact, t, DurableInv, ShapeInv, StoreShape
  <2> QED BY <2>1, StoreAttempts DEF DurableInv, ShapeInv
<1>4. /\ RunShape(run') /\ run'.step = "register" /\ run'.pc = run.pc
      /\ run'.attempt = a /\ run'.kind = "observation"
  BY <1>1, RunStep DEF CommitArtifact, DurableInv, ShapeInv
<1>5. \A x : Durable(x) => Durable(x)'
  BY <1>1 DEF Durable
<1>6. /\ ShapeInv' /\ NamedAreDurable'
      /\ DOMAIN store'.attempts = DOMAIN store.attempts /\ store'.attempts[a] = t
  BY <1>1, <1>2, <1>3, <1>4, <1>5, Commits DEF DurableInv, ShapeInv, Steps
<1>7. NothingNamesIt' /\ Progress'
  BY <1>1, <1>2, <1>4, <1>6 DEF NothingNamesIt, Progress
<1> QED BY <1>6, <1>7 DEF DurableInv

LEMMA OutcomeCommits ==
    ASSUME DurableInv, CommitOutcome
    PROVE  DurableInv'
<1> DEFINE a == run.attempt
           t == [store.attempts[a] EXCEPT !.state = store.attempts[a].result]
<1>1. /\ objects' = objects /\ a \in DOMAIN store.attempts
      /\ Durable(<<a, "outcome">>)
      /\ store.attempts[a].artifact => Durable(<<a, "observation">>)
  BY DEF CommitOutcome, Publishing, DurableInv, NothingNamesIt, Progress, Current,
         NamedAreDurable
<1>2. AttemptShape(t) /\ t.artifact = store.attempts[a].artifact
  <2>1. AttemptShape(store.attempts[a])
    BY <1>1 DEF DurableInv, ShapeInv, AttemptsShape
  <2>2. t = Stated(store.attempts[a], store.attempts[a].result)
    BY DEF Stated
  <2> HIDE DEF t
  <2> QED BY <2>1, <2>2, AttemptStated
<1> HIDE DEF t
<1>3. StoreShape(store') /\ store'.attempts = [store.attempts EXCEPT ![a] = t]
  <2>1. store' = [store EXCEPT !.attempts = [store.attempts EXCEPT ![a] = t]]
    BY DEF CommitOutcome, Finish, t, DurableInv, ShapeInv, StoreShape
  <2> QED BY <2>1, StoreAttempts DEF DurableInv, ShapeInv
<1>4. PICK todo : run' = Ended(run, todo)
  BY DEF CommitOutcome, Ended
<1>5. RunShape(run') /\ run'.step = "none"
  BY <1>4, RunDone DEF DurableInv, ShapeInv
<1>6. \A x : Durable(x) => Durable(x)'
  BY <1>1 DEF Durable
<1>7. ShapeInv' /\ NamedAreDurable'
  BY <1>1, <1>2, <1>3, <1>5, <1>6, Commits DEF DurableInv, ShapeInv, Steps
<1>8. NothingNamesIt' /\ Progress'
  BY <1>5 DEF NothingNamesIt, Progress
<1> QED BY <1>7, <1>8 DEF DurableInv

\* Synchronizing a complete directory makes it durable.
LEMMA Synchronizes ==
    ASSUME DurableInv, NEW S,
           \A x \in S : Complete(x),
           objects' = [x \in DOMAIN objects |->
                         IF x \in S THEN SyncTree(objects[x]) ELSE objects[x]]
    PROVE  /\ objects' \in [DOMAIN objects' -> Directory]
           /\ \A x \in S : Durable(x)'
           /\ \A x : Durable(x) => Durable(x)'
<1>1. \A x \in DOMAIN objects : objects[x] \in Directory
  BY DEF DurableInv, ShapeInv
<1>2. ASSUME NEW o \in Directory
      PROVE  /\ SyncTree(o) \in Directory
             /\ SyncTree(o).place = o.place /\ SyncTree(o).marker = o.marker
             /\ SyncTree(o).files = "synced" /\ SyncTree(o).entry = "synced"
  BY DEF SyncTree, Directory
<1>3. /\ DOMAIN objects' = DOMAIN objects
      /\ \A x \in DOMAIN objects :
             objects'[x] = IF x \in S THEN SyncTree(objects[x]) ELSE objects[x]
  OBVIOUS
<1>4. objects' \in [DOMAIN objects' -> Directory]
  BY <1>1, <1>2
<1>5. ASSUME NEW x \in S PROVE Durable(x)'
  <2>1. /\ x \in DOMAIN objects /\ objects[x] \in Directory
        /\ objects[x].place = "final" /\ objects[x].marker
    BY <1>1, <1>5 DEF Complete, verify_finalized_directory
  <2>2. objects'[x] = SyncTree(objects[x])
    BY <1>3, <1>5, <2>1
  <2> QED BY <1>2, <1>3, <2>1, <2>2 DEF Durable
<1>6. ASSUME NEW x, Durable(x), x \notin S PROVE Durable(x)'
  BY <1>3, <1>6 DEF Durable
<1> QED BY <1>4, <1>5, <1>6

LEMMA ObservationImports ==
    ASSUME DurableInv, NEW a \in Unnamed, ImportObservation(a)
    PROVE  DurableInv'
<1> DEFINE x == <<a, "observation">>
           t == [store.attempts[a] EXCEPT !.artifact = TRUE]
<1>1. /\ Complete(x) /\ a \in DOMAIN store.attempts
      /\ store.attempts[a].state # "running" => Durable(<<a, "outcome">>)
      /\ run' = run /\ run.step = "none"
  BY DEF ImportObservation, Unnamed, DurableInv, NamedAreDurable
<1>2. objects' = [y \in DOMAIN objects |->
                    IF y \in {x} THEN SyncTree(objects[y]) ELSE objects[y]]
  <2>1. objects' = [objects EXCEPT ![x] = SyncTree(objects[x])]
    BY DEF ImportObservation
  <2> HIDE DEF x
  <2>2. objects = [y \in DOMAIN objects |-> objects[y]]
    BY DEF DurableInv, ShapeInv
  <2> QED BY <2>1, <2>2
<1>3. /\ objects' \in [DOMAIN objects' -> Directory]
      /\ Durable(x)' /\ \A y : Durable(y) => Durable(y)'
  <2> DEFINE S == {x}
  <2>1. /\ \A y \in S : Complete(y)
        /\ objects' = [y \in DOMAIN objects |->
                         IF y \in S THEN SyncTree(objects[y]) ELSE objects[y]]
    BY <1>1, <1>2
  <2> HIDE DEF S
  <2>2. /\ objects' \in [DOMAIN objects' -> Directory]
        /\ \A y \in S : Durable(y)'
        /\ \A y : Durable(y) => Durable(y)'
    BY <2>1, Synchronizes
  <2> QED BY <2>2 DEF S
<1>4. AttemptShape(t) /\ t.state = store.attempts[a].state
  <2>1. AttemptShape(store.attempts[a])
    BY <1>1 DEF DurableInv, ShapeInv, AttemptsShape
  <2>2. t = Named(store.attempts[a], TRUE)
    BY DEF Named
  <2> HIDE DEF t
  <2> QED BY <2>1, <2>2, AttemptNamed
<1> HIDE DEF t
<1>5. StoreShape(store') /\ store'.attempts = [store.attempts EXCEPT ![a] = t]
  <2>1. store' = [store EXCEPT !.attempts = [store.attempts EXCEPT ![a] = t]]
    BY DEF ImportObservation, t, DurableInv, ShapeInv, StoreShape
  <2> QED BY <2>1, StoreAttempts DEF DurableInv, ShapeInv
<1>6. ShapeInv' /\ NamedAreDurable'
  BY <1>1, <1>3, <1>4, <1>5, Commits DEF DurableInv, ShapeInv
<1>7. NothingNamesIt' /\ Progress'
  BY <1>1 DEF NothingNamesIt, Progress
<1> QED BY <1>6, <1>7 DEF DurableInv

LEMMA Imports ==
    ASSUME DurableInv, NEW a \in Running, ImportOutcome(a)
    PROVE  DurableInv'
<1> DEFINE S == Roots(a) \cup {<<a, "outcome">>}
           t == [store.attempts[a] EXCEPT !.state = store.attempts[a].result]
<1>1. /\ \A x \in S : Complete(x)
      /\ a \in DOMAIN store.attempts
      /\ store.attempts[a].artifact => Durable(<<a, "observation">>)
      /\ run' = run /\ run.step = "none"
  BY DEF ImportOutcome, Recovering, Orphan, Running, DurableInv, NamedAreDurable
<1>2. /\ objects' \in [DOMAIN objects' -> Directory]
      /\ \A x \in S : Durable(x)'
      /\ \A x : Durable(x) => Durable(x)'
  <2>1. objects' = [x \in DOMAIN objects |->
                      IF x \in S THEN SyncTree(objects[x]) ELSE objects[x]]
    BY DEF ImportOutcome
  <2> HIDE DEF S
  <2> QED BY <1>1, <2>1, Synchronizes
<1>3. Durable(<<a, "outcome">>)'
  BY <1>2
<1>4. AttemptShape(t) /\ t.artifact = store.attempts[a].artifact
  <2>1. AttemptShape(store.attempts[a])
    BY <1>1 DEF DurableInv, ShapeInv, AttemptsShape
  <2>2. t = Stated(store.attempts[a], store.attempts[a].result)
    BY DEF Stated
  <2> HIDE DEF t
  <2> QED BY <2>1, <2>2, AttemptStated
<1> HIDE DEF t, S
<1>5. StoreShape(store') /\ store'.attempts = [store.attempts EXCEPT ![a] = t]
  <2>1. store' = [store EXCEPT !.attempts = [store.attempts EXCEPT ![a] = t]]
    BY DEF ImportOutcome, Finish, t, DurableInv, ShapeInv, StoreShape
  <2> QED BY <2>1, StoreAttempts DEF DurableInv, ShapeInv
<1>6. ShapeInv' /\ NamedAreDurable'
  BY <1>1, <1>2, <1>3, <1>4, <1>5, Commits DEF DurableInv, ShapeInv
<1>7. NothingNamesIt' /\ Progress'
  BY <1>1 DEF NothingNamesIt, Progress
<1> QED BY <1>6, <1>7 DEF DurableInv

LEMMA Interrupts ==
    ASSUME DurableInv, NEW a \in Running, Interrupt(a)
    PROVE  DurableInv'
<1> DEFINE t == [store.attempts[a] EXCEPT !.result = "failed"]
<1>1. /\ objects' = objects /\ run.pc = "recover"
      /\ a \in DOMAIN store.attempts /\ store.attempts[a].state = "running"
      /\ store.attempts[a].artifact => Durable(<<a, "observation">>)
  BY DEF Interrupt, Recovering, Running, DurableInv, NamedAreDurable
<1>2. /\ AttemptShape(t) /\ t.artifact = store.attempts[a].artifact
      /\ t.state = "running"
  <2>1. AttemptShape(store.attempts[a])
    BY <1>1 DEF DurableInv, ShapeInv, AttemptsShape
  <2>2. t = Failed(store.attempts[a])
    BY DEF Failed
  <2> HIDE DEF t
  <2> QED BY <1>1, <2>1, <2>2, AttemptFailed
<1> HIDE DEF t
<1>3. StoreShape(store') /\ store'.attempts = [store.attempts EXCEPT ![a] = t]
  <2>1. store' = [store EXCEPT !.attempts = [store.attempts EXCEPT ![a] = t]]
    BY DEF Interrupt, t, DurableInv, ShapeInv, StoreShape
  <2> QED BY <2>1, StoreAttempts DEF DurableInv, ShapeInv
<1>4. /\ RunShape(run') /\ run'.step = "stage" /\ run'.pc = "recover"
      /\ run'.attempt = a /\ run'.kind = "outcome"
  <2>1. run' = Published(run, a, "outcome")
    BY DEF Interrupt, Publish, Published
  <2> QED BY <1>1, <2>1, RunPublish DEF DurableInv, ShapeInv
<1>5. \A x : Durable(x) => Durable(x)'
  BY <1>1 DEF Durable
<1>6. /\ ShapeInv' /\ NamedAreDurable'
      /\ DOMAIN store'.attempts = DOMAIN store.attempts /\ store'.attempts[a] = t
  BY <1>1, <1>2, <1>3, <1>4, <1>5, Commits DEF DurableInv, ShapeInv, Steps
<1>7. NothingNamesIt' /\ Progress'
  BY <1>1, <1>2, <1>4, <1>6 DEF NothingNamesIt, Progress
<1> QED BY <1>6, <1>7 DEF DurableInv

LEMMA Executes ==
    ASSUME DurableInv, Execute
    PROVE  DurableInv'
<1> DEFINE z == run.plan.schedule[Head(run.todo)]
           n == Len(store.attempts) + 1
<1>0. PICK result \in {"accepted", "failed"} :
        /\ store' = [store EXCEPT !.attempts = Append(@,
               [slot |-> z.slot, work |-> z.work, state |-> "running",
                result |-> result, artifact |-> FALSE, row |-> FALSE])]
        /\ Publish(n, IF result = "accepted" THEN "observation" ELSE "outcome")
  BY DEF Execute
<1> DEFINE t == [slot |-> z.slot, work |-> z.work, state |-> "running",
                 result |-> result, artifact |-> FALSE, row |-> FALSE]
           kind == IF result = "accepted" THEN "observation" ELSE "outcome"
<1>1. /\ store' = [store EXCEPT !.attempts = Append(store.attempts, t)]
      /\ run' = Published(run, n, kind) /\ kind \in {"observation", "outcome"}
  BY <1>0 DEF Publish, Published
<1>2. AttemptShape(t) /\ t.state = "running" /\ t.artifact = FALSE
  BY DEF AttemptShape
<1> HIDE DEF t, kind, z
<1>3. StoreShape(store') /\ store'.attempts = Append(store.attempts, t)
  BY <1>1, StoreAttempts DEF DurableInv, ShapeInv
<1>4. /\ AttemptsShape(store'.attempts)
      /\ n \in DOMAIN store'.attempts /\ store'.attempts[n] = t
      /\ \A b \in DOMAIN store'.attempts : b # n =>
             b \in DOMAIN store.attempts /\ store'.attempts[b] = store.attempts[b]
  <2>1. AttemptsShape(store.attempts)
    BY DEF DurableInv, ShapeInv
  <2> QED BY <1>2, <1>3, <2>1, AppendAttempt
<1>5. /\ RunShape(run') /\ run'.pc = "execute" /\ run'.step = "stage"
      /\ run'.attempt = n /\ run'.kind = kind
  BY <1>1, RunPublish DEF Execute, DurableInv, ShapeInv
<1>6. objects' = objects /\ \A x : Durable(x) => Durable(x)'
  BY DEF Execute, Durable
<1>7. ShapeInv'
  BY <1>3, <1>4, <1>5, <1>6 DEF DurableInv, ShapeInv, Steps
<1>8. NamedAreDurable'
  BY <1>2, <1>4, <1>6 DEF DurableInv, NamedAreDurable
<1>9. NothingNamesIt' /\ Progress'
  BY <1>1, <1>2, <1>4, <1>5 DEF NothingNamesIt, Progress
<1> QED BY <1>7, <1>8, <1>9 DEF DurableInv

-----------------------------------------------------------------------------
(* Power failures *)

LEMMA SurvivesDirectory ==
    ASSUME NEW o \in Directory
    PROVE  /\ Survives(o) \subseteq Directory
           /\ o.files = "synced" /\ o.entry = "synced" =>
                  \A q \in Survives(o) :
                      /\ q.place = o.place /\ q.marker = o.marker
                      /\ q.files = "synced" /\ q.entry = "synced"
<1> SUFFICES ASSUME NEW q \in Survives(o)
             PROVE  /\ q \in Directory
                    /\ o.files = "synced" /\ o.entry = "synced" =>
                           /\ q.place = o.place /\ q.marker = o.marker
                           /\ q.files = "synced" /\ q.entry = "synced"
  OBVIOUS
<1>1. PICK p, f :
        /\ p \in IF o.entry = "dirty" THEN {"stage", "final"} ELSE {o.place}
        /\ f \in IF o.files = "dirty" THEN {"synced", "torn"} ELSE {o.files}
        /\ q = [place |-> p, files |-> f, marker |-> o.marker, entry |-> "synced"]
  BY DEF Survives
<1>2. /\ q.files = f /\ q.place = p /\ q.entry = "synced" /\ q.marker = o.marker
      /\ q \in Directory
  BY <1>1 DEF Directory
<1> QED BY <1>1, <1>2

LEMMA Survivors ==
    ASSUME DurableInv, PowerLoss
    PROVE  DurableInv'
<1>1. RunShape(run') /\ run'.step = "none" /\ store' = store
  BY Aborts DEF PowerLoss
<1>2. /\ DOMAIN objects' = DOMAIN objects
      /\ \A x \in DOMAIN objects : objects'[x] \in Survives(objects[x])
      /\ objects' = [x \in DOMAIN objects |-> objects'[x]]
  BY DEF PowerLoss
<1>3. \A x \in DOMAIN objects : objects[x] \in Directory
  BY DEF DurableInv, ShapeInv
<1>4. \A x \in DOMAIN objects : objects'[x] \in Directory
  BY <1>2, <1>3, SurvivesDirectory
<1>5. objects' \in [DOMAIN objects' -> Directory]
  BY <1>2, <1>4
<1>6. \A x : Durable(x) => Durable(x)'
  <2> SUFFICES ASSUME NEW x, Durable(x) PROVE Durable(x)'
    OBVIOUS
  <2>1. /\ objects[x] \in Directory /\ objects'[x] \in Survives(objects[x])
        /\ objects[x].files = "synced" /\ objects[x].entry = "synced"
    BY <1>2, <1>3 DEF Durable
  <2>2. /\ objects'[x].place = objects[x].place
        /\ objects'[x].marker = objects[x].marker
        /\ objects'[x].files = "synced" /\ objects'[x].entry = "synced"
    BY <2>1, SurvivesDirectory
  <2> QED BY <1>2, <2>2 DEF Durable
<1>7. ShapeInv'
  BY <1>1, <1>5 DEF DurableInv, ShapeInv, Steps
<1>8. NamedAreDurable'
  BY <1>1, <1>6 DEF DurableInv, NamedAreDurable
<1>9. NothingNamesIt' /\ Progress'
  BY <1>1 DEF NothingNamesIt, Progress
<1> QED BY <1>7, <1>8, <1>9 DEF DurableInv

-----------------------------------------------------------------------------
(* The theorem *)

LEMMA DurableInit == Init => DurableInv
<1> SUFFICES ASSUME Init PROVE DurableInv
  OBVIOUS
<1>1. RunShape(run) /\ run.step = "none"
  BY IdleShape DEF Init
<1>2. StoreShape(store) /\ store.attempts = <<>>
  <2>1. StoreShape(Nothing) /\ Nothing.attempts = <<>>
    BY DEF StoreShape, Nothing
  <2>2. StoreShape(Newer) /\ Newer.attempts = <<>>
    <3> DEFINE q1 == [Nothing EXCEPT !.exists = TRUE]
               q2 == [q1 EXCEPT !.database = TRUE]
    <3>1. StoreShape(q1) /\ q1.attempts = <<>>
      BY <2>1, StoreFields
    <3> HIDE DEF q1
    <3>2. StoreShape(q2) /\ q2.attempts = <<>>
      BY <3>1, StoreFields
    <3>3. Newer = Versioned(q2, 9)
      BY DEF Newer, Versioned, q1
    <3> HIDE DEF q2
    <3> QED BY <3>2, <3>3, StoreVersion
  <2> QED BY <2>1, <2>2 DEF Init
<1>3. AttemptsShape(store.attempts) /\ DOMAIN store.attempts = {}
  <2>1. <<>> \in Seq({}) /\ DOMAIN <<>> = {}
    OBVIOUS
  <2> QED BY <1>2, <2>1 DEF AttemptsShape
<1>4. objects \in [DOMAIN objects -> Directory]
  BY DEF Init, Empty
<1>5. ShapeInv
  BY <1>1, <1>2, <1>3, <1>4 DEF ShapeInv, Steps
<1>6. NamedAreDurable /\ NothingNamesIt /\ Progress
  BY <1>1, <1>3 DEF NamedAreDurable, NothingNamesIt, Progress
<1> QED BY <1>5, <1>6 DEF DurableInv

LEMMA DurableNext == DurableInv /\ [Next]_vars => DurableInv'
<1> SUFFICES ASSUME DurableInv, [Next]_vars PROVE DurableInv'
  OBVIOUS
<1>1. CASE UNCHANGED vars
  BY <1>1 DEF vars, DurableInv, ShapeInv, NamedAreDurable, NothingNamesIt,
              Progress, Durable, Current
<1>2. CASE Next
  BY <1>2, Quiet, Publications, ArtifactCommits, ObservationCommits,
     OutcomeCommits, ObservationImports, Imports, Interrupts, Executes, Survivors DEF Next
<1> QED BY <1>1, <1>2

\* Every directory that a committed row names is complete, in every state: the
\* order of prepare_directory, publish_prepared_directory and the transactions,
\* and recovery's synchronization of the observations that it finds without a
\* row and of the outcomes that it imports, leave no moment at which a crash or
\* a power failure takes a directory from under its row.
THEOREM ReferencesAreDurable == Spec => []ReferencesDurable
<1>1. DurableInv => ReferencesDurable
  BY DEF DurableInv, NamedAreDurable, Durable, ReferencesDurable,
         verify_finalized_directory
<1> QED BY <1>1, DurableInit, DurableNext, PTL DEF Spec

-----------------------------------------------------------------------------
(* Results are reused for the work they came from *)

Plans == {PlanTable[k] : k \in PlanKeys} \ {None}

\* Two measurements with one slot do the same work, in whatever plans.
SlotsNameOneWork ==
    \A p, q \in Plans :
        \A i \in DOMAIN p.schedule, j \in DOMAIN q.schedule :
            p.schedule[i].slot = q.schedule[j].slot =>
                p.schedule[i].work = q.schedule[j].work

\* An attempt did what some plan wanted done for its slot.
Honest(t) ==
    \E plan \in Plans : \E j \in DOMAIN plan.schedule :
        t.slot = plan.schedule[j].slot /\ t.work = plan.schedule[j].work

\* An invocation has a plan, and works on positions of it.
PlanInv ==
    /\ run.plan \in Plans \cup {None}
    /\ run.plan = None => run.pc = "idle"
    /\ run.plan # None => run.todo \in Seq(DOMAIN run.plan.schedule)
    /\ run.pc = "execute" /\ run.step # "none" => run.todo # <<>>

TreeInv == tree \in [manifest: DOMAIN Manifests, world: DOMAIN Worlds,
                     volume: Volumes]

HonestInv == \A a \in DOMAIN store.attempts : Honest(store.attempts[a])

WorkInv == TreeInv /\ PlanInv /\ HonestInv

LEMMA TreeKept ==
    ASSUME TreeInv, [Next]_vars
    PROVE  TreeInv'
<1>1. CASE Edit
  BY <1>1 DEF TreeInv, Edit
<1>2. CASE ~Edit
  <2>1. tree' = tree
    BY <1>2 DEF Next, vars, Start, CreateDirectory, AcquireLock, preflight,
        OpenDatabase, verify_schema, InitializeStore, Populate, SyncFiles,
        WriteMarker, Rename, SyncParents, Advance, CommitArtifact,
        CommitObservation, CommitOutcome, ImportObservation, ImportOutcome, Interrupt, RecoveryDone, Register,
        RegistrationDone, Execute, Stop, Crash, PowerLoss
  <2> QED BY <2>1, SMTT(30) DEF TreeInv
<1> QED BY <1>1, <1>2

\* The plan stays, and either nothing is done or the same.
LEMMA PlanKept ==
    ASSUME PlanInv, run'.plan = run.plan,
           \/ run'.pc = "idle" /\ run'.todo = <<>>
           \/ run.pc # "idle" /\ run'.todo = run.todo
                /\ (run'.pc = "execute" /\ run'.step # "none" =>
                       run.pc = "execute" /\ run.step # "none")
    PROVE  PlanInv'
<1>1. CASE run'.pc = "idle" /\ run'.todo = <<>>
  <2>1. <<>> \in Seq(DOMAIN run.plan.schedule)
    OBVIOUS
  <2> QED BY <1>1, <2>1 DEF PlanInv
<1>2. CASE run.pc # "idle" /\ run'.todo = run.todo
             /\ (run'.pc = "execute" /\ run'.step # "none" =>
                    run.pc = "execute" /\ run.step # "none")
  BY <1>2 DEF PlanInv
<1> QED BY <1>1, <1>2

LEMMA PlanStarts ==
    ASSUME TreeInv, Start
    PROVE  PlanInv'
<1> DEFINE key(selection) == [manifest |-> tree.manifest, world |-> tree.world,
                              selection |-> selection]
           found == {PlanTable[key(selection)] : selection \in Selections}
<1>0. PICK resume, retry, plan :
        /\ plan \in found \ {None}
        /\ run' = Started(Idle, plan, resume, retry, IF resume THEN "lock" ELSE "create")
  BY Zenon DEF Start, Started
<1>1. PICK selection \in Selections : plan = PlanTable[key(selection)]
  BY <1>0
<1>2. key(selection) \in PlanKeys
  BY DEF TreeInv, PlanKeys
<1>3. plan \in Plans /\ plan # None
  BY <1>0, <1>1, <1>2 DEF Plans
<1>4. run'.plan = plan /\ run'.todo = <<>> /\ run'.step = "none"
  <2>1. PICK pc : run' = Started(Idle, plan, resume, retry, pc)
    BY <1>0
  <2> QED BY <2>1, IdleShape, RunStart
<1>5. <<>> \in Seq(DOMAIN plan.schedule)
  OBVIOUS
<1> QED BY <1>3, <1>4, <1>5 DEF PlanInv

LEMMA PlanRegisters ==
    ASSUME DurableInv, PlanInv, Register
    PROVE  PlanInv'
<1>1. CASE Abort
  BY <1>1, Aborts, PlanKept
<1>2. CASE ~Abort
  <2>1. PICK next, todo :
          /\ run' = Counted(run, next, todo)
          /\ todo \in {run.todo, Append(run.todo, run.next)}
    BY <1>2 DEF Register, Counted
  <2>2. /\ RunShape(run') /\ run'.pc = "register"
        /\ run'.plan = run.plan /\ run'.todo = todo
    BY <2>1, RunRegister DEF DurableInv, ShapeInv, Register
  <2>3. run.plan # None /\ run.plan \in Plans
    BY DEF PlanInv, Register
  <2>4. run.todo \in Seq(DOMAIN run.plan.schedule) /\ run.next \in DOMAIN run.plan.schedule
    BY <2>3 DEF PlanInv, Register
  <2>5. todo \in Seq(DOMAIN run.plan.schedule)
    BY <2>1, <2>4
  <2> QED BY <2>2, <2>3, <2>5 DEF PlanInv
<1> QED BY <1>1, <1>2

LEMMA PlanEnds ==
    ASSUME DurableInv, PlanInv, CommitOutcome
    PROVE  PlanInv'
<1>1. PICK todo : /\ run' = Ended(run, todo)
                  /\ todo = IF run.pc = "execute" THEN Tail(run.todo) ELSE run.todo
  BY DEF CommitOutcome, Ended
<1>2. /\ run'.pc = run.pc /\ run'.step = "none" /\ run'.plan = run.plan
      /\ run'.todo = todo
  BY <1>1, RunDone DEF DurableInv, ShapeInv
<1>3. /\ run.plan # None /\ run.pc # "idle" /\ run.todo \in Seq(DOMAIN run.plan.schedule)
      /\ run.pc = "execute" => run.todo # <<>>
  BY DEF PlanInv, CommitOutcome, Publishing
<1>4. todo \in Seq(DOMAIN run.plan.schedule)
  <2>1. CASE run.pc = "execute"
    BY <1>1, <1>3, <2>1, HeadTailProperties
  <2>2. CASE run.pc # "execute"
    BY <1>1, <1>3, <2>2
  <2> QED BY <2>1, <2>2
<1> QED BY <1>2, <1>3, <1>4 DEF PlanInv

LEMMA PlanPublishes ==
    ASSUME DurableInv, PlanInv, NEW a, NEW kind, Publish(a, kind),
           run.pc \in {"recover", "execute"},
           run.pc = "execute" => run.todo # <<>>
    PROVE  PlanInv'
<1>1. run' = Published(run, a, kind)
  BY DEF Publish, Published
<1>2. run'.pc = run.pc /\ run'.plan = run.plan /\ run'.todo = run.todo
  BY <1>1, RunPublish DEF DurableInv, ShapeInv
<1> QED BY <1>2 DEF PlanInv

LEMMA PlanMoves ==
    ASSUME DurableInv, PlanInv, NEW pc,
           run.pc # "idle", run.step = "none", run' = [run EXCEPT !.pc = pc]
    PROVE  PlanInv'
<1>1. run'.step = "none" /\ run'.plan = run.plan /\ run'.todo = run.todo
  BY RunPc DEF DurableInv, ShapeInv
<1> QED BY <1>1, PlanKept

LEMMA PlanNext ==
    ASSUME DurableInv, TreeInv, PlanInv, [Next]_vars
    PROVE  PlanInv'
<1>1. CASE run' = run
  BY <1>1 DEF PlanInv
<1>2. CASE Abort
  BY <1>2, Aborts, PlanKept
<1>3. CASE Start
  BY <1>3, PlanStarts
<1>4. CASE ~Abort /\ (CreateDirectory \/ AcquireLock \/ preflight \/ OpenDatabase
             \/ verify_schema \/ InitializeStore \/ RecoveryDone \/ RegistrationDone)
  <2>1. /\ run.pc # "idle" /\ run.step = "none"
        /\ \E pc : run' = [run EXCEPT !.pc = pc]
    BY <1>4 DEF CreateDirectory, AcquireLock, preflight, OpenDatabase,
        verify_schema, InitializeStore, RecoveryDone, Recovering,
        RegistrationDone, Proceed, DurableInv, NothingNamesIt
  <2> QED BY <2>1, PlanMoves
<1>5. CASE \/ Populate \/ SyncFiles \/ WriteMarker \/ Rename \/ SyncParents
           \/ CommitArtifact
  <2>1. /\ run.pc \in {"recover", "execute"} /\ run.step # "none"
        /\ \E step : run' = [run EXCEPT !.step = step]
    BY <1>5 DEF Populate, SyncFiles, WriteMarker, Rename, SyncParents,
        CommitArtifact, Publishing, Advance
  <2>2. run'.pc = run.pc /\ run'.plan = run.plan /\ run'.todo = run.todo
    BY <2>1, RunStep DEF DurableInv, ShapeInv
  <2> QED BY <2>1, <2>2, PlanKept
<1>6. CASE CommitObservation /\ ~Abort
  <2>1. /\ run.pc \in {"recover", "execute"} /\ run.step # "none"
        /\ Publish(run.attempt, "outcome")
    BY <1>6 DEF CommitObservation, Publishing
  <2> QED BY <2>1, PlanPublishes DEF PlanInv
<1>7. CASE CommitOutcome
  BY <1>7, PlanEnds
<1>8. ASSUME NEW a \in Running, Interrupt(a) PROVE PlanInv'
  BY <1>8, PlanPublishes DEF Interrupt, Recovering
<1>9. CASE Register
  BY <1>9, PlanRegisters
<1>10. CASE Execute
  <2>1. /\ run.pc = "execute" /\ run.todo # <<>>
        /\ \E a, kind : Publish(a, kind)
    BY <1>10 DEF Execute
  <2> QED BY <2>1, PlanPublishes
<1>11. CASE \/ Edit \/ (\E a \in Unnamed : ImportObservation(a))
            \/ (\E a \in Running : ImportOutcome(a)) \/ UNCHANGED vars
  BY <1>1, <1>11 DEF Edit, ImportObservation, ImportOutcome, vars
<1>12. CASE Stop \/ Crash \/ PowerLoss
  BY <1>2, <1>12 DEF Stop, Crash, PowerLoss
<1> QED BY <1>2, <1>3, <1>4, <1>5, <1>6, <1>7, <1>8, <1>9, <1>10, <1>11, <1>12 DEF Next

\* An attempt keeps its slot and its work, and a new one has those of the plan.
LEMMA HonestKept ==
    ASSUME HonestInv, DurableInv, NEW a \in DOMAIN store.attempts, NEW t,
           AttemptShape(t), t.slot = store.attempts[a].slot, t.work = store.attempts[a].work,
           store'.attempts = [store.attempts EXCEPT ![a] = t]
    PROVE  HonestInv'
<1>1. /\ DOMAIN store'.attempts = DOMAIN store.attempts /\ store'.attempts[a] = t
      /\ \A b \in DOMAIN store.attempts : b # a => store'.attempts[b] = store.attempts[b]
  BY ReplaceAttempt DEF DurableInv, ShapeInv
<1>2. Honest(t)
  BY DEF HonestInv, Honest
<1> QED BY <1>1, <1>2 DEF HonestInv

LEMMA HonestExecutes ==
    ASSUME DurableInv, PlanInv, HonestInv, Execute
    PROVE  HonestInv'
<1> DEFINE z == run.plan.schedule[Head(run.todo)]
<1>1. PICK result \in {"accepted", "failed"} :
        store' = [store EXCEPT !.attempts = Append(@,
               [slot |-> z.slot, work |-> z.work, state |-> "running",
                result |-> result, artifact |-> FALSE, row |-> FALSE])]
  BY DEF Execute
<1> DEFINE t == [slot |-> z.slot, work |-> z.work, state |-> "running",
                 result |-> result, artifact |-> FALSE, row |-> FALSE]
<1>2. Honest(t)
  <2>1. run.plan \in Plans /\ run.todo \in Seq(DOMAIN run.plan.schedule) /\ run.todo # <<>>
    BY DEF PlanInv, Execute
  <2>2. Head(run.todo) \in DOMAIN run.plan.schedule
    BY <2>1
  <2>3. t.slot = z.slot /\ t.work = z.work
    OBVIOUS
  <2> HIDE DEF t
  <2> QED BY <2>1, <2>2, <2>3 DEF Honest
<1>3. AttemptShape(t)
  BY DEF AttemptShape
<1>4. store' = [store EXCEPT !.attempts = Append(store.attempts, t)]
  BY <1>1
<1> HIDE DEF t, z
<1>5. store'.attempts = Append(store.attempts, t)
  BY <1>4, StoreAttempts DEF DurableInv, ShapeInv
<1>6. AttemptsShape(store.attempts)
  BY DEF DurableInv, ShapeInv
<1> DEFINE n == Len(store.attempts) + 1
<1>7. /\ n \in DOMAIN store'.attempts /\ store'.attempts[n] = t
      /\ \A b \in DOMAIN store'.attempts : b # n =>
             b \in DOMAIN store.attempts /\ store'.attempts[b] = store.attempts[b]
  BY <1>3, <1>5, <1>6, AppendAttempt
<1> HIDE DEF n
<1> QED BY <1>2, <1>7 DEF HonestInv

LEMMA HonestNext ==
    ASSUME DurableInv, PlanInv, HonestInv, [Next]_vars
    PROVE  HonestInv'
<1>1. CASE store'.attempts = store.attempts
  BY <1>1 DEF HonestInv
<1>2. ASSUME NEW a \in DOMAIN store.attempts, NEW v,
             \/ store' = [store EXCEPT !.attempts[a].row = v]
             \/ store' = [store EXCEPT !.attempts[a].artifact = v]
             \/ store' = [store EXCEPT !.attempts[a].state = v]
             \/ store' = [store EXCEPT !.attempts[a].result = v]
      PROVE  HonestInv'
  <2>1. StoreShape(store) /\ AttemptShape(store.attempts[a])
    BY DEF DurableInv, ShapeInv, AttemptsShape
  <2>2. PICK t : /\ \/ t = [store.attempts[a] EXCEPT !.row = v]
                    \/ t = [store.attempts[a] EXCEPT !.artifact = v]
                    \/ t = [store.attempts[a] EXCEPT !.state = v]
                    \/ t = [store.attempts[a] EXCEPT !.result = v]
                 /\ store' = [store EXCEPT !.attempts = [store.attempts EXCEPT ![a] = t]]
    BY <1>2, <2>1 DEF StoreShape
  <2>3. AttemptShape(t) /\ t.slot = store.attempts[a].slot /\ t.work = store.attempts[a].work
    <3>1. CASE t = [store.attempts[a] EXCEPT !.row = v]
      BY <2>1, <3>1, AttemptFields
    <3>2. CASE t = [store.attempts[a] EXCEPT !.state = v]
      BY <2>1, <3>2, AttemptFields
    <3>3. CASE t = [store.attempts[a] EXCEPT !.result = v]
      BY <2>1, <3>3, AttemptFields
    <3>4. CASE t = [store.attempts[a] EXCEPT !.artifact = v]
      BY <2>1, <3>4, AttemptFields
    <3> QED BY <2>2, <3>1, <3>2, <3>3, <3>4
  <2>4. store'.attempts = [store.attempts EXCEPT ![a] = t]
    BY <2>1, <2>2, StoreAttempts
  <2> QED BY <2>3, <2>4, HonestKept
<1>3. CASE CreateDirectory \/ OpenDatabase \/ InitializeStore
  <2>1. PICK v : \/ store' = [store EXCEPT !.exists = v]
                 \/ store' = [store EXCEPT !.database = v]
                 \/ store' = [store EXCEPT !.version = v]
    BY <1>3 DEF CreateDirectory, OpenDatabase, InitializeStore
  <2>2. store'.attempts = store.attempts
    BY <2>1, StoreFields DEF DurableInv, ShapeInv
  <2> QED BY <1>1, <2>2
<1>4. CASE Register
  <2>1. store' = store \/ \E slots, owner : store' = Owned(store, slots, owner)
    BY <1>4 DEF Register, Registered, Owned
  <2>2. store'.attempts = store.attempts
    BY <2>1, StoreOwned DEF DurableInv, ShapeInv
  <2> QED BY <1>1, <2>2
<1>5. CASE CommitObservation \/ CommitArtifact
  <2>1. run.attempt \in DOMAIN store.attempts
    BY <1>5 DEF CommitObservation, CommitArtifact, Publishing, DurableInv,
                NothingNamesIt
  <2> QED BY <1>1, <1>2, <1>5, <2>1 DEF CommitObservation, CommitArtifact
<1>6. CASE CommitOutcome
  <2>1. run.attempt \in DOMAIN store.attempts
    BY <1>6 DEF CommitOutcome, Publishing, DurableInv, NothingNamesIt
  <2> QED BY <1>2, <1>6, <2>1 DEF CommitOutcome, Finish
<1>7. ASSUME NEW a \in Running, ImportOutcome(a) \/ Interrupt(a) PROVE HonestInv'
  BY <1>2, <1>7 DEF Running, ImportOutcome, Interrupt, Finish
<1>8. CASE Execute
  BY <1>8, HonestExecutes
<1>10. ASSUME NEW a \in Unnamed, ImportObservation(a) PROVE HonestInv'
  BY <1>2, <1>10 DEF Unnamed, ImportObservation
<1>9. CASE \/ Edit \/ Start \/ AcquireLock \/ preflight \/ verify_schema
           \/ Populate \/ SyncFiles \/ WriteMarker \/ Rename \/ SyncParents
           \/ RecoveryDone \/ RegistrationDone \/ Stop \/ Crash \/ PowerLoss
           \/ UNCHANGED vars
  BY <1>1, <1>9 DEF Edit, Start, AcquireLock, preflight, verify_schema, Populate,
      SyncFiles, WriteMarker, Rename, SyncParents, Advance, RecoveryDone,
      RegistrationDone, Stop, Crash, PowerLoss, vars
<1> QED BY <1>3, <1>4, <1>5, <1>6, <1>7, <1>8, <1>9, <1>10 DEF Next

LEMMA WorkInit == Init => WorkInv
<1> SUFFICES ASSUME Init PROVE WorkInv
  OBVIOUS
<1>1. DurableInv /\ store.attempts = <<>>
  <2>1. Nothing.attempts = <<>> /\ Newer.attempts = <<>>
    BY DEF Nothing, Newer
  <2> QED BY <2>1, DurableInit DEF Init
<1>2. DOMAIN store.attempts = {}
  BY <1>1
<1>3. TreeInv /\ PlanInv /\ HonestInv
  BY <1>2, IdleShape, ResumeAssumption DEF Init, TreeInv, PlanInv, HonestInv
<1> QED BY <1>3 DEF WorkInv

\* If a slot stands for one work in all plans, --resume counts no result that
\* came from another work, over any number of edits, crashes and power failures:
\* slot_progress compares slots alone, and nothing between the reservation of an
\* attempt and its acceptance changes what it is filed under.
THEOREM ReuseFollowsIdentities ==
    ASSUME SlotsNameOneWork
    PROVE  Spec => []ReusedWorkIsSame
<1>1. DurableInv /\ WorkInv /\ [Next]_vars => WorkInv'
  BY TreeKept, PlanNext, HonestNext DEF WorkInv
<1>2. WorkInv => ReusedWorkIsSame
  BY DEF WorkInv, PlanInv, HonestInv, Honest, SlotsNameOneWork, ReusedWorkIsSame
<1> QED BY <1>1, <1>2, WorkInit, DurableInit, DurableNext, PTL DEF Spec

-----------------------------------------------------------------------------
(* Slots tell jobs apart *)

\* What decoding makes of the definitions that candidate c names: datasets are
\* fixed or generated, a local environment has a set of variables and nothing
\* else, and a missing schema or preparation has the only missing identity.
WellDefined(m, c) ==
    LET i == m.implementations[c.implementation]
        x == m.environments[i.worker.environment]
        p == m.problems[c.problem]
    IN  /\ c.dataset # "@unit" =>
             /\ c.dataset \in DOMAIN m.datasets
             /\ m.datasets[c.dataset].kind \in {"fixed", "generated"}
        /\ x.kind = "local" => x = [kind |-> "local", variables |-> x.variables]
        /\ \A path \in {p.contract.parameter_schema, i.parameter_schema} :
             schema_id(m, path) = None => path = None
        /\ ProblemDefinition(m, c.problem).preparation = None => p.preparation = None

\* Environments of one kind that are fingerprinted alike have the same software,
\* as far as it is looked at.
LEMMA SoftwareIdentity ==
    ASSUME NEW x, NEW g, NEW h, NEW v, NEW w,
           fingerprint(x, g, v) = fingerprint(x, h, w)
    PROVE  Software(x, g, v) = Software(x, h, w)
<1>1. CASE x.kind = "local"
  BY <1>1 DEF fingerprint, Software
<1>2. CASE x.kind # "local"
  BY <1>2 DEF fingerprint, Software
<1> QED BY <1>1, <1>2

LEMMA EnvironmentIdentity ==
    ASSUME NEW j, NEW k, NEW x, NEW y,
           x.kind = "local" => x = [kind |-> "local", variables |-> x.variables],
           y.kind = "local" => y = [kind |-> "local", variables |-> y.variables],
           environment_record(j, x) = environment_record(k, y)
    PROVE  x = y
<1> DEFINE plain(z) == z.kind = "local" /\ z.variables = {}
           local == [kind |-> "local"]
<1>1. (IF plain(x) THEN local ELSE x) = (IF plain(y) THEN local ELSE y)
  BY DEF environment_record
<1>2. ASSUME NEW z, z.kind = "local" => z = [kind |-> "local", variables |-> z.variables]
      PROVE  z # local
  <2>1. CASE z.kind = "local"
    <3>1. DOMAIN z = {"kind", "variables"}
      BY <1>2, <2>1
    <3>2. DOMAIN local = {"kind"}
      OBVIOUS
    <3> QED BY <3>1, <3>2
  <2>2. CASE z.kind # "local"
    BY <2>2
  <2> QED BY <2>1, <2>2
<1>3. CASE plain(x) /\ plain(y)
  BY <1>3
<1>4. CASE ~plain(x) /\ ~plain(y)
  BY <1>1, <1>4
<1>5. CASE plain(x) /\ ~plain(y)
  BY <1>1, <1>2, <1>5
<1>6. CASE ~plain(x) /\ plain(y)
  BY <1>1, <1>2, <1>6
<1> QED BY <1>3, <1>4, <1>5, <1>6

LEMMA SchemaIdentity ==
    ASSUME NEW m, NEW n, NEW path, NEW q, path # None, q # None,
           schema_id(m, path) = schema_id(n, q)
    PROVE  Admitted(m, path) = Admitted(n, q)
<1>1. schema_identity_value(m, path) = schema_identity_value(n, q)
  BY DEF schema_id
<1>2. /\ m.schemas[path] = n.schemas[q]
      /\ {<<p, m.schemas[p]>> : p \in Reachable(m, path) \ {path}}
           = {<<p, n.schemas[p]>> : p \in Reachable(n, q) \ {q}}
  BY <1>1 DEF schema_identity_value
<1> DEFINE R == Reachable(m, path) \ {path}
           S == Reachable(n, q) \ {q}
<1> HIDE DEF R, S
<1>3. {<<p, m.schemas[p]>> : p \in R} = {<<p, n.schemas[p]>> : p \in S}
  BY <1>2 DEF R, S
<1>4. \A p \in R : p \in S /\ m.schemas[p] = n.schemas[p]
  <2> SUFFICES ASSUME NEW p \in R PROVE p \in S /\ m.schemas[p] = n.schemas[p]
    OBVIOUS
  <2>1. <<p, m.schemas[p]>> \in {<<r, n.schemas[r]>> : r \in S}
    BY <1>3
  <2>2. PICK r \in S : <<p, m.schemas[p]>> = <<r, n.schemas[r]>>
    BY <2>1
  <2> QED BY <2>2
<1>5. \A p \in S : p \in R /\ m.schemas[p] = n.schemas[p]
  <2> SUFFICES ASSUME NEW p \in S PROVE p \in R /\ m.schemas[p] = n.schemas[p]
    OBVIOUS
  <2>1. <<p, n.schemas[p]>> \in {<<r, m.schemas[r]>> : r \in R}
    BY <1>3
  <2>2. PICK r \in R : <<p, n.schemas[p]>> = <<r, m.schemas[r]>>
    BY <2>1
  <2> QED BY <2>2
<1>6. {m.schemas[p].admits : p \in R} = {n.schemas[p].admits : p \in S}
  BY <1>4, <1>5
<1> QED BY <1>2, <1>6 DEF Admitted, R, S

LEMMA ProfileIdentity ==
    ASSUME NEW m, NEW n, NEW e, NEW f, NEW i, NEW j,
           ObservationPolicy(m, e, i) = ObservationPolicy(n, f, j)
    PROVE  \/ Profile(m, e) = None /\ Profile(n, f) = None
           \/ /\ Profile(m, e) # None /\ Profile(n, f) # None
              /\ Profile(m, e).max_observations = Profile(n, f).max_observations
              /\ Profile(m, e).thresholds = Profile(n, f).thresholds
              /\ Profile(m, e).max_checkpoint_bytes = Profile(n, f).max_checkpoint_bytes
              /\ Profile(m, e).implementations[i] = Profile(n, f).implementations[j]
BY DEF ObservationPolicy

\* The identity of a measured slot names everything its worker is given and how
\* it is run: two slots of any two plans, selected or not, of any two manifests
\* and in any two worlds, that have the same identity have the same job.  So an
\* edit of a source, an environment, a schema or what it reaches, a parameter, a
\* policy, an evaluator, a seed or a time limit, other data, another operating
\* system, architecture or program, and another lock of the environment makes a
\* slot that no earlier attempt can fill.  The libraries that a local program
\* loads and the rest of the machine are in neither: they may change, and a
\* result is still reused.
THEOREM SlotsIdentifyJobs ==
    ASSUME NEW m, NEW e, NEW c, NEW r, NEW v, NEW x, NEW p, NEW s, NEW a,
           NEW n, NEW f, NEW d, NEW q, NEW w, NEW y, NEW o, NEW t, NEW b,
           WellDefined(m, c), WellDefined(n, d),
           p.expanded = c, p.candidate = plan_candidate(m, e, c).candidate,
           s.specification =
               plan_specification(m, e, c, p.candidate, r).specification,
           o.expanded = d, o.candidate = plan_candidate(n, f, d).candidate,
           t.specification =
               plan_specification(n, f, d, o.candidate, q).specification,
           Measurement(m, x, p, s, a, v).slot = Measurement(n, y, o, t, b, w).slot
    PROVE  Job(m, v, e, c, r) = Job(n, w, f, d, q)
<1>1. ResolvedSpecification(m, p, s, v) = ResolvedSpecification(n, o, t, w)
  BY DEF Measurement
<1>2. /\ s.specification = t.specification
      /\ ProblemInstance(m, p, v) = ProblemInstance(n, o, w)
      /\ ResolvedWorker(m, m.implementations[c.implementation].worker, v)
           = ResolvedWorker(n, n.implementations[d.implementation].worker, w)
      /\ m.worker_timeouts = n.worker_timeouts
  BY <1>1 DEF ResolvedSpecification
<1>3. LET j == m.implementations[c.implementation].worker.environment
          k == n.implementations[d.implementation].worker.environment
      IN  fingerprint(m.environments[j], j, v.host)
            = fingerprint(n.environments[k], k, w.host)
  BY <1>2 DEF ResolvedWorker
<1>4. DatasetInstance(m, p, v).artifact = DatasetInstance(n, o, w).artifact
  BY <1>2 DEF ProblemInstance
<1> DEFINE data(k, z, u) == IF z.dataset = "@unit" THEN "unit"
                  ELSE IF k.datasets[z.dataset].kind = "fixed"
                       THEN k.datasets[z.dataset].sources ELSE u.artifact
<1>5. data(m, c, v) = data(n, d, w)
  <2>1. DatasetInstance(m, p, v).artifact = data(m, c, v)
    BY SMTT(30) DEF DatasetInstance, Generated, WellDefined
  <2>2. DatasetInstance(n, o, w).artifact = data(n, d, w)
    BY SMTT(30) DEF DatasetInstance, Generated, WellDefined
  <2> QED BY <1>4, <2>1, <2>2
<1>6. /\ s.specification.candidate = p.candidate /\ s.specification.repetition = r
      /\ s.specification.seed.seed = e.seed
  BY DEF plan_specification, derive_implementation_seed
<1>7. /\ t.specification.candidate = o.candidate /\ t.specification.repetition = q
      /\ t.specification.seed.seed = f.seed
  BY DEF plan_specification, derive_implementation_seed
<1>8. p.candidate = o.candidate /\ r = q /\ e.seed = f.seed
  BY <1>2, <1>6, <1>7
<1>9. /\ p.candidate.dataset.parameters = c.dataset_parameters
      /\ p.candidate.problem.definition = ProblemDefinition(m, c.problem)
      /\ p.candidate.problem.parameters = c.problem_parameters
      /\ p.candidate.implementation.definition
           = ImplementationDefinition(m, c.implementation)
      /\ p.candidate.implementation.parameters = c.implementation_parameters
      /\ p.candidate.execution = ExecutionPolicy(m, e)
      /\ p.candidate.observation = ObservationPolicy(m, e, c.implementation)
  BY DEF plan_candidate
<1>10. /\ o.candidate.dataset.parameters = d.dataset_parameters
       /\ o.candidate.problem.definition = ProblemDefinition(n, d.problem)
       /\ o.candidate.problem.parameters = d.problem_parameters
       /\ o.candidate.implementation.definition
            = ImplementationDefinition(n, d.implementation)
       /\ o.candidate.implementation.parameters = d.implementation_parameters
       /\ o.candidate.execution = ExecutionPolicy(n, f)
       /\ o.candidate.observation = ObservationPolicy(n, f, d.implementation)
  BY DEF plan_candidate
<1>11. /\ c.dataset_parameters = d.dataset_parameters
       /\ c.problem_parameters = d.problem_parameters
       /\ c.implementation_parameters = d.implementation_parameters
       /\ ProblemDefinition(m, c.problem) = ProblemDefinition(n, d.problem)
       /\ ImplementationDefinition(m, c.implementation)
            = ImplementationDefinition(n, d.implementation)
       /\ ExecutionPolicy(m, e) = ExecutionPolicy(n, f)
       /\ ObservationPolicy(m, e, c.implementation)
            = ObservationPolicy(n, f, d.implementation)
  BY <1>8, <1>9, <1>10
<1> DEFINE I == m.implementations[c.implementation]
           J == n.implementations[d.implementation]
           P == m.problems[c.problem]
           Q == n.problems[d.problem]
<1>12. /\ worker(m, I.worker) = worker(n, J.worker)
       /\ schema_id(m, I.parameter_schema) = schema_id(n, J.parameter_schema)
  BY <1>11 DEF ImplementationDefinition
<1>13. /\ contract_identity_value(m, P.contract) = contract_identity_value(n, Q.contract)
       /\ worker(m, P.evaluator) = worker(n, Q.evaluator)
       /\ ProblemDefinition(m, c.problem).preparation
            = ProblemDefinition(n, d.problem).preparation
  BY <1>11 DEF ProblemDefinition
<1>14. /\ I.worker.sources = J.worker.sources
       /\ EnvironmentDefinition(m, I.worker.environment)
            = EnvironmentDefinition(n, J.worker.environment)
       /\ P.evaluator.sources = Q.evaluator.sources
  BY <1>12, <1>13, SMTT(30) DEF worker
<1>15. m.environments[I.worker.environment] = n.environments[J.worker.environment]
  BY <1>14, EnvironmentIdentity, SMTT(30) DEF EnvironmentDefinition, WellDefined
<1>16. /\ schema_id(m, P.contract.parameter_schema)
            = schema_id(n, Q.contract.parameter_schema)
       /\ P.contract.semantics = Q.contract.semantics
  BY <1>13, SMTT(30) DEF contract_identity_value
<1>17. ASSUME NEW path, NEW other, schema_id(m, path) = schema_id(n, other),
              schema_id(m, path) = None => path = None,
              schema_id(n, other) = None => other = None
       PROVE  AdmittedNames(m, path) = AdmittedNames(n, other)
  <2>1. path = None <=> other = None
    BY <1>17, SMTT(30) DEF schema_id
  <2> QED BY <1>17, <2>1, SchemaIdentity, SMTT(30) DEF AdmittedNames
<1>18. /\ AdmittedNames(m, P.contract.parameter_schema)
            = AdmittedNames(n, Q.contract.parameter_schema)
       /\ AdmittedNames(m, I.parameter_schema) = AdmittedNames(n, J.parameter_schema)
  BY <1>12, <1>16, <1>17, SMTT(30) DEF WellDefined
<1> DEFINE prepared(z) == IF z.preparation = None THEN None ELSE z.preparation.sources
<1>19. prepared(P) = prepared(Q)
  <2>1. P.preparation = None <=> Q.preparation = None
    BY <1>13 DEF WellDefined, ProblemDefinition
  <2>2. CASE P.preparation # None
    BY <1>13, <2>1, <2>2, SMTT(30) DEF ProblemDefinition, worker
  <2> QED BY <2>1, <2>2, SMTT(30)
<1>20. Policy(m, e) = Policy(n, f)
  BY <1>11 DEF ExecutionPolicy
<1> DEFINE given(z, i) == IF z = None THEN <<>>
                     ELSE <<z.max_observations, z.thresholds,
                            z.max_checkpoint_bytes, z.implementations[i]>>
<1>21. given(Profile(m, e), c.implementation) = given(Profile(n, f), d.implementation)
  BY <1>11, ProfileIdentity
<1> DEFINE software(k, j, u) == Software(k.environments[j], j, u.host)
<1>22. software(m, I.worker.environment, v) = software(n, J.worker.environment, w)
  BY <1>3, <1>15, SoftwareIdentity
<1> HIDE DEF data, prepared, given, software
<1> QED BY <1>2, <1>5, <1>8, <1>11, <1>14, <1>15, <1>16, <1>18, <1>19, <1>20,
           <1>21, <1>22, ZenonT(60) DEF Job, data, prepared, given, software

\* The identity of a measured slot determines where it stands in a randomized
\* schedule: two slots with the same identity have the same block, round and
\* priority, which are all that Before compares, whatever other candidates,
\* repetitions and selections the two plans have.
THEOREM SlotsIdentifyPositions ==
    ASSUME NEW m, NEW e, NEW c, NEW r, NEW v, NEW x, NEW p, NEW s, NEW a, NEW k,
           NEW n, NEW f, NEW d, NEW q, NEW w, NEW y, NEW o, NEW t, NEW b, NEW l,
           x.declaration = e, y.declaration = f,
           p.expanded = c, p.candidate = plan_candidate(m, e, c).candidate,
           s.specification =
               plan_specification(m, e, c, p.candidate, r).specification,
           a = LogicalAttemptSlot(x.seed, s.specification, k),
           o.expanded = d, o.candidate = plan_candidate(n, f, d).candidate,
           t.specification =
               plan_specification(n, f, d, o.candidate, q).specification,
           b = LogicalAttemptSlot(y.seed, t.specification, l),
           Measurement(m, x, p, s, a, v).slot = Measurement(n, y, o, t, b, w).slot
    PROVE  /\ Measurement(m, x, p, s, a, v).block = Measurement(n, y, o, t, b, w).block
           /\ Measurement(m, x, p, s, a, v).round = Measurement(n, y, o, t, b, w).round
           /\ Measurement(m, x, p, s, a, v).priority
                = Measurement(n, y, o, t, b, w).priority
<1>1. a = b /\ ResolvedSpecification(m, p, s, v) = ResolvedSpecification(n, o, t, w)
  BY DEF Measurement
<1>2. /\ a.role.observation = b.role.observation /\ a.priority = b.priority
      /\ x.seed = y.seed
  <2>1. a.priority.seed = x.seed /\ b.priority.seed = y.seed
    BY DEF LogicalAttemptSlot, derive_attempt_scheduling_priority
  <2> QED BY <1>1, <2>1
<1>3. /\ s.specification = t.specification
      /\ ProblemInstance(m, p, v) = ProblemInstance(n, o, w)
  BY <1>1 DEF ResolvedSpecification
<1>4. DatasetInstance(m, p, v) = DatasetInstance(n, o, w)
      /\ p.candidate.problem = o.candidate.problem
  BY <1>3 DEF ProblemInstance
<1>5. p.candidate = o.candidate
  BY <1>3 DEF plan_specification
<1>6. ObservationPolicy(m, e, c.implementation) = ObservationPolicy(n, f, d.implementation)
  <2>1. p.candidate.observation = ObservationPolicy(m, e, c.implementation)
    BY SMTT(60) DEF plan_candidate
  <2>2. o.candidate.observation = ObservationPolicy(n, f, d.implementation)
    BY SMTT(60) DEF plan_candidate
  <2> QED BY <1>5, <2>1, <2>2, SMTT(30)
<1>7. /\ Delivery(m, e, c.implementation) = Delivery(n, f, d.implementation)
      /\ Bound(m, e, c.implementation) = Bound(n, f, d.implementation)
  <2>1. Delivery(m, e, c.implementation) = Delivery(n, f, d.implementation)
    BY <1>6, ProfileIdentity DEF Delivery
  <2> QED BY <1>6, <2>1, ProfileIdentity DEF Bound
<1> DEFINE g == a.role.observation
<1>8. ComparisonBlock(m, e, p, s, g, v) = ComparisonBlock(n, f, o, t, g, w)
  BY <1>3, <1>4, <1>7 DEF ComparisonBlock
<1>9. /\ Measurement(m, x, p, s, a, v).block
           = derive_block_scheduling_priority(x.seed, ComparisonBlock(m, e, p, s, g, v))
      /\ Measurement(m, x, p, s, a, v).round = IF g.fresh = None THEN 0 ELSE g.fresh.index
      /\ Measurement(m, x, p, s, a, v).priority = a.priority
  BY DEF Measurement
<1>10. /\ Measurement(n, y, o, t, b, w).block
            = derive_block_scheduling_priority(y.seed, ComparisonBlock(n, f, o, t, g, w))
       /\ Measurement(n, y, o, t, b, w).round = IF g.fresh = None THEN 0 ELSE g.fresh.index
       /\ Measurement(n, y, o, t, b, w).priority = b.priority
  BY <1>2 DEF Measurement
<1> QED BY <1>2, <1>8, <1>9, <1>10

-----------------------------------------------------------------------------
(* A repetition is measured once *)

LEMMA Quotient ==
    ASSUME NEW k \in Nat, NEW b \in Nat \ {0}
    PROVE  /\ k \div b \in Nat /\ b * (k \div b) <= k /\ k < b * (k \div b) + b
           /\ k % b \in Nat /\ k = b * (k \div b) + (k % b)
OBVIOUS

LEMMA QuotientUnique ==
    ASSUME NEW k \in Nat, NEW b \in Nat \ {0}, NEW i \in Nat,
           b * i <= k, k < b * i + b
    PROVE  i = k \div b
<1>1. PICK j \in Nat : j = k \div b
  BY Quotient
<1>2. b * j <= k /\ k < b * j + b
  BY <1>1, Quotient
<1>3. (i < j => b * (i + 1) <= b * j) /\ (j < i => b * (j + 1) <= b * i)
  OBVIOUS
<1>4. b * (i + 1) = b * i + b /\ b * (j + 1) = b * j + b
  OBVIOUS
<1>5. b * i \in Nat /\ b * j \in Nat
  OBVIOUS
<1> QED BY <1>1, <1>2, <1>3, <1>4, <1>5

\* The rules by which planning, selection and resolution divide the observations
\* of a specification into measurements agree, for every delivery and every
\* number of repetitions: the slot that plan_specification makes for every
\* step-th observation is filled, by resolve_candidate's filter, with exactly
\* the chunk of preselect that the observation begins.  So every observation is
\* measured by one slot, and none by two.
THEOREM ChunksAgree ==
    ASSUME NEW m, NEW e, NEW c, NEW candidate, NEW r,
           e.measurement_repetitions \in Nat,
           Bound(m, e, c.implementation) \in Nat \ {0},
           Policy(m, e).warmup_runs \in Nat
    PROVE  LET s == plan_specification(m, e, c, candidate, r)
               step == Step(m, e, c.implementation)
               warmups == Policy(m, e).warmup_runs
               slots == {k \in DOMAIN s.attempts : k > warmups}
               chunk(n) == (n - 1) \div step
           IN  /\ \A n \in DOMAIN s.observations : warmups + chunk(n) + 1 \in slots
               /\ \A k \in slots :
                    /\ s.attempts[k].role.kind = "measured"
                    /\ \A n \in DOMAIN s.observations :
                         Fills(m, e, c.implementation, s.attempts[k].role.observation,
                               s.observations[n])
                           <=> k = warmups + chunk(n) + 1
<1> DEFINE s == plan_specification(m, e, c, candidate, r)
           specification ==
             [candidate |-> candidate, repetition |-> r,
              seed |-> derive_implementation_seed(e, candidate.dataset,
                           candidate.problem, r)]
           seed == derive_scheduling_seed(m, e)
           reps == e.measurement_repetitions
           bound == Bound(m, e, c.implementation)
           step == Step(m, e, c.implementation)
           count == reps * bound
           number == (count + step - 1) \div step
           W == Policy(m, e).warmup_runs
           O(n) == ObservationSlot(m, e, c, specification, n - 1)
           observations == [n \in 1 .. count |-> O(n)]
           F(n) == LogicalAttemptSlot(seed, specification,
                [kind |-> "warmup", index |-> n - 1, observation |-> None])
           G(n) == LogicalAttemptSlot(seed, specification,
                [kind |-> "measured", index |-> 0,
                 observation |-> observations[(n - 1) * step + 1]])
           A == [n \in 1 .. W |-> F(n)]
           B == [n \in 1 .. number |-> G(n)]
           fresh == Delivery(m, e, c.implementation) = "fresh_sequence"
<1>1. /\ s.observations = observations
      /\ s.attempts = A \o B
  <2>1. s = [specification |-> specification, observations |-> observations,
             attempts |-> A \o B]
    BY Zenon DEF plan_specification
  <2> HIDE DEF s, specification, observations, A, B
  <2> QED BY <2>1
<1> HIDE DEF s, specification, seed, O, F, G
<1>2. /\ reps \in Nat /\ bound \in Nat \ {0} /\ W \in Nat /\ count \in Nat
      /\ step = (IF fresh THEN 1 ELSE bound)
  BY DEF Step
<1>3. number \in Nat /\ number = (IF fresh THEN count ELSE reps)
  <2>1. CASE fresh
    BY <1>2, <2>1
  <2>2. CASE ~fresh
    <3>1. PICK b \in Nat \ {0}, k \in Nat, p \in Nat :
            b = bound /\ p = reps /\ k = p * b + b - 1
      <4>1. PICK b \in Nat \ {0}, p \in Nat : b = bound /\ p = reps
        BY <1>2
      <4>2. p * b \in Nat
        OBVIOUS
      <4>3. p * b + b - 1 \in Nat
        BY <4>2
      <4> QED BY <4>1, <4>3
    <3>2. b * p = p * b
      OBVIOUS
    <3>3. b * p <= k /\ k < b * p + b
      BY <3>1, <3>2
    <3>4. p = k \div b
      BY <3>3, QuotientUnique
    <3> QED BY <1>2, <2>2, <3>1, <3>4
  <2> QED BY <2>1, <2>2
<1> HIDE DEF number, step, count, reps, bound, W, fresh
<1>4. /\ DOMAIN s.attempts = 1 .. (W + number)
      /\ \A j \in 1 .. number : s.attempts[W + j] = G(j)
  <2> DEFINE S == {F(n) : n \in 1 .. W} \cup {G(n) : n \in 1 .. number}
  <2>1. A \in [1 .. W -> S] /\ B \in [1 .. number -> S]
    OBVIOUS
  <2>2. \A n \in Nat : [1 .. n -> S] \subseteq Seq(S)
    BY SMTT(30)
  <2>3. A \in Seq(S) /\ B \in Seq(S)
    BY <1>2, <1>3, <2>1, <2>2
  <2>4. Len(A) = W /\ Len(B) = number
    BY <1>2, <1>3, <2>3, LenProperties
  <2>5. /\ DOMAIN (A \o B) = 1 .. (W + number)
        /\ \A j \in 1 .. number : (A \o B)[W + j] = B[j]
    BY <1>2, <1>3, <2>3, <2>4, ConcatProperties, LenProperties
  <2> QED BY <1>1, <2>5
<1>5. ASSUME NEW n \in 1 .. count
      PROVE  (n - 1) \div step + 1 \in 1 .. number
  <2>1. CASE fresh
    BY <1>2, <1>3, <2>1
  <2>2. CASE ~fresh
    <3>1. PICK b \in Nat \ {0}, k \in Nat, p \in Nat :
            b = bound /\ p = reps /\ k = n - 1 /\ k < p * b
      BY <1>2 DEF count
    <3>2. PICK j \in Nat : j = k \div b /\ b * j <= k
      BY Quotient
    <3>3. p <= j => b * p <= b * j
      OBVIOUS
    <3>4. b * p = p * b /\ b * p \in Nat /\ b * j \in Nat
      OBVIOUS
    <3>5. j < p
      BY <3>1, <3>2, <3>3, <3>4
    <3> QED BY <1>2, <1>3, <2>2, <3>1, <3>2, <3>5
  <2> QED BY <2>1, <2>2
<1>6. ASSUME NEW j \in 1 .. number
      PROVE  (j - 1) * step + 1 \in 1 .. count
  <2>1. CASE fresh
    BY <1>2, <1>3, <2>1
  <2>2. CASE ~fresh
    <3>1. PICK b \in Nat \ {0}, i \in Nat, p \in Nat :
            b = bound /\ p = reps /\ i = j - 1 /\ i + 1 <= p
      BY <1>2, <1>3, <2>2
    <3>2. i * b \in Nat /\ (i + 1) * b <= p * b /\ (i + 1) * b = i * b + b
      BY <3>1
    <3> QED BY <1>2, <2>2, <3>1, <3>2 DEF count
  <2> QED BY <2>1, <2>2
<1>7. ASSUME NEW j \in 1 .. number
      PROVE  /\ s.attempts[W + j].role.kind = "measured"
             /\ s.attempts[W + j].role.observation = O((j - 1) * step + 1)
  <2> DEFINE o == observations[(j - 1) * step + 1]
             role == [kind |-> "measured", index |-> 0, observation |-> o]
  <2>1. o = O((j - 1) * step + 1)
    BY <1>6
  <2>2. s.attempts[W + j] = LogicalAttemptSlot(seed, specification, role)
    BY <1>4 DEF G
  <2> HIDE DEF o
  <2>3. role.kind = "measured" /\ role.observation = o
    OBVIOUS
  <2> HIDE DEF role
  <2>4. LogicalAttemptSlot(seed, specification, role).role = role
    BY DEF LogicalAttemptSlot
  <2> QED BY <2>1, <2>2, <2>3, <2>4
<1>8. ASSUME NEW j \in 1 .. number, NEW n \in 1 .. count
      PROVE  Fills(m, e, c.implementation, O((j - 1) * step + 1), O(n))
               <=> j = (n - 1) \div step + 1
  <2>1. CASE fresh
    <3>1. (j - 1) * step + 1 = j /\ (n - 1) \div step = n - 1
      BY <1>2, <2>1
    <3>2. PICK b \in Nat \ {0}, k \in Nat, i \in Nat :
            b = bound /\ k = n - 1 /\ i = j - 1
      BY <1>2, <1>3
    <3>3. ASSUME O(n) = O(j) PROVE k = i
      <4>1. /\ O(n).measurement = k \div b /\ O(n).fresh.index = k % b
            /\ O(j).measurement = i \div b /\ O(j).fresh.index = i % b
        BY <2>1, <3>2 DEF O, ObservationSlot, fresh, bound
      <4>2. k \div b = i \div b /\ k % b = i % b
        BY <3>3, <4>1
      <4> QED BY <4>2, Quotient
    <3>4. Fills(m, e, c.implementation, O(j), O(n)) <=> O(n) = O(j)
      BY <2>1 DEF Fills, fresh
    <3> QED BY <3>1, <3>2, <3>3, <3>4
  <2>2. CASE ~fresh
    <3>1. PICK b \in Nat \ {0}, k \in Nat, i \in Nat :
            b = bound /\ k = n - 1 /\ i = j - 1
      BY <1>2, <1>3
    <3>2. O(n).measurement = k /\ O((j - 1) * step + 1).measurement = i * b
      <4>1. ((j - 1) * step + 1) - 1 = i * b
        <5>1. i * b \in Nat
          OBVIOUS
        <5> QED BY <1>2, <2>2, <3>1, <5>1
      <4>2. \A x : ObservationSlot(m, e, c, specification, x).measurement = x
        BY <2>2 DEF ObservationSlot, fresh
      <4>3. \A x : O(x).measurement = x - 1
        BY <4>2 DEF O
      <4>4. O((j - 1) * step + 1).measurement = i * b
        BY <4>1, <4>3
      <4> QED BY <3>1, <4>1, <4>3, <4>4
    <3>3. Fills(m, e, c.implementation, O((j - 1) * step + 1), O(n))
            <=> k \in (i * b) .. (i * b + b - 1)
      BY <2>2, <3>1, <3>2 DEF Fills, fresh, bound
    <3>4. i * b = b * i /\ i * b \in Nat
      OBVIOUS
    <3>5. k \in (i * b) .. (i * b + b - 1) => i = k \div b
      BY <3>4, QuotientUnique
    <3>6. i = k \div b => k \in (i * b) .. (i * b + b - 1)
      BY <3>4, Quotient
    <3> QED BY <1>2, <2>2, <3>1, <3>3, <3>5, <3>6
  <2> QED BY <2>1, <2>2
<1> DEFINE chunk(n) == (n - 1) \div step
           slots == {k \in DOMAIN s.attempts : k > W}
<1>9. slots = {k \in 1 .. (W + number) : k > W}
  BY <1>4
<1>10. ASSUME NEW n \in 1 .. count
       PROVE  W + chunk(n) + 1 \in slots
  <2>1. PICK i \in 1 .. number : i = chunk(n) + 1
    BY <1>5
  <2>2. PICK x \in Nat : x = chunk(n)
    <3>1. n - 1 \in Nat /\ step \in Nat \ {0}
      BY <1>2
    <3> QED BY <3>1, Quotient
  <2> HIDE DEF chunk
  <2>3. W + i \in 1 .. (W + number) /\ W + i > W /\ W + i = W + chunk(n) + 1
    BY <1>2, <1>3, <2>1, <2>2
  <2> HIDE DEF slots
  <2> QED BY <1>9, <2>3
<1>11. ASSUME NEW k \in slots
       PROVE  /\ s.attempts[k].role.kind = "measured"
              /\ \A n \in 1 .. count :
                   Fills(m, e, c.implementation, s.attempts[k].role.observation, O(n))
                     <=> k = W + chunk(n) + 1
  <2>1. k \in 1 .. (W + number) /\ k > W
    BY <1>9
  <2>2. PICK j \in 1 .. number : k = W + j
    <3>1. k - W \in 1 .. number /\ k = W + (k - W)
      BY <1>2, <1>3, <2>1
    <3> QED BY <3>1
  <2>3. ASSUME NEW n \in 1 .. count
        PROVE  k = W + chunk(n) + 1 <=> j = chunk(n) + 1
    <3>1. PICK x \in Nat : x = chunk(n)
      <4>1. n - 1 \in Nat /\ step \in Nat \ {0}
        BY <1>2
      <4> QED BY <4>1, Quotient
    <3> HIDE DEF chunk
    <3> QED BY <1>2, <1>3, <2>2, <3>1
  <2>4. /\ s.attempts[k].role.kind = "measured"
        /\ s.attempts[k].role.observation = O((j - 1) * step + 1)
    BY <1>7, <2>2
  <2> QED BY <1>8, <2>3, <2>4
<1>12. /\ DOMAIN s.observations = 1 .. count
       /\ \A n \in 1 .. count : s.observations[n] = O(n)
  BY <1>1
<1> HIDE DEF chunk, slots
<1>13. /\ \A n \in DOMAIN s.observations : W + chunk(n) + 1 \in slots
       /\ \A k \in slots :
            /\ s.attempts[k].role.kind = "measured"
            /\ \A n \in DOMAIN s.observations :
                 Fills(m, e, c.implementation, s.attempts[k].role.observation,
                       s.observations[n])
                   <=> k = W + chunk(n) + 1
  BY <1>10, <1>11, <1>12
<1> QED BY <1>13, Zenon DEF s, step, W, chunk, slots
=============================================================================
