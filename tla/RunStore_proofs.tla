--------------------------- MODULE RunStore_proofs ---------------------------
(***************************************************************************)
(* Proofs about RunStore, for every set of slots, every number of retries   *)
(* and observations, every lease duration and every behaviour of the        *)
(* clocks: the type invariant, that a claim is held by a finalizing attempt *)
(* of an unsatisfied slot, and that a slot has at most one accepted attempt.*)
(***************************************************************************)
EXTENDS RunStore, TLAPS

\* What the local state of owners and of recovery records when it is used: an
\* owner that stages an outcome has decided it, one that publishes it has its
\* document; a recovery pass past its first transaction has an attempt, and the
\* document it fails an attempt with says "failed".
LocalOK ==
    /\ \A a \in Attempts :
         /\ owner[a].pc \in {"final", "out_create", "out_stage", "out_write",
                             "out_publish"} => owner[a].plan \in Terminal
         /\ owner[a].pc \in {"out_write", "out_publish"} => owner[a].doc \in Docs
    /\ rec.pc \in {"judge", "import", "fail", "commit"} => rec.attempt \in Attempts
    /\ rec.pc \in {"import", "commit"} => rec.doc \in Docs
    /\ rec.pc = "commit" => rec.doc.state = "failed"

TypeInv == TypeOK /\ LocalOK

-----------------------------------------------------------------------------
(***************************************************************************)
(* Lemmas about the operators.                                              *)
(***************************************************************************)
LEMMA SlotType == \A a \in Attempts : Slot(a) \in Slots
BY DEF Attempts, Slot

LEMMA LaterType == \A x, y \in Nat : Later(x, y) \in Nat /\ Later(x, y) >= x /\ Later(x, y) >= y
BY DEF Later

LEMMA SampleType ==
    ASSUME clock \in Nat
    PROVE  /\ \A t \in Sampled : t \in Nat
           /\ \A t \in Current : t \in Nat
BY DEF Sampled, Current

LEMMA ReleaseType == \A st \in StageType : Release(st) \in StageType
BY DEF Release, StageType

LEMMA ReleaseStagesType ==
    ASSUME stage \in [Attempts -> [Jobs -> StageType]], NEW a \in Attempts
    PROVE  ReleaseStages(a) \in [Jobs -> StageType]
BY ReleaseType DEF ReleaseStages

LEMMA DroppedType ==
    ASSUME stage \in [Attempts -> [Jobs -> StageType]], NEW a \in Attempts
    PROVE  Dropped(a) \in [Jobs -> StageType]
BY DEF Dropped, StageType

LEMMA OwnerFields ==
    ASSUME owner \in [Attempts -> OwnerType], NEW a \in Attempts
    PROVE  /\ owner[a] \in OwnerType /\ owner[a].revision \in Nat
           /\ owner[a].revision + 1 \in Nat /\ owner[a].updated \in Nat
           /\ owner[a].at \in Nat /\ owner[a].plan \in Terminal \cup {None}
           /\ owner[a].doc \in Docs \cup {None}
BY DEF OwnerType

\* The forms an owner's record is updated in.
LEMMA OwnerMoves ==
    ASSUME NEW o \in OwnerType, NEW r \in Nat, NEW u \in Nat
    PROVE  /\ [o EXCEPT !.revision = r, !.updated = u] \in OwnerType
           /\ \A p \in Terminal, c \in Alive :
                [o EXCEPT !.revision = r, !.updated = u, !.plan = p, !.pc = c] \in OwnerType
BY DEF OwnerType

LEMMA OwnerStages ==
    ASSUME NEW o \in OwnerType, NEW c \in Alive
    PROVE  /\ [o EXCEPT !.pc = c] \in OwnerType
           /\ \A t \in Nat : [o EXCEPT !.pc = c, !.at = t] \in OwnerType
           /\ \A t \in Nat, p \in Terminal :
                [o EXCEPT !.pc = c, !.plan = p, !.at = t] \in OwnerType
           /\ \A t \in Nat, d \in Docs :
                [o EXCEPT !.pc = c, !.at = t, !.doc = d] \in OwnerType
BY DEF OwnerType

\* Owners change one record at a time.
LEMMA OwnerUpdate ==
    ASSUME owner \in [Attempts -> OwnerType], NEW a \in Attempts,
           NEW new \in OwnerType, owner' = [owner EXCEPT ![a] = new]
    PROVE  /\ owner' \in [Attempts -> OwnerType]
           /\ owner'[a] = new
           /\ \A b \in Attempts \ {a} : owner'[b] = owner[b]
OBVIOUS

LEMMA DocumentType ==
    ASSUME TypeOK, NEW a \in Attempts, NEW revision \in Nat,
           NEW outcome \in Terminal, NEW finished \in Nat,
           NEW by \in {"owner", "recovery"}
    PROVE  OutcomeDocument(a, revision, outcome, finished, by) \in Docs
<1>1. CoordinationSnapshot(a, outcome)
        \in [own : [Points -> Registered \cup {"absent"}],
             selected : [Points -> Attempts \cup {None}]]
  BY SlotType DEF CoordinationSnapshot, TypeOK
<1>2. QED
  BY <1>1 DEF OutcomeDocument, Docs

LEMMA TransitionType ==
    ASSUME row \in [Attempts -> RowType], NEW a \in Attempts,
           NEW revision \in Nat, NEW updated \in Nat, NEW now \in Nat,
           NEW to \in Active \cup Terminal,
           Transition(a, revision, updated, to, now)
    PROVE  /\ row' \in [Attempts -> RowType]
           /\ row'[a].state = to
           /\ row'[a].updated \in Nat /\ row'[a].revision \in Nat
           /\ \A b \in Attempts \ {a} : row'[b] = row[b]
<1> DEFINE new == [state |-> to, revision |-> revision + 1,
                   updated |-> Later(now, updated)]
<1>1. Later(now, updated) \in Nat
  BY LaterType
<1>2. new \in RowType /\ new.state = to /\ new.updated \in Nat /\ new.revision \in Nat
  BY <1>1 DEF RowType
<1>3. row' = [row EXCEPT ![a] = new]
  BY DEF Transition
<1> HIDE DEF new
<1>4. row'[a] = new
  BY <1>3
<1>5. row' \in [Attempts -> RowType]
  BY <1>2, <1>3
<1>6. \A b \in Attempts \ {a} : row'[b] = row[b]
  BY <1>3
<1>7. QED
  BY <1>2, <1>4, <1>5, <1>6

LEMMA CommitType ==
    ASSUME TypeOK, NEW a \in Attempts, NEW revision \in Nat, NEW updated \in Nat,
           NEW doc \in Docs, CommitTerminal(a, revision, updated, doc)
    PROVE  /\ row' \in [Attempts -> RowType]
           /\ lease' \in [Attempts -> LeaseType]
           /\ claim' \in [Slots -> Attempts \cup {None}]
           /\ selected' \in [Slots -> [Points -> Attempts \cup {None}]]
           /\ receipt' \in [Attempts -> Docs \cup {None}]
           /\ row'[a].state = doc.state
           /\ \A b \in Attempts \ {a} : row'[b] = row[b]
<1>1. doc.state \in Active \cup Terminal /\ FinishTime(doc) \in Nat
  BY DEF Docs, FinishTime
<1>2. selected' \in [Slots -> [Points -> Attempts \cup {None}]]
  BY SlotType DEF CommitTerminal, TerminalSelection, SelectOnce, TypeOK
<1>3. claim' \in [Slots -> Attempts \cup {None}]
  BY SlotType DEF CommitTerminal, WithoutClaim, TypeOK
<1>4. lease' \in [Attempts -> LeaseType]
  BY DEF CommitTerminal, TypeOK, LeaseType
<1>5. receipt' \in [Attempts -> Docs \cup {None}]
  BY DEF CommitTerminal, TypeOK
<1>6. QED
  BY <1>1, <1>2, <1>3, <1>4, <1>5, TransitionType DEF CommitTerminal, TypeOK

-----------------------------------------------------------------------------
(***************************************************************************)
(* Type correctness: one lemma per process.                                 *)
(***************************************************************************)
LEMMA TypeInit == Init => TypeInv
<1> SUFFICES ASSUME Init PROVE TypeInv
  OBVIOUS
<1>1. Off \in RecType
  BY DEF Off, RecType
<1>2. NoOwner \in OwnerType
  BY DEF NoOwner, OwnerType
<1>3. NoStage \in StageType
  BY DEF NoStage, StageType
<1>4. TypeOK
  BY <1>1, <1>2, <1>3 DEF Init, TypeOK, RowType, LeaseType
<1>5. LocalOK
  BY DEF Init, LocalOK, Off, NoOwner
<1>6. QED
  BY <1>4, <1>5 DEF TypeInv

\* The owner's steps that move no document: lifecycle, stages, observations.
LEMMA RecUnchanged ==
    ASSUME TypeOK, rec' = rec, published \subseteq published'
    PROVE  rec' \in RecType'
BY DEF TypeOK, RecType, Docs

LEMMA TypeReserve ==
    ASSUME TypeInv, NEW a \in Attempts, Reserve(a)
    PROVE  TypeInv'
<1> USE DEF TypeInv
<1>1. PICK now \in Sampled :
        /\ row' = [row EXCEPT ![a] =
               [state |-> "reserved", revision |-> 0, updated |-> now]]
        /\ now + Lease <= MaxTime
        /\ lease' = [lease EXCEPT ![a].live = TRUE, ![a].reservation = now + Lease]
        /\ owner' = [owner EXCEPT ![a] = [NoOwner EXCEPT
               !.pc = "work", !.updated = now]]
        /\ UNCHANGED <<clock, claim, stage, obs, selected, published, receipt,
                       rec, faults>>
  BY DEF Reserve
<1>2. now \in Nat /\ now + Lease \in Nat
  BY SampleType, StoreAssumption DEF TypeOK
<1>3. row' \in [Attempts -> RowType]
  BY <1>1, <1>2 DEF TypeOK, RowType, Active
<1>4. lease' \in [Attempts -> LeaseType]
  BY ZenonT(40), <1>1, <1>2 DEF TypeOK, LeaseType
<1>5. owner' \in [Attempts -> OwnerType]
  BY <1>1, <1>2 DEF TypeOK, OwnerType, NoOwner, Alive
<1>6. rec' \in RecType'
  BY <1>1 DEF TypeOK, RecType, Docs
<1>7. TypeOK'
  BY <1>1, <1>3, <1>4, <1>5, <1>6 DEF TypeOK, Docs
<1>8. LocalOK'
  BY <1>1 DEF LocalOK, TypeOK, OwnerType, NoOwner
<1>9. QED
  BY <1>7, <1>8

LEMMA TypeAdvance ==
    ASSUME TypeInv, NEW a \in Attempts, NEW phase \in Phases, Advance(a, phase)
    PROVE  TypeInv'
<1> USE DEF TypeInv
<1>1. PICK t \in Sampled :
        /\ Transition(a, owner[a].revision, owner[a].updated, phase, t)
        /\ owner[a].pc = "work"
        /\ owner' = [owner EXCEPT ![a].revision = @ + 1,
                                  ![a].updated = row'[a].updated]
        /\ UNCHANGED <<clock, lease, claim, stage, obs, selected, published,
                       receipt, rec, faults>>
  BY DEF Advance
<1>2. /\ t \in Nat /\ owner[a] \in OwnerType /\ owner[a].revision \in Nat
      /\ owner[a].updated \in Nat /\ owner[a].revision + 1 \in Nat
  BY SampleType, OwnerFields DEF TypeOK
<1>3. row' \in [Attempts -> RowType] /\ row'[a].updated \in Nat
  BY <1>1, <1>2, TransitionType DEF TypeOK, Active
<1>4. owner' \in [Attempts -> OwnerType]
  <2> DEFINE new == [owner[a] EXCEPT !.revision = owner[a].revision + 1,
                                     !.updated = row'[a].updated]
  <2>1. new \in OwnerType
    BY <1>2, <1>3, OwnerMoves
  <2>2. owner' = [owner EXCEPT ![a] = new]
    BY <1>1
  <2> HIDE DEF new
  <2>3. QED
    BY <2>1, <2>2 DEF TypeOK
<1>5. TypeOK'
  BY <1>1, <1>3, <1>4, RecUnchanged DEF TypeOK, Docs
<1>6. LocalOK'
  BY <1>1 DEF LocalOK, TypeOK, OwnerType, Docs
<1>7. QED
  BY <1>5, <1>6

LEMMA TypeConclude ==
    ASSUME TypeInv, NEW a \in Attempts, NEW outcome \in Outcomes,
           NEW observe \in BOOLEAN, Conclude(a, outcome, observe)
    PROVE  TypeInv'
<1> USE DEF TypeInv
<1>1. PICK t \in Sampled :
        /\ Transition(a, owner[a].revision, owner[a].updated, "finalizing", t)
        /\ owner' = [owner EXCEPT ![a].revision = @ + 1,
                                  ![a].updated = row'[a].updated,
                                  ![a].plan = outcome,
                                  ![a].pc = IF observe THEN "observe" ELSE "final"]
        /\ UNCHANGED <<clock, lease, claim, stage, obs, selected, published,
                       receipt, rec, faults>>
  BY DEF Conclude
<1>2. /\ t \in Nat /\ owner[a] \in OwnerType /\ owner[a].revision \in Nat
      /\ owner[a].updated \in Nat /\ owner[a].revision + 1 \in Nat
  BY SampleType, OwnerFields DEF TypeOK
<1>3. row' \in [Attempts -> RowType] /\ row'[a].updated \in Nat
  BY <1>1, <1>2, TransitionType DEF TypeOK, Active
<1>4. outcome \in Terminal
  BY StoreAssumption DEF Terminal
<1>5. owner' \in [Attempts -> OwnerType]
  <2> DEFINE c == IF observe THEN "observe" ELSE "final"
             new == [owner[a] EXCEPT !.revision = owner[a].revision + 1,
                        !.updated = row'[a].updated, !.plan = outcome, !.pc = c]
  <2>1. c \in Alive
    BY DEF Alive
  <2>2. owner' = [owner EXCEPT ![a] = new]
    BY <1>1
  <2> HIDE DEF c
  <2>3. new \in OwnerType
    BY <1>2, <1>3, <1>4, <2>1, OwnerMoves
  <2> HIDE DEF new
  <2>4. QED
    BY <2>2, <2>3 DEF TypeOK
<1>6. TypeOK'
  BY <1>1, <1>3, <1>5, RecUnchanged DEF TypeOK, Docs
<1>7. LocalOK'
  <2>0. PICK plan : plan = outcome
    OBVIOUS
  <2>1. /\ owner'[a].pc \in {"observe", "final"} /\ owner'[a].plan = plan
        /\ \A b \in Attempts \ {a} : owner'[b] = owner[b]
    BY <1>1, <1>2, <2>0 DEF TypeOK, OwnerType
  <2>2. rec' = rec
    BY <1>1
  <2> QED BY <1>4, <2>0, <2>1, <2>2 DEF LocalOK, Docs
<1>8. QED
  BY <1>6, <1>7

LEMMA DispositionType == \A a \in Attempts : Disposition(a) \in {"accepted", "superseded"}
BY DEF Disposition

LEMMA TypeBeginFinalization ==
    ASSUME TypeInv, NEW a \in Attempts, BeginFinalization(a)
    PROVE  TypeInv'
<1> USE DEF TypeInv
<1> DEFINE s == Slot(a)
           wins == Disposition(a) # "superseded"
<1>1. PICK t \in Sampled :
        LET now == Later(t, owner[a].updated) IN
        /\ Transition(a, owner[a].revision, owner[a].updated, "finalizing", now)
        /\ claim' = IF wins THEN [claim EXCEPT ![s] = a] ELSE claim
        /\ lease' = IF wins THEN [lease EXCEPT ![a].acquired = now,
                                               ![a].finalization = t + Lease]
                            ELSE lease
        /\ owner' = [owner EXCEPT ![a].revision = @ + 1,
                                  ![a].updated = row'[a].updated,
                                  ![a].plan = Disposition(a),
                                  ![a].pc = IF s \in Profiles THEN "final" ELSE "observe"]
        /\ UNCHANGED <<clock, stage, obs, selected, published, receipt, rec,
                       faults>>
  BY DEF BeginFinalization
<1>2. /\ t \in Nat /\ owner[a] \in OwnerType /\ owner[a].revision \in Nat
      /\ owner[a].updated \in Nat /\ owner[a].revision + 1 \in Nat
  BY SampleType, OwnerFields DEF TypeOK
<1>a. Later(t, owner[a].updated) \in Nat
  BY <1>2, LaterType
<1>b. t + Lease \in Nat
  BY <1>2, StoreAssumption
<1>3. row' \in [Attempts -> RowType] /\ row'[a].updated \in Nat
  BY <1>1, <1>2, <1>a, TransitionType DEF TypeOK, Active
<1>4. Disposition(a) \in Terminal
  BY DispositionType DEF Terminal
<1>5. owner' \in [Attempts -> OwnerType]
  <2> DEFINE c == IF s \in Profiles THEN "final" ELSE "observe"
             new == [owner[a] EXCEPT !.revision = owner[a].revision + 1,
                        !.updated = row'[a].updated, !.plan = Disposition(a), !.pc = c]
  <2>1. c \in Alive
    BY DEF Alive
  <2>2. owner' = [owner EXCEPT ![a] = new]
    BY <1>1
  <2> HIDE DEF c
  <2>3. new \in OwnerType
    BY <1>2, <1>3, <1>4, <2>1, OwnerMoves
  <2> HIDE DEF new
  <2>4. QED
    BY <2>2, <2>3, OwnerUpdate DEF TypeOK
<1>6. claim' \in [Slots -> Attempts \cup {None}]
  BY <1>1, SlotType DEF TypeOK
<1>7. lease' \in [Attempts -> LeaseType]
  BY ZenonT(40), <1>1, <1>a, <1>b DEF TypeOK, LeaseType
<1>8. TypeOK'
  BY <1>1, <1>3, <1>5, <1>6, <1>7, RecUnchanged DEF TypeOK, Docs
<1>9. LocalOK'
  <2>0. PICK plan : plan = Disposition(a)
    OBVIOUS
  <2>1. /\ owner'[a].pc \in {"observe", "final"} /\ owner'[a].plan = plan
        /\ \A b \in Attempts \ {a} : owner'[b] = owner[b]
    BY <1>1, <1>2, <2>0 DEF TypeOK, OwnerType
  <2>2. rec' = rec
    BY <1>1
  <2> QED BY <1>4, <2>0, <2>1, <2>2 DEF LocalOK, Docs
<1>10. QED
  BY <1>8, <1>9

\* A step of an owner keeps LocalOK when its new record is in order.
LEMMA OwnerLocal ==
    ASSUME TypeInv, NEW a \in Attempts, NEW new \in OwnerType,
           owner' = [owner EXCEPT ![a] = new], rec' = rec,
           new.pc \in {"final", "out_create", "out_stage", "out_write",
                       "out_publish"} => new.plan \in Terminal,
           new.pc \in {"out_write", "out_publish"} => new.doc \in Docs
    PROVE  LocalOK'
BY OwnerUpdate DEF TypeInv, TypeOK, LocalOK, Docs

LEMMA StageUpdate ==
    ASSUME stage \in [Attempts -> [Jobs -> StageType]], NEW a \in Attempts,
           NEW job \in Jobs, NEW st \in StageType,
           stage' = [stage EXCEPT ![a][job] = st]
    PROVE  stage' \in [Attempts -> [Jobs -> StageType]]
OBVIOUS

LEMMA StagesUpdate ==
    ASSUME stage \in [Attempts -> [Jobs -> StageType]], NEW a \in Attempts,
           NEW st \in [Jobs -> StageType], stage' = [stage EXCEPT ![a] = st]
    PROVE  stage' \in [Attempts -> [Jobs -> StageType]]
OBVIOUS

LEMMA TypeCreateStage ==
    ASSUME TypeInv, NEW a \in Attempts, NEW job \in Jobs, CreateStage(a, job)
    PROVE  TypeInv'
<1> USE DEF TypeInv
<1> DEFINE c == IF job = "observation" THEN "obs_create" ELSE "out_create"
           new == [owner[a] EXCEPT !.pc = c]
           st == [NoStage EXCEPT !.dir = "private"]
<1>1. /\ owner' = [owner EXCEPT ![a] = new]
      /\ stage' = [stage EXCEPT ![a][job] = st]
      /\ UNCHANGED <<clock, row, lease, claim, selected, receipt, obs, published,
                     rec, faults>>
  BY DEF CreateStage, db
<1>2. c \in Alive /\ owner[a] \in OwnerType
  BY OwnerFields DEF TypeOK, Alive, Creating
<1>3. st \in StageType
  BY DEF NoStage, StageType
<1>4. c \in {"obs_create", "out_create"} /\ (c = "out_create" => owner[a].pc = "final")
  BY DEF CreateStage, Wants
<1> HIDE DEF c, st
<1>5. new \in OwnerType
  BY <1>2, OwnerStages
<1>6. new.pc = c /\ new.plan = owner[a].plan
  BY <1>2 DEF OwnerType
<1> HIDE DEF new
<1>7. TypeOK'
  BY <1>1, <1>3, <1>5, OwnerUpdate, StageUpdate, RecUnchanged DEF TypeOK, Docs
<1>8. LocalOK'
  BY <1>1, <1>4, <1>5, <1>6, OwnerLocal DEF LocalOK
<1>9. QED
  BY <1>7, <1>8

LEMMA TypeLeaseStage ==
    ASSUME TypeInv, NEW a \in Attempts, NEW job \in Jobs, LeaseStage(a, job)
    PROVE  TypeInv'
<1> USE DEF TypeInv
<1> DEFINE c == IF job = "observation" THEN "obs_stage" ELSE "out_stage"
           st == [dir |-> "locked", lease |-> "live", expires |-> lease[a].reservation]
<1>1. PICK t \in Sampled :
        owner' = [owner EXCEPT ![a].pc = c, ![a].at = Later(t, owner[a].updated)]
  BY DEF LeaseStage
<1> DEFINE new == [owner[a] EXCEPT !.pc = c, !.at = Later(t, owner[a].updated)]
<1>2. /\ owner' = [owner EXCEPT ![a] = new]
      /\ stage' = [stage EXCEPT ![a][job] = st]
      /\ UNCHANGED <<clock, row, lease, claim, selected, receipt, obs, published,
                     rec, faults>>
  <2>1. /\ stage' = [stage EXCEPT ![a][job] = st]
        /\ UNCHANGED <<clock, db, obs, published, rec, faults>>
    BY Zenon DEF LeaseStage
  <2>2. UNCHANGED <<row, lease, claim, selected, receipt>>
    BY <2>1 DEF db
  <2> HIDE DEF c, st
  <2>3. owner' = [owner EXCEPT ![a] = new]
    BY <1>1
  <2> QED BY <2>1, <2>2, <2>3
<1>3. c \in Alive /\ owner[a] \in OwnerType /\ t \in Nat /\ owner[a].updated \in Nat
  BY OwnerFields, SampleType DEF TypeOK, Alive, Staged
<1>4. Later(t, owner[a].updated) \in Nat
  BY <1>3, LaterType
<1>5. st \in StageType
  BY DEF TypeOK, LeaseType, StageType
<1>6. c \in {"obs_stage", "out_stage"} /\ (c = "out_stage" => owner[a].pc = "out_create")
  BY DEF LeaseStage
<1> HIDE DEF c, st
<1>7. new \in OwnerType
  BY <1>3, <1>4, OwnerStages
<1>8. new.pc = c /\ new.plan = owner[a].plan
  BY <1>3 DEF OwnerType
<1> HIDE DEF new
<1>9. TypeOK'
  BY <1>2, <1>5, <1>7, OwnerUpdate, StageUpdate, RecUnchanged DEF TypeOK, Docs
<1>10. LocalOK'
  BY <1>2, <1>6, <1>7, <1>8, OwnerLocal DEF LocalOK
<1>11. QED
  BY <1>9, <1>10

LEMMA TypePublishObservation ==
    ASSUME TypeInv, NEW a \in Attempts, PublishObservation(a)
    PROVE  TypeInv'
<1> USE DEF TypeInv
<1> DEFINE new == [owner[a] EXCEPT !.pc = "obs_publish"]
<1>1. PICK p \in Points :
        /\ obs' = [obs EXCEPT ![a][p] = "disk"]
        /\ owner' = [owner EXCEPT ![a] = new]
        /\ UNCHANGED <<clock, row, lease, claim, selected, receipt, stage,
                       published, rec, faults>>
  BY DEF PublishObservation, db
<1>2. "obs_publish" \in Alive /\ owner[a] \in OwnerType
  BY OwnerFields DEF TypeOK, Alive, Staged
<1>3. new \in OwnerType /\ new.pc = "obs_publish"
  BY <1>2, OwnerStages DEF OwnerType
<1>4. obs' \in [Attempts -> [Points -> Registered \cup {"absent", "disk",
                                                      "imported", "leased"}]]
  BY <1>1 DEF TypeOK
<1> HIDE DEF new
<1>5. TypeOK'
  BY <1>1, <1>3, <1>4, OwnerUpdate, RecUnchanged DEF TypeOK, Docs
<1>6. LocalOK'
  BY <1>1, <1>3, OwnerLocal
<1>7. QED
  BY <1>5, <1>6

LEMMA TypeCommitArtifact ==
    ASSUME TypeInv, NEW a \in Attempts, CommitArtifact(a)
    PROVE  TypeInv'
<1> USE DEF TypeInv
<1> DEFINE new == [owner[a] EXCEPT !.pc = "obs_register", !.at = 0]
<1>1. PICK t \in Current, p \in Points, rest \in Cleanups :
        /\ obs' = [obs EXCEPT ![a][p] = "leased"]
        /\ stage' = [stage EXCEPT ![a]["observation"] =
                               [Release(@) EXCEPT !.dir = rest]]
        /\ UNCHANGED <<clock, db, published, rec, faults>>
  BY DEF CommitArtifact
<1>a. owner' = [owner EXCEPT ![a] = new]
  BY DEF CommitArtifact
<1>2. "obs_register" \in Alive /\ owner[a] \in OwnerType
  BY OwnerFields DEF TypeOK, Alive
<1>3. new \in OwnerType /\ new.pc = "obs_register"
  BY <1>2, OwnerStages DEF OwnerType
<1>4. obs' \in [Attempts -> [Points -> Registered \cup {"absent", "disk",
                                                      "imported", "leased"}]]
  BY <1>1 DEF TypeOK
<1> DEFINE st == [Release(stage[a]["observation"]) EXCEPT !.dir = rest]
<1>b. stage' = [stage EXCEPT ![a]["observation"] = st]
  BY <1>1
<1>5. st \in StageType
  <2>1. Release(stage[a]["observation"]) \in StageType
    BY ReleaseType DEF TypeOK, Jobs
  <2>2. QED
    BY <2>1, StoreAssumption DEF StageType
<1> HIDE DEF new, st
<1>6. stage' \in [Attempts -> [Jobs -> StageType]]
  BY <1>b, <1>5, StageUpdate DEF TypeOK, Jobs
<1>7. TypeOK'
  BY <1>1, <1>a, <1>3, <1>4, <1>6, OwnerUpdate, RecUnchanged DEF TypeOK, Docs, db
<1>8. LocalOK'
  BY <1>1, <1>a, <1>3, OwnerLocal
<1>9. QED
  BY <1>7, <1>8

LEMMA TypeRegisterObservation ==
    ASSUME TypeInv, NEW a \in Attempts, RegisterObservation(a)
    PROVE  TypeInv'
<1> USE DEF TypeInv
<1> DEFINE s == Slot(a)
           select == owner[a].plan = "accepted"
           c == IF owner[a].plan = None THEN "work" ELSE "final"
           new == [owner[a] EXCEPT !.pc = c]
<1>1. PICK t \in Sampled, p \in Points :
        /\ obs' = [obs EXCEPT ![a][p] =
               IF owner[a].plan = "failed" THEN "incomplete" ELSE "complete"]
        /\ selected' = [selected EXCEPT ![s][p] =
               IF select THEN SelectOnce(@, a) ELSE @]
        /\ UNCHANGED <<clock, row, lease, claim, stage, published, receipt, rec,
                       faults>>
  BY DEF RegisterObservation
<1>2. owner' = [owner EXCEPT ![a] = new]
  BY DEF RegisterObservation
<1>3. obs' \in [Attempts -> [Points -> Registered \cup {"absent", "disk",
                                                      "imported", "leased"}]]
  BY <1>1 DEF TypeOK, Registered
<1>4. selected' \in [Slots -> [Points -> Attempts \cup {None}]]
  BY <1>1, SlotType DEF TypeOK, SelectOnce
<1>5. c \in Alive /\ owner[a] \in OwnerType /\ owner[a].plan \in Terminal \cup {None}
  BY OwnerFields DEF TypeOK, Alive
<1>6. c \in {"work", "final"} /\ (c = "final" => owner[a].plan \in Terminal)
  BY <1>5
<1> HIDE DEF c
<1>7. new \in OwnerType
  BY <1>5, OwnerStages
<1>8. new.pc = c /\ new.plan = owner[a].plan
  BY <1>5 DEF OwnerType
<1> HIDE DEF new
<1>9. TypeOK'
  BY <1>1, <1>2, <1>3, <1>4, <1>7, OwnerUpdate, RecUnchanged DEF TypeOK, Docs
<1>10. LocalOK'
  BY <1>1, <1>2, <1>6, <1>7, <1>8, OwnerLocal
<1>11. QED
  BY <1>9, <1>10

LEMMA TypeObservationFails ==
    ASSUME TypeInv, NEW a \in Attempts, ObservationFails(a)
    PROVE  TypeInv'
<1> USE DEF TypeInv
<1> DEFINE new == [owner[a] EXCEPT !.pc = "work", !.plan = "failed", !.at = 0]
           st == IF owner[a].pc = "obs_create"
                   THEN [stage[a] EXCEPT !["observation"] = NoStage] ELSE Dropped(a)
<1>1. /\ owner' = [owner EXCEPT ![a] = new]
      /\ stage' = [stage EXCEPT ![a] = st]
      /\ UNCHANGED <<clock, row, lease, claim, selected, receipt, obs, published,
                     rec, faults>>
  BY DEF ObservationFails, db
<1>2. "work" \in Alive /\ "failed" \in Terminal /\ owner[a] \in OwnerType
  BY OwnerFields DEF TypeOK, Alive, Terminal
<1>3. new \in OwnerType /\ new.pc = "work"
  BY <1>2, OwnerStages DEF OwnerType
<1>4. st \in [Jobs -> StageType]
  <2>1. NoStage \in StageType
    BY DEF NoStage, StageType
  <2>2. [stage[a] EXCEPT !["observation"] = NoStage] \in [Jobs -> StageType]
    BY <2>1 DEF TypeOK
  <2>3. QED
    BY <2>2, DroppedType DEF TypeOK
<1> HIDE DEF new, st
<1>5. TypeOK'
  BY <1>1, <1>3, <1>4, OwnerUpdate, StagesUpdate, RecUnchanged DEF TypeOK, Docs
<1>6. LocalOK'
  BY <1>1, <1>3, OwnerLocal
<1>7. QED
  BY <1>5, <1>6

LEMMA TypeWriteOutcome ==
    ASSUME TypeInv, NEW a \in Attempts, WriteOutcome(a)
    PROVE  TypeInv'
<1> USE DEF TypeInv
<1>1. PICK t \in Sampled :
        owner' = [owner EXCEPT ![a].pc = "out_write", ![a].at = 0,
               ![a].doc = OutcomeDocument(a, owner[a].revision, owner[a].plan,
                                          Later(t, owner[a].at), "owner")]
  BY DEF WriteOutcome
<1> DEFINE doc == OutcomeDocument(a, owner[a].revision, owner[a].plan,
                                  Later(t, owner[a].at), "owner")
           new == [owner[a] EXCEPT !.pc = "out_write", !.at = 0, !.doc = doc]
<1>2. owner' = [owner EXCEPT ![a] = new]
  BY <1>1
<1>3. /\ owner[a].pc = "out_stage"
      /\ UNCHANGED <<clock, row, lease, claim, selected, receipt, stage, obs,
                     published, rec, faults>>
  BY DEF WriteOutcome, db
<1>4. /\ t \in Nat /\ owner[a] \in OwnerType /\ owner[a].revision \in Nat
      /\ owner[a].at \in Nat /\ owner[a].plan \in Terminal
  BY <1>3, SampleType, OwnerFields DEF TypeOK, LocalOK
<1>5. Later(t, owner[a].at) \in Nat
  BY <1>4, LaterType
<1>6. doc \in Docs
  BY <1>4, <1>5, DocumentType
<1> HIDE DEF doc
<1>7. "out_write" \in Alive
  BY DEF Alive, Staged
<1>8. new \in OwnerType /\ new.pc = "out_write" /\ new.plan = owner[a].plan /\ new.doc = doc
  <2>1. new \in OwnerType
    BY <1>4, <1>6, <1>7, OwnerStages
  <2>2. QED
    BY <1>4, <2>1 DEF OwnerType
<1> HIDE DEF new
<1>9. TypeOK'
  BY <1>2, <1>3, <1>8, OwnerUpdate, RecUnchanged DEF TypeOK, Docs
<1>10. LocalOK'
  BY <1>2, <1>3, <1>4, <1>6, <1>8, OwnerLocal
<1>11. QED
  BY <1>9, <1>10

LEMMA TypePublishOutcome ==
    ASSUME TypeInv, NEW a \in Attempts, PublishOutcome(a)
    PROVE  TypeInv'
<1> USE DEF TypeInv
<1> DEFINE new == [owner[a] EXCEPT !.pc = "out_publish"]
<1>1. /\ owner' = [owner EXCEPT ![a] = new]
      /\ published' = published \cup {owner[a].doc}
      /\ owner[a].pc = "out_write"
      /\ UNCHANGED <<clock, row, lease, claim, selected, receipt, stage, obs,
                     rec, faults>>
  BY DEF PublishOutcome, db
<1>2. owner[a] \in OwnerType /\ owner[a].doc \in Docs /\ owner[a].plan \in Terminal
  BY <1>1, OwnerFields DEF TypeOK, LocalOK
<1>3. "out_publish" \in Alive
  BY DEF Alive, Staged
<1>4. /\ new \in OwnerType /\ new.pc = "out_publish" /\ new.plan = owner[a].plan
      /\ new.doc = owner[a].doc
  BY <1>2, <1>3, OwnerStages DEF OwnerType
<1> HIDE DEF new
<1>5. rec' \in RecType'
  BY <1>1, RecUnchanged
<1>6. published' \subseteq Docs
  BY <1>1, <1>2 DEF TypeOK
<1>7. TypeOK'
  BY <1>1, <1>4, <1>5, <1>6, OwnerUpdate DEF TypeOK, Docs
<1>8. LocalOK'
  BY <1>1, <1>2, <1>4, OwnerLocal
<1>9. QED
  BY <1>7, <1>8

LEMMA TypeCommitFinalization ==
    ASSUME TypeInv, NEW a \in Attempts, CommitFinalization(a)
    PROVE  TypeInv'
<1> USE DEF TypeInv
<1> DEFINE doc == owner[a].doc
<1>1. /\ owner[a].pc = "out_publish"
      /\ CommitTerminal(a, owner[a].revision, owner[a].updated, doc)
      /\ UNCHANGED <<clock, obs, published, rec, faults>>
  BY DEF CommitFinalization
<1>2. PICK new \in {[NoOwner EXCEPT !.pc = "done", !.plan = doc.state],
                    [NoOwner EXCEPT !.pc = "dead"]} :
        owner' = [owner EXCEPT ![a] = new]
  BY DEF CommitFinalization
<1>3. PICK rest \in Cleanups :
        stage' = [stage EXCEPT ![a] = [ReleaseStages(a) EXCEPT !["outcome"].dir = rest]]
  BY DEF CommitFinalization
<1>4. owner[a].revision \in Nat /\ owner[a].updated \in Nat /\ doc \in Docs
  BY <1>1, OwnerFields DEF TypeOK, LocalOK
<1>5. doc.state \in Terminal
  BY <1>4 DEF Docs
<1>6. new \in OwnerType /\ new.pc \in {"done", "dead"}
  <2>1. ASSUME NEW p \in Terminal
        PROVE  LET o == [NoOwner EXCEPT !.pc = "done", !.plan = p]
               IN  o \in OwnerType /\ o.pc = "done"
    BY DEF OwnerType, NoOwner
  <2>2. LET o == [NoOwner EXCEPT !.pc = "dead"] IN o \in OwnerType /\ o.pc = "dead"
    BY DEF OwnerType, NoOwner
  <2>3. QED
    BY <1>2, <1>5, <2>1, <2>2
<1>7. [ReleaseStages(a) EXCEPT !["outcome"].dir = rest] \in [Jobs -> StageType]
  <2>1. ReleaseStages(a) \in [Jobs -> StageType]
    BY ReleaseStagesType DEF TypeOK
  <2>2. [ReleaseStages(a)["outcome"] EXCEPT !.dir = rest] \in StageType
    BY <2>1, StoreAssumption DEF StageType, Jobs
  <2>3. QED
    BY <2>1, <2>2
<1>8. stage' \in [Attempts -> [Jobs -> StageType]]
  BY <1>3, <1>7, StagesUpdate DEF TypeOK
<1> HIDE DEF doc
<1>9. owner' \in [Attempts -> OwnerType] /\ rec' \in RecType'
  BY <1>1, <1>2, <1>6, OwnerUpdate, RecUnchanged DEF TypeOK
<1>10. /\ row' \in [Attempts -> RowType]
       /\ lease' \in [Attempts -> LeaseType]
       /\ claim' \in [Slots -> Attempts \cup {None}]
       /\ selected' \in [Slots -> [Points -> Attempts \cup {None}]]
       /\ receipt' \in [Attempts -> Docs \cup {None}]
  BY <1>1, <1>4, CommitType
<1>11. TypeOK'
  BY <1>1, <1>8, <1>9, <1>10 DEF TypeOK, Docs
<1>12. LocalOK'
  BY <1>1, <1>2, <1>6, OwnerLocal
<1>13. QED
  BY <1>11, <1>12

LEMMA ExpiresType ==
    ASSUME NEW st \in StageType
    PROVE  st.expires \in Nat /\ \A x \in Nat : [st EXCEPT !.expires = x] \in StageType
BY DEF StageType

LEMMA TypeRenew ==
    ASSUME TypeInv, NEW a \in Attempts, Renew(a)
    PROVE  TypeInv'
<1> USE DEF TypeInv
<1>1. PICK t \in Sampled :
        /\ lease' = [lease EXCEPT ![a].reservation = t + Lease,
               ![a].finalization = IF claim[Slot(a)] = a THEN t + Lease ELSE @]
        /\ stage' = [stage EXCEPT ![a] = [job \in Jobs |-> [stage[a][job] EXCEPT
               !.expires = IF StageLive(a, job, t) THEN t + Lease ELSE @]]]
        /\ UNCHANGED <<clock, row, claim, obs, selected, published, receipt,
                       owner, rec, faults>>
  BY DEF Renew
<1>2. t + Lease \in Nat
  BY SampleType, StoreAssumption DEF TypeOK
<1>3. lease' \in [Attempts -> LeaseType]
  BY ZenonT(40), <1>1, <1>2 DEF TypeOK, LeaseType
<1>4. [job \in Jobs |-> [stage[a][job] EXCEPT
          !.expires = IF StageLive(a, job, t) THEN t + Lease ELSE @]]
        \in [Jobs -> StageType]
  <2> SUFFICES ASSUME NEW job \in Jobs
               PROVE  [stage[a][job] EXCEPT !.expires =
                          IF StageLive(a, job, t) THEN t + Lease ELSE @] \in StageType
    OBVIOUS
  <2> DEFINE e == IF StageLive(a, job, t) THEN t + Lease ELSE stage[a][job].expires
  <2>1. stage[a][job] \in StageType
    BY DEF TypeOK
  <2>2. e \in Nat
    BY <1>2, <2>1, ExpiresType
  <2> HIDE DEF e
  <2>3. [stage[a][job] EXCEPT !.expires = e] \in StageType
    BY <2>1, <2>2, ExpiresType
  <2>4. QED
    BY <2>3 DEF e
<1>5. stage' \in [Attempts -> [Jobs -> StageType]]
  BY <1>1, <1>4, StagesUpdate DEF TypeOK
<1>6. TypeOK'
  BY <1>1, <1>3, <1>5, RecUnchanged DEF TypeOK, Docs
<1>7. LocalOK'
  BY <1>1 DEF LocalOK, Docs
<1>8. QED
  BY <1>6, <1>7

LEMMA TypeAbort ==
    ASSUME TypeInv, NEW a \in Attempts, Abort(a)
    PROVE  TypeInv'
<1> USE DEF TypeInv
<1> DEFINE new == [NoOwner EXCEPT !.pc = "dead"]
<1>1. /\ owner' = [owner EXCEPT ![a] = new]
      /\ UNCHANGED <<clock, row, lease, claim, selected, receipt, obs, published,
                     rec, faults>>
  BY DEF Abort, db
<1>2. new \in OwnerType /\ new.pc = "dead"
  BY DEF NoOwner, OwnerType
<1>3. NoStage \in StageType
  BY DEF NoStage, StageType
<1>4. stage' \in [Attempts -> [Jobs -> StageType]]
  BY <1>3, DroppedType, StagesUpdate, StageUpdate DEF Abort, TypeOK
<1> HIDE DEF new
<1>5. TypeOK'
  BY <1>1, <1>2, <1>4, OwnerUpdate, RecUnchanged DEF TypeOK, Docs
<1>6. LocalOK'
  BY <1>1, <1>2, OwnerLocal
<1>7. QED
  BY <1>5, <1>6

LEMMA TypeTick ==
    ASSUME TypeInv, Tick
    PROVE  TypeInv'
<1>1. TypeOK'
  BY RecUnchanged DEF TypeInv, TypeOK, Tick, db, Docs
<1>2. LocalOK'
  BY DEF TypeInv, LocalOK, Tick, Docs
<1>3. QED
  BY <1>1, <1>2 DEF TypeInv

-----------------------------------------------------------------------------
\* The recovery pass.
LEMMA RecIdle == Off \in RecType
BY DEF Off, RecType

LEMMA TypeRecoverBegin ==
    ASSUME TypeInv, RecoverBegin
    PROVE  TypeInv'
<1> USE DEF TypeInv
<1>1. PICK t \in Current :
        /\ rec' = [Off EXCEPT
               !.pc = "attempts",
               !.now = t,
               !.todo = {a \in Attempts : row[a].state \in Active /\ ~Busy(a)},
               !.stages = {sj \in Attempts \X Jobs : Unowned(stage[sj[1]][sj[2]])},
               !.orphans = {d \in published : row[d.attempt].state \in Active}]
        /\ obs' = [a \in Attempts |-> [p \in Points |->
               IF obs[a][p] = "disk" THEN "imported" ELSE obs[a][p]]]
        /\ UNCHANGED <<clock, db, stage, published, owner, faults>>
  BY DEF RecoverBegin
<1>2. t \in Nat
  BY SampleType DEF TypeOK
<1>3. rec'.pc = "attempts" /\ rec' \in RecType
  BY <1>1, <1>2 DEF Off, RecType
<1>4. obs' \in [Attempts -> [Points -> Registered \cup {"absent", "disk",
                                                      "imported", "leased"}]]
  BY <1>1, SMTT(30) DEF TypeOK
<1>5. rec' \in RecType'
  BY <1>1, <1>3 DEF RecType, Docs
<1>6. TypeOK'
  BY <1>1, <1>4, <1>5 DEF TypeOK, Docs, db
<1>7. LocalOK'
  BY <1>1, <1>3 DEF LocalOK, Docs
<1>8. QED
  BY <1>6, <1>7

LEMMA RecFields ==
    ASSUME NEW r \in RecType
    PROVE  /\ r.now \in Nat /\ r.checked \in Nat /\ r.updated \in Nat /\ r.revision \in Nat
           /\ r.todo \subseteq Attempts /\ r.orphans \subseteq published
           /\ r.attempt \in Attempts \cup {None}
           /\ r.stages \subseteq Attempts \X Jobs
BY DEF RecType

\* The forms the pass is updated in.
LEMMA RecMoves ==
    ASSUME NEW r \in RecType
    PROVE  /\ \A x \in SUBSET Attempts : [r EXCEPT !.todo = x] \in RecType
           /\ \A x \in SUBSET (Attempts \X Jobs) : [r EXCEPT !.stages = x] \in RecType
           /\ \A d \in Docs : [r EXCEPT !.pc = "import", !.doc = d] \in RecType
           /\ \A d \in Docs : [r EXCEPT !.pc = "commit", !.doc = d] \in RecType
           /\ [r EXCEPT !.pc = "fail"] \in RecType
           /\ [r EXCEPT !.pc = "attempts", !.attempt = None, !.revision = 0,
                        !.updated = 0, !.checked = 0, !.doc = None] \in RecType
BY DEF RecType

LEMMA RecTaken ==
    ASSUME NEW r \in RecType, NEW x \in SUBSET Attempts, NEW a \in Attempts,
           NEW c \in Nat, NEW v \in Nat, NEW u \in Nat
    PROVE  [r EXCEPT !.pc = "judge", !.todo = x, !.attempt = a, !.checked = c,
                     !.revision = v, !.updated = u] \in RecType
BY DEF RecType

LEMMA RecGrows ==
    ASSUME NEW r \in RecType, published \subseteq published'
    PROVE  r \in RecType'
BY DEF RecType, Docs

\* A step of recovery that leaves the owners alone keeps LocalOK when the pass's
\* own record is in order.
LEMMA RecLocal ==
    ASSUME LocalOK, owner' = owner,
           rec'.pc \in {"judge", "import", "fail", "commit"} => rec'.attempt \in Attempts,
           rec'.pc \in {"import", "commit"} => rec'.doc \in Docs,
           rec'.pc = "commit" => rec'.doc.state = "failed"
    PROVE  LocalOK'
BY DEF LocalOK, Docs

LEMMA TypeRecoverTake ==
    ASSUME TypeInv, NEW a \in Attempts, RecoverTake(a)
    PROVE  TypeInv'
<1> USE DEF TypeInv
<1>1. PICK t \in Current :
        \/ /\ rec.pc = "attempts"
           /\ rec' = [rec EXCEPT !.todo = @ \ {a}]
           /\ row' = row
        \/ /\ \/ row' = row
              \/ Transition(a, row[a].revision, row[a].updated, "finalizing",
                            Later(t, rec.now))
           /\ rec' = [rec EXCEPT !.pc = "judge", !.todo = @ \ {a},
                     !.attempt = a, !.checked = Later(t, rec.now),
                     !.revision = row'[a].revision, !.updated = row'[a].updated]
  BY DEF RecoverTake
<1>2. UNCHANGED <<clock, lease, claim, stage, obs, selected, published,
                  receipt, owner, faults>>
  BY DEF RecoverTake
<1>3. t \in Nat /\ rec \in RecType /\ rec.now \in Nat
  BY SampleType, RecFields DEF TypeOK
<1>4. Later(t, rec.now) \in Nat
  BY <1>3, LaterType
<1>5. row[a].revision \in Nat /\ row[a].updated \in Nat /\ "finalizing" \in Active
  BY DEF TypeOK, RowType, Active
<1>6. row' \in [Attempts -> RowType]
  BY <1>1, <1>4, <1>5, TransitionType DEF TypeOK
<1>7. row'[a].revision \in Nat /\ row'[a].updated \in Nat /\ rec.todo \ {a} \in SUBSET Attempts
  BY <1>3, <1>6, RecFields DEF RowType
<1>8. /\ rec' \in RecType
      /\ rec'.pc \in {"attempts", "judge"}
      /\ rec'.pc = "judge" => rec'.attempt \in Attempts
  <2>1. CASE rec.pc = "attempts" /\ rec' = [rec EXCEPT !.todo = rec.todo \ {a}]
    <3>1. rec' \in RecType
      BY <1>3, <1>7, <2>1, RecMoves
    <3>2. QED
      BY <1>3, <2>1, <3>1 DEF RecType
  <2>2. CASE rec' = [rec EXCEPT !.pc = "judge", !.todo = rec.todo \ {a},
                     !.attempt = a, !.checked = Later(t, rec.now),
                     !.revision = row'[a].revision, !.updated = row'[a].updated]
    <3>1. rec' \in RecType
      BY <1>3, <1>4, <1>7, <2>2, RecTaken
    <3>2. QED
      BY <1>3, <2>2, <3>1 DEF RecType
  <2>3. QED
    BY <1>1, <2>1, <2>2
<1>9. rec' \in RecType'
  BY <1>2, <1>8, RecGrows
<1>10. TypeOK'
  BY <1>2, <1>6, <1>9 DEF TypeOK, Docs
<1>11. LocalOK'
  BY <1>2, <1>8, RecLocal
<1>12. QED
  BY <1>10, <1>11

LEMMA TypeRecoverJudge ==
    ASSUME TypeInv, RecoverJudge
    PROVE  TypeInv'
<1> USE DEF TypeInv
<1>1. /\ rec.pc = "judge"
      /\ \/ \E d \in rec.orphans : rec' = [rec EXCEPT !.pc = "import", !.doc = d]
         \/ rec' = [rec EXCEPT !.pc = "fail"]
      /\ UNCHANGED <<clock, row, lease, claim, selected, receipt, stage, obs,
                     published, owner, faults>>
  BY DEF RecoverJudge, db
<1>2. rec \in RecType /\ rec.orphans \subseteq Docs /\ rec.attempt \in Attempts
  BY <1>1, RecFields DEF TypeOK, LocalOK
<1>3. /\ rec' \in RecType
      /\ rec'.pc \in {"import", "fail"} /\ rec'.attempt \in Attempts
      /\ rec'.pc = "import" => rec'.doc \in Docs
  <2>1. ASSUME NEW d \in rec.orphans, rec' = [rec EXCEPT !.pc = "import", !.doc = d]
        PROVE  rec' \in RecType /\ rec'.pc = "import" /\ rec'.attempt \in Attempts /\ rec'.doc \in Docs
    <3>1. rec' \in RecType
      BY <1>2, <2>1, RecMoves
    <3>2. QED
      BY <1>2, <2>1, <3>1 DEF RecType
  <2>2. ASSUME rec' = [rec EXCEPT !.pc = "fail"]
        PROVE  rec' \in RecType /\ rec'.pc = "fail" /\ rec'.attempt \in Attempts
    <3>1. rec' \in RecType
      BY <1>2, <2>2, RecMoves
    <3>2. QED
      BY <1>2, <2>2, <3>1 DEF RecType
  <2>3. QED
    BY <1>1, <2>1, <2>2
<1>4. rec' \in RecType'
  BY <1>1, <1>3, RecGrows
<1>5. TypeOK'
  BY <1>1, <1>4 DEF TypeOK, Docs
<1>6. LocalOK'
  BY <1>1, <1>3, RecLocal
<1>7. QED
  BY <1>5, <1>6

\* Both terminal commits of recovery: an imported document and its own.
LEMMA TypeRecoverFinish ==
    ASSUME TypeInv, rec.pc \in {"import", "commit"},
           CommitTerminal(rec.attempt, rec.revision, rec.updated, rec.doc),
           stage' = [stage EXCEPT ![rec.attempt] = ReleaseStages(rec.attempt)],
           rec' = NextAttempt,
           UNCHANGED <<clock, obs, published, owner, faults>>
    PROVE  TypeInv'
<1> USE DEF TypeInv
<1>1. rec.attempt \in Attempts /\ rec.doc \in Docs
  BY DEF LocalOK
<1>2. rec \in RecType /\ rec.revision \in Nat /\ rec.updated \in Nat
  BY RecFields DEF TypeOK
<1>3. stage' \in [Attempts -> [Jobs -> StageType]]
  BY <1>1, ReleaseStagesType, StagesUpdate DEF TypeOK
<1>4. rec' \in RecType
  BY <1>2, RecMoves DEF NextAttempt
<1>5. rec' \in RecType' /\ rec'.pc = "attempts"
  BY <1>2, <1>4, RecGrows DEF NextAttempt, RecType
<1>6. /\ row' \in [Attempts -> RowType]
      /\ lease' \in [Attempts -> LeaseType]
      /\ claim' \in [Slots -> Attempts \cup {None}]
      /\ selected' \in [Slots -> [Points -> Attempts \cup {None}]]
      /\ receipt' \in [Attempts -> Docs \cup {None}]
  BY <1>1, <1>2, CommitType
<1>7. TypeOK'
  BY <1>3, <1>5, <1>6 DEF TypeOK, Docs
<1>8. LocalOK'
  BY <1>5, RecLocal
<1>9. QED
  BY <1>7, <1>8

LEMMA TypeRecoverPublish ==
    ASSUME TypeInv, RecoverPublish
    PROVE  TypeInv'
<1> USE DEF TypeInv
<1>1. PICK t \in Current :
        LET doc == OutcomeDocument(rec.attempt, rec.revision, "failed",
                       Later(Later(t, rec.checked), rec.updated), "recovery")
        IN  published' = published \cup {doc}
            /\ rec' = [rec EXCEPT !.pc = "commit", !.doc = doc]
  BY DEF RecoverPublish
<1>2. /\ rec.pc = "fail"
      /\ UNCHANGED <<clock, row, lease, claim, selected, receipt, stage, obs,
                     owner, faults>>
  BY DEF RecoverPublish, db
<1> DEFINE finished == Later(Later(t, rec.checked), rec.updated)
           doc == OutcomeDocument(rec.attempt, rec.revision, "failed", finished, "recovery")
<1>3. /\ t \in Nat /\ rec \in RecType /\ rec.attempt \in Attempts
      /\ rec.revision \in Nat /\ rec.updated \in Nat /\ rec.checked \in Nat
  BY <1>2, SampleType, RecFields DEF TypeOK, LocalOK
<1>4. Later(t, rec.checked) \in Nat
  BY <1>3, LaterType
<1>5. finished \in Nat
  BY <1>3, <1>4, LaterType
<1>6. doc \in Docs /\ doc.state = "failed"
  <2> HIDE DEF finished
  <2>1. "failed" \in Terminal
    BY DEF Terminal
  <2>2. doc \in Docs
    BY <1>3, <1>5, <2>1, DocumentType
  <2>3. QED
    BY <2>2 DEF OutcomeDocument
<1>7. published' = published \cup {doc} /\ rec' = [rec EXCEPT !.pc = "commit", !.doc = doc]
  BY <1>1
<1> HIDE DEF doc
<1>8. rec' \in RecType
  BY <1>3, <1>6, <1>7, RecMoves
<1>9. rec'.pc = "commit" /\ rec'.doc = doc /\ rec'.attempt \in Attempts
  BY <1>3, <1>7 DEF RecType
<1>10. rec' \in RecType'
  BY <1>7, <1>8, RecGrows
<1>11. TypeOK'
  BY <1>2, <1>6, <1>7, <1>10 DEF TypeOK, Docs
<1>12. LocalOK'
  BY <1>2, <1>6, <1>9, RecLocal
<1>13. QED
  BY <1>11, <1>12

\* The steps that end a pass.
LEMMA TypeRecoverOff ==
    ASSUME TypeInv, rec' = Off, stage' \in [Attempts -> [Jobs -> StageType]],
           faults' \in Nat, UNCHANGED <<clock, db, obs, published, owner>>
    PROVE  TypeInv'
<1>1. rec' \in RecType' /\ rec'.pc = "off"
  BY RecIdle, RecGrows DEF Off
<1>2. TypeOK'
  BY <1>1 DEF TypeInv, TypeOK, Docs, db
<1>3. LocalOK'
  BY <1>1, RecLocal DEF TypeInv
<1>4. QED
  BY <1>2, <1>3 DEF TypeInv

LEMMA MovedType ==
    ASSUME stage \in [Attempts -> [Jobs -> StageType]], NEW a \in Attempts, NEW job \in Jobs
    PROVE  /\ [stage[a][job] EXCEPT !.dir = Moved(a, job)] \in StageType
           /\ [Release(stage[a][job]) EXCEPT !.dir = Moved(a, job)] \in StageType
<1>1. stage[a][job] \in StageType /\ Release(stage[a][job]) \in StageType
  BY ReleaseType
<1>2. Moved(a, job) \in {"none", "private", "locked", "left", "quarantined"}
  BY <1>1 DEF Moved, StageType
<1>3. ASSUME NEW st \in StageType,
             NEW d \in {"none", "private", "locked", "left", "quarantined"}
      PROVE  [st EXCEPT !.dir = d] \in StageType
  BY DEF StageType
<1>4. QED
  BY <1>1, <1>2, <1>3

LEMMA TypeRecoverQuarantine ==
    ASSUME TypeInv, NEW a \in Attempts, NEW job \in Jobs, RecoverQuarantine(a, job)
    PROVE  TypeInv'
<1> USE DEF TypeInv
<1> DEFINE st == [Release(stage[a][job]) EXCEPT !.dir = Moved(a, job)]
<1>1. /\ rec.pc = "attempts"
      /\ rec' = [rec EXCEPT !.stages = @ \ {<<a, job>>}]
      /\ stage' = stage \/ stage' = [stage EXCEPT ![a][job] = st]
      /\ UNCHANGED <<clock, row, lease, claim, selected, receipt, obs, published,
                     owner, faults>>
  BY DEF RecoverQuarantine, db
<1>2. st \in StageType
  BY MovedType DEF TypeOK
<1>3. stage' \in [Attempts -> [Jobs -> StageType]]
  <2> HIDE DEF st
  <2> QED BY <1>1, <1>2, StageUpdate DEF TypeOK
<1>4. rec \in RecType /\ rec.stages \ {<<a, job>>} \in SUBSET (Attempts \X Jobs)
  BY RecFields DEF TypeOK
<1>5. rec' \in RecType
  BY <1>1, <1>4, RecMoves
<1>6. rec' \in RecType' /\ rec'.pc = "attempts"
  BY <1>1, <1>4, <1>5, RecGrows DEF RecType
<1>7. TypeOK'
  BY <1>1, <1>3, <1>6 DEF TypeOK, Docs
<1>8. LocalOK'
  BY <1>1, <1>6, RecLocal
<1>9. QED
  BY <1>7, <1>8

LEMMA TypeRecoverCrash ==
    ASSUME TypeInv, RecoverCrash
    PROVE  TypeInv'
<1>1. stage' \in [Attempts -> [Jobs -> StageType]]
  <2>1. CASE stage' = stage
    BY <2>1 DEF TypeInv, TypeOK
  <2>2. ASSUME NEW a \in Attempts, NEW job \in Jobs,
               stage' = [stage EXCEPT ![a][job].dir = Moved(a, job)]
        PROVE  stage' \in [Attempts -> [Jobs -> StageType]]
    <3> DEFINE st == [stage[a][job] EXCEPT !.dir = Moved(a, job)]
    <3>1. st \in StageType /\ stage' = [stage EXCEPT ![a][job] = st]
      BY <2>2, MovedType DEF TypeInv, TypeOK
    <3> HIDE DEF st
    <3>2. QED
      BY <3>1, StageUpdate DEF TypeInv, TypeOK
  <2>3. QED
    BY <2>1, <2>2 DEF RecoverCrash
<1>2. faults' \in Nat
  BY DEF RecoverCrash, TypeInv, TypeOK
<1>3. QED
  BY <1>1, <1>2, TypeRecoverOff DEF RecoverCrash

\* Every step keeps the type invariant.
LEMMA TypeNext == TypeInv /\ [Next]_vars => TypeInv'
<1> SUFFICES ASSUME TypeInv, [Next]_vars PROVE TypeInv'
  OBVIOUS
<1>1. CASE Tick
  BY <1>1, TypeTick
<1>2. ASSUME NEW a \in Attempts, Reserve(a) PROVE TypeInv'
  BY <1>2, TypeReserve
<1>3. ASSUME NEW a \in Attempts, OwnerStep(a) PROVE TypeInv'
  BY <1>3, TypeAdvance, TypeConclude, TypeBeginFinalization, TypeCreateStage,
     TypeLeaseStage, TypePublishObservation, TypeCommitArtifact,
     TypeRegisterObservation, TypeObservationFails, TypeWriteOutcome,
     TypePublishOutcome, TypeCommitFinalization, TypeAbort
     DEF OwnerStep
<1>4. ASSUME NEW a \in Attempts, Renew(a) PROVE TypeInv'
  BY <1>4, TypeRenew
<1>5. CASE RecoverStep
  <2>1. CASE RecoverBegin
    BY <2>1, TypeRecoverBegin
  <2>2. ASSUME NEW a \in Attempts, RecoverTake(a) PROVE TypeInv'
    BY <2>2, TypeRecoverTake
  <2>3. CASE RecoverJudge
    BY <2>3, TypeRecoverJudge
  <2>4. CASE RecoverImport
    BY <2>4, TypeRecoverFinish DEF RecoverImport
  <2>5. CASE RecoverPublish
    BY <2>5, TypeRecoverPublish
  <2>6. CASE RecoverCommit
    BY <2>6, TypeRecoverFinish DEF RecoverCommit
  <2>7. CASE RecoverFails \/ RecoverEnd
    BY <2>7, TypeRecoverOff DEF RecoverFails, RecoverEnd, TypeInv, TypeOK
  <2>8. ASSUME NEW a \in Attempts, NEW job \in Jobs, RecoverQuarantine(a, job)
        PROVE  TypeInv'
    BY <2>8, TypeRecoverQuarantine
  <2>9. QED
    BY <1>5, <2>1, <2>2, <2>3, <2>4, <2>5, <2>6, <2>7, <2>8 DEF RecoverStep
<1>6. CASE RecoverCrash
  BY <1>6, TypeRecoverCrash
<1>7. CASE UNCHANGED vars
  <2>1. TypeOK'
    BY <1>7, RecUnchanged DEF TypeInv, TypeOK, Docs, vars
  <2>2. LocalOK'
    BY <1>7 DEF TypeInv, LocalOK, Docs, vars
  <2>3. QED
    BY <2>1, <2>2 DEF TypeInv
<1>8. QED
  BY <1>1, <1>2, <1>3, <1>4, <1>5, <1>6, <1>7 DEF Next

\* Every row, lease, stage and document, and every owner and recovery pass, keeps
\* its declared shape through every operation of attempts.rs, publisher.rs and
\* recovery.rs; no operator is ever applied to a missing document or attempt.
THEOREM TypeCorrect == Spec => []TypeOK
<1>1. Init => TypeInv
  BY TypeInit
<1>2. TypeInv /\ [Next]_vars => TypeInv'
  BY TypeNext
<1>3. TypeInv => TypeOK
  BY DEF TypeInv
<1>4. QED
  BY <1>1, <1>2, <1>3, PTL DEF Spec

-----------------------------------------------------------------------------
(***************************************************************************)
(* Claims and acceptance.  OneAccepted is not inductive: a commit keeps it  *)
(* only because an acceptance needs the slot's claim, and the claim is      *)
(* evidence that nobody was accepted.  Together with ClaimHeldByFinalizer   *)
(* (a claim excludes an acceptance and sits with a finalizing attempt) and  *)
(* TypeInv (a document recovery wrote itself says "failed") it is.          *)
(***************************************************************************)
ClaimInv == ClaimHeldByFinalizer /\ OneAccepted

\* A step that neither claims, accepts, releases, nor moves a finalizing attempt
\* keeps both: every operation but BeginFinalization and the terminal commits.
LEMMA QuietStep ==
    ASSUME TypeInv, ClaimInv, claim' = claim,
           \A b \in Attempts :
              /\ lease[b].live => lease'[b].live
              /\ row'[b].state = "accepted" => row[b].state = "accepted"
              /\ row[b].state = "finalizing" => row'[b].state = "finalizing"
    PROVE  ClaimInv'
BY DEF TypeInv, TypeOK, ClaimInv, ClaimHeldByFinalizer, OneAccepted, Satisfied, Slot

\* The owner of an attempt may enter a new phase, also finalizing.
LEMMA QuietTransition ==
    ASSUME TypeInv, ClaimInv, NEW a \in Attempts, NEW to \in Active,
           NEW revision \in Nat, NEW updated \in Nat, NEW now \in Nat,
           Transition(a, revision, updated, to, now),
           row[a].state = "finalizing" => to = "finalizing",
           claim' = claim, lease' = lease
    PROVE  ClaimInv'
<1>1. /\ row'[a].state = to
      /\ \A b \in Attempts \ {a} : row'[b] = row[b]
  BY TransitionType DEF TypeInv, TypeOK
<1>2. to # "accepted"
  BY DEF Active, Phases
<1>3. QED
  BY <1>1, <1>2, QuietStep

LEMMA NoneIsNoAttempt == None \notin Attempts
BY StoreAssumption DEF Attempts

\* An attempt holds no claim but its own slot's.
LEMMA ClaimHolders ==
    ASSUME TypeOK, ClaimHeldByFinalizer, NEW s \in Slots, NEW a \in Attempts, claim[s] = a
    PROVE  Slot(a) = s
BY NoneIsNoAttempt DEF ClaimHeldByFinalizer

\* A terminal commit, by the owner or by recovery.
LEMMA CommitClaim ==
    ASSUME TypeInv, ClaimInv, NEW a \in Attempts, NEW doc \in Docs,
           NEW revision \in Nat, NEW updated \in Nat,
           CommitTerminal(a, revision, updated, doc),
           row[a].state = "finalizing",
           doc.state = "accepted" => claim[Slot(a)] = a
    PROVE  ClaimInv'
<1> USE DEF TypeInv
<1>1. /\ row'[a].state = doc.state
      /\ \A b \in Attempts \ {a} : row'[b] = row[b]
  BY CommitType
<1>2. /\ claim' = [claim EXCEPT ![Slot(a)] = IF @ = a THEN None ELSE @]
      /\ \A b \in Attempts \ {a} : lease'[b] = lease[b]
  BY DEF CommitTerminal, WithoutClaim, TypeOK
<1>3. Slot(a) \in Slots /\ doc.state \in Terminal
  BY SlotType DEF Docs
<1>4. ClaimHeldByFinalizer'
  <2> SUFFICES ASSUME NEW s \in Slots, claim'[s] # None
               PROVE  /\ Slot(claim'[s]) = s
                      /\ row'[claim'[s]].state = "finalizing"
                      /\ lease'[claim'[s]].live
                      /\ \A b \in Attempts : Slot(b) = s => row'[b].state # "accepted"
    BY DEF ClaimHeldByFinalizer, Satisfied, Slot
  <2> DEFINE c == claim[s]
  <2>1. claim'[s] = c /\ c # a /\ c # None /\ c \in Attempts
    BY <1>2, <1>3, ClaimHolders DEF TypeOK, ClaimInv
  <2>2. /\ Slot(c) = s /\ row[c].state = "finalizing" /\ lease[c].live
        /\ \A b \in Attempts : Slot(b) = s => row[b].state # "accepted"
    BY <2>1 DEF ClaimInv, ClaimHeldByFinalizer, Satisfied
  <2>3. Slot(a) = s => doc.state # "accepted"
    BY <2>1
  <2>4. QED
    BY <1>1, <1>2, <2>1, <2>2, <2>3
<1>5. OneAccepted'
  <2>1. doc.state = "accepted" =>
          \A b \in Attempts : Slot(b) = Slot(a) => row[b].state # "accepted"
    BY <1>3, NoneIsNoAttempt DEF ClaimInv, ClaimHeldByFinalizer, Satisfied
  <2>2. QED
    BY <1>1, <2>1 DEF ClaimInv, OneAccepted, Slot
<1>6. QED
  BY <1>4, <1>5 DEF ClaimInv

LEMMA ClaimInit == Init => ClaimInv
BY SlotType DEF Init, ClaimInv, ClaimHeldByFinalizer, OneAccepted

LEMMA ClaimOwner ==
    ASSUME TypeInv, ClaimInv, NEW a \in Attempts, Reserve(a) \/ OwnerStep(a) \/ Renew(a)
    PROVE  ClaimInv'
<1> USE DEF TypeInv
<1>1. CASE Reserve(a)
  <2>1. PICK now \in Sampled :
          /\ row' = [row EXCEPT ![a] =
                 [state |-> "reserved", revision |-> 0, updated |-> now]]
          /\ lease' = [lease EXCEPT ![a].live = TRUE, ![a].reservation = now + Lease]
    BY <1>1 DEF Reserve
  <2>2. claim' = claim /\ row[a].state = "none"
    BY <1>1 DEF Reserve
  <2>3. \A b \in Attempts : lease[b].live => lease'[b].live
    BY <2>1 DEF TypeOK, LeaseType
  <2>4. row'[a].state = "reserved" /\ \A b \in Attempts \ {a} : row'[b] = row[b]
    BY <2>1 DEF TypeOK
  <2>5. QED
    BY <2>2, <2>3, <2>4, QuietStep
<1>2. ASSUME NEW phase \in Phases, Advance(a, phase) PROVE ClaimInv'
  <2>1. PICK t \in Sampled :
          Transition(a, owner[a].revision, owner[a].updated, phase, t)
    BY <1>2 DEF Advance
  <2>2. row[a].state # "finalizing" /\ claim' = claim /\ lease' = lease
    BY <1>2 DEF Advance, Edges
  <2>3. t \in Nat /\ owner[a].revision \in Nat /\ owner[a].updated \in Nat
    BY SampleType, OwnerFields DEF TypeOK
  <2>4. QED
    BY <2>1, <2>2, <2>3, QuietTransition DEF Active
<1>3. ASSUME NEW outcome \in Outcomes, NEW observe \in BOOLEAN,
             Conclude(a, outcome, observe)
      PROVE  ClaimInv'
  <2>1. PICK t \in Sampled :
          Transition(a, owner[a].revision, owner[a].updated, "finalizing", t)
    BY <1>3 DEF Conclude
  <2>2. claim' = claim /\ lease' = lease
    BY <1>3 DEF Conclude
  <2>3. t \in Nat /\ owner[a].revision \in Nat /\ owner[a].updated \in Nat
    BY SampleType, OwnerFields DEF TypeOK
  <2>4. QED
    BY <2>1, <2>2, <2>3, QuietTransition DEF Active
<1>4. CASE BeginFinalization(a)
  <2> DEFINE s == Slot(a)
             wins == Disposition(a) # "superseded"
  <2>1. PICK t \in Sampled :
          LET now == Later(t, owner[a].updated) IN
          /\ Fence(a, now)
          /\ Transition(a, owner[a].revision, owner[a].updated, "finalizing", now)
          /\ claim' = IF wins THEN [claim EXCEPT ![s] = a] ELSE claim
          /\ lease' = IF wins THEN [lease EXCEPT ![a].acquired = now,
                                                 ![a].finalization = t + Lease]
                              ELSE lease
    BY <1>4 DEF BeginFinalization
  <2>2. t \in Nat /\ owner[a].revision \in Nat /\ owner[a].updated \in Nat
    BY SampleType, OwnerFields DEF TypeOK
  <2>3. Later(t, owner[a].updated) \in Nat
    BY <2>2, LaterType
  <2>4. /\ row'[a].state = "finalizing"
        /\ \A b \in Attempts \ {a} : row'[b] = row[b]
    BY <2>1, <2>2, <2>3, TransitionType DEF TypeOK, Active
  <2>5. CASE ~wins
    BY <2>1, <2>4, <2>5, QuietStep
  <2>6. CASE wins
    <3>1. claim[s] = None /\ \A b \in Attempts : Slot(b) = s => row[b].state # "accepted"
      BY <2>6 DEF Disposition, Satisfied
    <3>2. /\ claim' = [claim EXCEPT ![s] = a] /\ lease[a].live
          /\ \A b \in Attempts : lease'[b].live = lease[b].live
      BY <2>1, <2>6 DEF Fence, TypeOK, LeaseType
    <3>3. s \in Slots /\ \A b \in Attempts : row'[b].state = "accepted" => row[b].state = "accepted"
      BY <2>4, SlotType
    <3>4. ClaimHeldByFinalizer'
      <4> SUFFICES ASSUME NEW q \in Slots, claim'[q] # None
                   PROVE  /\ Slot(claim'[q]) = q
                          /\ row'[claim'[q]].state = "finalizing"
                          /\ lease'[claim'[q]].live
                          /\ \A b \in Attempts : Slot(b) = q => row'[b].state # "accepted"
        BY DEF ClaimHeldByFinalizer, Satisfied, Slot
      <4>1. CASE q = s
        BY <2>4, <3>1, <3>2, <3>3, <4>1 DEF TypeOK
      <4>2. CASE q # s
        <5>1. claim'[q] = claim[q] /\ claim[q] \in Attempts
          BY <3>2, <4>2 DEF TypeOK
        <5>2. /\ Slot(claim[q]) = q /\ row[claim[q]].state = "finalizing"
              /\ lease[claim[q]].live
              /\ \A b \in Attempts : Slot(b) = q => row[b].state # "accepted"
          BY <5>1 DEF ClaimInv, ClaimHeldByFinalizer, Satisfied
        <5>3. QED
          BY <2>4, <3>2, <3>3, <4>2, <5>1, <5>2
      <4>3. QED
        BY <4>1, <4>2
    <3>5. OneAccepted'
      BY <3>3 DEF ClaimInv, OneAccepted, Slot
    <3>6. QED
      BY <3>4, <3>5 DEF ClaimInv
  <2>7. QED
    BY <2>5, <2>6
<1>5. CASE CommitFinalization(a)
  <2> DEFINE doc == owner[a].doc
  <2>1. PICK t \in Current : ValidateFinalization(a, doc.state, Later(t, doc.finished))
    BY <1>5 DEF CommitFinalization
  <2>2. /\ CommitTerminal(a, owner[a].revision, owner[a].updated, doc)
        /\ owner[a].pc = "out_publish"
    BY <1>5 DEF CommitFinalization
  <2>3. owner[a].revision \in Nat /\ owner[a].updated \in Nat /\ doc \in Docs
    BY <2>2, OwnerFields DEF TypeOK, LocalOK
  <2>4. row[a].state = "finalizing" /\ (doc.state = "accepted" => claim[Slot(a)] = a)
    BY <2>1 DEF ValidateFinalization
  <2> HIDE DEF doc
  <2>5. QED
    BY <2>2, <2>3, <2>4, CommitClaim
<1>6. CASE Renew(a)
  <2>1. PICK t \in Sampled :
          lease' = [lease EXCEPT ![a].reservation = t + Lease,
               ![a].finalization = IF claim[Slot(a)] = a THEN t + Lease ELSE @]
    BY <1>6 DEF Renew
  <2>2. claim' = claim /\ row' = row
    BY <1>6 DEF Renew
  <2>3. \A b \in Attempts : lease'[b].live = lease[b].live
    BY <2>1 DEF TypeOK, LeaseType
  <2>4. QED
    BY <2>2, <2>3, QuietStep
<1>7. CASE \/ \E job \in Jobs : CreateStage(a, job) \/ LeaseStage(a, job)
           \/ PublishObservation(a) \/ CommitArtifact(a) \/ RegisterObservation(a)
           \/ ObservationFails(a) \/ WriteOutcome(a) \/ PublishOutcome(a) \/ Abort(a)
  <2>1. row' = row /\ claim' = claim /\ lease' = lease
    BY <1>7, Zenon
       DEF CreateStage, LeaseStage, PublishObservation, CommitArtifact,
           RegisterObservation, ObservationFails, WriteOutcome, PublishOutcome,
           Abort, db
  <2>2. QED
    BY <2>1, QuietStep
<1>8. QED
  BY <1>1, <1>2, <1>3, <1>4, <1>5, <1>6, <1>7 DEF OwnerStep

LEMMA ClaimRecovery ==
    ASSUME TypeInv, ClaimInv, RecoverStep \/ RecoverCrash
    PROVE  ClaimInv'
<1> USE DEF TypeInv
<1>1. ASSUME NEW a \in Attempts, RecoverTake(a) PROVE ClaimInv'
  <2>1. PICK t \in Current :
          \/ row' = row
          \/ Transition(a, row[a].revision, row[a].updated, "finalizing",
                        Later(t, rec.now))
    BY <1>1 DEF RecoverTake
  <2>2. claim' = claim /\ lease' = lease
    BY <1>1 DEF RecoverTake
  <2>3. t \in Nat /\ rec.now \in Nat /\ row[a].revision \in Nat /\ row[a].updated \in Nat
    BY SampleType, RecFields DEF TypeOK, RowType
  <2>4. Later(t, rec.now) \in Nat
    BY <2>3, LaterType
  <2>5. QED
    BY <2>1, <2>2, <2>3, <2>4, QuietStep, QuietTransition DEF Active
<1>2. CASE RecoverImport \/ RecoverCommit
  <2>1. /\ rec.pc \in {"import", "commit"}
        /\ CommitTerminal(rec.attempt, rec.revision, rec.updated, rec.doc)
    BY <1>2 DEF RecoverImport, RecoverCommit
  <2>2. /\ rec.attempt \in Attempts /\ rec.doc \in Docs
        /\ rec.revision \in Nat /\ rec.updated \in Nat
    BY <2>1, RecFields DEF TypeOK, LocalOK
  <2>3. row[rec.attempt].state = "finalizing"
    BY <1>2 DEF RecoverImport, RecoverCommit, RequireExpired
  <2>4. rec.doc.state = "accepted" => claim[Slot(rec.attempt)] = rec.attempt
    <3>1. CASE RecoverImport
      <4>1. PICK t \in Current :
              ValidOrphan(rec.doc, Later(Later(t, rec.now), rec.checked))
        BY <3>1 DEF RecoverImport
      <4>2. QED
        BY <4>1 DEF ValidOrphan
    <3>2. CASE RecoverCommit
      BY <3>2 DEF RecoverCommit, LocalOK
    <3>3. QED
      BY <1>2, <3>1, <3>2
  <2>5. QED
    BY <2>1, <2>2, <2>3, <2>4, CommitClaim
<1>3. CASE UNCHANGED <<row, claim, lease>>
  BY <1>3, QuietStep
<1>4. QED
  BY <1>1, <1>2, <1>3
     DEF RecoverStep, RecoverBegin, RecoverJudge, RecoverPublish, RecoverFails,
         RecoverQuarantine, RecoverEnd, RecoverCrash, db

LEMMA ClaimNext == TypeInv /\ ClaimInv /\ [Next]_vars => ClaimInv'
<1> SUFFICES ASSUME TypeInv, ClaimInv, [Next]_vars PROVE ClaimInv'
  OBVIOUS
<1>1. CASE Tick \/ UNCHANGED vars
  <2>1. row' = row /\ claim' = claim /\ lease' = lease
    BY <1>1 DEF Tick, db, vars
  <2>2. QED
    BY <2>1, QuietStep
<1>2. ASSUME NEW a \in Attempts, Reserve(a) \/ OwnerStep(a) \/ Renew(a) PROVE ClaimInv'
  BY <1>2, ClaimOwner
<1>3. CASE RecoverStep \/ RecoverCrash
  BY <1>3, ClaimRecovery
<1>4. QED
  BY <1>1, <1>2, <1>3 DEF Next

\* A claim always sits with a finalizing attempt of its own slot whose leases are
\* unreleased, and never beside an acceptance: begin_finalization, renew, the
\* terminal commits and recovery cannot leave a stale claim behind, which would
\* supersede every later attempt of the slot.
THEOREM ClaimsAreHeld == Spec => []ClaimHeldByFinalizer
<1>1. Init => TypeInv /\ ClaimInv
  BY TypeInit, ClaimInit
<1>2. TypeInv /\ ClaimInv /\ [Next]_vars => (TypeInv /\ ClaimInv)'
  BY TypeNext, ClaimNext
<1>3. TypeInv /\ ClaimInv => ClaimHeldByFinalizer
  BY DEF ClaimInv
<1>4. QED
  BY <1>1, <1>2, <1>3, PTL DEF Spec

\* No slot is ever accepted twice, for any number of concurrent attempts, any
\* clock behaviour and any number of interrupted recovery passes, without the
\* help of the schema's unique index one_accepted_attempt_per_slot.
THEOREM AcceptedOnce == Spec => []OneAccepted
<1>1. Init => TypeInv /\ ClaimInv
  BY TypeInit, ClaimInit
<1>2. TypeInv /\ ClaimInv /\ [Next]_vars => (TypeInv /\ ClaimInv)'
  BY TypeNext, ClaimNext
<1>3. TypeInv /\ ClaimInv => OneAccepted
  BY DEF ClaimInv
<1>4. QED
  BY <1>1, <1>2, <1>3, PTL DEF Spec

-----------------------------------------------------------------------------
(***************************************************************************)
(* Selections.                                                              *)
(***************************************************************************)
SelectionKept ==
    \A s \in Slots, p \in Points :
        selected[s][p] # None => selected'[s][p] = selected[s][p]

LEMMA CommitKeepsSelections ==
    ASSUME TypeInv, NEW a \in Attempts, NEW outcome \in Terminal,
           selected' = TerminalSelection(a, outcome)
    PROVE  SelectionKept
BY SlotType DEF TypeInv, TypeOK, TerminalSelection, SelectOnce, SelectionKept

LEMMA SelectionsNext == TypeInv /\ [Next]_vars => SelectionKept
<1> SUFFICES ASSUME TypeInv, [Next]_vars PROVE SelectionKept
  OBVIOUS
<1> USE DEF TypeInv
<1>1. ASSUME selected' = selected PROVE SelectionKept
  BY <1>1 DEF SelectionKept
<1>2. ASSUME NEW a \in Attempts, RegisterObservation(a) PROVE SelectionKept
  <2>1. PICK t \in Sampled, p \in Points :
          selected' = [selected EXCEPT ![Slot(a)][p] =
              IF owner[a].plan = "accepted" THEN SelectOnce(@, a) ELSE @]
    BY <1>2 DEF RegisterObservation
  <2>2. QED
    BY <2>1, SlotType DEF SelectOnce, SelectionKept, TypeOK
<1>3. ASSUME NEW a \in Attempts, CommitFinalization(a) PROVE SelectionKept
  <2>1. selected' = TerminalSelection(a, owner[a].doc.state) /\ owner[a].doc \in Docs
    BY <1>3 DEF CommitFinalization, CommitTerminal, LocalOK
  <2>2. QED
    BY <2>1, CommitKeepsSelections DEF Docs
<1>4. CASE RecoverImport \/ RecoverCommit
  <2>1. /\ selected' = TerminalSelection(rec.attempt, rec.doc.state)
        /\ rec.attempt \in Attempts /\ rec.doc \in Docs
    BY <1>4 DEF RecoverImport, RecoverCommit, CommitTerminal, LocalOK
  <2>2. QED
    BY <2>1, CommitKeepsSelections DEF Docs
<1>5. ASSUME NEW a \in Attempts, OwnerStep(a) PROVE SelectionKept
  <2>1. \/ selected' = selected
        \/ RegisterObservation(a)
        \/ CommitFinalization(a)
    BY <1>5, Zenon
       DEF OwnerStep, Advance, Conclude, BeginFinalization, CreateStage, LeaseStage,
           PublishObservation, CommitArtifact, ObservationFails, WriteOutcome,
           PublishOutcome, Abort, db
  <2>2. QED
    BY <1>1, <1>2, <1>3, <2>1
<1>6. CASE RecoverStep
  <2>1. selected' = selected \/ RecoverImport \/ RecoverCommit
    BY <1>6, Zenon
       DEF RecoverStep, RecoverBegin, RecoverTake, RecoverJudge, RecoverPublish,
           RecoverFails, RecoverQuarantine, RecoverEnd, db
  <2>2. QED
    BY <1>1, <1>4, <2>1
<1>7. ASSUME NEW a \in Attempts, Reserve(a) \/ Renew(a) PROVE SelectionKept
  BY <1>1, <1>7 DEF Reserve, Renew
<1>8. CASE Tick \/ RecoverCrash \/ UNCHANGED vars
  BY <1>1, <1>8 DEF Tick, RecoverCrash, db, vars
<1>9. QED
  BY <1>5, <1>6, <1>7, <1>8 DEF Next

\* No step of any owner or recovery pass replaces or removes a selection:
\* selected_observations is insert-only by the code's own ON CONFLICT DO NOTHING,
\* not by the schema's triggers.
THEOREM SelectionsArePermanent == Spec => SelectionPermanent
<1>1. Init => TypeInv
  BY TypeInit
<1>2. TypeInv /\ [Next]_vars => TypeInv'
  BY TypeNext
<1>3. TypeInv /\ [Next]_vars =>
        [\A s \in Slots, p \in Points :
           selected[s][p] # None => selected'[s][p] = selected[s][p]]_vars
  BY SelectionsNext DEF SelectionKept
<1>4. QED
  BY <1>1, <1>2, <1>3, PTL DEF Spec, SelectionPermanent
=============================================================================
