----------------------- MODULE RunStoreOutcomes_proofs -----------------------
(***************************************************************************)
(* Proofs about what RunStore publishes, for every set of slots, retries    *)
(* and observations, every lease and every behaviour of the clocks: stages  *)
(* stay with their publishers, the document a finished attempt points at    *)
(* describes its row for ever, a success is earned, a loser's document does *)
(* not change under it, and recovery does not overrule a sole success.      *)
(*                                                                          *)
(* The heart is Standing: while an attempt is unfinished, a document that   *)
(* says it was accepted is evidence recovery would accept, because its      *)
(* attempt holds the claim and nobody else can then select or move its row. *)
(***************************************************************************)
EXTENDS RunStore_proofs

Writing == {"out_write", "out_publish"}

\* The stages of a recovery pass: nobody creates one while it runs, and the
\* ones it has listed are not locked.
StageInv ==
    /\ StageStaysWithPublisher
    /\ rec.pc # "off" =>
         /\ ExclusiveLock
         /\ \A sj \in rec.stages : stage[sj[1]][sj[2]].dir # "locked"

\* Only registered observations are selected, and only for their own slot.
SelectedInv ==
    \A s \in Slots, p \in Points :
        LET a == selected[s][p] IN
        a # None => Slot(a) = s /\ obs[a][p] \in Registered

-----------------------------------------------------------------------------
(***************************************************************************)
(* What is true of one attempt.                                             *)
(***************************************************************************)
DocsOf(a) == {d \in published : d.attempt = a}

\* A live owner, its row and its claim.
OwnerSees(a) ==
    LET o == owner[a] IN
    o.pc \in Alive =>
        /\ row[a].state # "none"
        /\ o.revision <= row[a].revision
        /\ o.revision = row[a].revision => o.updated = row[a].updated
        /\ o.revision = row[a].revision /\ (o.pc = "work" \/ o.plan = None) =>
              row[a].state # "finalizing"
        /\ claim[Slot(a)] = a => o.plan = "accepted" /\ lease[a].acquired <= o.updated
        /\ o.pc = "out_stage" => o.updated <= o.at
        /\ o.pc # "out_publish" => \A d \in DocsOf(a) : d.by = "recovery"

\* A document that says its unfinished attempt was accepted.
Standing(a, d) ==
    d.state = "accepted" /\ row[a].state \in Active =>
        /\ row[a].state = "finalizing"
        /\ row[a].revision = d.revision
        /\ row[a].updated <= d.finished
        /\ claim[Slot(a)] = a
        /\ lease[a].acquired <= d.finished
        /\ d.finished < lease[a].finalization
        /\ d.finished < lease[a].reservation
        /\ ValidateAcceptance(a)
        /\ d.coordination = CoordinationSnapshot(a, "accepted")

\* The document an owner is about to publish or to commit.
OwnerWrote(a) ==
    LET o == owner[a] IN
    o.pc \in Writing =>
        /\ o.doc.attempt = a
        /\ o.doc.by = "owner"
        /\ o.doc.state = o.plan
        /\ o.doc.revision = o.revision
        /\ o.updated <= o.doc.finished
        /\ Standing(a, o.doc)
        /\ o.plan \in {"failed", "superseded"} =>
              o.doc.coordination = CoordinationSnapshot(a, o.plan)
        /\ o.pc = "out_publish" => o.doc \in published

Documented(a) ==
    \A d \in DocsOf(a) :
        /\ d.by = "recovery" => d.state = "failed"
        /\ row[a].state # "none"
        /\ Standing(a, d)

\* The parts of ReceiptDescribesRow and SuccessIsEarned; what the document of an
\* accepted stream says of the records is left to RunArchive_proofs.
Lasts(a, outcome) ==
    outcome # "censored" /\ ~(outcome = "accepted" /\ Slot(a) \in Streams)

Described(a) ==
    /\ row[a].state \in Terminal <=> receipt[a] # None
    /\ row[a].state \in Terminal =>
         LET doc == receipt[a] IN
         /\ doc \in DocsOf(a)
         /\ doc.state = row[a].state
         /\ doc.finished = row[a].updated
         /\ doc.revision + 1 = row[a].revision
         /\ Lasts(a, doc.state) =>
              doc.coordination = CoordinationSnapshot(a, doc.state)

Earned(a) ==
    row[a].state = "accepted" =>
        LET doc == receipt[a] IN
        /\ doc.by = "owner"
        /\ lease[a].acquired <= doc.finished
        /\ doc.finished < lease[a].reservation
        /\ doc.finished < lease[a].finalization
        /\ IF Slot(a) \in Profiles
             THEN \A p \in Points : selected[Slot(a)][p] =
                      IF obs[a][p] \in Registered THEN a ELSE None
             ELSE /\ obs[a][1] = "complete"
                  /\ selected[Slot(a)][1] # None

About(a) ==
    OwnerSees(a) /\ OwnerWrote(a) /\ Documented(a) /\ Described(a) /\ Earned(a)

-----------------------------------------------------------------------------
(***************************************************************************)
(* What is true of a recovery pass.                                         *)
(***************************************************************************)
\* More than one document speaks about an attempt, or none for its acceptance.
Contested(a) ==
    \A e \in DocsOf(a) : e.state = "accepted" => \E f \in DocsOf(a) : f # e

\* The attempts a pass has still to judge, whose documents are all orphans of it.
Judging == rec.todo \cup (IF rec.pc = "judge" THEN {rec.attempt} ELSE {})

Deciding == {"judge", "import", "fail", "commit"}

RecoveryInv ==
    /\ rec.pc \notin Deciding => rec.attempt = None
    /\ rec.pc = "off" => rec.todo = {}
    /\ rec.attempt \notin rec.todo
    /\ \A a \in Attempts : a \in rec.todo \cup {rec.attempt} =>
          owner[a].pc \notin Staged \cup Creating
    /\ \A d \in published : d.attempt \in Judging => d \in rec.orphans
    /\ \A a \in rec.todo : row[a].state # "none"
    /\ rec.pc \in Deciding =>
         LET a == rec.attempt IN
         /\ rec.revision <= row[a].revision
         /\ rec.revision = row[a].revision => rec.updated = row[a].updated
         /\ row[a].state # "none"
    /\ rec.pc \in {"import", "commit"} => rec.doc \in DocsOf(rec.attempt)
    /\ rec.pc = "fail" => Contested(rec.attempt)
    /\ rec.pc = "commit" =>
         /\ rec.doc.by = "recovery"
         /\ rec.doc.revision = rec.revision
         /\ rec.updated <= rec.doc.finished

IInv ==
    /\ TypeInv /\ ClaimInv
    /\ StageInv
    /\ SelectedInv
    /\ \A a \in Attempts : About(a)
    /\ RecoveryInv

-----------------------------------------------------------------------------
(***************************************************************************)
(* What each step of an owner does, field by field.                         *)
(***************************************************************************)
\* Everything outside attempt a that an owner's step leaves alone.
Alone(a) ==
    /\ \A b \in Attempts \ {a} :
         /\ owner'[b] = owner[b] /\ row'[b] = row[b] /\ lease'[b] = lease[b]
         /\ receipt'[b] = receipt[b] /\ obs'[b] = obs[b] /\ stage'[b] = stage[b]
    /\ rec' = rec

LEMMA ReserveFacts ==
    ASSUME TypeInv, NEW a \in Attempts, Reserve(a)
    PROVE  /\ Alone(a)
           /\ UNCHANGED <<claim, selected, published, receipt, obs, stage>>
           /\ row[a].state = "none" /\ row'[a].state = "reserved"
           /\ row'[a].revision = 0 /\ row'[a].updated = owner'[a].updated
           /\ owner'[a].pc = "work" /\ owner'[a].plan = None
           /\ owner'[a].revision = 0
<1>1. PICK now \in Sampled :
        /\ row' = [row EXCEPT ![a] =
               [state |-> "reserved", revision |-> 0, updated |-> now]]
        /\ lease' = [lease EXCEPT ![a].live = TRUE, ![a].reservation = now + Lease]
        /\ owner' = [owner EXCEPT ![a] = [NoOwner EXCEPT
               !.pc = "work", !.updated = now]]
  BY DEF Reserve
<1>2. /\ row[a].state = "none"
      /\ UNCHANGED <<claim, selected, published, receipt, obs, stage, rec>>
  BY DEF Reserve
<1>3. \A b \in Attempts \ {a} :
        lease'[b] = lease[b] /\ owner'[b] = owner[b] /\ row'[b] = row[b]
  BY <1>1 DEF TypeInv, TypeOK
<1>4. row'[a] = [state |-> "reserved", revision |-> 0, updated |-> now]
  BY <1>1 DEF TypeInv, TypeOK
<1>5. owner'[a] = [NoOwner EXCEPT !.pc = "work", !.updated = now]
  BY <1>1 DEF TypeInv, TypeOK
<1>6. /\ owner'[a].pc = "work" /\ owner'[a].plan = None
      /\ owner'[a].revision = 0 /\ owner'[a].updated = now
  BY <1>5 DEF NoOwner
<1> QED BY <1>2, <1>3, <1>4, <1>6 DEF Alone

\* Entering a phase or finalizing.
Moves(a, plan, pcs) ==
    /\ Alone(a)
    /\ UNCHANGED <<selected, published, receipt, obs, stage>>
    /\ owner[a].pc = "work"
    /\ row[a].state \in Active /\ row[a].revision = owner[a].revision
    /\ row'[a].state \in Active /\ row'[a].revision = row[a].revision + 1
    /\ row'[a].revision = owner'[a].revision /\ row'[a].updated = owner'[a].updated
    /\ owner'[a].plan = plan /\ owner'[a].pc \in pcs

LEMMA TransitionFacts ==
    ASSUME TypeInv, NEW a \in Attempts, NEW to \in Active \cup Terminal,
           NEW revision \in Nat, NEW updated \in Nat, NEW now \in Nat,
           Transition(a, revision, updated, to, now)
    PROVE  /\ row'[a].state = to /\ row'[a].revision = revision + 1
           /\ row'[a].updated = Later(now, updated)
           /\ row'[a].updated \in Nat
           /\ \A b \in Attempts \ {a} : row'[b] = row[b]
<1>1. row'[a] = [state |-> to, revision |-> revision + 1, updated |-> Later(now, updated)]
  BY DEF Transition, TypeInv, TypeOK
<1>2. \A b \in Attempts \ {a} : row'[b] = row[b]
  BY DEF Transition, TypeInv, TypeOK
<1> QED BY <1>1, <1>2, LaterType

LEMMA AdvanceFacts ==
    ASSUME TypeInv, NEW a \in Attempts, NEW phase \in Phases, Advance(a, phase)
    PROVE  /\ Moves(a, None, {"work"}) /\ row'[a].state # "finalizing"
           /\ owner[a].plan = None
           /\ UNCHANGED <<claim, lease>>
<1>1. PICK t \in Sampled :
        /\ Transition(a, owner[a].revision, owner[a].updated, phase, t)
        /\ owner[a].pc = "work" /\ owner[a].plan = None
        /\ row[a].state \in Active /\ row[a].revision = owner[a].revision
        /\ owner' = [owner EXCEPT ![a].revision = @ + 1,
                                  ![a].updated = row'[a].updated]
        /\ UNCHANGED <<clock, lease, claim, stage, obs, selected, published,
                       receipt, rec, faults>>
  BY DEF Advance, Fence
<1>2. /\ t \in Nat /\ owner[a] \in OwnerType /\ owner[a].revision \in Nat
      /\ owner[a].updated \in Nat
  BY SampleType, OwnerFields DEF TypeInv, TypeOK
<1>3. /\ row'[a].state = phase /\ row'[a].revision = owner[a].revision + 1
      /\ \A b \in Attempts \ {a} : row'[b] = row[b]
  BY <1>1, <1>2, TransitionFacts DEF Active
<1>4. /\ owner'[a].pc = "work" /\ owner'[a].plan = None
      /\ owner'[a].revision = owner[a].revision + 1
      /\ owner'[a].updated = row'[a].updated
      /\ \A b \in Attempts \ {a} : owner'[b] = owner[b]
  BY <1>1, <1>2 DEF TypeInv, TypeOK, OwnerType
<1>5. phase \in Active /\ phase # "finalizing"
  BY DEF Phases, Active
<1> QED BY <1>1, <1>3, <1>4, <1>5 DEF Moves, Alone

LEMMA ConcludeFacts ==
    ASSUME TypeInv, NEW a \in Attempts, NEW outcome \in Outcomes,
           NEW observe \in BOOLEAN, Conclude(a, outcome, observe)
    PROVE  /\ Moves(a, outcome, {"observe", "final"})
           /\ owner[a].plan \in {None, outcome} /\ outcome \in {"failed", "censored"}
           /\ UNCHANGED <<claim, lease>>
<1>1. PICK t \in Sampled :
        /\ Transition(a, owner[a].revision, owner[a].updated, "finalizing", t)
        /\ owner[a].pc = "work" /\ owner[a].plan \in {None, outcome}
        /\ row[a].state \in Active /\ row[a].revision = owner[a].revision
        /\ owner' = [owner EXCEPT ![a].revision = @ + 1,
                                  ![a].updated = row'[a].updated,
                                  ![a].plan = outcome,
                                  ![a].pc = IF observe THEN "observe" ELSE "final"]
        /\ UNCHANGED <<clock, lease, claim, stage, obs, selected, published,
                       receipt, rec, faults>>
  BY DEF Conclude, Fence
<1>2. /\ t \in Nat /\ owner[a] \in OwnerType /\ owner[a].revision \in Nat
      /\ owner[a].updated \in Nat
  BY SampleType, OwnerFields DEF TypeInv, TypeOK
<1>3. /\ row'[a].state = "finalizing" /\ row'[a].revision = owner[a].revision + 1
      /\ \A b \in Attempts \ {a} : row'[b] = row[b]
  BY ZenonT(40), <1>1, <1>2, TransitionFacts DEF Active
<1>4. /\ owner'[a].pc \in {"observe", "final"} /\ owner'[a].plan = outcome
      /\ owner'[a].revision = owner[a].revision + 1
      /\ owner'[a].updated = row'[a].updated
      /\ \A b \in Attempts \ {a} : owner'[b] = owner[b]
  BY <1>1, <1>2 DEF TypeInv, TypeOK, OwnerType
<1>5. outcome \in {"failed", "censored"}
  BY StoreAssumption
<1> QED BY <1>1, <1>3, <1>4, <1>5 DEF Moves, Alone, Active

LEMMA BeginFacts ==
    ASSUME TypeInv, NEW a \in Attempts, BeginFinalization(a)
    PROVE  /\ Moves(a, Disposition(a), {"observe", "final"})
           /\ owner[a].plan = None
           /\ IF Disposition(a) = "accepted"
              THEN /\ claim' = [claim EXCEPT ![Slot(a)] = a]
                   /\ claim[Slot(a)] = None
                   /\ lease'[a].acquired <= owner'[a].updated
              ELSE UNCHANGED <<claim, lease>>
<1> DEFINE wins == Disposition(a) # "superseded"
<1>1. PICK t \in Sampled :
        /\ Transition(a, owner[a].revision, owner[a].updated, "finalizing",
                      Later(t, owner[a].updated))
        /\ owner[a].pc = "work" /\ owner[a].plan = None
        /\ row[a].state \in Active /\ row[a].revision = owner[a].revision
        /\ claim' = IF wins THEN [claim EXCEPT ![Slot(a)] = a] ELSE claim
        /\ lease' = IF wins THEN [lease EXCEPT ![a].acquired = Later(t, owner[a].updated),
                                               ![a].finalization = t + Lease]
                            ELSE lease
        /\ owner' = [owner EXCEPT ![a].revision = @ + 1,
                                  ![a].updated = row'[a].updated,
                                  ![a].plan = Disposition(a),
                                  ![a].pc = IF Slot(a) \in Profiles THEN "final" ELSE "observe"]
        /\ UNCHANGED <<clock, stage, obs, selected, published, receipt, rec,
                       faults>>
  BY DEF BeginFinalization, Fence
<1>2. /\ t \in Nat /\ owner[a] \in OwnerType /\ owner[a].revision \in Nat
      /\ owner[a].updated \in Nat /\ Later(t, owner[a].updated) \in Nat
  BY SampleType, OwnerFields, LaterType DEF TypeInv, TypeOK
<1>0. PICK now : now = Later(t, owner[a].updated)
  OBVIOUS
<1>a. now \in Nat /\ Transition(a, owner[a].revision, owner[a].updated, "finalizing", now)
  BY <1>0, <1>1, <1>2
<1>3. /\ row'[a].state = "finalizing" /\ row'[a].revision = owner[a].revision + 1
      /\ row'[a].updated = Later(now, owner[a].updated)
      /\ \A b \in Attempts \ {a} : row'[b] = row[b]
  <2>1. PICK revision \in Nat, updated \in Nat :
          revision = owner[a].revision /\ updated = owner[a].updated
    BY <1>2
  <2>2. now \in Nat /\ Transition(a, revision, updated, "finalizing", now)
    BY <1>a, <2>1
  <2>3. "finalizing" \in Active \cup Terminal
    BY DEF Active
  <2> QED BY <2>1, <2>2, <2>3, TransitionFacts
<1>4. Later(t, owner[a].updated) <= row'[a].updated
  BY <1>0, <1>2, <1>3, <1>a, LaterType
<1>5. /\ owner'[a].pc \in {"observe", "final"} /\ owner'[a].plan = Disposition(a)
      /\ owner'[a].revision = owner[a].revision + 1
      /\ owner'[a].updated = row'[a].updated
      /\ \A b \in Attempts \ {a} : owner'[b] = owner[b]
  <2> PICK d : d = Disposition(a)
    OBVIOUS
  <2> QED BY <1>1, <1>2 DEF TypeInv, TypeOK, OwnerType
<1>6. Disposition(a) = "accepted" <=> wins
  BY DispositionType
<1>7. /\ \A b \in Attempts \ {a} : lease'[b] = lease[b]
      /\ wins => lease'[a].acquired = Later(t, owner[a].updated)
  BY <1>1, <1>2 DEF TypeInv, TypeOK, LeaseType
<1>8. wins => claim[Slot(a)] = None
  BY DEF Disposition
<1> QED BY <1>1, <1>3, <1>4, <1>5, <1>6, <1>7, <1>8 DEF Moves, Alone, Active

\* Observations may be written, but none becomes registered.
Same(a) ==
    \A p \in Points :
        \/ obs'[a][p] = obs[a][p]
        \/ obs[a][p] \notin Registered /\ obs'[a][p] \notin Registered

\* A step of a live owner outside the database.
Quiet(a) ==
    /\ Alone(a)
    /\ UNCHANGED <<row, lease, claim, selected, receipt, published>>
    /\ owner[a].pc \in Alive

Keeps(a) ==
    /\ owner'[a].revision = owner[a].revision /\ owner'[a].updated = owner[a].updated
    /\ owner'[a].plan = owner[a].plan

LEMMA CreateFacts ==
    ASSUME TypeInv, NEW a \in Attempts, NEW job \in Jobs, CreateStage(a, job)
    PROVE  /\ Quiet(a) /\ Same(a) /\ Keeps(a)
           /\ rec.pc = "off"
           /\ owner[a].pc \in {"work", "observe", "final"}
           /\ owner'[a].pc = IF job = "observation" THEN "obs_create" ELSE "out_create"
           /\ owner[a].pc = "work" => owner[a].plan = None
           /\ stage'[a][job].dir = "private"
<1> DEFINE c == IF job = "observation" THEN "obs_create" ELSE "out_create"
           st == [NoStage EXCEPT !.dir = "private"]
<1>1. /\ owner' = [owner EXCEPT ![a].pc = c]
      /\ stage' = [stage EXCEPT ![a][job] = st]
      /\ rec.pc = "off" /\ Wants(a, job)
      /\ UNCHANGED <<row, lease, claim, selected, receipt, obs, published, rec>>
  BY DEF CreateStage, db
<1>2. owner[a] \in OwnerType
  BY OwnerFields DEF TypeInv, TypeOK
<1>3. st.dir = "private"
  BY DEF NoStage
<1> HIDE DEF c, st
<1>4. /\ owner'[a].pc = c /\ Keeps(a)
      /\ \A b \in Attempts \ {a} : owner'[b] = owner[b]
  BY <1>1, <1>2 DEF TypeInv, TypeOK, OwnerType, Keeps
<1>5. stage'[a][job] = st /\ \A b \in Attempts \ {a} : stage'[b] = stage[b]
  BY <1>1 DEF TypeInv, TypeOK
<1>6. /\ owner[a].pc \in {"work", "observe", "final"}
      /\ owner[a].pc = "work" => owner[a].plan = None
  BY <1>1 DEF Wants
<1> QED BY <1>1, <1>3, <1>4, <1>5, <1>6 DEF Quiet, Alone, Same, Alive, c

LEMMA LeaseFacts ==
    ASSUME TypeInv, NEW a \in Attempts, NEW job \in Jobs, LeaseStage(a, job)
    PROVE  /\ Quiet(a) /\ Same(a) /\ Keeps(a)
           /\ owner[a].pc = IF job = "observation" THEN "obs_create" ELSE "out_create"
           /\ owner'[a].pc = IF job = "observation" THEN "obs_stage" ELSE "out_stage"
           /\ owner'[a].updated <= owner'[a].at
           /\ stage'[a][job].dir = "locked"
<1> DEFINE c == IF job = "observation" THEN "obs_stage" ELSE "out_stage"
           st == [dir |-> "locked", lease |-> "live", expires |-> lease[a].reservation]
<1>1. PICK t \in Sampled :
        owner' = [owner EXCEPT ![a].pc = c, ![a].at = Later(t, owner[a].updated)]
  BY DEF LeaseStage
<1>2. /\ stage' = [stage EXCEPT ![a][job] = st]
      /\ owner[a].pc = IF job = "observation" THEN "obs_create" ELSE "out_create"
      /\ UNCHANGED <<row, lease, claim, selected, receipt, obs, published, rec>>
  BY Zenon DEF LeaseStage, db
<1>3. PICK at : at = Later(t, owner[a].updated)
  OBVIOUS
<1>4. /\ owner[a] \in OwnerType /\ owner[a].updated <= at
  BY <1>3, SampleType, OwnerFields, LaterType DEF TypeInv, TypeOK
<1>5. st.dir = "locked"
  OBVIOUS
<1> HIDE DEF c, st
<1>6. owner' = [owner EXCEPT ![a].pc = c, ![a].at = at]
  BY <1>1, <1>3
<1>7. /\ owner'[a].pc = c /\ owner'[a].at = at /\ Keeps(a)
      /\ \A b \in Attempts \ {a} : owner'[b] = owner[b]
  BY <1>4, <1>6 DEF TypeInv, TypeOK, OwnerType, Keeps
<1>8. stage'[a][job] = st /\ \A b \in Attempts \ {a} : stage'[b] = stage[b]
  BY <1>2 DEF TypeInv, TypeOK
<1> QED BY <1>2, <1>4, <1>5, <1>7, <1>8 DEF Quiet, Alone, Same, Alive, Creating, c, Keeps

LEMMA PublishObservationFacts ==
    ASSUME TypeInv, NEW a \in Attempts, PublishObservation(a)
    PROVE  /\ Quiet(a) /\ Same(a) /\ Keeps(a)
           /\ owner[a].pc = "obs_stage" /\ owner'[a].pc = "obs_publish"
           /\ stage' = stage
<1>1. PICK p \in Points :
        /\ IsNext(a, p)
        /\ obs' = [obs EXCEPT ![a][p] = "disk"]
  BY DEF PublishObservation
<1>2. /\ owner[a].pc = "obs_stage"
      /\ owner' = [owner EXCEPT ![a].pc = "obs_publish"]
      /\ UNCHANGED <<row, lease, claim, selected, receipt, published, rec, stage>>
  BY DEF PublishObservation, db
<1>3. /\ owner'[a].pc = "obs_publish" /\ Keeps(a)
      /\ \A b \in Attempts \ {a} : owner'[b] = owner[b]
  BY <1>2 DEF TypeInv, TypeOK, OwnerType, Keeps
<1>4. Same(a) /\ \A b \in Attempts \ {a} : obs'[b] = obs[b]
  BY <1>1 DEF TypeInv, TypeOK, Same, IsNext, Registered
<1> QED BY <1>2, <1>3, <1>4 DEF Quiet, Alone, Alive, Staged

LEMMA CommitArtifactFacts ==
    ASSUME TypeInv, NEW a \in Attempts, CommitArtifact(a)
    PROVE  /\ Quiet(a) /\ Same(a) /\ Keeps(a)
           /\ owner[a].pc = "obs_publish" /\ owner'[a].pc = "obs_register"
<1>1. PICK t \in Current, p \in Points, rest \in Cleanups :
        /\ IsNext(a, p)
        /\ obs' = [obs EXCEPT ![a][p] = "leased"]
        /\ stage' = [stage EXCEPT ![a]["observation"] = [Release(@) EXCEPT !.dir = rest]]
  BY DEF CommitArtifact
<1>2. /\ owner[a].pc = "obs_publish"
      /\ owner' = [owner EXCEPT ![a].pc = "obs_register", ![a].at = 0]
      /\ UNCHANGED <<row, lease, claim, selected, receipt, published, rec>>
  BY DEF CommitArtifact, db
<1>3. /\ owner'[a].pc = "obs_register" /\ Keeps(a)
      /\ \A b \in Attempts \ {a} : owner'[b] = owner[b]
  BY <1>2 DEF TypeInv, TypeOK, OwnerType, Keeps
<1>4. Same(a) /\ \A b \in Attempts \ {a} : obs'[b] = obs[b]
  BY <1>1 DEF TypeInv, TypeOK, Same, IsNext, Registered
<1>5. \A b \in Attempts \ {a} : stage'[b] = stage[b]
  BY <1>1 DEF TypeInv, TypeOK
<1> QED BY <1>2, <1>3, <1>4, <1>5 DEF Quiet, Alone, Alive, Staged

LEMMA ObservationFailsFacts ==
    ASSUME TypeInv, NEW a \in Attempts, ObservationFails(a)
    PROVE  /\ Quiet(a) /\ Same(a)
           /\ owner[a].plan = None /\ owner'[a].plan = "failed"
           /\ owner'[a].pc = "work"
           /\ owner'[a].revision = owner[a].revision
           /\ owner'[a].updated = owner[a].updated
<1>1. /\ owner[a].pc \in Alive /\ owner[a].plan = None
      /\ owner' = [owner EXCEPT ![a].pc = "work", ![a].plan = "failed", ![a].at = 0]
      /\ UNCHANGED <<row, lease, claim, selected, receipt, obs, published, rec>>
  BY DEF ObservationFails, db, Alive, Creating, Staged
<1>2. \A b \in Attempts \ {a} : stage'[b] = stage[b]
  <2>1. PICK st : stage' = [stage EXCEPT ![a] = st]
    BY DEF ObservationFails
  <2> QED BY <2>1 DEF TypeInv, TypeOK
<1>3. /\ owner'[a].pc = "work" /\ owner'[a].plan = "failed"
      /\ owner'[a].revision = owner[a].revision
      /\ owner'[a].updated = owner[a].updated
      /\ \A b \in Attempts \ {a} : owner'[b] = owner[b]
  BY <1>1 DEF TypeInv, TypeOK, OwnerType
<1> QED BY <1>1, <1>2, <1>3 DEF Quiet, Alone, Same

LEMMA AbortFacts ==
    ASSUME TypeInv, NEW a \in Attempts, Abort(a)
    PROVE  Quiet(a) /\ Same(a) /\ owner'[a].pc = "dead"
<1>1. /\ owner[a].pc \in Alive
      /\ owner' = [owner EXCEPT ![a] = [NoOwner EXCEPT !.pc = "dead"]]
      /\ UNCHANGED <<row, lease, claim, selected, receipt, obs, published, rec>>
  BY DEF Abort, db
<1>2. \A b \in Attempts \ {a} : stage'[b] = stage[b]
  <2>1. CASE stage' = [stage EXCEPT ![a] = Dropped(a)]
    <3> PICK st : st = Dropped(a)
      OBVIOUS
    <3> QED BY <2>1 DEF TypeInv, TypeOK
  <2>2. ASSUME NEW job \in Jobs, stage' = [stage EXCEPT ![a][job] = NoStage]
        PROVE  \A b \in Attempts \ {a} : stage'[b] = stage[b]
    BY <2>2 DEF TypeInv, TypeOK
  <2> QED BY <2>1, <2>2 DEF Abort
<1>3. owner'[a].pc = "dead" /\ \A b \in Attempts \ {a} : owner'[b] = owner[b]
  BY <1>1 DEF TypeInv, TypeOK, NoOwner
<1> QED BY <1>1, <1>2, <1>3 DEF Quiet, Alone, Same

LEMMA RegisterFacts ==
    ASSUME TypeInv, NEW a \in Attempts, RegisterObservation(a)
    PROVE  /\ Alone(a) /\ Keeps(a)
           /\ UNCHANGED <<row, lease, claim, receipt, published, stage>>
           /\ owner[a].pc = "obs_register"
           /\ owner'[a].pc = IF owner[a].plan = None THEN "work" ELSE "final"
           /\ row[a].state \in Active /\ row[a].revision = owner[a].revision
           /\ \E p \in Points :
                /\ obs[a][p] \notin Registered /\ obs'[a][p] \in Registered
                /\ \A q \in Points \ {p} : obs'[a][q] = obs[a][q]
                /\ \A s \in Slots, q \in Points :
                     \/ selected'[s][q] = selected[s][q]
                     \/ /\ s = Slot(a) /\ q = p /\ claim[s] = a
                        /\ selected[s][q] = None /\ selected'[s][q] = a
<1>1. PICK t \in Sampled, p \in Points :
        /\ Fence(a, t)
        /\ IsNext(a, p)
        /\ obs' = [obs EXCEPT ![a][p] =
               IF owner[a].plan = "failed" THEN "incomplete" ELSE "complete"]
        /\ owner[a].plan = "accepted" => claim[Slot(a)] = a
        /\ selected' = [selected EXCEPT ![Slot(a)][p] =
               IF owner[a].plan = "accepted" THEN SelectOnce(@, a) ELSE @]
  BY DEF RegisterObservation
<1>2. /\ owner[a].pc = "obs_register"
      /\ owner' = [owner EXCEPT ![a].pc =
             IF owner[a].plan = None THEN "work" ELSE "final"]
      /\ UNCHANGED <<row, lease, claim, stage, published, receipt, rec>>
  BY DEF RegisterObservation
<1>3. row[a].state \in Active /\ row[a].revision = owner[a].revision
  BY <1>1 DEF Fence
<1>4. /\ owner'[a].pc = IF owner[a].plan = None THEN "work" ELSE "final"
      /\ Keeps(a) /\ \A b \in Attempts \ {a} : owner'[b] = owner[b]
  BY <1>2 DEF TypeInv, TypeOK, OwnerType, Keeps
<1>5. /\ obs[a][p] \notin Registered /\ obs'[a][p] \in Registered
      /\ \A q \in Points \ {p} : obs'[a][q] = obs[a][q]
      /\ \A b \in Attempts \ {a} : obs'[b] = obs[b]
  BY <1>1 DEF TypeInv, TypeOK, IsNext, Registered
<1>6. \A s \in Slots, q \in Points :
        \/ selected'[s][q] = selected[s][q]
        \/ /\ s = Slot(a) /\ q = p /\ claim[s] = a
           /\ selected[s][q] = None /\ selected'[s][q] = a
  BY <1>1, SlotType DEF TypeInv, TypeOK, SelectOnce
<1> QED BY <1>2, <1>3, <1>4, <1>5, <1>6 DEF Alone

LEMMA WriteFacts ==
    ASSUME TypeInv, NEW a \in Attempts, WriteOutcome(a)
    PROVE  /\ Quiet(a) /\ Same(a) /\ Keeps(a) /\ stage' = stage /\ obs' = obs
           /\ owner[a].pc = "out_stage" /\ owner'[a].pc = "out_write"
           /\ row[a].state = "finalizing" /\ row[a].revision = owner[a].revision
           /\ owner[a].plan \in Terminal
           /\ owner[a].plan = "accepted" => claim[Slot(a)] = a /\ ValidateAcceptance(a)
           /\ \E finished \in Nat :
                /\ owner'[a].doc = OutcomeDocument(a, owner[a].revision, owner[a].plan,
                                                   finished, "owner")
                /\ owner[a].at <= finished
                /\ finished < lease[a].reservation
                /\ claim[Slot(a)] = a => finished < lease[a].finalization
<1>1. PICK t \in Sampled :
        /\ CheckStage(a, "outcome", Later(t, owner[a].at))
        /\ ValidateFinalization(a, owner[a].plan, Later(t, owner[a].at))
        /\ owner' = [owner EXCEPT ![a].pc = "out_write", ![a].at = 0,
               ![a].doc = OutcomeDocument(a, owner[a].revision, owner[a].plan,
                                          Later(t, owner[a].at), "owner")]
  BY DEF WriteOutcome
<1>2. /\ owner[a].pc = "out_stage" /\ UNCHANGED <<stage, obs, published, rec>>
      /\ UNCHANGED <<row, lease, claim, selected, receipt>>
  BY DEF WriteOutcome, db
<1>3. PICK finished : finished = Later(t, owner[a].at)
  OBVIOUS
<1>4. finished \in Nat /\ owner[a].at <= finished
  BY <1>3, SampleType, OwnerFields, LaterType DEF TypeInv, TypeOK
<1>5. PICK doc :
        doc = OutcomeDocument(a, owner[a].revision, owner[a].plan, finished, "owner")
  OBVIOUS
<1>6. owner' = [owner EXCEPT ![a].pc = "out_write", ![a].at = 0, ![a].doc = doc]
  BY <1>1, <1>3, <1>5
<1>7. /\ owner'[a].pc = "out_write" /\ owner'[a].doc = doc /\ Keeps(a)
      /\ \A b \in Attempts \ {a} : owner'[b] = owner[b]
  BY <1>6 DEF TypeInv, TypeOK, OwnerType, Keeps
<1>8. Fence(a, finished) /\ ValidateFinalization(a, owner[a].plan, finished)
  BY <1>1, <1>3 DEF CheckStage
<1>9. /\ row[a].state = "finalizing" /\ row[a].revision = owner[a].revision
      /\ owner[a].plan = "accepted" => claim[Slot(a)] = a /\ ValidateAcceptance(a)
  BY <1>8 DEF ValidateFinalization, Fence
<1>10. /\ finished < lease[a].reservation
       /\ claim[Slot(a)] = a => finished < lease[a].finalization
  <2>1. /\ Later(finished, owner[a].updated) \in Nat
        /\ finished <= Later(finished, owner[a].updated)
    BY <1>4, OwnerFields, LaterType DEF TypeInv, TypeOK
  <2>2. lease[a].reservation \in Nat /\ lease[a].finalization \in Nat
    BY DEF TypeInv, TypeOK, LeaseType
  <2> QED BY <1>4, <1>8, <2>1, <2>2 DEF Fence
<1>11. owner[a].plan \in Terminal
  BY <1>2 DEF TypeInv, LocalOK
<1>12. Quiet(a) /\ Same(a)
  BY <1>2, <1>7 DEF Quiet, Alone, Same, Alive, Staged
<1> QED BY <1>2, <1>4, <1>5, <1>7, <1>9, <1>10, <1>11, <1>12

LEMMA PublishFacts ==
    ASSUME TypeInv, NEW a \in Attempts, PublishOutcome(a)
    PROVE  /\ Alone(a) /\ Keeps(a)
           /\ UNCHANGED <<row, lease, claim, selected, receipt, stage, obs>>
           /\ published' = published \cup {owner[a].doc}
           /\ owner[a].pc = "out_write" /\ owner'[a].pc = "out_publish"
           /\ owner'[a].doc = owner[a].doc /\ owner[a].doc \in Docs
<1>1. /\ owner[a].pc = "out_write" /\ UNCHANGED <<stage, obs, rec>>
      /\ UNCHANGED <<row, lease, claim, selected, receipt>>
      /\ owner' = [owner EXCEPT ![a].pc = "out_publish"]
      /\ published' = published \cup {owner[a].doc}
  BY DEF PublishOutcome, db
<1>2. /\ owner'[a].pc = "out_publish" /\ owner'[a].doc = owner[a].doc /\ Keeps(a)
      /\ \A b \in Attempts \ {a} : owner'[b] = owner[b]
  BY <1>1 DEF TypeInv, TypeOK, OwnerType, Keeps
<1>3. owner[a].doc \in Docs
  BY <1>1 DEF TypeInv, LocalOK
<1> QED BY <1>1, <1>2, <1>3 DEF Alone

\* A terminal commit of attempt a with document doc.
Ends(a, doc) ==
    /\ row'[a].state = doc.state /\ row'[a].updated = doc.finished
    /\ receipt'[a] = doc
    /\ lease'[a].acquired = lease[a].acquired
    /\ lease'[a].reservation = lease[a].reservation
    /\ lease'[a].finalization = lease[a].finalization
    /\ \A b \in Attempts \ {a} :
         row'[b] = row[b] /\ lease'[b] = lease[b] /\ receipt'[b] = receipt[b]
    /\ claim'[Slot(a)] # a
    /\ \A s \in Slots : claim'[s] = IF s = Slot(a) /\ claim[s] = a THEN None ELSE claim[s]
    /\ \A s \in Slots, p \in Points :
         IF /\ s = Slot(a) /\ doc.state = "accepted" /\ s \in Profiles
            /\ obs[a][p] \in Registered /\ selected[s][p] = None
         THEN selected'[s][p] = a
         ELSE selected'[s][p] = selected[s][p]

LEMMA EndFacts ==
    ASSUME TypeInv, ClaimInv, NEW a \in Attempts, NEW revision \in Nat, NEW updated \in Nat,
           NEW doc \in Docs, CommitTerminal(a, revision, updated, doc),
           updated <= doc.finished
    PROVE  Ends(a, doc) /\ row'[a].revision = revision + 1
<1>1. /\ doc.state \in Active \cup Terminal
      /\ FinishTime(doc) = doc.finished /\ doc.finished \in Nat
  BY DEF Docs, FinishTime
<1>2. Transition(a, revision, updated, doc.state, doc.finished)
  BY <1>1 DEF CommitTerminal
<1>3. /\ row'[a].state = doc.state /\ row'[a].revision = revision + 1
      /\ row'[a].updated = Later(doc.finished, updated)
      /\ \A b \in Attempts \ {a} : row'[b] = row[b]
  BY <1>1, <1>2, TransitionFacts
<1>4. Later(doc.finished, updated) = doc.finished
  BY <1>1 DEF Later
<1>5. /\ lease'[a].acquired = lease[a].acquired
      /\ lease'[a].reservation = lease[a].reservation
      /\ lease'[a].finalization = lease[a].finalization
      /\ \A b \in Attempts \ {a} : lease'[b] = lease[b]
  BY DEF CommitTerminal, TypeInv, TypeOK, LeaseType
<1>6. receipt'[a] = doc /\ \A b \in Attempts \ {a} : receipt'[b] = receipt[b]
  BY DEF CommitTerminal, TypeInv, TypeOK
<1>7. /\ claim'[Slot(a)] # a
      /\ \A s \in Slots : claim'[s] = IF s = Slot(a) /\ claim[s] = a THEN None ELSE claim[s]
  BY SlotType, NoneIsNoAttempt DEF CommitTerminal, WithoutClaim, TypeInv, TypeOK
<1>8. \A s \in Slots, p \in Points :
         IF /\ s = Slot(a) /\ doc.state = "accepted" /\ s \in Profiles
            /\ obs[a][p] \in Registered /\ selected[s][p] = None
         THEN selected'[s][p] = a
         ELSE selected'[s][p] = selected[s][p]
  BY SlotType DEF CommitTerminal, TerminalSelection, SelectOnce, TypeInv, TypeOK
<1> QED BY <1>3, <1>4, <1>5, <1>6, <1>7, <1>8 DEF Ends

LEMMA FinalizationFacts ==
    ASSUME TypeInv, ClaimInv, NEW a \in Attempts, OwnerWrote(a), CommitFinalization(a)
    PROVE  /\ Ends(a, owner[a].doc) /\ row'[a].revision = owner[a].revision + 1
           /\ \A b \in Attempts \ {a} : owner'[b] = owner[b] /\ stage'[b] = stage[b]
           /\ UNCHANGED <<obs, published, rec>>
           /\ owner[a].pc = "out_publish" /\ owner'[a].pc \in {"done", "dead"}
           /\ row[a].state = "finalizing" /\ row[a].revision = owner[a].revision
           /\ owner[a].doc \in Docs
           /\ CoordinationSnapshot(a, owner[a].doc.state) = owner[a].doc.coordination
           /\ owner[a].doc.state = "accepted" => claim[Slot(a)] = a /\ ValidateAcceptance(a)
<1> DEFINE doc == owner[a].doc
<1>1. /\ owner[a].pc = "out_publish" /\ UNCHANGED <<obs, published, rec>>
      /\ CommitTerminal(a, owner[a].revision, owner[a].updated, doc)
      /\ CoordinationSnapshot(a, doc.state) = doc.coordination
  BY DEF CommitFinalization
<1>2. PICK t \in Current : ValidateFinalization(a, doc.state, Later(t, doc.finished))
  BY DEF CommitFinalization
<1>3. /\ doc \in Docs /\ owner[a].revision \in Nat /\ owner[a].updated \in Nat
      /\ owner[a].updated <= doc.finished
  BY <1>1, OwnerFields DEF TypeInv, TypeOK, LocalOK, OwnerWrote, Writing
<1>4. /\ row[a].state = "finalizing" /\ row[a].revision = owner[a].revision
      /\ doc.state = "accepted" => claim[Slot(a)] = a /\ ValidateAcceptance(a)
  BY <1>2 DEF ValidateFinalization, Fence
<1>5. /\ owner'[a].pc \in {"done", "dead"}
      /\ \A b \in Attempts \ {a} : owner'[b] = owner[b]
  <2>1. \/ owner' = [owner EXCEPT ![a] = [NoOwner EXCEPT !.pc = "done", !.plan = doc.state]]
        \/ owner' = [owner EXCEPT ![a] = [NoOwner EXCEPT !.pc = "dead"]]
    BY DEF CommitFinalization
  <2> QED BY ZenonT(40), <2>1 DEF TypeInv, TypeOK, NoOwner
<1>6. \A b \in Attempts \ {a} : stage'[b] = stage[b]
  <2>1. PICK st : stage' = [stage EXCEPT ![a] = st]
    BY DEF CommitFinalization
  <2> QED BY <2>1 DEF TypeInv, TypeOK
<1> HIDE DEF doc
<1>7. Ends(a, doc) /\ row'[a].revision = owner[a].revision + 1
  BY <1>1, <1>3, EndFacts
<1> QED BY <1>1, <1>3, <1>4, <1>5, <1>6, <1>7 DEF doc

LEMMA RenewFacts ==
    ASSUME TypeInv, NEW a \in Attempts, Renew(a)
    PROVE  /\ Alone(a) /\ owner' = owner
           /\ UNCHANGED <<row, claim, selected, receipt, published, obs>>
           /\ owner[a].pc \in Alive /\ row[a].state \in Active
           /\ lease'[a].acquired = lease[a].acquired
           /\ lease[a].reservation <= lease'[a].reservation
           /\ lease[a].finalization <= lease'[a].finalization
           /\ \A job \in Jobs : stage'[a][job].dir = stage[a][job].dir
<1>1. PICK t \in Sampled :
        /\ Renewable(a, t)
        /\ lease' = [lease EXCEPT ![a].reservation = t + Lease,
               ![a].finalization = IF claim[Slot(a)] = a THEN t + Lease ELSE @]
        /\ stage' = [stage EXCEPT ![a] = [job \in Jobs |-> [stage[a][job] EXCEPT
               !.expires = IF StageLive(a, job, t) THEN t + Lease ELSE @]]]
  BY DEF Renew
<1>2. /\ owner[a].pc \in Alive
      /\ UNCHANGED <<row, claim, obs, selected, published, receipt, owner, rec>>
  BY DEF Renew
<1>3. /\ row[a].state \in Active /\ t + Lease >= lease[a].reservation
      /\ claim[Slot(a)] = a => t + Lease >= lease[a].finalization
  BY <1>1 DEF Renewable, Fence
<1>4. t + Lease \in Nat
  BY SampleType, StoreAssumption DEF TypeInv, TypeOK
<1>5. /\ lease'[a].acquired = lease[a].acquired
      /\ lease[a].reservation <= lease'[a].reservation
      /\ lease[a].finalization <= lease'[a].finalization
      /\ \A b \in Attempts \ {a} : lease'[b] = lease[b]
  BY <1>1, <1>3, <1>4 DEF TypeInv, TypeOK, LeaseType
<1>6. /\ \A b \in Attempts \ {a} : stage'[b] = stage[b]
      /\ \A job \in Jobs : stage'[a][job].dir = stage[a][job].dir
  <2> DEFINE x(job) == IF StageLive(a, job, t) THEN t + Lease ELSE stage[a][job].expires
  <2>1. stage' = [stage EXCEPT ![a] =
          [job \in Jobs |-> [stage[a][job] EXCEPT !.expires = x(job)]]]
    BY <1>1
  <2> HIDE DEF x
  <2> QED BY <2>1 DEF TypeInv, TypeOK, StageType
<1> QED BY <1>2, <1>3, <1>5, <1>6 DEF Alone

-----------------------------------------------------------------------------
(***************************************************************************)
(* What is true of an attempt stays true while others work.                 *)
(***************************************************************************)
LEMMA SnapshotKept ==
    ASSUME TypeInv, NEW a \in Attempts, NEW outcome, Same(a),
           \A p \in Points :
              \/ selected'[Slot(a)][p] = selected[Slot(a)][p]
              \/ /\ outcome \notin {"accepted", "censored"}
                 /\ selected[Slot(a)][p] # a /\ selected'[Slot(a)][p] # a
    PROVE  CoordinationSnapshot(a, outcome)' = CoordinationSnapshot(a, outcome)
<1> DEFINE own(p) == IF obs[a][p] \in Registered THEN obs[a][p] ELSE "absent"
           pick(p) == IF /\ outcome = "accepted" /\ Slot(a) \in Profiles \ Streams
                         /\ obs[a][p] \in Registered
                      THEN a
                      ELSE IF IncludeSelected(outcome) \/ selected[Slot(a)][p] = a
                      THEN selected[Slot(a)][p] ELSE None
<1>1. CoordinationSnapshot(a, outcome) =
        [own |-> [p \in Points |-> own(p)], selected |-> [p \in Points |-> pick(p)]]
  BY Zenon DEF CoordinationSnapshot
<1>2. CoordinationSnapshot(a, outcome)' =
        [own |-> [p \in Points |-> own(p)'], selected |-> [p \in Points |-> pick(p)']]
  BY Zenon DEF CoordinationSnapshot, Slot, IncludeSelected
<1>3. ASSUME NEW p \in Points PROVE own(p)' = own(p) /\ pick(p)' = pick(p)
  BY DEF Same, IncludeSelected, Slot
<1> HIDE DEF own, pick
<1>4. /\ [p \in Points |-> own(p)'] = [p \in Points |-> own(p)]
      /\ [p \in Points |-> pick(p)'] = [p \in Points |-> pick(p)]
  BY <1>3
<1> QED BY <1>1, <1>2, <1>4

LEMMA AcceptanceKept ==
    ASSUME TypeInv, NEW a \in Attempts, Same(a),
           \A p \in Points : selected'[Slot(a)][p] = selected[Slot(a)][p]
    PROVE  ValidateAcceptance(a)' <=> ValidateAcceptance(a)
<1>1. 1 \in Points
  BY StoreAssumption DEF Points
<1> QED BY <1>1 DEF ValidateAcceptance, Same, Slot, Registered

\* A document stands on while its attempt's row, claim and selections stay and
\* its leases only grow.
LEMMA StandingKept ==
    ASSUME TypeInv, NEW a \in Attempts, NEW d \in Docs, Standing(a, d), Same(a),
           row'[a] = row[a],
           lease'[a].acquired = lease[a].acquired,
           lease[a].reservation <= lease'[a].reservation,
           lease[a].finalization <= lease'[a].finalization,
           lease'[a].reservation \in Nat, lease'[a].finalization \in Nat,
           claim[Slot(a)] = a =>
              /\ claim'[Slot(a)] = a
              /\ \A p \in Points : selected'[Slot(a)][p] = selected[Slot(a)][p]
    PROVE  Standing(a, d)'
<1> SUFFICES ASSUME d.state = "accepted", row[a].state \in Active
             PROVE  Standing(a, d)'
  BY DEF Standing
<1>1. /\ row[a].state = "finalizing" /\ row[a].revision = d.revision
      /\ row[a].updated <= d.finished /\ claim[Slot(a)] = a
      /\ lease[a].acquired <= d.finished
      /\ d.finished < lease[a].finalization
      /\ d.finished < lease[a].reservation
      /\ ValidateAcceptance(a)
      /\ d.coordination = CoordinationSnapshot(a, "accepted")
  BY DEF Standing
<1>2. d.finished \in Nat /\ lease[a].reservation \in Nat /\ lease[a].finalization \in Nat
  BY DEF TypeInv, TypeOK, LeaseType, Docs
<1>3. d.finished < lease'[a].finalization /\ d.finished < lease'[a].reservation
  BY <1>1, <1>2
<1>4. ValidateAcceptance(a)' /\ d.coordination = CoordinationSnapshot(a, "accepted")'
  BY <1>1, AcceptanceKept, SnapshotKept
<1>5. claim'[Slot(a)] = a
  BY <1>1
<1> QED BY <1>1, <1>3, <1>4, <1>5 DEF Standing, Slot

\* A step of somebody else.
Calm(a) ==
    /\ row'[a] = row[a] /\ lease'[a] = lease[a] /\ receipt'[a] = receipt[a]
    /\ Same(a)
    /\ published \subseteq published'
    /\ \A d \in published' \ published : d.attempt # a
    /\ claim'[Slot(a)] = a <=> claim[Slot(a)] = a
    /\ \A p \in Points :
         \/ selected'[Slot(a)][p] = selected[Slot(a)][p]
         \/ /\ selected[Slot(a)][p] = None
            /\ claim[Slot(a)] \notin {None, a}
            /\ selected'[Slot(a)][p] = claim[Slot(a)]

LEMMA CalmDocs ==
    ASSUME NEW a \in Attempts, published \subseteq published',
           \A d \in published' \ published : d.attempt # a
    PROVE  DocsOf(a)' = DocsOf(a)
BY DEF DocsOf

LEMMA CalmStanding ==
    ASSUME TypeInv, NEW a \in Attempts, Calm(a), NEW d \in Docs, Standing(a, d)
    PROVE  Standing(a, d)'
<1>1. lease[a].reservation \in Nat /\ lease[a].finalization \in Nat
  BY DEF TypeInv, TypeOK, LeaseType
<1>2. claim[Slot(a)] = a =>
         /\ claim'[Slot(a)] = a
         /\ \A p \in Points : selected'[Slot(a)][p] = selected[Slot(a)][p]
  BY DEF Calm
<1>3. /\ row'[a] = row[a] /\ lease'[a] = lease[a] /\ Same(a)
  BY DEF Calm
<1>4. /\ lease[a].reservation <= lease'[a].reservation
      /\ lease[a].finalization <= lease'[a].finalization
      /\ lease'[a].reservation \in Nat /\ lease'[a].finalization \in Nat
      /\ lease'[a].acquired = lease[a].acquired
  BY <1>1, <1>3
<1> QED BY <1>2, <1>3, <1>4, StandingKept

LEMMA CalmSnapshot ==
    ASSUME TypeInv, NEW a \in Attempts, Calm(a),
           NEW outcome \in {"failed", "superseded"}
    PROVE  CoordinationSnapshot(a, outcome)' = CoordinationSnapshot(a, outcome)
<1>1. \A p \in Points :
         \/ selected'[Slot(a)][p] = selected[Slot(a)][p]
         \/ selected[Slot(a)][p] # a /\ selected'[Slot(a)][p] # a
  BY NoneIsNoAttempt DEF Calm
<1>2. Same(a) /\ outcome \notin {"accepted", "censored"}
  BY DEF Calm
<1> QED BY <1>1, <1>2, SnapshotKept

\* The documents and the receipt of an attempt that others leave alone.
LEMMA CalmRecords ==
    ASSUME TypeInv, ClaimInv, NEW a \in Attempts, Calm(a),
           Documented(a), Described(a), Earned(a)
    PROVE  Documented(a)' /\ Described(a)' /\ Earned(a)'
<1>1. /\ DocsOf(a)' = DocsOf(a) /\ row'[a] = row[a]
      /\ lease'[a] = lease[a] /\ receipt'[a] = receipt[a]
  BY CalmDocs DEF Calm
<1>2. Documented(a)'
  <2>1. \A d \in DocsOf(a) : Standing(a, d)'
    BY CalmStanding DEF Documented, DocsOf, TypeInv, TypeOK
  <2> QED BY <1>1, <2>1 DEF Documented
<1>3. ASSUME row[a].state = "accepted"
      PROVE  \A p \in Points : selected'[Slot(a)][p] = selected[Slot(a)][p]
  <2>1. claim[Slot(a)] = None
    BY <1>3, SlotType DEF ClaimInv, ClaimHeldByFinalizer, Satisfied
  <2> QED BY <2>1 DEF Calm
<1>4. ASSUME row[a].state \in Terminal, receipt[a].state = row[a].state,
             Lasts(a, row[a].state)
      PROVE  CoordinationSnapshot(a, receipt[a].state)'
               = CoordinationSnapshot(a, receipt[a].state)
  <2> PICK outcome : outcome = receipt[a].state
    OBVIOUS
  <2>1. CASE outcome = "accepted"
    <3>1. \A p \in Points : selected'[Slot(a)][p] = selected[Slot(a)][p]
      BY <1>3, <1>4, <2>1
    <3>2. CoordinationSnapshot(a, outcome)' = CoordinationSnapshot(a, outcome)
      BY <3>1, SnapshotKept DEF Calm
    <3> QED BY <1>1, <3>2
  <2>2. CASE outcome \in {"failed", "superseded"}
    <3>1. CoordinationSnapshot(a, outcome)' = CoordinationSnapshot(a, outcome)
      BY <2>2, CalmSnapshot
    <3> QED BY <1>1, <3>1
  <2> QED BY <1>4, <2>1, <2>2 DEF Terminal, Lasts
<1>5. Described(a)'
  BY <1>1, <1>4 DEF Described, Lasts, Slot
<1>6. Earned(a)'
  <2>1. 1 \in Points
    BY StoreAssumption DEF Points
  <2> SUFFICES ASSUME row[a].state = "accepted" PROVE Earned(a)'
    BY <1>1 DEF Earned
  <2>2. \A p \in Points : selected'[Slot(a)][p] = selected[Slot(a)][p]
    BY <1>3
  <2>3. \A p \in Points : /\ obs'[a][p] \in Registered <=> obs[a][p] \in Registered
                          /\ obs[a][p] = "complete" => obs'[a][p] = "complete"
    BY DEF Calm, Same, Registered
  <2> QED BY <1>1, <2>1, <2>2, <2>3 DEF Earned, Slot
<1> QED BY <1>2, <1>5, <1>6

\* An owner others leave alone.
LEMMA CalmOwner ==
    ASSUME TypeInv, NEW a \in Attempts, Calm(a), owner'[a] = owner[a],
           OwnerSees(a), OwnerWrote(a)
    PROVE  OwnerSees(a)' /\ OwnerWrote(a)'
<1>1. DocsOf(a)' = DocsOf(a) /\ row'[a] = row[a] /\ lease'[a] = lease[a]
  BY CalmDocs DEF Calm
<1>2. OwnerSees(a)'
  BY <1>1 DEF OwnerSees, Calm, Slot
<1>3. OwnerWrote(a)'
  <2> SUFFICES ASSUME owner[a].pc \in Writing PROVE OwnerWrote(a)'
    BY DEF OwnerWrote
  <2>1. owner[a].doc \in Docs /\ Standing(a, owner[a].doc)
    BY DEF TypeInv, LocalOK, OwnerWrote, Writing
  <2>2. PICK doc : doc = owner[a].doc
    OBVIOUS
  <2>3. Standing(a, doc)'
    BY <2>1, <2>2, CalmStanding
  <2>4. PICK plan : plan = owner[a].plan
    OBVIOUS
  <2>5. plan \in {"failed", "superseded"} =>
          CoordinationSnapshot(a, plan)' = CoordinationSnapshot(a, plan)
    BY CalmSnapshot
  <2>6. /\ Standing(a, owner[a].doc)'
        /\ owner[a].plan \in {"failed", "superseded"} =>
             CoordinationSnapshot(a, owner[a].plan)'
               = CoordinationSnapshot(a, owner[a].plan)
    BY <2>2, <2>3, <2>4, <2>5
  <2>7. published \subseteq published'
    BY DEF Calm
  <2> QED BY <2>6, <2>7 DEF OwnerWrote
<1> QED BY <1>2, <1>3

LEMMA CalmKeeps ==
    ASSUME TypeInv, ClaimInv, NEW a \in Attempts, Calm(a), owner'[a] = owner[a], About(a)
    PROVE  About(a)'
BY CalmRecords, CalmOwner DEF About

-----------------------------------------------------------------------------
(***************************************************************************)
(* What is true of an attempt stays true through its owner's steps.         *)
(***************************************************************************)
LEMMA StatesApart == Active \cap Terminal = {} /\ "none" \notin Active \cup Terminal
BY DEF Active, Terminal, Phases

LEMMA AloneCalm ==
    ASSUME TypeInv, NEW a \in Attempts, Alone(a), published \subseteq published',
           \A d \in published' \ published : d.attempt = a,
           \A s \in Slots : \/ claim'[s] = claim[s]
                            \/ claim[s] \in {None, a} /\ claim'[s] \in {None, a},
           \A s \in Slots, p \in Points :
              \/ selected'[s][p] = selected[s][p]
              \/ selected[s][p] = None /\ claim[s] = a /\ selected'[s][p] = a
    PROVE  \A b \in Attempts \ {a} : Calm(b) /\ owner'[b] = owner[b]
<1> SUFFICES ASSUME NEW b \in Attempts \ {a} PROVE Calm(b) /\ owner'[b] = owner[b]
  OBVIOUS
<1>1. Slot(b) \in Slots /\ b # None /\ a # None
  BY SlotType, NoneIsNoAttempt
<1>2. Same(b)
  BY DEF Alone, Same
<1>3. claim'[Slot(b)] = b <=> claim[Slot(b)] = b
  BY <1>1
<1>4. \A p \in Points :
         \/ selected'[Slot(b)][p] = selected[Slot(b)][p]
         \/ /\ selected[Slot(b)][p] = None
            /\ claim[Slot(b)] \notin {None, b}
            /\ selected'[Slot(b)][p] = claim[Slot(b)]
  BY <1>1
<1> QED BY <1>2, <1>3, <1>4 DEF Calm, Alone

\* A step outside the database that publishes nothing.
LEMMA QuietAbout ==
    ASSUME TypeInv, ClaimInv, \A b \in Attempts : About(b), NEW a \in Attempts,
           Quiet(a), Same(a), OwnerSees(a)', OwnerWrote(a)'
    PROVE  \A b \in Attempts : About(b)'
<1>1. Alone(a) /\ UNCHANGED <<row, lease, claim, selected, receipt, published>>
  BY DEF Quiet
<1>2. \A b \in Attempts \ {a} : Calm(b) /\ owner'[b] = owner[b]
  BY <1>1, AloneCalm
<1>3. Calm(a)
  BY <1>1 DEF Calm
<1>4. About(a)'
  BY <1>3, CalmRecords DEF About
<1> QED BY <1>2, <1>4, CalmKeeps

LEMMA SeesKept ==
    ASSUME TypeInv, NEW a \in Attempts, OwnerSees(a),
           owner[a].pc \in Alive \ {"out_publish"},
           UNCHANGED <<row, lease, claim, published>>,
           owner'[a].revision = owner[a].revision, owner'[a].updated = owner[a].updated,
           owner'[a].plan = owner[a].plan \/ owner[a].plan = None,
           owner'[a].pc = "work" \/ owner'[a].plan = None =>
              owner[a].pc = "work" \/ owner[a].plan = None,
           owner'[a].pc = "out_stage" => owner'[a].updated <= owner'[a].at
    PROVE  OwnerSees(a)'
BY NoneAssumption DEF OwnerSees, DocsOf, Slot, Terminal

LEMMA QuietSteps ==
    ASSUME TypeInv, ClaimInv, \A b \in Attempts : About(b), NEW a \in Attempts,
           \/ \E job \in Jobs : CreateStage(a, job) \/ LeaseStage(a, job)
           \/ PublishObservation(a) \/ CommitArtifact(a) \/ ObservationFails(a)
           \/ Abort(a)
    PROVE  \A b \in Attempts : About(b)'
<1>1. OwnerSees(a)
  BY DEF About
<1>2. ASSUME NEW job \in Jobs, CreateStage(a, job)
      PROVE  Quiet(a) /\ Same(a) /\ OwnerSees(a)' /\ OwnerWrote(a)'
  <2>1. /\ Quiet(a) /\ Same(a) /\ Keeps(a)
        /\ owner[a].pc \in {"work", "observe", "final"}
        /\ owner[a].pc = "work" => owner[a].plan = None
        /\ owner'[a].pc \in {"obs_create", "out_create"}
    BY <1>2, CreateFacts
  <2> QED BY <1>1, <2>1, SeesKept DEF Quiet, Keeps, OwnerWrote, Writing
<1>3. ASSUME NEW job \in Jobs, LeaseStage(a, job)
      PROVE  Quiet(a) /\ Same(a) /\ OwnerSees(a)' /\ OwnerWrote(a)'
  <2>1. /\ Quiet(a) /\ Same(a) /\ Keeps(a)
        /\ owner[a].pc \in {"obs_create", "out_create"}
        /\ owner'[a].pc \in {"obs_stage", "out_stage"}
        /\ owner'[a].updated <= owner'[a].at
    BY <1>3, LeaseFacts
  <2> QED BY <1>1, <2>1, SeesKept DEF Quiet, Keeps, OwnerWrote, Writing
<1>4. CASE PublishObservation(a) \/ CommitArtifact(a)
  <2>1. /\ Quiet(a) /\ Same(a) /\ Keeps(a)
        /\ owner[a].pc \in {"obs_stage", "obs_publish"}
        /\ owner'[a].pc \in {"obs_publish", "obs_register"}
    BY <1>4, PublishObservationFacts, CommitArtifactFacts
  <2>2. OwnerSees(a)' /\ OwnerWrote(a)'
    BY <1>1, <2>1, SeesKept DEF Quiet, Keeps, OwnerWrote, Writing
  <2> QED BY <2>1, <2>2, QuietAbout
<1>5. CASE ObservationFails(a)
  <2>1. /\ Quiet(a) /\ Same(a)
        /\ owner[a].plan = None /\ owner'[a].plan = "failed"
        /\ owner'[a].pc = "work"
        /\ owner'[a].revision = owner[a].revision
        /\ owner'[a].updated = owner[a].updated
        /\ owner[a].pc # "out_publish"
    BY <1>5, ObservationFailsFacts DEF ObservationFails
  <2>2. OwnerSees(a)' /\ OwnerWrote(a)'
    BY <1>1, <2>1, SeesKept DEF Quiet, OwnerWrote, Writing
  <2> QED BY <2>1, <2>2, QuietAbout
<1>6. CASE Abort(a)
  <2>1. Quiet(a) /\ Same(a) /\ owner'[a].pc = "dead"
    BY <1>6, AbortFacts
  <2>2. OwnerSees(a)' /\ OwnerWrote(a)'
    BY <2>1 DEF OwnerSees, OwnerWrote, Writing, Alive, Creating, Staged
  <2> QED BY <2>1, <2>2, QuietAbout
<1> QED BY <1>2, <1>3, <1>4, <1>5, <1>6, QuietAbout

\* The attempts whose owner has published nothing have no success on record.
LEMMA NoSuccessYet ==
    ASSUME NEW a \in Attempts, About(a), owner[a].pc \in Alive \ {"out_publish"}
    PROVE  \A d \in DocsOf(a) : d.state # "accepted" /\ d.by = "recovery"
BY DEF About, OwnerSees, Documented

LEMMA WriteAbout ==
    ASSUME TypeInv, ClaimInv, \A b \in Attempts : About(b), NEW a \in Attempts,
           WriteOutcome(a)
    PROVE  \A b \in Attempts : About(b)'
<1>1. /\ Quiet(a) /\ Same(a) /\ Keeps(a) /\ obs' = obs
      /\ owner[a].pc = "out_stage" /\ owner'[a].pc = "out_write"
      /\ row[a].state = "finalizing" /\ row[a].revision = owner[a].revision
      /\ owner[a].plan \in Terminal
      /\ owner[a].plan = "accepted" => claim[Slot(a)] = a /\ ValidateAcceptance(a)
  BY WriteFacts
<1>2. PICK finished \in Nat :
        /\ owner'[a].doc = OutcomeDocument(a, owner[a].revision, owner[a].plan,
                                           finished, "owner")
        /\ owner[a].at <= finished
        /\ finished < lease[a].reservation
        /\ claim[Slot(a)] = a => finished < lease[a].finalization
  BY WriteFacts
<1>3. /\ UNCHANGED <<row, lease, claim, selected, receipt, published>>
      /\ owner[a].pc \in Alive /\ OwnerSees(a)
  BY <1>1 DEF Quiet, About
<1>4. OwnerSees(a)'
  BY <1>1, <1>3, NoneAssumption, SeesKept DEF Keeps
<1>5. PICK plan : plan = owner[a].plan
  OBVIOUS
<1>6. PICK doc : doc = owner'[a].doc
  OBVIOUS
<1>7. /\ doc.attempt = a /\ doc.by = "owner" /\ doc.state = plan
      /\ doc.revision = owner[a].revision /\ doc.finished = finished
      /\ doc.coordination = CoordinationSnapshot(a, plan)
  BY <1>2, <1>5, <1>6 DEF OutcomeDocument
<1>8. owner[a].updated <= finished
  <2>1. owner[a].updated \in Nat /\ owner[a].at \in Nat
    BY OwnerFields DEF TypeInv, TypeOK
  <2>2. owner[a].updated <= owner[a].at
    BY <1>1, <1>3 DEF OwnerSees
  <2> QED BY <1>2, <2>1, <2>2
<1>9. CoordinationSnapshot(a, plan)' = CoordinationSnapshot(a, plan)
  BY <1>1, <1>3, SnapshotKept
<1>10. Standing(a, doc)'
  <2> SUFFICES ASSUME plan = "accepted" PROVE Standing(a, doc)'
    BY <1>7 DEF Standing
  <2>1. claim[Slot(a)] = a /\ ValidateAcceptance(a)
    BY <1>1, <1>5
  <2>2. row[a].updated = owner[a].updated /\ lease[a].acquired <= owner[a].updated
    BY <1>1, <1>3, <2>1 DEF OwnerSees
  <2>3. lease[a].acquired <= finished
    BY <1>8, <2>2, OwnerFields DEF TypeInv, TypeOK, LeaseType
  <2>4. ValidateAcceptance(a)'
    BY <1>1, <1>3, <2>1, AcceptanceKept
  <2>5. doc.coordination = CoordinationSnapshot(a, "accepted")'
    BY <1>7, <1>9
  <2>6. claim'[Slot(a)] = a
    BY <1>3, <2>1
  <2>7. finished < lease'[a].finalization /\ finished < lease'[a].reservation
    BY <1>2, <1>3, <2>1
  <2> QED BY <1>1, <1>3, <1>7, <1>8, <2>2, <2>3, <2>4, <2>5, <2>6, <2>7 DEF Standing, Slot
<1>11. OwnerWrote(a)'
  BY <1>1, <1>5, <1>6, <1>7, <1>8, <1>9, <1>10 DEF OwnerWrote, Keeps, Writing
<1> QED BY <1>1, <1>4, <1>11, QuietAbout

LEMMA ReserveAbout ==
    ASSUME TypeInv, ClaimInv, \A b \in Attempts : About(b), NEW a \in Attempts, Reserve(a)
    PROVE  \A b \in Attempts : About(b)'
<1>1. /\ Alone(a)
      /\ UNCHANGED <<claim, selected, published, receipt, obs, stage>>
      /\ row[a].state = "none" /\ row'[a].state = "reserved"
      /\ row'[a].revision = 0 /\ row'[a].updated = owner'[a].updated
      /\ owner'[a].pc = "work" /\ owner'[a].plan = None
      /\ owner'[a].revision = 0
  BY ReserveFacts
<1>2. \A b \in Attempts \ {a} : Calm(b) /\ owner'[b] = owner[b]
  BY <1>1, AloneCalm
<1>3. DocsOf(a) = {} /\ DocsOf(a)' = {} /\ claim[Slot(a)] # a
  <2>1. DocsOf(a) = {}
    BY <1>1 DEF About, Documented
  <2>2. DocsOf(a)' = DocsOf(a)
    BY <1>1 DEF DocsOf
  <2>3. claim[Slot(a)] # a
    BY <1>1, SlotType, NoneIsNoAttempt DEF ClaimInv, ClaimHeldByFinalizer
  <2> QED BY <2>1, <2>2, <2>3
<1>4. receipt[a] = None
  BY <1>1 DEF About, Described, Terminal
<1>5. OwnerSees(a)' /\ OwnerWrote(a)'
  BY <1>1, <1>3 DEF OwnerSees, OwnerWrote, Writing, Slot
<1>6. Documented(a)' /\ Described(a)' /\ Earned(a)'
  BY <1>1, <1>3, <1>4 DEF Documented, Described, Earned, Terminal
<1>7. About(a)'
  BY <1>5, <1>6 DEF About
<1> QED BY <1>2, <1>7, CalmKeeps

LEMMA MovesAbout ==
    ASSUME TypeInv, ClaimInv, \A b \in Attempts : About(b), NEW a \in Attempts,
           NEW plan, NEW pcs \in SUBSET {"work", "observe", "final"}, Moves(a, plan, pcs),
           owner'[a].pc = "work" \/ plan = None => row'[a].state # "finalizing",
           claim'[Slot(a)] = a =>
              plan = "accepted" /\ lease'[a].acquired <= owner'[a].updated,
           \A s \in Slots : \/ claim'[s] = claim[s]
                            \/ claim[s] \in {None, a} /\ claim'[s] \in {None, a}
    PROVE  \A b \in Attempts : About(b)'
<1>1. /\ Alone(a) /\ UNCHANGED <<selected, published, receipt, obs>>
      /\ owner[a].pc = "work" /\ row[a].state \in Active /\ row'[a].state \in Active
      /\ row'[a].revision = owner'[a].revision /\ row'[a].updated = owner'[a].updated
      /\ owner'[a].plan = plan /\ owner'[a].pc \in {"work", "observe", "final"}
  BY DEF Moves
<1>2. \A b \in Attempts \ {a} : Calm(b) /\ owner'[b] = owner[b]
  BY <1>1, AloneCalm
<1>3. /\ DocsOf(a)' = DocsOf(a)
      /\ \A d \in DocsOf(a) : d.state # "accepted" /\ d.by = "recovery"
  BY <1>1, NoSuccessYet DEF DocsOf, Alive
<1>4. row'[a].revision \in Nat
  BY <1>1, OwnerFields, TypeNext DEF Moves, TypeInv, TypeOK, RowType
<1>5. OwnerSees(a)'
  BY <1>1, <1>3, <1>4, StatesApart DEF OwnerSees, Slot
<1>6. OwnerWrote(a)'
  BY <1>1 DEF OwnerWrote, Writing
<1>7. Documented(a)' /\ Described(a)' /\ Earned(a)'
  <2>1. receipt[a] = None
    BY <1>1, StatesApart DEF About, Described
  <2>2. Documented(a)'
    BY <1>1, <1>3, StatesApart DEF About, Documented, Standing
  <2>3. Described(a)' /\ Earned(a)'
    BY <1>1, <2>1, StatesApart DEF Described, Earned, Terminal
  <2> QED BY <2>2, <2>3
<1> QED BY <1>2, <1>5, <1>6, <1>7, CalmKeeps DEF About

LEMMA MoveSteps ==
    ASSUME TypeInv, ClaimInv, \A b \in Attempts : About(b), NEW a \in Attempts,
           \/ \E phase \in Phases : Advance(a, phase)
           \/ \E outcome \in Outcomes, observe \in BOOLEAN : Conclude(a, outcome, observe)
           \/ BeginFinalization(a)
    PROVE  \A b \in Attempts : About(b)'
<1>0. owner[a].pc = "work" /\ owner[a].plan # "accepted" => claim[Slot(a)] # a
  BY DEF About, OwnerSees, Alive
<1>1. ASSUME NEW phase \in Phases, Advance(a, phase) PROVE \A b \in Attempts : About(b)'
  <2>1. /\ Moves(a, None, {"work"}) /\ row'[a].state # "finalizing"
        /\ owner[a].plan = None /\ UNCHANGED <<claim, lease>> /\ owner[a].pc = "work"
    BY <1>1, AdvanceFacts DEF Moves
  <2>2. claim'[Slot(a)] # a
    BY <1>0, <2>1, NoneAssumption DEF Terminal
  <2> QED BY <2>1, <2>2, MovesAbout
<1>2. ASSUME NEW outcome \in Outcomes, NEW observe \in BOOLEAN,
             Conclude(a, outcome, observe)
      PROVE  \A b \in Attempts : About(b)'
  <2>1. /\ Moves(a, outcome, {"observe", "final"})
        /\ owner[a].plan \in {None, outcome} /\ outcome \in {"failed", "censored"}
        /\ UNCHANGED <<claim, lease>> /\ owner[a].pc = "work"
        /\ owner'[a].pc \in {"observe", "final"}
    BY <1>2, ConcludeFacts DEF Moves
  <2>2. claim'[Slot(a)] # a /\ outcome # None
    BY <1>0, <2>1, NoneAssumption DEF Terminal
  <2> QED BY <2>1, <2>2, MovesAbout
<1>3. CASE BeginFinalization(a)
  <2> PICK plan : plan = Disposition(a)
    OBVIOUS
  <2>1. /\ Moves(a, plan, {"observe", "final"})
        /\ owner[a].plan = None /\ owner[a].pc = "work"
        /\ owner'[a].pc \in {"observe", "final"}
        /\ IF plan = "accepted"
           THEN /\ claim' = [claim EXCEPT ![Slot(a)] = a]
                /\ claim[Slot(a)] = None
                /\ lease'[a].acquired <= owner'[a].updated
           ELSE UNCHANGED <<claim, lease>>
    BY <1>3, BeginFacts DEF Moves
  <2>2. plan # None
    BY DispositionType, NoneAssumption DEF Terminal
  <2>3. claim'[Slot(a)] = a => plan = "accepted" /\ lease'[a].acquired <= owner'[a].updated
    BY <1>0, <2>1, NoneAssumption DEF Terminal
  <2>4. \A s \in Slots : \/ claim'[s] = claim[s]
                         \/ claim[s] \in {None, a} /\ claim'[s] \in {None, a}
    BY <2>1, SlotType DEF TypeInv, TypeOK
  <2> QED BY <2>1, <2>2, <2>3, <2>4, MovesAbout
<1> QED BY <1>1, <1>2, <1>3

LEMMA RegisterAbout ==
    ASSUME TypeInv, ClaimInv, \A b \in Attempts : About(b), NEW a \in Attempts,
           RegisterObservation(a)
    PROVE  \A b \in Attempts : About(b)'
<1>1. /\ Alone(a) /\ Keeps(a)
      /\ UNCHANGED <<row, lease, claim, receipt, published, stage>>
      /\ owner[a].pc = "obs_register"
      /\ owner'[a].pc = IF owner[a].plan = None THEN "work" ELSE "final"
      /\ row[a].state \in Active /\ row[a].revision = owner[a].revision
  BY RegisterFacts
<1>2. \A s \in Slots, q \in Points :
         \/ selected'[s][q] = selected[s][q]
         \/ selected[s][q] = None /\ claim[s] = a /\ selected'[s][q] = a
  BY RegisterFacts
<1>3. \A b \in Attempts \ {a} : Calm(b) /\ owner'[b] = owner[b]
  BY <1>1, <1>2, AloneCalm
<1>4. OwnerSees(a)'
  BY <1>1, SeesKept DEF About, Keeps, Alive
<1>5. OwnerWrote(a)'
  BY <1>1 DEF OwnerWrote, Writing
<1>6. /\ DocsOf(a)' = DocsOf(a)
      /\ \A d \in DocsOf(a) : d.state # "accepted" /\ d.by = "recovery"
  BY <1>1, NoSuccessYet DEF DocsOf, Alive
<1>7. Documented(a)' /\ Described(a)' /\ Earned(a)'
  <2>1. Documented(a)'
    BY <1>1, <1>6 DEF About, Documented, Standing
  <2>2. Described(a)' /\ Earned(a)'
    BY <1>1, StatesApart DEF About, Described, Earned, Terminal
  <2> QED BY <2>1, <2>2
<1> QED BY <1>3, <1>4, <1>5, <1>7, CalmKeeps DEF About

LEMMA PublishAbout ==
    ASSUME TypeInv, ClaimInv, \A b \in Attempts : About(b), NEW a \in Attempts,
           PublishOutcome(a)
    PROVE  \A b \in Attempts : About(b)'
<1>1. /\ Alone(a) /\ Keeps(a)
      /\ UNCHANGED <<row, lease, claim, selected, receipt, stage, obs>>
      /\ published' = published \cup {owner[a].doc}
      /\ owner[a].pc = "out_write" /\ owner'[a].pc = "out_publish"
      /\ owner'[a].doc = owner[a].doc /\ owner[a].doc \in Docs
  BY PublishFacts
<1>2. /\ owner[a].doc.attempt = a /\ owner[a].doc.by = "owner"
      /\ Standing(a, owner[a].doc) /\ OwnerWrote(a) /\ OwnerSees(a)
  BY <1>1 DEF About, OwnerWrote, Writing
<1>3. \A b \in Attempts \ {a} : Calm(b) /\ owner'[b] = owner[b]
  BY <1>1, <1>2, AloneCalm
<1>4. DocsOf(a)' = DocsOf(a) \cup {owner[a].doc}
  BY <1>1, <1>2 DEF DocsOf
<1>5. ASSUME NEW d \in Docs, Standing(a, d) PROVE Standing(a, d)'
  <2>1. Same(a)
    BY <1>1 DEF Same
  <2>2. lease[a].reservation \in Nat /\ lease[a].finalization \in Nat
    BY DEF TypeInv, TypeOK, LeaseType
  <2> QED BY <1>1, <1>5, <2>1, <2>2, StandingKept
<1>6. CoordinationSnapshot(a, "failed")' = CoordinationSnapshot(a, "failed")
      /\ CoordinationSnapshot(a, "superseded")' = CoordinationSnapshot(a, "superseded")
      /\ \A o : CoordinationSnapshot(a, o)' = CoordinationSnapshot(a, o)
  BY <1>1, SnapshotKept DEF Same
<1>7. row[a].state # "none"
  BY <1>1, <1>2 DEF OwnerSees, Alive, Staged
<1>8. OwnerSees(a)'
  BY <1>1, <1>2, NoneAssumption DEF OwnerSees, Keeps, Slot, Alive, Staged
<1>9. OwnerWrote(a)'
  <2> PICK plan : plan = owner[a].plan
    OBVIOUS
  <2> PICK doc : doc = owner[a].doc
    OBVIOUS
  <2>1. Standing(a, doc)'
    BY <1>1, <1>2, <1>5
  <2>2. CoordinationSnapshot(a, plan)' = CoordinationSnapshot(a, plan)
    BY <1>6
  <2> QED BY <1>1, <1>2, <2>1, <2>2 DEF OwnerWrote, Keeps, Writing
<1>10. Documented(a)'
  <2>1. \A d \in DocsOf(a) : d \in Docs
    BY DEF DocsOf, TypeInv, TypeOK
  <2> QED BY <1>1, <1>2, <1>4, <1>5, <1>7, <2>1 DEF About, Documented
<1>11. Described(a)' /\ Earned(a)'
  <2>1. DocsOf(a) \subseteq DocsOf(a)'
    BY <1>4
  <2>2. CoordinationSnapshot(a, receipt[a].state)'
          = CoordinationSnapshot(a, receipt[a].state)
    <3> PICK o : o = receipt[a].state
      OBVIOUS
    <3>1. CoordinationSnapshot(a, o)' = CoordinationSnapshot(a, o)
      BY <1>6
    <3> QED BY <1>1, <3>1
  <2>3. Described(a)'
    BY <1>1, <2>1, <2>2 DEF About, Described, Lasts, Slot
  <2>4. Earned(a)'
    BY <1>1 DEF About, Earned, Slot
  <2> QED BY <2>3, <2>4
<1> QED BY <1>3, <1>8, <1>9, <1>10, <1>11, CalmKeeps DEF About

LEMMA RenewAbout ==
    ASSUME TypeInv, TypeInv', ClaimInv, \A b \in Attempts : About(b), NEW a \in Attempts,
           Renew(a)
    PROVE  \A b \in Attempts : About(b)'
<1>1. /\ Alone(a) /\ owner' = owner
      /\ UNCHANGED <<row, claim, selected, receipt, published, obs>>
      /\ row[a].state \in Active
      /\ lease'[a].acquired = lease[a].acquired
      /\ lease[a].reservation <= lease'[a].reservation
      /\ lease[a].finalization <= lease'[a].finalization
  BY RenewFacts
<1>2. \A b \in Attempts \ {a} : Calm(b) /\ owner'[b] = owner[b]
  BY <1>1, AloneCalm
<1>3. lease'[a].reservation \in Nat /\ lease'[a].finalization \in Nat
  BY DEF TypeInv, TypeOK, LeaseType
<1>4. Same(a) /\ DocsOf(a)' = DocsOf(a)
  BY <1>1 DEF Same, DocsOf
<1>5. ASSUME NEW d \in Docs, Standing(a, d) PROVE Standing(a, d)'
  BY <1>1, <1>3, <1>4, <1>5, StandingKept
<1>6. OwnerSees(a)'
  BY <1>1, <1>4 DEF About, OwnerSees, Slot
<1>7. OwnerWrote(a)'
  <2> PICK plan : plan = owner[a].plan
    OBVIOUS
  <2> PICK doc : doc = owner[a].doc
    OBVIOUS
  <2>1. owner[a].pc \in Writing => Standing(a, doc)'
    BY <1>5 DEF About, OwnerWrote, TypeInv, LocalOK, Writing
  <2>2. CoordinationSnapshot(a, plan)' = CoordinationSnapshot(a, plan)
    BY <1>1, <1>4, SnapshotKept
  <2> QED BY <1>1, <2>1, <2>2 DEF About, OwnerWrote, Writing
<1>8. Documented(a)'
  <2>1. \A d \in DocsOf(a) : d \in Docs
    BY DEF DocsOf, TypeInv, TypeOK
  <2> QED BY <1>1, <1>4, <1>5, <2>1 DEF About, Documented
<1>9. Described(a)' /\ Earned(a)'
  BY <1>1, StatesApart DEF About, Described, Earned, Terminal
<1> QED BY <1>2, <1>6, <1>7, <1>8, <1>9, CalmKeeps DEF About

\* A terminal commit does not change what its own document says.
LEMMA SnapshotOfEnd ==
    ASSUME TypeInv, NEW a \in Attempts, NEW doc \in Docs, Ends(a, doc), obs' = obs,
           Lasts(a, doc.state)
    PROVE  CoordinationSnapshot(a, doc.state)' = CoordinationSnapshot(a, doc.state)
<1> PICK outcome : outcome = doc.state
  OBVIOUS
<1> DEFINE own(p) == IF obs[a][p] \in Registered THEN obs[a][p] ELSE "absent"
           pick(p) == IF /\ outcome = "accepted" /\ Slot(a) \in Profiles \ Streams
                         /\ obs[a][p] \in Registered
                      THEN a
                      ELSE IF IncludeSelected(outcome) \/ selected[Slot(a)][p] = a
                      THEN selected[Slot(a)][p] ELSE None
<1>1. CoordinationSnapshot(a, outcome) =
        [own |-> [p \in Points |-> own(p)], selected |-> [p \in Points |-> pick(p)]]
  BY Zenon DEF CoordinationSnapshot
<1>2. CoordinationSnapshot(a, outcome)' =
        [own |-> [p \in Points |-> own(p)'], selected |-> [p \in Points |-> pick(p)']]
  BY Zenon DEF CoordinationSnapshot, Slot, IncludeSelected
<1>3. ASSUME NEW p \in Points PROVE own(p)' = own(p) /\ pick(p)' = pick(p)
  BY SlotType DEF Ends, IncludeSelected, Slot, Lasts
<1> HIDE DEF own, pick
<1>4. /\ [p \in Points |-> own(p)'] = [p \in Points |-> own(p)]
      /\ [p \in Points |-> pick(p)'] = [p \in Points |-> pick(p)]
  BY <1>3
<1> QED BY <1>1, <1>2, <1>4

\* A terminal commit of a document on disk that describes the records, whoever
\* makes it.
LEMMA EndAbout ==
    ASSUME TypeInv, ClaimInv, SelectedInv, \A b \in Attempts : About(b),
           NEW a \in Attempts, NEW doc \in DocsOf(a), Ends(a, doc),
           row[a].state = "finalizing", row'[a].revision = doc.revision + 1,
           \A b \in Attempts \ {a} : owner'[b] = owner[b],
           UNCHANGED <<obs, published>>,
           CoordinationSnapshot(a, doc.state) = doc.coordination,
           doc.state = "accepted" => claim[Slot(a)] = a,
           OwnerSees(a)', OwnerWrote(a)'
    PROVE  \A b \in Attempts : About(b)'
<1>1. /\ doc \in Docs /\ doc \in published /\ doc.attempt = a /\ doc.state \in Terminal
      /\ doc.by \in {"owner", "recovery"} /\ doc # None
  BY NoneAssumption DEF DocsOf, TypeInv, TypeOK, Docs
<1>2. ASSUME NEW b \in Attempts \ {a} PROVE Calm(b)
  <2>1. Slot(b) \in Slots /\ a # None /\ b # None
    BY SlotType, NoneIsNoAttempt
  <2>2. claim'[Slot(b)] = b <=> claim[Slot(b)] = b
    BY <2>1 DEF Ends
  <2>3. \A p \in Points :
          \/ selected'[Slot(b)][p] = selected[Slot(b)][p]
          \/ /\ selected[Slot(b)][p] = None
             /\ claim[Slot(b)] \notin {None, b}
             /\ selected'[Slot(b)][p] = claim[Slot(b)]
    BY <2>1 DEF Ends
  <2> QED BY <2>2, <2>3 DEF Calm, Same, Ends
<1>3. DocsOf(a)' = DocsOf(a) /\ row'[a].state = doc.state
  BY DEF DocsOf, Ends
<1>4. Documented(a)'
  BY <1>1, <1>3, StatesApart DEF About, Documented, Standing
<1>5. Lasts(a, doc.state) => CoordinationSnapshot(a, doc.state)' = doc.coordination
  BY <1>1, SnapshotOfEnd
<1>6. Described(a)'
  BY <1>1, <1>3, <1>5 DEF Described, Ends, Lasts, Slot
<1>7. Earned(a)'
  <2> SUFFICES ASSUME doc.state = "accepted" PROVE Earned(a)'
    BY <1>3 DEF Earned
  <2>1. /\ doc.by = "owner" /\ Standing(a, doc)
    BY <1>1 DEF About, Documented
  <2>2. /\ lease[a].acquired <= doc.finished /\ doc.finished < lease[a].reservation
        /\ doc.finished < lease[a].finalization /\ ValidateAcceptance(a)
    BY <2>1 DEF Standing, Active
  <2>3. Slot(a) \in Slots /\ 1 \in Points
    BY SlotType, StoreAssumption DEF Points
  <2>4. CASE Slot(a) \in Profiles
    <3>1. ASSUME NEW p \in Points
          PROVE  selected'[Slot(a)][p] = IF obs[a][p] \in Registered THEN a ELSE None
      <4>1. selected[Slot(a)][p] \in {None, a}
        BY <2>2, <2>4 DEF ValidateAcceptance
      <4>2. selected[Slot(a)][p] = a => obs[a][p] \in Registered
        BY <2>3, NoneIsNoAttempt DEF SelectedInv
      <4> QED BY <2>3, <2>4, <4>1, <4>2 DEF Ends
    <3> QED BY <2>1, <2>2, <2>4, <3>1 DEF Earned, Ends, Slot
  <2>5. CASE Slot(a) \notin Profiles
    <3>1. obs[a][1] = "complete" /\ selected'[Slot(a)][1] # None
      BY <2>2, <2>3, <2>5 DEF ValidateAcceptance, Ends
    <3> QED BY <2>1, <2>2, <2>5, <3>1 DEF Earned, Ends, Slot
  <2> QED BY <2>4, <2>5
<1>8. About(a)'
  BY <1>4, <1>6, <1>7 DEF About
<1> QED BY <1>2, <1>8, CalmKeeps

LEMMA CommitAbout ==
    ASSUME TypeInv, ClaimInv, SelectedInv, \A b \in Attempts : About(b),
           NEW a \in Attempts, CommitFinalization(a)
    PROVE  \A b \in Attempts : About(b)'
<1>1. OwnerWrote(a)
  BY DEF About
<1>2. /\ Ends(a, owner[a].doc) /\ row'[a].revision = owner[a].revision + 1
      /\ \A b \in Attempts \ {a} : owner'[b] = owner[b]
      /\ UNCHANGED <<obs, published>>
      /\ owner[a].pc = "out_publish" /\ owner'[a].pc \in {"done", "dead"}
      /\ row[a].state = "finalizing"
      /\ CoordinationSnapshot(a, owner[a].doc.state) = owner[a].doc.coordination
      /\ owner[a].doc.state = "accepted" => claim[Slot(a)] = a
  BY <1>1, FinalizationFacts
<1>3. PICK doc : doc = owner[a].doc
  OBVIOUS
<1>4. doc \in DocsOf(a) /\ doc.revision = owner[a].revision
  BY <1>1, <1>2, <1>3 DEF OwnerWrote, Writing, DocsOf
<1>5. OwnerSees(a)' /\ OwnerWrote(a)'
  BY <1>2 DEF OwnerSees, OwnerWrote, Writing, Alive, Creating, Staged
<1>6. /\ Ends(a, doc) /\ row'[a].revision = doc.revision + 1
      /\ CoordinationSnapshot(a, doc.state) = doc.coordination
      /\ doc.state = "accepted" => claim[Slot(a)] = a
  BY <1>2, <1>3, <1>4
<1> QED BY <1>2, <1>4, <1>5, <1>6, EndAbout

-----------------------------------------------------------------------------
(***************************************************************************)
(* What is true of an attempt stays true through a recovery pass.           *)
(***************************************************************************)
\* A step that touches neither the database nor an owner, and publishes nothing.
LEMMA AllCalm ==
    ASSUME TypeInv, ClaimInv, \A b \in Attempts : About(b),
           UNCHANGED <<row, lease, claim, selected, receipt, published, owner>>,
           \A b \in Attempts : Same(b)
    PROVE  \A b \in Attempts : About(b)'
<1>1. \A b \in Attempts : Calm(b) /\ owner'[b] = owner[b]
  BY DEF Calm
<1> QED BY <1>1, CalmKeeps

LEMMA ExpiredNow ==
    ASSUME NEW now, RequireExpired(now)
    PROVE  /\ row[rec.attempt].state = "finalizing"
           /\ row[rec.attempt].revision = rec.revision
BY DEF RequireExpired

\* The two terminal commits of recovery.
LEMMA RecoverEndFacts ==
    ASSUME TypeInv, ClaimInv, RecoveryInv, RecoverImport \/ RecoverCommit
    PROVE  /\ rec.attempt \in Attempts /\ rec.doc \in DocsOf(rec.attempt)
           /\ Ends(rec.attempt, rec.doc)
           /\ row'[rec.attempt].revision = rec.doc.revision + 1
           /\ rec.doc.revision = rec.revision
           /\ row[rec.attempt].state = "finalizing"
           /\ row[rec.attempt].revision = rec.revision
           /\ UNCHANGED <<obs, published, owner>>
           /\ CoordinationSnapshot(rec.attempt, rec.doc.state) = rec.doc.coordination
           /\ rec.doc.state = "accepted" => claim[Slot(rec.attempt)] = rec.attempt
           /\ rec.pc \in {"import", "commit"} /\ rec' = NextAttempt
           /\ stage' = [stage EXCEPT ![rec.attempt] = ReleaseStages(rec.attempt)]
<1>1. /\ rec.pc \in {"import", "commit"} /\ rec' = NextAttempt
      /\ UNCHANGED <<obs, published, owner>>
      /\ CommitTerminal(rec.attempt, rec.revision, rec.updated, rec.doc)
      /\ stage' = [stage EXCEPT ![rec.attempt] = ReleaseStages(rec.attempt)]
  BY DEF RecoverImport, RecoverCommit
<1>2. /\ rec.attempt \in Attempts /\ rec.doc \in Docs /\ rec.doc \in DocsOf(rec.attempt)
      /\ rec.revision \in Nat /\ rec.updated \in Nat
  BY <1>1, RecFields DEF TypeInv, TypeOK, LocalOK, RecoveryInv
<1>3. /\ row[rec.attempt].state = "finalizing"
      /\ row[rec.attempt].revision = rec.revision
  BY ExpiredNow DEF RecoverImport, RecoverCommit
<1>4. /\ rec.doc.revision = rec.revision /\ rec.updated <= rec.doc.finished
      /\ CoordinationSnapshot(rec.attempt, rec.doc.state) = rec.doc.coordination
      /\ rec.doc.state = "accepted" => claim[Slot(rec.attempt)] = rec.attempt
  <2>1. CASE RecoverImport
    <3>1. PICK now : ValidOrphan(rec.doc, now)
      BY <2>1 DEF RecoverImport
    <3>2. PICK snap : snap = CoordinationSnapshot(rec.attempt, rec.doc.state)
      OBVIOUS
    <3>3. rec.doc = [attempt |-> rec.attempt, revision |-> rec.revision,
                     state |-> rec.doc.state, finished |-> rec.doc.finished,
                     by |-> rec.doc.by, coordination |-> snap]
      BY <3>1, <3>2 DEF ValidOrphan, OutcomeDocument
    <3>4. rec.doc.revision = rec.revision /\ rec.doc.coordination = snap
      BY <3>3
    <3> QED BY <3>1, <3>2, <3>4 DEF ValidOrphan
  <2>2. CASE RecoverCommit
    <3>1. /\ rec.pc = "commit"
          /\ CoordinationSnapshot(rec.attempt, "failed") = rec.doc.coordination
      BY <2>2 DEF RecoverCommit
    <3> QED BY <3>1 DEF RecoveryInv, TypeInv, LocalOK
  <2> QED BY <2>1, <2>2
<1>5. PICK doc : doc = rec.doc
  OBVIOUS
<1>6. PICK a \in Attempts : a = rec.attempt
  BY <1>2
<1>7. PICK updated \in Nat : updated = rec.updated
  BY <1>2
<1>8. PICK revision \in Nat : revision = rec.revision
  BY <1>2
<1>9. Ends(a, doc) /\ row'[a].revision = revision + 1
  BY <1>1, <1>2, <1>4, <1>5, <1>6, <1>7, <1>8, EndFacts
<1> QED BY <1>1, <1>2, <1>3, <1>4, <1>5, <1>6, <1>8, <1>9

LEMMA RecoverEndAbout ==
    ASSUME TypeInv, TypeInv', ClaimInv, SelectedInv, RecoveryInv,
           \A b \in Attempts : About(b), RecoverImport \/ RecoverCommit
    PROVE  \A b \in Attempts : About(b)'
<1>1. PICK a : a = rec.attempt
  OBVIOUS
<1>2. PICK doc : doc = rec.doc
  OBVIOUS
<1>3. /\ a \in Attempts /\ doc \in DocsOf(a) /\ Ends(a, doc)
      /\ row'[a].revision = doc.revision + 1 /\ doc.revision = row[a].revision
      /\ row[a].state = "finalizing"
      /\ UNCHANGED <<obs, published, owner>>
      /\ CoordinationSnapshot(a, doc.state) = doc.coordination
      /\ doc.state = "accepted" => claim[Slot(a)] = a
  BY <1>1, <1>2, RecoverEndFacts
<1>4. owner[a].pc \notin Staged
  BY <1>1, <1>3 DEF RecoveryInv
<1>5. OwnerWrote(a)'
  BY <1>3, <1>4 DEF OwnerWrote, Writing, Staged
<1>6. OwnerSees(a)'
  <2>1. /\ DocsOf(a)' = DocsOf(a) /\ row'[a].state # "none" /\ claim'[Slot(a)] # a
    BY <1>3, StatesApart DEF DocsOf, Ends, TypeInv, TypeOK, Docs
  <2>2. owner[a].revision \in Nat /\ row[a].revision \in Nat
    BY <1>3, OwnerFields DEF TypeInv, TypeOK, RowType
  <2>3. owner[a].pc \in Alive =>
          owner[a].revision <= row'[a].revision /\ owner[a].revision # row'[a].revision
    BY <1>3, <2>2 DEF About, OwnerSees
  <2> QED BY <1>3, <2>1, <2>3 DEF About, OwnerSees, Slot
<1>7. \A b \in Attempts \ {a} : owner'[b] = owner[b]
  BY <1>3
<1> QED BY <1>3, <1>5, <1>6, <1>7, EndAbout

LEMMA TakeFacts ==
    ASSUME TypeInv, NEW a \in Attempts, RecoverTake(a)
    PROVE  /\ rec.pc = "attempts" /\ a \in rec.todo
           /\ UNCHANGED <<lease, claim, stage, obs, selected, published, receipt, owner>>
           /\ \A b \in Attempts \ {a} : row'[b] = row[b]
           /\ rec'.todo = rec.todo \ {a}
           /\ rec'.orphans = rec.orphans /\ rec'.stages = rec.stages
           /\ \/ rec'.pc = "attempts" /\ rec'.attempt = rec.attempt /\ row' = row
              \/ /\ rec'.pc = "judge" /\ rec'.attempt = a
                 /\ rec'.revision = row'[a].revision /\ rec'.updated = row'[a].updated
                 /\ row[a].state \in Active /\ row'[a].state = "finalizing"
                 /\ \/ row' = row
                    \/ row[a].state # "finalizing" /\ row'[a].revision = row[a].revision + 1
<1>1. PICK t \in Current :
        \/ /\ rec' = [rec EXCEPT !.todo = @ \ {a}]
           /\ row' = row
        \/ /\ Expired(a, Later(t, rec.now))
           /\ IF row[a].state = "finalizing"
                THEN row' = row
                ELSE Transition(a, row[a].revision, row[a].updated, "finalizing",
                                Later(t, rec.now))
           /\ rec' = [rec EXCEPT !.pc = "judge", !.todo = @ \ {a},
                  !.attempt = a, !.checked = Later(t, rec.now),
                  !.revision = row'[a].revision, !.updated = row'[a].updated]
  BY DEF RecoverTake
<1>2. /\ rec.pc = "attempts" /\ a \in rec.todo
      /\ UNCHANGED <<lease, claim, stage, obs, selected, published, receipt, owner>>
  BY DEF RecoverTake
<1>3. PICK checked : checked = Later(t, rec.now)
  OBVIOUS
<1>4. /\ checked \in Nat /\ rec \in RecType
      /\ row[a].revision \in Nat /\ row[a].updated \in Nat
  BY <1>3, SampleType, RecFields, LaterType DEF TypeInv, TypeOK, RowType
<1>5. CASE rec' = [rec EXCEPT !.todo = @ \ {a}] /\ row' = row
  <2>1. /\ rec'.todo = rec.todo \ {a} /\ rec'.pc = rec.pc /\ rec'.attempt = rec.attempt
        /\ rec'.orphans = rec.orphans /\ rec'.stages = rec.stages
    BY <1>4, <1>5 DEF RecType
  <2> QED BY <1>2, <1>5, <2>1
<1>6. CASE /\ Expired(a, checked)
           /\ IF row[a].state = "finalizing"
                THEN row' = row
                ELSE Transition(a, row[a].revision, row[a].updated, "finalizing", checked)
           /\ rec' = [rec EXCEPT !.pc = "judge", !.todo = @ \ {a},
                  !.attempt = a, !.checked = checked,
                  !.revision = row'[a].revision, !.updated = row'[a].updated]
  <2>1. /\ row[a].state \in Active /\ row'[a].state = "finalizing"
        /\ \A b \in Attempts \ {a} : row'[b] = row[b]
        /\ \/ row' = row
           \/ row[a].state # "finalizing" /\ row'[a].revision = row[a].revision + 1
    BY <1>4, <1>6, TransitionFacts DEF Expired, Active
  <2>2. PICK r, u : r = row'[a].revision /\ u = row'[a].updated
    OBVIOUS
  <2>3. rec' = [rec EXCEPT !.pc = "judge", !.todo = rec.todo \ {a},
                  !.attempt = a, !.checked = checked, !.revision = r, !.updated = u]
    BY <1>6, <2>2
  <2>4. /\ rec'.todo = rec.todo \ {a} /\ rec'.pc = "judge" /\ rec'.attempt = a
        /\ rec'.orphans = rec.orphans /\ rec'.stages = rec.stages
        /\ rec'.revision = r /\ rec'.updated = u
    BY <1>4, <2>3 DEF RecType
  <2> QED BY <1>2, <2>1, <2>2, <2>4
<1> QED BY <1>1, <1>3, <1>5, <1>6

LEMMA TakeAbout ==
    ASSUME TypeInv, ClaimInv, RecoveryInv, \A b \in Attempts : About(b),
           NEW a \in Attempts, RecoverTake(a)
    PROVE  \A b \in Attempts : About(b)'
<1>1. /\ a \in rec.todo
      /\ UNCHANGED <<lease, claim, stage, obs, selected, published, receipt, owner>>
      /\ \A b \in Attempts \ {a} : row'[b] = row[b]
      /\ \/ row' = row
         \/ /\ row[a].state \in Active /\ row'[a].state = "finalizing"
            /\ row[a].state # "finalizing" /\ row'[a].revision = row[a].revision + 1
  BY TakeFacts
<1>2. \A b \in Attempts : Same(b)
  BY <1>1 DEF Same
<1>3. CASE row' = row
  BY <1>1, <1>2, <1>3, AllCalm
<1>4. CASE /\ row[a].state \in Active /\ row'[a].state = "finalizing"
           /\ row[a].state # "finalizing" /\ row'[a].revision = row[a].revision + 1
  <2>1. \A b \in Attempts \ {a} : Calm(b) /\ owner'[b] = owner[b]
    BY <1>1, <1>2 DEF Calm
  <2>2. /\ DocsOf(a)' = DocsOf(a) /\ \A d \in DocsOf(a) : d.state # "accepted"
    BY <1>1, <1>4 DEF DocsOf, About, Documented, Standing
  <2>3. claim[Slot(a)] # a
    BY <1>4, SlotType, NoneIsNoAttempt DEF ClaimInv, ClaimHeldByFinalizer
  <2>4. owner[a].pc \notin Staged
    BY <1>1 DEF RecoveryInv
  <2>5. OwnerWrote(a)'
    BY <1>1, <2>4 DEF OwnerWrote, Writing, Staged
  <2>6. owner[a].revision \in Nat /\ row[a].revision \in Nat
    BY OwnerFields DEF TypeInv, TypeOK, RowType
  <2>7. owner[a].pc \in Alive =>
          owner[a].revision <= row'[a].revision /\ owner[a].revision # row'[a].revision
    BY <1>4, <2>6 DEF About, OwnerSees
  <2>8. OwnerSees(a)'
    BY <1>1, <1>4, <2>2, <2>3, <2>7 DEF About, OwnerSees, Slot
  <2>9. Documented(a)'
    BY <1>1, <1>4, <2>2 DEF About, Documented, Standing
  <2>10. Described(a)' /\ Earned(a)'
    BY <1>1, <1>4, StatesApart DEF About, Described, Earned, Terminal
  <2>11. About(a)'
    BY <2>5, <2>8, <2>9, <2>10 DEF About
  <2> QED BY <2>1, <2>11, CalmKeeps
<1> QED BY <1>1, <1>3, <1>4

LEMMA FailFacts ==
    ASSUME TypeInv, RecoverPublish
    PROVE  /\ rec.attempt \in Attempts /\ rec.pc = "fail"
           /\ UNCHANGED <<row, lease, claim, selected, receipt, stage, obs, owner>>
           /\ row[rec.attempt].state = "finalizing"
           /\ published' = published \cup {rec'.doc}
           /\ rec'.doc \in Docs /\ rec'.doc.attempt = rec.attempt
           /\ rec'.doc.state = "failed" /\ rec'.doc.by = "recovery"
           /\ rec'.doc.revision = rec.revision /\ rec.updated <= rec'.doc.finished
           /\ rec'.pc = "commit" /\ rec'.todo = rec.todo /\ rec'.attempt = rec.attempt
           /\ rec'.orphans = rec.orphans /\ rec'.stages = rec.stages
           /\ rec'.revision = rec.revision /\ rec'.updated = rec.updated
<1>1. PICK t \in Current :
        /\ RequireExpired(Later(Later(t, rec.checked), rec.updated))
        /\ published' = published \cup {OutcomeDocument(rec.attempt, rec.revision, "failed",
                            Later(Later(t, rec.checked), rec.updated), "recovery")}
        /\ rec' = [rec EXCEPT !.pc = "commit", !.doc =
                      OutcomeDocument(rec.attempt, rec.revision, "failed",
                            Later(Later(t, rec.checked), rec.updated), "recovery")]
  BY DEF RecoverPublish
<1>2. /\ rec.pc = "fail"
      /\ UNCHANGED <<row, lease, claim, selected, receipt, stage, obs, owner>>
  BY DEF RecoverPublish, db
<1>3. /\ rec.attempt \in Attempts /\ rec \in RecType
      /\ rec.revision \in Nat /\ rec.updated \in Nat /\ rec.checked \in Nat /\ t \in Nat
  BY <1>2, RecFields, SampleType DEF TypeInv, TypeOK, LocalOK
<1>4. PICK x : x = Later(t, rec.checked)
  OBVIOUS
<1>5. x \in Nat
  BY <1>3, <1>4, LaterType
<1>6. PICK finished : finished = Later(x, rec.updated)
  OBVIOUS
<1>7. finished \in Nat /\ rec.updated <= finished
  BY <1>3, <1>5, <1>6, LaterType
<1>8. PICK doc :
        doc = OutcomeDocument(rec.attempt, rec.revision, "failed", finished, "recovery")
  OBVIOUS
<1>9. /\ doc \in Docs /\ doc.attempt = rec.attempt /\ doc.state = "failed"
      /\ doc.by = "recovery" /\ doc.revision = rec.revision /\ doc.finished = finished
  BY <1>3, <1>7, <1>8, DocumentType DEF TypeInv, Terminal, OutcomeDocument
<1>10. published' = published \cup {doc} /\ rec' = [rec EXCEPT !.pc = "commit", !.doc = doc]
  BY <1>1, <1>4, <1>6, <1>8
<1>11. /\ rec'.doc = doc /\ rec'.pc = "commit"
       /\ rec'.todo = rec.todo /\ rec'.attempt = rec.attempt
       /\ rec'.orphans = rec.orphans /\ rec'.stages = rec.stages
       /\ rec'.revision = rec.revision /\ rec'.updated = rec.updated
  BY <1>3, <1>10 DEF RecType
<1>12. row[rec.attempt].state = "finalizing"
  BY <1>1, ExpiredNow
<1> QED BY <1>2, <1>3, <1>7, <1>9, <1>10, <1>11, <1>12

LEMMA FailAbout ==
    ASSUME TypeInv, ClaimInv, RecoveryInv, \A b \in Attempts : About(b), RecoverPublish
    PROVE  \A b \in Attempts : About(b)'
<1>1. PICK a : a = rec.attempt
  OBVIOUS
<1>2. PICK doc : doc = rec'.doc
  OBVIOUS
<1>3. /\ a \in Attempts
      /\ UNCHANGED <<row, lease, claim, selected, receipt, stage, obs, owner>>
      /\ row[a].state = "finalizing"
      /\ published' = published \cup {doc}
      /\ doc.attempt = a /\ doc.state = "failed" /\ doc.by = "recovery"
  BY <1>1, <1>2, FailFacts
<1>4. \A b \in Attempts \ {a} : Calm(b) /\ owner'[b] = owner[b]
  BY <1>3 DEF Calm, Same
<1>5. DocsOf(a)' = DocsOf(a) \cup {doc}
  BY <1>3 DEF DocsOf
<1>6. owner[a].pc \notin Staged
  BY <1>1, <1>3 DEF RecoveryInv
<1>7. OwnerWrote(a)'
  BY <1>3, <1>6 DEF OwnerWrote, Writing, Staged
<1>8. OwnerSees(a)'
  BY <1>3, <1>5 DEF About, OwnerSees, Slot
<1>9. ASSUME NEW d \in DocsOf(a) PROVE Standing(a, d)'
  <2>1. d \in Docs /\ Standing(a, d)
    BY <1>3 DEF DocsOf, TypeInv, TypeOK, About, Documented
  <2>2. lease[a].reservation \in Nat /\ lease[a].finalization \in Nat /\ Same(a)
    BY <1>3 DEF TypeInv, TypeOK, LeaseType, Same
  <2> QED BY <1>3, <2>1, <2>2, StandingKept
<1>10. Documented(a)'
  <2>1. Standing(a, doc)'
    BY <1>3 DEF Standing
  <2> QED BY <1>3, <1>5, <1>9, <2>1 DEF About, Documented
<1>11. Described(a)' /\ Earned(a)'
  BY <1>3 DEF About, Described, Earned, Terminal
<1> QED BY <1>4, <1>7, <1>8, <1>10, <1>11, CalmKeeps DEF About

LEMMA RecoverAbout ==
    ASSUME TypeInv, TypeInv', ClaimInv, SelectedInv, RecoveryInv,
           \A b \in Attempts : About(b), RecoverStep \/ RecoverCrash
    PROVE  \A b \in Attempts : About(b)'
<1>1. CASE RecoverBegin
  <2>1. /\ UNCHANGED <<row, lease, claim, selected, receipt, published, owner>>
        /\ obs' = [a \in Attempts |-> [p \in Points |->
               IF obs[a][p] = "disk" THEN "imported" ELSE obs[a][p]]]
    BY <1>1 DEF RecoverBegin, db
  <2>2. \A b \in Attempts : Same(b)
    BY <2>1 DEF Same, Registered
  <2> QED BY <2>1, <2>2, AllCalm
<1>2. CASE RecoverImport \/ RecoverCommit
  BY <1>2, RecoverEndAbout
<1>3. CASE RecoverPublish
  BY <1>3, FailAbout
<1>4. ASSUME NEW a \in Attempts, RecoverTake(a) PROVE \A b \in Attempts : About(b)'
  BY <1>4, TakeAbout
<1>5. CASE UNCHANGED <<row, lease, claim, selected, receipt, published, owner, obs>>
  <2>1. \A b \in Attempts : Same(b)
    BY <1>5 DEF Same
  <2> QED BY <1>5, <2>1, AllCalm
<1> QED BY <1>1, <1>2, <1>3, <1>4, <1>5
     DEF RecoverStep, RecoverJudge, RecoverFails, RecoverQuarantine, RecoverEnd,
         RecoverCrash, db

-----------------------------------------------------------------------------
(***************************************************************************)
(* Stages, selections and the recovery pass while an owner works.           *)
(***************************************************************************)
\* StageStaysWithPublisher, for one attempt.
StagesOf(a) ==
    \A job \in Jobs :
        LET pc == owner[a].pc
            mine(x, y) == pc = IF job = "observation" THEN x ELSE y
        IN /\ mine("obs_create", "out_create") => stage[a][job].dir = "private"
           /\ \/ mine("obs_stage", "out_stage")
              \/ mine("obs_publish", "out_publish")
              \/ job = "outcome" /\ pc = "out_write"
              => stage[a][job].dir = "locked"

LEMMA StagesOfAll == StageStaysWithPublisher <=> \A a \in Attempts : StagesOf(a)
BY Zenon DEF StageStaysWithPublisher, StagesOf

\* No stage of attempt a becomes locked.
NoLock(a) ==
    \A job \in Jobs : stage'[a][job].dir = "locked" => stage[a][job].dir = "locked"

\* A step of the owner of attempt a.
Orderly(a) ==
    /\ Alone(a)
    /\ published \subseteq published'
    /\ \A d \in published' \ published : d.attempt = a /\ owner[a].pc \in Staged
    /\ owner'[a].pc \in Creating => rec.pc = "off" \/ owner[a].pc \in Creating
    /\ owner'[a].pc \in Staged => owner[a].pc \in Staged \cup Creating
    /\ \/ row'[a] = row[a]
       \/ row[a].state = "none"
       \/ row'[a].state # "none" /\ row'[a].revision = row[a].revision + 1
    /\ StagesOf(a)'
    /\ NoLock(a) \/ owner[a].pc \in Creating
    /\ \A p \in Points : obs[a][p] \in Registered => obs'[a][p] \in Registered
    /\ \A s \in Slots, p \in Points :
         \/ selected'[s][p] = selected[s][p]
         \/ s = Slot(a) /\ selected'[s][p] = a /\ obs'[a][p] \in Registered

LEMMA OrderlyStages ==
    ASSUME TypeInv, StageInv, NEW a \in Attempts, Orderly(a)
    PROVE  StageInv'
<1>1. /\ \A b \in Attempts \ {a} : owner'[b] = owner[b] /\ stage'[b] = stage[b]
      /\ rec' = rec
  BY DEF Orderly, Alone
<1>2. \A b \in Attempts : StagesOf(b)'
  <2>1. ASSUME NEW b \in Attempts \ {a} PROVE StagesOf(b)'
    BY <1>1, StagesOfAll DEF StagesOf, StageInv
  <2> QED BY <2>1 DEF Orderly
<1>3. StageStaysWithPublisher'
  BY <1>2, Zenon DEF StageStaysWithPublisher, StagesOf
<1>4. ASSUME rec.pc # "off"
      PROVE  /\ ExclusiveLock'
             /\ \A sj \in rec.stages : stage'[sj[1]][sj[2]].dir # "locked"
  <2>1. ExclusiveLock /\ \A sj \in rec.stages : stage[sj[1]][sj[2]].dir # "locked"
    BY <1>4 DEF StageInv
  <2>2. ExclusiveLock'
    BY <1>1, <1>4, <2>1 DEF ExclusiveLock, Orderly
  <2>3. NoLock(a)
    BY <2>1 DEF ExclusiveLock, Orderly
  <2>4. \A sj \in rec.stages : sj[1] \in Attempts /\ sj[2] \in Jobs
    BY RecFields DEF TypeInv, TypeOK
  <2>5. \A sj \in rec.stages : stage'[sj[1]][sj[2]].dir # "locked"
    BY <1>1, <2>1, <2>3, <2>4 DEF NoLock
  <2> QED BY <2>2, <2>5
<1> QED BY <1>1, <1>3, <1>4 DEF StageInv

LEMMA OrderlySelections ==
    ASSUME TypeInv, SelectedInv, NEW a \in Attempts, Orderly(a)
    PROVE  SelectedInv'
<1> SUFFICES ASSUME NEW s \in Slots, NEW p \in Points, selected'[s][p] # None
             PROVE  Slot(selected'[s][p]) = s /\ obs'[selected'[s][p]][p] \in Registered
  BY DEF SelectedInv, Slot
<1>1. CASE selected'[s][p] = selected[s][p]
  <2>1. PICK b : b = selected[s][p]
    OBVIOUS
  <2>2. b \in Attempts /\ Slot(b) = s /\ obs[b][p] \in Registered
    BY <1>1, <2>1 DEF SelectedInv, TypeInv, TypeOK
  <2>3. obs'[b][p] \in Registered
    BY <2>2 DEF Orderly, Alone
  <2> QED BY <1>1, <2>1, <2>2, <2>3
<1>2. CASE s = Slot(a) /\ selected'[s][p] = a /\ obs'[a][p] \in Registered
  BY <1>2
<1> QED BY <1>1, <1>2 DEF Orderly

\* The attempt, if any, that a pass is working on, and those it has still to
\* look at, are not publishing.
LEMMA OrderlyRecovery ==
    ASSUME TypeInv, TypeInv', RecoveryInv, NEW a \in Attempts, Orderly(a)
    PROVE  RecoveryInv'
<1>1. /\ \A b \in Attempts \ {a} : owner'[b] = owner[b] /\ row'[b] = row[b]
      /\ rec' = rec /\ published \subseteq published'
      /\ \A d \in published' \ published : d.attempt = a /\ owner[a].pc \in Staged
  BY DEF Orderly, Alone
<1>2. /\ rec.todo \subseteq Attempts /\ rec.attempt \in Attempts \cup {None}
      /\ rec.pc \in Deciding => rec.attempt \in Attempts
      /\ rec.revision \in Nat
  BY RecFields DEF TypeInv, TypeOK, LocalOK, Deciding
<1>3. \A b \in Attempts : b \in rec.todo \cup {rec.attempt} => rec.pc # "off"
  BY NoneIsNoAttempt DEF RecoveryInv, Deciding
<1>4. \A b \in Attempts : b \in rec.todo \cup {rec.attempt} =>
        owner[b].pc \notin Staged \cup Creating /\ owner'[b].pc \notin Staged \cup Creating
  BY <1>1, <1>3 DEF RecoveryInv, Orderly
<1>5. \A b \in Attempts : row[b].state # "none" =>
        /\ row'[b].state # "none" /\ row[b].revision <= row'[b].revision
        /\ row'[b].revision = row[b].revision => row'[b] = row[b]
  BY <1>1 DEF Orderly, TypeInv, TypeOK, RowType
<1>6. \A b \in Attempts : b \in rec.todo \cup {rec.attempt} => DocsOf(b)' = DocsOf(b)
  BY <1>1, <1>4 DEF DocsOf
<1>7. Judging' = Judging
  BY <1>1 DEF Judging
<1>8. \A d \in published' : d.attempt \in Judging' => d \in rec'.orphans
  <2>1. Judging \subseteq rec.todo \cup {rec.attempt}
    BY DEF Judging
  <2> QED BY <1>1, <1>4, <1>7, <2>1 DEF RecoveryInv
<1>9. rec.pc \in Deciding =>
        /\ rec.revision <= row'[rec.attempt].revision
        /\ rec.revision = row'[rec.attempt].revision =>
             rec.updated = row'[rec.attempt].updated
        /\ row'[rec.attempt].state # "none"
  <2> SUFFICES ASSUME rec.pc \in Deciding
               PROVE  /\ rec.revision <= row'[rec.attempt].revision
                      /\ rec.revision = row'[rec.attempt].revision =>
                            rec.updated = row'[rec.attempt].updated
                      /\ row'[rec.attempt].state # "none"
    OBVIOUS
  <2>1. PICK b \in Attempts : b = rec.attempt
    BY <1>2
  <2>2. /\ rec.revision <= row[b].revision /\ row[b].state # "none"
        /\ rec.revision = row[b].revision => rec.updated = row[b].updated
    BY <2>1 DEF RecoveryInv
  <2>3. row[b].revision \in Nat /\ row'[b].revision \in Nat
    BY DEF TypeInv, TypeOK, RowType
  <2> QED BY <1>2, <1>5, <2>1, <2>2, <2>3
<1>10. rec.pc \in {"import", "commit"} => rec.doc \in DocsOf(rec.attempt)'
  BY <1>1 DEF RecoveryInv, DocsOf
<1>11. rec.pc = "fail" => Contested(rec.attempt)'
  <2> SUFFICES ASSUME rec.pc = "fail" PROVE Contested(rec.attempt)'
    OBVIOUS
  <2>1. PICK b \in Attempts : b = rec.attempt
    BY <1>2 DEF Deciding
  <2>2. DocsOf(b)' = DocsOf(b) /\ Contested(b)
    BY <1>6, <2>1 DEF RecoveryInv
  <2>3. Contested(b)'
    BY <2>2 DEF Contested
  <2> QED BY <1>1, <2>1, <2>3 DEF Contested, DocsOf
<1>12. \A b \in rec.todo : row'[b].state # "none"
  BY <1>2, <1>5 DEF RecoveryInv
<1> QED BY <1>1, <1>4, <1>8, <1>9, <1>10, <1>11, <1>12 DEF RecoveryInv

LEMMA ReleaseKeepsDir == \A st \in StageType : Release(st).dir = st.dir
BY DEF Release, StageType

\* What owners do to their stages when they are done with them.
LEMMA StagesLeft ==
    ASSUME TypeInv, NEW a \in Attempts,
           \/ CommitArtifact(a) \/ ObservationFails(a) \/ Abort(a) \/ CommitFinalization(a)
    PROVE  NoLock(a)
<1>0. \A job \in Jobs : stage[a][job] \in StageType
  BY DEF TypeInv, TypeOK
<1>1. Cleanups \subseteq {"none", "left"}
  BY StoreAssumption
<1>2. CASE CommitArtifact(a)
  <2>1. PICK rest \in Cleanups :
          stage' = [stage EXCEPT ![a]["observation"] =
              [Release(stage[a]["observation"]) EXCEPT !.dir = rest]]
    BY <1>2 DEF CommitArtifact
  <2>2. PICK st : st = [Release(stage[a]["observation"]) EXCEPT !.dir = rest]
    OBVIOUS
  <2>3. Release(stage[a]["observation"]) \in StageType
    BY <1>0, ReleaseType DEF Jobs
  <2>4. st.dir # "locked"
    BY <1>1, <2>2, <2>3 DEF StageType
  <2>5. stage' = [stage EXCEPT ![a]["observation"] = st]
    BY <2>1, <2>2
  <2>6. stage'[a]["observation"] = st /\ stage'[a]["outcome"] = stage[a]["outcome"]
    BY <2>5 DEF TypeInv, TypeOK, Jobs
  <2> QED BY <2>4, <2>6 DEF NoLock, Jobs
<1>3. \A job \in Jobs : Dropped(a)[job].dir # "locked"
  BY <1>0 DEF Dropped, StageType
<1>4. ASSUME stage' = [stage EXCEPT ![a] = Dropped(a)] PROVE NoLock(a)
  <2>1. PICK st : st = Dropped(a)
    OBVIOUS
  <2>2. stage'[a] = st
    BY <1>4, <2>1 DEF TypeInv, TypeOK
  <2> QED BY <1>3, <2>1, <2>2 DEF NoLock
<1>5. ASSUME NEW job \in Jobs, stage' = [stage EXCEPT ![a][job] = NoStage] PROVE NoLock(a)
  <2>1. NoStage.dir # "locked"
    BY DEF NoStage
  <2>2. /\ stage'[a][job] = NoStage
        /\ \A j \in Jobs \ {job} : stage'[a][j] = stage[a][j]
    BY <1>5 DEF TypeInv, TypeOK
  <2> QED BY <2>1, <2>2 DEF NoLock
<1>6. CASE Abort(a)
  BY <1>4, <1>5, <1>6 DEF Abort
<1>7. CASE ObservationFails(a)
  <2>1. \/ stage' = [stage EXCEPT ![a] = Dropped(a)]
        \/ stage' = [stage EXCEPT ![a]["observation"] = NoStage]
    BY <1>7 DEF ObservationFails
  <2>2. "observation" \in Jobs
    BY DEF Jobs
  <2> QED BY <1>4, <1>5, <2>1, <2>2
<1>8. CASE CommitFinalization(a)
  <2>1. PICK rest \in Cleanups :
          stage' = [stage EXCEPT ![a] = [ReleaseStages(a) EXCEPT !["outcome"].dir = rest]]
    BY <1>8 DEF CommitFinalization
  <2>2. PICK st : st = ReleaseStages(a)
    OBVIOUS
  <2>3. /\ st \in [Jobs -> StageType]
        /\ \A job \in Jobs : st[job].dir = stage[a][job].dir
    BY <1>0, <2>2, ReleaseKeepsDir, ReleaseStagesType DEF TypeInv, TypeOK, ReleaseStages
  <2>4. stage'[a] = [st EXCEPT !["outcome"].dir = rest]
    BY <2>1, <2>2 DEF TypeInv, TypeOK
  <2>5. /\ stage'[a]["outcome"].dir = rest
        /\ stage'[a]["observation"].dir = st["observation"].dir
    BY <2>3, <2>4 DEF StageType, Jobs
  <2> QED BY <1>1, <2>3, <2>5 DEF NoLock, Jobs
<1> QED BY <1>2, <1>6, <1>7, <1>8

LEMMA OrderlyQuiet ==
    ASSUME TypeInv, NEW a \in Attempts, Quiet(a), Same(a),
           owner'[a].pc \in Creating => rec.pc = "off",
           owner'[a].pc \in Staged => owner[a].pc \in Staged \cup Creating,
           StagesOf(a)', NoLock(a) \/ owner[a].pc \in Creating
    PROVE  Orderly(a)
BY DEF Orderly, Quiet, Same

LEMMA NotStaging ==
    ASSUME NEW a \in Attempts,
           owner'[a].pc \in {"work", "observe", "obs_register", "final", "done", "dead"}
    PROVE  /\ StagesOf(a)'
           /\ owner'[a].pc \notin Creating \cup Staged
BY DEF StagesOf, Creating, Staged, Jobs

LEMMA OrderlyStaging ==
    ASSUME TypeInv, StageInv, NEW a \in Attempts, OwnerWrote(a),
           \/ \E job \in Jobs : CreateStage(a, job) \/ LeaseStage(a, job)
           \/ PublishObservation(a) \/ WriteOutcome(a) \/ PublishOutcome(a)
    PROVE  Orderly(a)
<1>0. StagesOf(a)
  BY StagesOfAll DEF StageInv
<1>1. ASSUME NEW job \in Jobs, CreateStage(a, job) PROVE Orderly(a)
  <2>1. /\ Quiet(a) /\ Same(a) /\ rec.pc = "off"
        /\ owner'[a].pc = IF job = "observation" THEN "obs_create" ELSE "out_create"
        /\ stage'[a][job].dir = "private"
    BY <1>1, CreateFacts
  <2>2. StagesOf(a)'
    BY <2>1 DEF StagesOf, Jobs
  <2>3. NoLock(a)
    <3>1. PICK st : stage' = [stage EXCEPT ![a][job] = st]
      BY <1>1 DEF CreateStage
    <3>2. \A j \in Jobs \ {job} : stage'[a][j] = stage[a][j]
      BY <3>1 DEF TypeInv, TypeOK
    <3> QED BY <2>1, <3>2 DEF NoLock
  <2>4. owner'[a].pc \notin Staged
    BY <2>1 DEF Staged
  <2> QED BY <2>1, <2>2, <2>3, <2>4, OrderlyQuiet
<1>2. ASSUME NEW job \in Jobs, LeaseStage(a, job) PROVE Orderly(a)
  <2>1. /\ Quiet(a) /\ Same(a)
        /\ owner[a].pc = IF job = "observation" THEN "obs_create" ELSE "out_create"
        /\ owner'[a].pc = IF job = "observation" THEN "obs_stage" ELSE "out_stage"
        /\ stage'[a][job].dir = "locked"
    BY <1>2, LeaseFacts
  <2>2. StagesOf(a)' /\ owner[a].pc \in Creating /\ owner'[a].pc \notin Creating
    BY <2>1 DEF StagesOf, Jobs, Creating
  <2> QED BY <2>1, <2>2, OrderlyQuiet
<1>3. CASE PublishObservation(a)
  <2>1. /\ Quiet(a) /\ Same(a) /\ stage' = stage
        /\ owner[a].pc = "obs_stage" /\ owner'[a].pc = "obs_publish"
    BY <1>3, PublishObservationFacts
  <2>2. /\ StagesOf(a)' /\ NoLock(a) /\ owner[a].pc \in Staged
        /\ owner'[a].pc \notin Creating
    BY <1>0, <2>1 DEF StagesOf, NoLock, Jobs, Staged, Creating
  <2> QED BY <2>1, <2>2, OrderlyQuiet
<1>4. CASE WriteOutcome(a)
  <2>1. /\ Quiet(a) /\ Same(a) /\ stage' = stage
        /\ owner[a].pc = "out_stage" /\ owner'[a].pc = "out_write"
    BY <1>4, WriteFacts
  <2>2. /\ StagesOf(a)' /\ NoLock(a) /\ owner[a].pc \in Staged
        /\ owner'[a].pc \notin Creating
    BY <1>0, <2>1 DEF StagesOf, NoLock, Jobs, Staged, Creating
  <2> QED BY <2>1, <2>2, OrderlyQuiet
<1> QED
  <2>1. CASE PublishOutcome(a)
    <3>1. /\ Alone(a) /\ UNCHANGED <<row, lease, claim, selected, receipt, stage, obs>>
          /\ published' = published \cup {owner[a].doc}
          /\ owner[a].pc = "out_write" /\ owner'[a].pc = "out_publish"
      BY <2>1, PublishFacts
    <3>2. /\ StagesOf(a)' /\ NoLock(a) /\ owner[a].pc \in Staged
          /\ owner'[a].pc \notin Creating
      BY <1>0, <3>1 DEF StagesOf, NoLock, Jobs, Staged, Creating
    <3>3. \A d \in published' \ published : d.attempt = a
      BY <3>1 DEF OwnerWrote, Writing
    <3> QED BY <3>1, <3>2, <3>3 DEF Orderly
  <2> QED BY <1>1, <1>2, <1>3, <1>4, <2>1

LEMMA OrderlySteps ==
    ASSUME TypeInv, ClaimInv, StageInv, NEW a \in Attempts, OwnerWrote(a),
           Reserve(a) \/ OwnerStep(a) \/ Renew(a)
    PROVE  Orderly(a)
<1>1. CASE Reserve(a)
  <2>1. /\ Alone(a) /\ UNCHANGED <<selected, published, obs, stage>>
        /\ row[a].state = "none" /\ owner'[a].pc = "work"
    BY <1>1, ReserveFacts
  <2>2. StagesOf(a)' /\ owner'[a].pc \notin Creating \cup Staged
    BY <2>1, NotStaging
  <2> QED BY <2>1, <2>2 DEF Orderly, NoLock
<1>2. ASSUME NEW plan, Moves(a, plan, {"work"}) \/ Moves(a, plan, {"observe", "final"})
      PROVE  Orderly(a)
  <2>1. /\ Alone(a) /\ UNCHANGED <<selected, published, obs, stage>>
        /\ row'[a].state # "none" /\ row'[a].revision = row[a].revision + 1
        /\ owner'[a].pc \in {"work", "observe", "final"}
    BY <1>2, StatesApart DEF Moves
  <2>2. StagesOf(a)' /\ owner'[a].pc \notin Creating \cup Staged
    BY <2>1, NotStaging
  <2> QED BY <2>1, <2>2 DEF Orderly, NoLock
<1>3. ASSUME NEW phase \in Phases, Advance(a, phase) PROVE Orderly(a)
  BY <1>2, <1>3, AdvanceFacts
<1>4. ASSUME NEW outcome \in Outcomes, NEW observe \in BOOLEAN,
             Conclude(a, outcome, observe)
      PROVE  Orderly(a)
  BY <1>2, <1>4, ConcludeFacts
<1>5. CASE BeginFinalization(a)
  <2>1. PICK plan : plan = Disposition(a)
    OBVIOUS
  <2>2. Moves(a, plan, {"observe", "final"})
    BY <1>5, <2>1, BeginFacts
  <2> QED BY <1>2, <2>2
<1>6. CASE CommitArtifact(a) \/ ObservationFails(a) \/ Abort(a)
  <2>1. Quiet(a) /\ Same(a) /\ owner'[a].pc \in {"obs_register", "work", "dead"}
    BY <1>6, CommitArtifactFacts, ObservationFailsFacts, AbortFacts
  <2>2. StagesOf(a)' /\ owner'[a].pc \notin Creating \cup Staged
    BY <2>1, NotStaging
  <2>3. NoLock(a)
    BY <1>6, StagesLeft
  <2> QED BY <2>1, <2>2, <2>3, OrderlyQuiet
<1>7. CASE RegisterObservation(a)
  <2>1. /\ Alone(a) /\ UNCHANGED <<row, published, stage>>
        /\ owner'[a].pc \in {"work", "final"}
    BY <1>7, RegisterFacts
  <2>2. PICK p \in Points :
          /\ obs'[a][p] \in Registered
          /\ \A q \in Points \ {p} : obs'[a][q] = obs[a][q]
          /\ \A s \in Slots, q \in Points :
               \/ selected'[s][q] = selected[s][q]
               \/ s = Slot(a) /\ q = p /\ selected'[s][q] = a
    BY <1>7, RegisterFacts
  <2>3. StagesOf(a)' /\ owner'[a].pc \notin Creating \cup Staged
    BY <2>1, NotStaging
  <2>4. /\ \A q \in Points : obs[a][q] \in Registered => obs'[a][q] \in Registered
        /\ \A s \in Slots, q \in Points :
             \/ selected'[s][q] = selected[s][q]
             \/ s = Slot(a) /\ selected'[s][q] = a /\ obs'[a][q] \in Registered
    BY <2>2
  <2> QED BY <2>1, <2>3, <2>4 DEF Orderly, NoLock
<1>8. CASE CommitFinalization(a)
  <2>1. PICK doc : doc = owner[a].doc
    OBVIOUS
  <2>2. /\ Ends(a, doc) /\ row'[a].revision = owner[a].revision + 1
        /\ \A b \in Attempts \ {a} : owner'[b] = owner[b] /\ stage'[b] = stage[b]
        /\ UNCHANGED <<obs, published, rec>>
        /\ owner'[a].pc \in {"done", "dead"}
        /\ row[a].revision = owner[a].revision /\ doc \in Docs
    BY <1>8, <2>1, FinalizationFacts
  <2>3. StagesOf(a)' /\ owner'[a].pc \notin Creating \cup Staged
    BY <2>2, NotStaging
  <2>4. NoLock(a)
    BY <1>8, StagesLeft
  <2>5. Alone(a)
    BY <2>2 DEF Ends, Alone
  <2>6. row'[a].state # "none" /\ row'[a].revision = row[a].revision + 1
    BY <2>2, StatesApart DEF Ends, Docs
  <2>7. \A s \in Slots, p \in Points :
          \/ selected'[s][p] = selected[s][p]
          \/ s = Slot(a) /\ selected'[s][p] = a /\ obs'[a][p] \in Registered
    BY <2>2 DEF Ends
  <2> QED BY <2>2, <2>3, <2>4, <2>5, <2>6, <2>7 DEF Orderly
<1>9. CASE Renew(a)
  <2>1. /\ Alone(a) /\ owner' = owner /\ UNCHANGED <<row, selected, published, obs>>
        /\ \A job \in Jobs : stage'[a][job].dir = stage[a][job].dir
    BY <1>9, RenewFacts
  <2>2. StagesOf(a)
    BY StagesOfAll DEF StageInv
  <2>3. StagesOf(a)' /\ NoLock(a)
    BY <2>1, <2>2 DEF StagesOf, NoLock
  <2> QED BY <2>1, <2>3 DEF Orderly
<1> QED BY <1>1, <1>3, <1>4, <1>5, <1>6, <1>7, <1>8, <1>9, OrderlyStaging DEF OwnerStep

LEMMA OwnerAbout ==
    ASSUME TypeInv, TypeInv', ClaimInv, SelectedInv, \A b \in Attempts : About(b),
           NEW a \in Attempts, Reserve(a) \/ OwnerStep(a) \/ Renew(a)
    PROVE  \A b \in Attempts : About(b)'
BY ReserveAbout, MoveSteps, QuietSteps, RegisterAbout, WriteAbout, PublishAbout,
   CommitAbout, RenewAbout DEF OwnerStep

LEMMA OwnerKeeps ==
    ASSUME IInv, TypeInv', ClaimInv', NEW a \in Attempts,
           Reserve(a) \/ OwnerStep(a) \/ Renew(a)
    PROVE  IInv'
<1> USE DEF IInv
<1>1. Orderly(a)
  BY OrderlySteps DEF About
<1>2. StageInv' /\ SelectedInv' /\ RecoveryInv'
  BY <1>1, OrderlyStages, OrderlySelections, OrderlyRecovery
<1>3. \A b \in Attempts : About(b)'
  BY OwnerAbout
<1> QED BY <1>2, <1>3

-----------------------------------------------------------------------------
(***************************************************************************)
(* Stages, selections and the state of the pass while recovery works.       *)
(***************************************************************************)
\* Steps of a pass that is on, and stays on or ends, keep the stages in order.
LEMMA RecoverStages ==
    ASSUME TypeInv, StageInv, owner' = owner,
           \A a \in Attempts, job \in Jobs :
              \/ stage'[a][job].dir = stage[a][job].dir
              \/ /\ rec.pc # "off"
                 /\ stage[a][job].dir # "locked" /\ stage'[a][job].dir # "locked",
           rec'.pc # "off" => ExclusiveLock,
           rec'.pc # "off" => rec'.stages \subseteq Attempts \X Jobs,
           rec'.pc # "off" =>
              \A sj \in rec'.stages : stage[sj[1]][sj[2]].dir # "locked"
    PROVE  StageInv'
<1>1. ASSUME NEW a \in Attempts PROVE StagesOf(a)'
  <2>1. StagesOf(a)
    BY StagesOfAll DEF StageInv
  <2>2. rec.pc # "off" => owner[a].pc \notin Creating
    BY DEF StageInv, ExclusiveLock
  <2> QED BY <2>1, <2>2 DEF StagesOf, Creating
<1>2. StageStaysWithPublisher'
  BY <1>1, Zenon DEF StageStaysWithPublisher, StagesOf
<1>3. ASSUME rec'.pc # "off"
      PROVE  /\ ExclusiveLock'
             /\ \A sj \in rec'.stages : stage'[sj[1]][sj[2]].dir # "locked"
  <2>1. ExclusiveLock'
    BY <1>3 DEF ExclusiveLock
  <2>2. \A sj \in rec'.stages : sj[1] \in Attempts /\ sj[2] \in Jobs
    BY <1>3
  <2> QED BY <1>3, <2>1, <2>2
<1> QED BY <1>2, <1>3 DEF StageInv

LEMMA RecoverSelections ==
    ASSUME TypeInv, SelectedInv,
           \A b \in Attempts, p \in Points :
              obs[b][p] \in Registered => obs'[b][p] \in Registered,
           \A s \in Slots, p \in Points :
              \/ selected'[s][p] = selected[s][p]
              \/ \E a \in Attempts :
                   s = Slot(a) /\ selected'[s][p] = a /\ obs'[a][p] \in Registered
    PROVE  SelectedInv'
<1> SUFFICES ASSUME NEW s \in Slots, NEW p \in Points, selected'[s][p] # None
             PROVE  Slot(selected'[s][p]) = s /\ obs'[selected'[s][p]][p] \in Registered
  BY DEF SelectedInv, Slot
<1>1. CASE selected'[s][p] = selected[s][p]
  <2>1. PICK b : b = selected[s][p]
    OBVIOUS
  <2>2. b \in Attempts /\ Slot(b) = s /\ obs[b][p] \in Registered
    BY <1>1, <2>1 DEF SelectedInv, TypeInv, TypeOK
  <2> QED BY <1>1, <2>1, <2>2
<1> QED BY <1>1

\* The state of a pass that has ended.
LEMMA OffFacts ==
    ASSUME rec' = Off
    PROVE  rec'.pc = "off" /\ rec'.todo = {} /\ rec'.attempt = None /\ rec'.stages = {}
BY DEF Off

LEMMA OffKeeps ==
    ASSUME TypeInv, RecoveryInv, rec' = Off, owner' = owner
    PROVE  RecoveryInv'
<1>1. rec'.pc = "off" /\ rec'.todo = {} /\ rec'.attempt = None
  BY OffFacts
<1>2. Judging' = {} /\ rec'.pc \notin Deciding
  BY <1>1 DEF Judging, Deciding
<1> QED BY <1>1, <1>2, NoneIsNoAttempt DEF RecoveryInv, Deciding

LEMMA BeginPassFacts ==
    ASSUME TypeInv, RecoverBegin
    PROVE  /\ ExclusiveLock
           /\ UNCHANGED <<row, lease, claim, selected, receipt, published, owner, stage>>
           /\ rec'.pc = "attempts" /\ rec'.attempt = None
           /\ rec'.todo = {a \in Attempts : row[a].state \in Active /\ ~Busy(a)}
           /\ rec'.stages = {sj \in Attempts \X Jobs : Unowned(stage[sj[1]][sj[2]])}
           /\ rec'.orphans = {d \in published : row[d.attempt].state \in Active}
           /\ \A a \in Attempts, p \in Points :
                obs[a][p] \in Registered => obs'[a][p] \in Registered
<1>1. /\ ExclusiveLock
      /\ UNCHANGED <<row, lease, claim, selected, receipt, published, owner, stage>>
      /\ obs' = [a \in Attempts |-> [p \in Points |->
               IF obs[a][p] = "disk" THEN "imported" ELSE obs[a][p]]]
  BY DEF RecoverBegin, db
<1>2. PICK todo, stages, orphans :
        /\ todo = {a \in Attempts : row[a].state \in Active /\ ~Busy(a)}
        /\ stages = {sj \in Attempts \X Jobs : Unowned(stage[sj[1]][sj[2]])}
        /\ orphans = {d \in published : row[d.attempt].state \in Active}
  OBVIOUS
<1>3. PICK t \in Current :
        rec' = [Off EXCEPT !.pc = "attempts", !.now = t, !.todo = todo,
                           !.stages = stages, !.orphans = orphans]
  BY <1>2 DEF RecoverBegin
<1>4. /\ rec'.pc = "attempts" /\ rec'.attempt = None /\ rec'.todo = todo
      /\ rec'.stages = stages /\ rec'.orphans = orphans
  BY <1>3 DEF Off
<1>5. \A a \in Attempts, p \in Points :
        obs[a][p] \in Registered => obs'[a][p] \in Registered
  BY <1>1 DEF Registered
<1> QED BY <1>1, <1>2, <1>4, <1>5

\* A publisher with a stage in use makes its attempt busy.
LEMMA StagedIsBusy ==
    ASSUME NEW a \in Attempts, StagesOf(a), owner[a].pc \in Staged
    PROVE  Busy(a)
BY DEF StagesOf, Staged, Busy, Jobs

LEMMA BeginPassKeeps ==
    ASSUME TypeInv, StageInv, RecoveryInv, RecoverBegin
    PROVE  RecoveryInv'
<1>1. /\ ExclusiveLock /\ UNCHANGED <<row, published, owner>>
      /\ rec'.pc = "attempts" /\ rec'.attempt = None
      /\ rec'.todo = {a \in Attempts : row[a].state \in Active /\ ~Busy(a)}
      /\ rec'.orphans = {d \in published : row[d.attempt].state \in Active}
  BY BeginPassFacts
<1>2. Judging' = rec'.todo /\ rec'.pc \notin Deciding /\ None \notin rec'.todo
  BY <1>1, NoneIsNoAttempt DEF Judging, Deciding
<1>3. \A a \in Attempts : a \in rec'.todo \cup {rec'.attempt} =>
        owner'[a].pc \notin Staged \cup Creating
  <2>1. \A a \in Attempts : owner[a].pc \in Staged => Busy(a)
    BY StagesOfAll, StagedIsBusy DEF StageInv
  <2> QED BY <1>1, <2>1, NoneIsNoAttempt DEF ExclusiveLock
<1>4. \A a \in rec'.todo : row'[a].state # "none"
  BY <1>1, StatesApart
<1>5. \A d \in published' : d.attempt \in Judging' => d \in rec'.orphans
  BY <1>1, <1>2
<1> QED BY <1>1, <1>2, <1>3, <1>4, <1>5 DEF RecoveryInv, Deciding

LEMMA TakeKeeps ==
    ASSUME TypeInv, TypeInv', RecoveryInv, NEW a \in Attempts, RecoverTake(a)
    PROVE  RecoveryInv'
<1>1. /\ rec.pc = "attempts" /\ a \in rec.todo /\ UNCHANGED <<published, owner>>
      /\ \A b \in Attempts \ {a} : row'[b] = row[b]
      /\ rec'.todo = rec.todo \ {a} /\ rec'.orphans = rec.orphans
      /\ \/ rec'.pc = "attempts" /\ rec'.attempt = rec.attempt /\ row' = row
         \/ /\ rec'.pc = "judge" /\ rec'.attempt = a
            /\ rec'.revision = row'[a].revision /\ rec'.updated = row'[a].updated
            /\ row'[a].state = "finalizing"
  BY TakeFacts
<1>2. rec.attempt = None /\ rec.todo \subseteq Attempts
  BY <1>1, RecFields DEF RecoveryInv, Deciding, TypeInv, TypeOK
<1>3. Judging = rec.todo /\ Judging' \subseteq rec.todo
  BY <1>1 DEF Judging
<1>4. /\ \A b \in Attempts : b \in rec'.todo \cup {rec'.attempt} =>
           owner'[b].pc \notin Staged \cup Creating
      /\ rec'.attempt \notin rec'.todo
      /\ \A d \in published' : d.attempt \in Judging' => d \in rec'.orphans
      /\ \A b \in rec'.todo : row'[b].state # "none"
  BY <1>1, <1>2, <1>3 DEF RecoveryInv
<1>5. CASE rec'.pc = "attempts" /\ rec'.attempt = rec.attempt
  BY <1>2, <1>4, <1>5 DEF RecoveryInv, Deciding
<1>6. CASE /\ rec'.pc = "judge" /\ rec'.attempt = a
           /\ rec'.revision = row'[a].revision /\ rec'.updated = row'[a].updated
           /\ row'[a].state = "finalizing"
  <2>1. row'[a].revision \in Nat
    BY DEF TypeInv, TypeOK, RowType
  <2> QED BY <1>4, <1>6, <2>1 DEF RecoveryInv, Deciding
<1> QED BY <1>1, <1>5, <1>6

LEMMA FailKeeps ==
    ASSUME TypeInv, RecoveryInv, RecoverPublish
    PROVE  RecoveryInv'
<1>1. PICK a : a = rec.attempt
  OBVIOUS
<1>2. PICK doc : doc = rec'.doc
  OBVIOUS
<1>3. /\ a \in Attempts /\ rec.pc = "fail" /\ UNCHANGED <<row, owner>>
      /\ published' = published \cup {doc} /\ doc.attempt = a
      /\ doc.by = "recovery" /\ doc.revision = rec.revision /\ rec.updated <= doc.finished
      /\ rec'.pc = "commit" /\ rec'.todo = rec.todo /\ rec'.attempt = a
      /\ rec'.orphans = rec.orphans
      /\ rec'.revision = rec.revision /\ rec'.updated = rec.updated
  BY <1>1, <1>2, FailFacts
<1>4. Judging = rec.todo /\ Judging' = rec.todo
  BY <1>3 DEF Judging
<1>5. \A d \in published' : d.attempt \in Judging' => d \in rec'.orphans
  BY <1>1, <1>3, <1>4 DEF RecoveryInv
<1>6. doc \in DocsOf(a)'
  BY <1>3 DEF DocsOf
<1>7. /\ rec'.attempt \notin rec'.todo
      /\ \A b \in Attempts : b \in rec'.todo \cup {rec'.attempt} =>
           owner'[b].pc \notin Staged \cup Creating
      /\ \A b \in rec'.todo : row'[b].state # "none"
  BY <1>1, <1>3 DEF RecoveryInv
<1>8. /\ rec'.revision <= row'[a].revision /\ row'[a].state # "none"
      /\ rec'.revision = row'[a].revision => rec'.updated = row'[a].updated
  BY <1>1, <1>3 DEF RecoveryInv, Deciding
<1>9. rec'.doc \in DocsOf(rec.attempt)'
  BY <1>2, <1>3, <1>6 DEF DocsOf
<1> QED BY <1>2, <1>3, <1>5, <1>7, <1>8, <1>9 DEF RecoveryInv, Deciding

LEMMA EndKeeps ==
    ASSUME TypeInv, ClaimInv, RecoveryInv, RecoverImport \/ RecoverCommit
    PROVE  RecoveryInv'
<1>1. /\ rec.attempt \in Attempts /\ Ends(rec.attempt, rec.doc)
      /\ UNCHANGED <<published, owner>> /\ rec.pc \in {"import", "commit"}
      /\ rec' = NextAttempt
  BY RecoverEndFacts
<1>2. /\ rec'.pc = "attempts" /\ rec'.attempt = None
      /\ rec'.todo = rec.todo /\ rec'.orphans = rec.orphans
  BY <1>1 DEF NextAttempt, TypeInv, TypeOK, RecType
<1>3. rec.todo \subseteq Attempts
  BY RecFields DEF TypeInv, TypeOK
<1>4. Judging = rec.todo /\ Judging' = rec.todo
  BY <1>1, <1>2 DEF Judging
<1>5. \A b \in rec.todo : row'[b] = row[b]
  BY <1>1, <1>3 DEF RecoveryInv, Ends
<1>6. None \notin rec.todo
  BY <1>3, NoneIsNoAttempt
<1>7. /\ rec'.attempt \notin rec'.todo
      /\ \A b \in Attempts : b \in rec'.todo \cup {rec'.attempt} =>
           owner'[b].pc \notin Staged \cup Creating
      /\ \A b \in rec'.todo : row'[b].state # "none"
      /\ \A d \in published' : d.attempt \in Judging' => d \in rec'.orphans
  BY <1>1, <1>2, <1>3, <1>4, <1>5, <1>6, NoneIsNoAttempt DEF RecoveryInv
<1> QED BY <1>2, <1>7 DEF RecoveryInv, Deciding

\* A standing success is evidence the pass accepts: its attempt can only have
\* expired after the document's finish time.
LEMMA StandingIsValid ==
    ASSUME TypeInv, ClaimInv, RecoveryInv, \A b \in Attempts : About(b),
           rec.pc = "judge", RequireExpired(rec.checked),
           NEW d \in DocsOf(rec.attempt), d.state = "accepted"
    PROVE  ValidOrphan(d, rec.checked)
<1>1. PICK a : a = rec.attempt
  OBVIOUS
<1>2. /\ a \in Attempts /\ d \in DocsOf(a) /\ d \in Docs /\ d.attempt = a
      /\ rec.checked \in Nat /\ rec.revision \in Nat
  BY <1>1, RecFields DEF TypeInv, TypeOK, LocalOK, DocsOf
<1>3. /\ Expired(a, rec.checked) /\ row[a].revision = rec.revision
      /\ row[a].state = "finalizing"
  BY <1>1 DEF RequireExpired
<1>4. Standing(a, d)
  BY <1>2 DEF About, Documented
<1>5. /\ row[a].revision = d.revision /\ row[a].updated <= d.finished
      /\ claim[Slot(a)] = a /\ lease[a].acquired <= d.finished
      /\ d.finished < lease[a].finalization /\ d.finished < lease[a].reservation
      /\ ValidateAcceptance(a)
      /\ d.coordination = CoordinationSnapshot(a, "accepted")
  BY <1>3, <1>4 DEF Standing, Active
<1>6. lease[a].live
  BY <1>2, <1>5, SlotType, NoneIsNoAttempt DEF ClaimInv, ClaimHeldByFinalizer
<1>7. rec.updated = row[a].updated
  BY <1>1, <1>3 DEF RecoveryInv, Deciding
<1>8. d.finished <= rec.checked
  <2>1. /\ d.finished \in Nat /\ row[a].updated \in Nat
        /\ lease[a].finalization \in Nat /\ lease[a].reservation \in Nat
    BY <1>2 DEF Docs, TypeInv, TypeOK, RowType, LeaseType
  <2> QED BY <1>2, <1>3, <1>5, <1>6, <2>1 DEF Expired, Later
<1>9. d = OutcomeDocument(a, rec.revision, d.state, d.finished, d.by)
  <2>1. PICK snap : snap = CoordinationSnapshot(a, "accepted")
    OBVIOUS
  <2>2. d = [attempt |-> a, revision |-> rec.revision, state |-> d.state,
             finished |-> d.finished, by |-> d.by, coordination |-> snap]
    BY <1>2, <1>3, <1>5, <2>1 DEF Docs
  <2> QED BY <2>1, <2>2 DEF OutcomeDocument
<1> QED BY <1>1, <1>5, <1>6, <1>7, <1>8, <1>9 DEF ValidOrphan

LEMMA JudgeFacts ==
    ASSUME TypeInv, ClaimInv, RecoveryInv, \A b \in Attempts : About(b), RecoverJudge
    PROVE  /\ rec.pc = "judge" /\ rec.attempt \in Attempts
           /\ UNCHANGED <<row, lease, claim, selected, receipt, stage, obs, published,
                          owner>>
           /\ rec'.todo = rec.todo /\ rec'.attempt = rec.attempt
           /\ rec'.orphans = rec.orphans /\ rec'.stages = rec.stages
           /\ rec'.revision = rec.revision /\ rec'.updated = rec.updated
           /\ \/ rec'.pc = "import" /\ rec'.doc \in DocsOf(rec.attempt)
              \/ rec'.pc = "fail" /\ Contested(rec.attempt)
<1> DEFINE candidates == {d \in rec.orphans : d.attempt = rec.attempt}
           valid == {d \in candidates : ValidOrphan(d, rec.checked)}
<1>1. /\ rec.pc = "judge"
      /\ candidates # {} => RequireExpired(rec.checked)
      /\ \/ \E d \in valid : rec' = [rec EXCEPT !.pc = "import", !.doc = d]
         \/ /\ \A d \in valid : valid # {d}
            /\ rec' = [rec EXCEPT !.pc = "fail"]
      /\ UNCHANGED <<row, lease, claim, selected, receipt, stage, obs, published, owner>>
  BY DEF RecoverJudge, db
<1>2. /\ rec.attempt \in Attempts /\ rec \in RecType /\ rec.orphans \subseteq published
  BY <1>1, RecFields DEF TypeInv, TypeOK, LocalOK
<1>3. candidates = DocsOf(rec.attempt)
  BY <1>1, <1>2 DEF DocsOf, RecoveryInv, Judging
<1>4. ASSUME NEW d \in valid, rec' = [rec EXCEPT !.pc = "import", !.doc = d]
      PROVE  /\ rec'.todo = rec.todo /\ rec'.attempt = rec.attempt
             /\ rec'.orphans = rec.orphans /\ rec'.stages = rec.stages
             /\ rec'.revision = rec.revision /\ rec'.updated = rec.updated
             /\ rec'.pc = "import" /\ rec'.doc \in DocsOf(rec.attempt)
  <2>1. d \in DocsOf(rec.attempt)
    BY <1>3
  <2> HIDE DEF valid
  <2>2. rec'.doc = d /\ rec'.pc = "import"
    BY <1>2, <1>4 DEF RecType
  <2>3. /\ rec'.todo = rec.todo /\ rec'.attempt = rec.attempt
        /\ rec'.orphans = rec.orphans /\ rec'.stages = rec.stages
        /\ rec'.revision = rec.revision /\ rec'.updated = rec.updated
    BY <1>2, <1>4 DEF RecType
  <2> QED BY <2>1, <2>2, <2>3
<1>5. ASSUME \A d \in valid : valid # {d}, rec' = [rec EXCEPT !.pc = "fail"]
      PROVE  /\ rec'.todo = rec.todo /\ rec'.attempt = rec.attempt
             /\ rec'.orphans = rec.orphans /\ rec'.stages = rec.stages
             /\ rec'.revision = rec.revision /\ rec'.updated = rec.updated
             /\ rec'.pc = "fail" /\ Contested(rec.attempt)
  <2>1. /\ rec'.todo = rec.todo /\ rec'.attempt = rec.attempt
        /\ rec'.orphans = rec.orphans /\ rec'.stages = rec.stages
        /\ rec'.revision = rec.revision /\ rec'.updated = rec.updated
        /\ rec'.pc = "fail"
    BY <1>2, <1>5 DEF RecType
  <2>2. ASSUME NEW e \in DocsOf(rec.attempt), e.state = "accepted"
        PROVE  \E f \in DocsOf(rec.attempt) : f # e
    <3>1. RequireExpired(rec.checked)
      BY <1>1, <1>3
    <3>2. e \in valid
      BY <1>1, <1>3, <2>2, <3>1, StandingIsValid
    <3>3. PICK f \in valid : f # e
      BY <1>5, <3>2
    <3> QED BY <1>3, <3>3
  <2> QED BY <2>1, <2>2 DEF Contested
<1> HIDE DEF candidates, valid
<1> QED BY <1>1, <1>2, <1>4, <1>5

LEMMA JudgeKeeps ==
    ASSUME TypeInv, ClaimInv, RecoveryInv, \A b \in Attempts : About(b), RecoverJudge
    PROVE  RecoveryInv'
<1>1. PICK a : a = rec.attempt
  OBVIOUS
<1>2. /\ rec.pc = "judge" /\ a \in Attempts /\ UNCHANGED <<row, published, owner>>
      /\ rec'.todo = rec.todo /\ rec'.attempt = a /\ rec'.orphans = rec.orphans
      /\ rec'.revision = rec.revision /\ rec'.updated = rec.updated
      /\ \/ rec'.pc = "import" /\ rec'.doc \in DocsOf(a)
         \/ rec'.pc = "fail" /\ Contested(a)
  BY <1>1, JudgeFacts
<1>3. Judging' = rec.todo /\ rec.todo \subseteq Judging
  BY <1>2 DEF Judging
<1>4. /\ rec'.attempt \notin rec'.todo
      /\ \A b \in Attempts : b \in rec'.todo \cup {rec'.attempt} =>
           owner'[b].pc \notin Staged \cup Creating
      /\ \A b \in rec'.todo : row'[b].state # "none"
      /\ \A d \in published' : d.attempt \in Judging' => d \in rec'.orphans
  BY <1>1, <1>2, <1>3 DEF RecoveryInv
<1>5. /\ rec'.revision <= row'[a].revision /\ row'[a].state # "none"
      /\ rec'.revision = row'[a].revision => rec'.updated = row'[a].updated
  BY <1>1, <1>2 DEF RecoveryInv, Deciding
<1>6. CASE rec'.pc = "import" /\ rec'.doc \in DocsOf(a)
  <2>1. rec'.doc \in DocsOf(rec.attempt)'
    BY <1>2, <1>6 DEF DocsOf
  <2> QED BY <1>2, <1>4, <1>5, <1>6, <2>1 DEF RecoveryInv, Deciding
<1>7. CASE rec'.pc = "fail" /\ Contested(a)
  <2>1. Contested(rec.attempt)'
    BY <1>2, <1>7 DEF Contested, DocsOf
  <2> QED BY <1>2, <1>4, <1>5, <1>7, <2>1 DEF RecoveryInv, Deciding
<1> QED BY <1>2, <1>6, <1>7

LEMMA QuarantineFacts ==
    ASSUME TypeInv, NEW a \in Attempts, NEW job \in Jobs, RecoverQuarantine(a, job)
    PROVE  /\ rec.pc = "attempts"
           /\ UNCHANGED <<row, lease, claim, selected, receipt, obs, published, owner>>
           /\ rec'.pc = rec.pc /\ rec'.todo = rec.todo /\ rec'.attempt = rec.attempt
           /\ rec'.orphans = rec.orphans /\ rec'.stages \subseteq rec.stages
           /\ \A b \in Attempts, j \in Jobs :
                \/ stage'[b][j].dir = stage[b][j].dir
                \/ stage[b][j].dir # "locked" /\ stage'[b][j].dir # "locked"
<1>1. /\ rec.pc = "attempts"
      /\ UNCHANGED <<row, lease, claim, selected, receipt, obs, published, owner>>
      /\ rec' = [rec EXCEPT !.stages = @ \ {<<a, job>>}]
  BY DEF RecoverQuarantine, db
<1>2. /\ rec'.pc = rec.pc /\ rec'.todo = rec.todo /\ rec'.attempt = rec.attempt
      /\ rec'.orphans = rec.orphans /\ rec'.stages \subseteq rec.stages
  BY <1>1 DEF TypeInv, TypeOK, RecType
<1>3. PICK st : st = [Release(stage[a][job]) EXCEPT !.dir = Moved(a, job)]
  OBVIOUS
<1>4. stage' = stage \/ stage' = [stage EXCEPT ![a][job] = st]
  BY <1>3 DEF RecoverQuarantine
<1>5. st.dir = Moved(a, job)
  <2>1. Release(stage[a][job]) \in StageType
    BY ReleaseType DEF TypeInv, TypeOK
  <2>2. PICK dir : dir = Moved(a, job)
    OBVIOUS
  <2> QED BY <1>3, <2>1, <2>2 DEF StageType
<1>6. \A b \in Attempts, j \in Jobs :
        \/ stage'[b][j].dir = stage[b][j].dir
        \/ stage[b][j].dir # "locked" /\ stage'[b][j].dir # "locked"
  <2>1. \/ Moved(a, job) = stage[a][job].dir
        \/ stage[a][job].dir # "locked" /\ Moved(a, job) # "locked"
    BY DEF Moved
  <2> QED BY ZenonT(40), <1>4, <1>5, <2>1 DEF TypeInv, TypeOK
<1> QED BY <1>1, <1>2, <1>6

LEMMA QuarantineKeeps ==
    ASSUME TypeInv, RecoveryInv, NEW a \in Attempts, NEW job \in Jobs,
           RecoverQuarantine(a, job)
    PROVE  RecoveryInv'
<1>1. /\ rec.pc = "attempts" /\ UNCHANGED <<row, published, owner>>
      /\ rec'.pc = rec.pc /\ rec'.todo = rec.todo /\ rec'.attempt = rec.attempt
      /\ rec'.orphans = rec.orphans
  BY QuarantineFacts
<1>2. Judging' = Judging
  BY <1>1 DEF Judging
<1> QED BY <1>1, <1>2 DEF RecoveryInv, Deciding

LEMMA RecoverOrder ==
    ASSUME TypeInv, TypeInv', ClaimInv, StageInv, SelectedInv, RecoveryInv,
           \A b \in Attempts : About(b), RecoverStep \/ RecoverCrash
    PROVE  StageInv' /\ SelectedInv' /\ RecoveryInv'
<1>0. /\ rec.pc # "off" => ExclusiveLock
      /\ rec.pc # "off" => \A sj \in rec.stages : stage[sj[1]][sj[2]].dir # "locked"
      /\ rec'.stages \subseteq Attempts \X Jobs
  BY DEF StageInv, TypeInv, TypeOK, RecType
<1>1. CASE RecoverBegin
  <2>1. /\ ExclusiveLock
        /\ UNCHANGED <<selected, owner, stage>>
        /\ rec'.stages = {sj \in Attempts \X Jobs : Unowned(stage[sj[1]][sj[2]])}
        /\ \A a \in Attempts, p \in Points :
             obs[a][p] \in Registered => obs'[a][p] \in Registered
    BY <1>1, BeginPassFacts
  <2>2. \A sj \in rec'.stages : stage[sj[1]][sj[2]].dir # "locked"
    BY <2>1 DEF Unowned
  <2>3. StageInv'
    BY <1>0, <2>1, <2>2, RecoverStages
  <2>4. SelectedInv'
    BY <2>1, RecoverSelections
  <2> QED BY <1>1, <2>3, <2>4, BeginPassKeeps
<1>2. ASSUME UNCHANGED <<selected, obs>> PROVE SelectedInv'
  BY <1>2, RecoverSelections
<1>3. ASSUME rec.pc # "off", owner' = owner, rec'.stages \subseteq rec.stages,
             \A b \in Attempts, j \in Jobs :
                \/ stage'[b][j].dir = stage[b][j].dir
                \/ stage[b][j].dir # "locked" /\ stage'[b][j].dir # "locked"
      PROVE  StageInv'
  <2>1. \A sj \in rec'.stages : stage[sj[1]][sj[2]].dir # "locked"
    BY <1>0, <1>3
  <2> QED BY <1>0, <1>3, <2>1, RecoverStages
<1>4. ASSUME NEW a \in Attempts, RecoverTake(a)
      PROVE  StageInv' /\ SelectedInv' /\ RecoveryInv'
  <2>1. /\ rec.pc = "attempts" /\ UNCHANGED <<stage, obs, selected, owner>>
        /\ rec'.stages = rec.stages
    BY <1>4, TakeFacts
  <2>2. RecoveryInv'
    BY <1>4, TakeKeeps
  <2> QED BY <1>2, <1>3, <2>1, <2>2
<1>5. CASE RecoverJudge
  <2>1. /\ rec.pc = "judge" /\ UNCHANGED <<stage, obs, selected, owner>>
        /\ rec'.stages = rec.stages
    BY <1>5, JudgeFacts
  <2>2. RecoveryInv'
    BY <1>5, JudgeKeeps
  <2> QED BY <1>2, <1>3, <2>1, <2>2
<1>6. CASE RecoverPublish
  <2>1. /\ rec.pc = "fail" /\ UNCHANGED <<stage, obs, selected, owner>>
        /\ rec'.stages = rec.stages
    BY <1>6, FailFacts
  <2>2. RecoveryInv'
    BY <1>6, FailKeeps
  <2> QED BY <1>2, <1>3, <2>1, <2>2
<1>7. CASE RecoverImport \/ RecoverCommit
  <2>1. PICK a, doc : a = rec.attempt /\ doc = rec.doc
    OBVIOUS
  <2>2. /\ a \in Attempts /\ Ends(a, doc) /\ UNCHANGED <<obs, owner>>
        /\ rec.pc \in {"import", "commit"} /\ rec' = NextAttempt
        /\ stage' = [stage EXCEPT ![a] = ReleaseStages(a)]
    BY <1>7, <2>1, RecoverEndFacts
  <2>3. \A b \in Attempts, j \in Jobs : stage'[b][j].dir = stage[b][j].dir
    <3>1. PICK st : st = ReleaseStages(a)
      OBVIOUS
    <3>2. \A j \in Jobs : st[j].dir = stage[a][j].dir
      BY <2>2, <3>1, ReleaseKeepsDir DEF ReleaseStages, TypeInv, TypeOK
    <3>3. stage' = [stage EXCEPT ![a] = st]
      BY <2>2, <3>1
    <3> QED BY <2>2, <3>2, <3>3 DEF TypeInv, TypeOK
  <2>4. rec'.stages = rec.stages
    BY <2>2 DEF NextAttempt, TypeInv, TypeOK, RecType
  <2>5. StageInv'
    BY <1>3, <2>2, <2>3, <2>4
  <2>6. \A s \in Slots, p \in Points :
          \/ selected'[s][p] = selected[s][p]
          \/ s = Slot(a) /\ selected'[s][p] = a /\ obs'[a][p] \in Registered
    BY <2>2 DEF Ends
  <2>7. SelectedInv'
    BY <2>2, <2>6, RecoverSelections
  <2> QED BY <1>7, <2>5, <2>7, EndKeeps
<1>8. CASE RecoverFails \/ RecoverEnd
  <2>1. rec.pc # "off" /\ rec' = Off /\ UNCHANGED <<stage, obs, selected, owner>>
    BY <1>8 DEF RecoverFails, RecoverEnd, db
  <2>2. RecoveryInv' /\ rec'.stages \subseteq rec.stages
    BY <2>1, OffKeeps, OffFacts
  <2> QED BY <1>2, <1>3, <2>1, <2>2
<1>9. ASSUME NEW a \in Attempts, NEW job \in Jobs, RecoverQuarantine(a, job)
      PROVE  StageInv' /\ SelectedInv' /\ RecoveryInv'
  <2>1. /\ rec.pc = "attempts" /\ UNCHANGED <<obs, selected, owner>>
        /\ rec'.stages \subseteq rec.stages
        /\ \A b \in Attempts, j \in Jobs :
             \/ stage'[b][j].dir = stage[b][j].dir
             \/ stage[b][j].dir # "locked" /\ stage'[b][j].dir # "locked"
    BY <1>9, QuarantineFacts
  <2>2. RecoveryInv'
    BY <1>9, QuarantineKeeps
  <2> QED BY <1>2, <1>3, <2>1, <2>2
<1>10. CASE RecoverCrash
  <2>1. rec.pc # "off" /\ rec' = Off /\ UNCHANGED <<obs, selected, owner>>
    BY <1>10 DEF RecoverCrash, db
  <2>2. RecoveryInv' /\ rec'.stages \subseteq rec.stages
    BY <2>1, OffKeeps, OffFacts
  <2>3. \A b \in Attempts, j \in Jobs :
          \/ stage'[b][j].dir = stage[b][j].dir
          \/ stage[b][j].dir # "locked" /\ stage'[b][j].dir # "locked"
    <3>1. CASE stage' = stage
      BY <3>1
    <3>2. ASSUME NEW a \in Attempts, NEW job \in Jobs,
                 stage' = [stage EXCEPT ![a][job].dir = Moved(a, job)]
          PROVE  \A b \in Attempts, j \in Jobs :
                   \/ stage'[b][j].dir = stage[b][j].dir
                   \/ stage[b][j].dir # "locked" /\ stage'[b][j].dir # "locked"
      <4>1. PICK dir : dir = Moved(a, job)
        OBVIOUS
      <4>2. \/ dir = stage[a][job].dir
            \/ stage[a][job].dir # "locked" /\ dir # "locked"
        BY <4>1 DEF Moved
      <4>3. stage' = [stage EXCEPT ![a][job].dir = dir]
        BY <3>2, <4>1
      <4> QED BY <4>2, <4>3 DEF TypeInv, TypeOK, StageType
    <3> QED BY <1>10, <3>1, <3>2 DEF RecoverCrash
  <2> QED BY <1>2, <1>3, <2>1, <2>2, <2>3
<1> QED BY <1>1, <1>4, <1>5, <1>6, <1>7, <1>8, <1>9, <1>10 DEF RecoverStep

-----------------------------------------------------------------------------
(***************************************************************************)
(* The invariant and the theorems.                                          *)
(***************************************************************************)
LEMMA OutcomesInit == Init => IInv
<1> SUFFICES ASSUME Init PROVE IInv
  OBVIOUS
<1>1. TypeInv /\ ClaimInv
  BY TypeInit, ClaimInit
<1>2. /\ \A a \in Attempts :
           owner[a].pc = "none" /\ row[a].state = "none" /\ receipt[a] = None
      /\ published = {} /\ rec = Off
      /\ \A s \in Slots, p \in Points : selected[s][p] = None
  BY DEF Init, NoOwner
<1>3. rec.pc = "off" /\ rec.todo = {} /\ rec.attempt = None
  BY <1>2 DEF Off
<1>4. StageInv
  BY <1>2, <1>3 DEF StageInv, StageStaysWithPublisher
<1>5. SelectedInv
  BY <1>2 DEF SelectedInv
<1>6. \A a \in Attempts : About(a)
  BY <1>2 DEF About, OwnerSees, OwnerWrote, Writing, Documented, Described, Earned,
              DocsOf, Alive, Creating, Staged, Terminal
<1>7. RecoveryInv
  BY <1>2, <1>3, NoneIsNoAttempt DEF RecoveryInv, Deciding, Judging
<1> QED BY <1>1, <1>4, <1>5, <1>6, <1>7 DEF IInv

LEMMA OutcomesNext == IInv /\ [Next]_vars => IInv'
<1> SUFFICES ASSUME IInv, [Next]_vars PROVE IInv'
  OBVIOUS
<1>1. TypeInv /\ ClaimInv /\ TypeInv' /\ ClaimInv'
  BY TypeNext, ClaimNext DEF IInv
<1>2. ASSUME NEW a \in Attempts, Reserve(a) \/ OwnerStep(a) \/ Renew(a) PROVE IInv'
  BY <1>1, <1>2, OwnerKeeps
<1>3. CASE RecoverStep \/ RecoverCrash
  BY <1>1, <1>3, RecoverOrder, RecoverAbout DEF IInv
<1>4. CASE Tick \/ UNCHANGED vars
  <2>1. UNCHANGED <<row, lease, claim, stage, obs, selected, published, receipt,
                    owner, rec>>
    BY <1>4 DEF Tick, db, vars
  <2>2. \A b \in Attempts : About(b)'
    BY <1>1, <2>1, AllCalm DEF Same, IInv
  <2>3. StageInv'
    BY <2>1 DEF IInv, StageInv, StageStaysWithPublisher, ExclusiveLock
  <2>4. SelectedInv'
    BY <2>1 DEF IInv, SelectedInv, Slot
  <2>5. RecoveryInv'
    BY <2>1 DEF IInv, RecoveryInv, Judging, DocsOf, Contested
  <2> QED BY <1>1, <2>2, <2>3, <2>4, <2>5 DEF IInv
<1> QED BY <1>2, <1>3, <1>4 DEF Next

LEMMA OutcomesAlways == Spec => []IInv
<1>1. Init => IInv
  BY OutcomesInit
<1>2. IInv /\ [Next]_vars => IInv'
  BY OutcomesNext
<1> QED BY <1>1, <1>2, PTL DEF Spec

\* No recovery pass takes a stage from the publisher that is using it: stage
\* creation shares the coordination lock a pass holds exclusively, and a pass
\* lists no stage whose kernel lock is held (recovery.rs lock_stages).
THEOREM StagesStayWithPublishers == Spec => []StageStaysWithPublisher
<1>1. IInv => StageStaysWithPublisher
  BY DEF IInv, StageInv
<1> QED BY <1>1, OutcomesAlways, PTL

\* A failed or superseded document on its way to disk and to its commit goes on
\* describing its attempt, whoever registers, selects and wins meanwhile, so
\* publish_finalization never reports changed coordination records for it.
THEOREM LosersPublishInPeace == Spec => []LoserSnapshotStable
<1>1. IInv => LoserSnapshotStable
  BY DEF IInv, About, OwnerWrote, Writing, LoserSnapshotStable
<1> QED BY <1>1, OutcomesAlways, PTL

\* Every acceptance was written by its owner under live leases, with the evidence
\* its slot requires, and selects a profile whole and from one attempt, also when
\* a recovery pass commits it after the owner's death.
THEOREM SuccessesAreEarned == Spec => []SuccessIsEarned
<1>1. IInv => SuccessIsEarned
  BY DEF IInv, About, Earned, SuccessIsEarned
<1> QED BY <1>1, OutcomesAlways, PTL

\* Recovery publishes a failure over a published success only when another
\* document contradicts it: a sole success passes validate_orphan whenever the
\* pass judges it, however late the pass and however stale the clocks.
THEOREM SoleSuccessesStand == Spec => SoleSuccessNotOverruled
<1>1. IInv /\ [Next]_vars =>
        [\A d \in published' \ published, e \in published :
           /\ d.by = "recovery"
           /\ e.attempt = d.attempt /\ e.state = "accepted"
           => \E f \in published : f.attempt = e.attempt /\ f # e]_vars
  <2> SUFFICES ASSUME IInv, [Next]_vars, NEW d \in published' \ published,
                      NEW e \in published, d.by = "recovery", e.attempt = d.attempt,
                      e.state = "accepted"
               PROVE  \E f \in published : f.attempt = e.attempt /\ f # e
    OBVIOUS
  <2>1. RecoverPublish \/ \E a \in Attempts : PublishOutcome(a)
    <3>1. published' # published
      OBVIOUS
    <3>2. ASSUME NEW a \in Attempts, OwnerStep(a) PROVE PublishOutcome(a)
      BY <3>1, <3>2, Zenon
         DEF OwnerStep, Advance, Conclude, BeginFinalization, CreateStage, LeaseStage,
             PublishObservation, CommitArtifact, RegisterObservation, ObservationFails,
             WriteOutcome, CommitFinalization, Abort
    <3>3. CASE RecoverStep
      BY <3>1, <3>3, Zenon
         DEF RecoverStep, RecoverBegin, RecoverTake, RecoverJudge, RecoverImport,
             RecoverCommit, RecoverFails, RecoverQuarantine, RecoverEnd
    <3>4. ASSUME NEW a \in Attempts, Reserve(a) \/ Renew(a) PROVE FALSE
      BY <3>1, <3>4, Zenon DEF Reserve, Renew
    <3>5. CASE Tick \/ RecoverCrash \/ UNCHANGED vars
      BY <3>1, <3>5 DEF Tick, RecoverCrash, vars
    <3> QED BY <3>2, <3>3, <3>4, <3>5 DEF Next
  <2>2. ASSUME NEW a \in Attempts, PublishOutcome(a) PROVE FALSE
    <3>1. published' = published \cup {owner[a].doc} /\ owner[a].pc = "out_write"
      BY <2>2 DEF PublishOutcome
    <3>2. owner[a].doc.by = "owner"
      BY <3>1 DEF IInv, About, OwnerWrote, Writing
    <3> QED BY <3>1, <3>2
  <2>3. CASE RecoverPublish
    <3>1. /\ rec.pc = "fail" /\ published' = published \cup {rec'.doc}
          /\ rec'.doc.attempt = rec.attempt
      BY <2>3, FailFacts DEF IInv
    <3>2. e \in DocsOf(rec.attempt) /\ Contested(rec.attempt)
      BY <3>1 DEF IInv, RecoveryInv, DocsOf
    <3> QED BY <3>2 DEF Contested, DocsOf
  <2> QED BY <2>1, <2>2, <2>3
<1> QED BY <1>1, OutcomesAlways, PTL DEF Spec, SoleSuccessNotOverruled
=============================================================================
