-------------------------- MODULE RunArchive_proofs --------------------------
(***************************************************************************)
(* Proofs about what readers make of a run store, for every set of slots,   *)
(* retries, observations and leases.  `metewand archive create` rejects a   *)
(* settled store for one reason only, a one-shot point selected by an       *)
(* attempt that was not accepted, so it rejects none whose slots are        *)
(* profiles; and `metewand status`, which looks at reservations alone, asks *)
(* for recovery of exactly the attempts a recovery pass would take.         *)
(***************************************************************************)
EXTENDS RunArchive, RunStoreOutcomes_proofs

Filling == {"obs_create", "obs_stage", "obs_publish", "obs_register"}

\* An owner of a profile stores observations only before it has a plan.
Planned(a) ==
    Slot(a) \in Profiles =>
        /\ owner[a].pc # "observe"
        /\ owner[a].pc \in Filling => owner[a].plan = None

\* The observations of an attempt are its slot's, an accepted attempt has one,
\* and the document of a finished one lists them all.
Measured(a) ==
    /\ \A p \in Points : obs[a][p] \in Registered => p \in PointsOf(Slot(a))
    /\ row[a].state = "accepted" => \E p \in Points : obs[a][p] \in Registered
    /\ row[a].state \in Terminal =>
         \A p \in Points : receipt[a].coordination.own[p] =
             IF obs[a][p] \in Registered THEN obs[a][p] ELSE "absent"

\* The document of an accepted stream names no selection.
StreamRecords(a) ==
    row[a].state = "accepted" /\ Slot(a) \in Streams =>
        receipt[a].coordination.selected = [p \in Points |-> None]

\* A profile is selected with its acceptance and not before.
SelectedWithAcceptance ==
    \A s \in Profiles, p \in Points :
        selected[s][p] # None => row[selected[s][p]].state = "accepted"

ArchiveInv ==
    /\ \A a \in Attempts : Planned(a) /\ Measured(a) /\ StreamRecords(a)
    /\ SelectedWithAcceptance

-----------------------------------------------------------------------------
(***************************************************************************)
(* What a step does to the records an archive is made of.                   *)
(***************************************************************************)
\* A row that is not finished by the step.
Goes(a) ==
    \/ row'[a].state = row[a].state /\ receipt'[a] = receipt[a]
    \/ row'[a].state \in Active /\ row[a].state \in Active \cup {"none"}

\* An observation is registered, at a point of the attempt's slot.
Registers(a) ==
    /\ owner[a].pc = "obs_register" /\ row[a].state \in Active
    /\ row' = row /\ receipt' = receipt
    /\ \E p \in PointsOf(Slot(a)) :
         \A q \in Points : q # p => obs'[a][q] = obs[a][q]
    /\ \A q \in Points : obs[a][q] \in Registered => obs'[a][q] \in Registered
    /\ owner[a].plan # "accepted" => \A s \in Slots, q \in Points : selected'[s][q] = selected[s][q]
    /\ \A s \in Slots, q \in Points : s # Slot(a) => selected'[s][q] = selected[s][q]

\* A step without a terminal commit.
Carries ==
    /\ \A a \in Attempts : Planned(a) => Planned(a)'
    /\ \A a \in Attempts : Goes(a)
    /\ \A a \in Attempts : Same(a) \/ Registers(a)
    /\ \/ selected' = selected
       \/ \E a \in Attempts : Registers(a)

\* A terminal commit.
Finishes(a) ==
    /\ \A b \in Attempts : Planned(b) => Planned(b)'
    /\ obs' = obs
    /\ row[a].state = "finalizing"
    /\ \E doc \in Docs :
         /\ Ends(a, doc)
         /\ doc.coordination = CoordinationSnapshot(a, doc.state)
         /\ doc.state = "accepted" => ValidateAcceptance(a)

LEMMA RegistersFacts ==
    ASSUME TypeInv, NEW a \in Attempts, RegisterObservation(a)
    PROVE  Registers(a)
<1>1. PICK t \in Sampled, p \in Points :
        /\ Fence(a, t)
        /\ IsNext(a, p)
        /\ obs' = [obs EXCEPT ![a][p] =
               IF owner[a].plan = "failed" THEN "incomplete" ELSE "complete"]
        /\ selected' = [selected EXCEPT ![Slot(a)][p] =
               IF owner[a].plan = "accepted" THEN SelectOnce(@, a) ELSE @]
  BY DEF RegisterObservation
<1>2. /\ owner[a].pc = "obs_register" /\ row' = row /\ receipt' = receipt
      /\ row[a].state \in Active
  BY <1>1 DEF RegisterObservation, Fence
<1>3. p \in PointsOf(Slot(a)) /\ obs[a][p] \notin Registered
  BY <1>1 DEF IsNext
<1>4. \A q \in Points : q # p => obs'[a][q] = obs[a][q]
  BY <1>1 DEF TypeInv, TypeOK
<1>5. \A s \in Slots, q \in Points :
        s # Slot(a) \/ owner[a].plan # "accepted" => selected'[s][q] = selected[s][q]
  BY <1>1, SlotType DEF TypeInv, TypeOK
<1> QED BY <1>2, <1>3, <1>4, <1>5 DEF Registers

\* What a step of an owner leaves of the other attempts.
LEMMA AloneCarries ==
    ASSUME NEW a \in Attempts, Alone(a), Planned(a) => Planned(a)', Goes(a),
           Same(a) \/ Registers(a), selected' = selected \/ Registers(a)
    PROVE  Carries
<1>1. ASSUME NEW b \in Attempts, b # a
      PROVE  Goes(b) /\ Same(b) /\ (Planned(b) => Planned(b)')
  BY <1>1 DEF Alone, Goes, Same, Planned
<1> QED BY <1>1 DEF Carries

LEMMA QuietCarries ==
    ASSUME NEW a \in Attempts, Quiet(a), Same(a), Planned(a) => Planned(a)'
    PROVE  Carries
BY AloneCarries DEF Quiet, Goes

\* A profile is concluded without another observation.
LEMMA ProfileMoves ==
    ASSUME TypeInv, NEW a \in Attempts, Slot(a) \in Profiles,
           \/ \E outcome \in Outcomes, observe \in BOOLEAN : Conclude(a, outcome, observe)
           \/ BeginFinalization(a)
    PROVE  owner'[a].pc = "final"
<1>1. ASSUME NEW outcome \in Outcomes, NEW observe \in BOOLEAN, Conclude(a, outcome, observe)
      PROVE  owner'[a].pc = "final"
  <2>1. ~observe /\ owner' = [owner EXCEPT ![a].revision = @ + 1,
                                  ![a].updated = row'[a].updated,
                                  ![a].plan = outcome,
                                  ![a].pc = IF observe THEN "observe" ELSE "final"]
    BY <1>1 DEF Conclude
  <2>2. owner[a] \in OwnerType
    BY DEF TypeInv, TypeOK
  <2> QED BY <2>1, <2>2 DEF TypeInv, TypeOK, OwnerType
<1>2. CASE BeginFinalization(a)
  <2>1. PICK plan :
          owner' = [owner EXCEPT ![a].revision = @ + 1,
                                  ![a].updated = row'[a].updated,
                                  ![a].plan = plan,
                                  ![a].pc = IF Slot(a) \in Profiles THEN "final" ELSE "observe"]
    BY <1>2 DEF BeginFinalization
  <2>2. owner[a] \in OwnerType
    BY DEF TypeInv, TypeOK
  <2> QED BY <2>1, <2>2, SMTT(30) DEF TypeInv, TypeOK, OwnerType
<1> QED BY <1>1, <1>2

LEMMA OwnerCarries ==
    ASSUME TypeInv, NEW a \in Attempts, OwnerStep(a) \/ Reserve(a) \/ Renew(a)
    PROVE  Carries \/ CommitFinalization(a)
<1>1. CASE Reserve(a)
  <2>1. /\ Alone(a) /\ UNCHANGED <<selected, receipt, obs>>
        /\ row[a].state = "none" /\ row'[a].state = "reserved"
        /\ owner'[a].pc = "work"
    BY <1>1, ReserveFacts
  <2> QED BY <2>1, AloneCarries DEF Goes, Same, Planned, Filling, Active
<1>2. ASSUME NEW phase \in Phases, Advance(a, phase) PROVE Carries
  <2>1. Moves(a, None, {"work"})
    BY <1>2, AdvanceFacts
  <2> QED BY <2>1, AloneCarries DEF Moves, Goes, Same, Planned, Filling
<1>3. ASSUME NEW outcome \in Outcomes, NEW observe \in BOOLEAN, Conclude(a, outcome, observe)
      PROVE  Carries
  <2>1. Moves(a, outcome, {"observe", "final"})
    BY <1>3, ConcludeFacts
  <2>2. Slot(a) \in Profiles => owner'[a].pc = "final"
    BY <1>3, ProfileMoves
  <2> QED BY <2>1, <2>2, AloneCarries DEF Moves, Goes, Same, Planned, Filling
<1>4. CASE BeginFinalization(a)
  <2>1. Moves(a, Disposition(a), {"observe", "final"})
    BY <1>4, BeginFacts
  <2>2. Slot(a) \in Profiles => owner'[a].pc = "final"
    BY <1>4, ProfileMoves
  <2> QED BY <2>1, <2>2, AloneCarries DEF Moves, Goes, Same, Planned, Filling
<1>5. ASSUME NEW job \in Jobs, CreateStage(a, job) PROVE Carries
  <2>1. /\ Quiet(a) /\ Same(a) /\ Keeps(a)
        /\ owner'[a].pc = IF job = "observation" THEN "obs_create" ELSE "out_create"
    BY <1>5, CreateFacts
  <2>2. Wants(a, job)
    BY <1>5 DEF CreateStage
  <2>3. Planned(a) => Planned(a)'
    BY <2>1, <2>2 DEF Planned, Filling, Keeps, Wants, Jobs
  <2> QED BY <2>1, <2>3, QuietCarries
<1>6. ASSUME NEW job \in Jobs, LeaseStage(a, job) PROVE Carries
  <2>1. /\ Quiet(a) /\ Same(a) /\ Keeps(a)
        /\ owner[a].pc = IF job = "observation" THEN "obs_create" ELSE "out_create"
        /\ owner'[a].pc = IF job = "observation" THEN "obs_stage" ELSE "out_stage"
    BY <1>6, LeaseFacts
  <2>3. Planned(a) => Planned(a)'
    BY <2>1 DEF Planned, Filling, Keeps
  <2> QED BY <2>1, <2>3, QuietCarries
<1>7. CASE PublishObservation(a) \/ CommitArtifact(a)
  <2>1. /\ Quiet(a) /\ Same(a) /\ Keeps(a)
        /\ owner[a].pc \in Filling /\ owner'[a].pc \in Filling
    BY <1>7, PublishObservationFacts, CommitArtifactFacts DEF Filling
  <2>3. Planned(a) => Planned(a)'
    BY <2>1 DEF Planned, Filling, Keeps
  <2> QED BY <2>1, <2>3, QuietCarries
<1>8. CASE RegisterObservation(a)
  <2>1. /\ Alone(a) /\ UNCHANGED <<row, receipt>>
        /\ owner'[a].pc = IF owner[a].plan = None THEN "work" ELSE "final"
    BY <1>8, RegisterFacts
  <2>2. Registers(a)
    BY <1>8, RegistersFacts
  <2> QED BY <2>1, <2>2, AloneCarries DEF Goes, Planned, Filling
<1>9. CASE ObservationFails(a) \/ Abort(a) \/ WriteOutcome(a)
  <2>1. Quiet(a) /\ Same(a) /\ owner'[a].pc \in {"work", "dead", "out_write"}
    BY <1>9, ObservationFailsFacts, AbortFacts, WriteFacts
  <2>2. Planned(a)'
    BY <2>1 DEF Planned, Filling
  <2> QED BY <2>1, <2>2, QuietCarries
<1>10. CASE PublishOutcome(a)
  <2>1. /\ Alone(a) /\ UNCHANGED <<row, selected, receipt, obs>>
        /\ owner'[a].pc = "out_publish"
    BY <1>10, PublishFacts
  <2> QED BY <2>1, AloneCarries DEF Goes, Same, Planned, Filling
<1>11. CASE Renew(a)
  <2>1. Alone(a) /\ owner' = owner /\ UNCHANGED <<row, selected, receipt, obs>>
    BY <1>11, RenewFacts
  <2> QED BY <2>1, AloneCarries DEF Goes, Same, Planned
<1> QED BY <1>1, <1>2, <1>3, <1>4, <1>5, <1>6, <1>7, <1>8, <1>9, <1>10, <1>11 DEF OwnerStep

LEMMA CommitFinishes ==
    ASSUME IInv, NEW a \in Attempts, CommitFinalization(a)
    PROVE  Finishes(a)
<1>1. TypeInv /\ ClaimInv /\ OwnerWrote(a)
  BY DEF IInv, About
<1>2. /\ Ends(a, owner[a].doc) /\ obs' = obs /\ row[a].state = "finalizing"
      /\ \A b \in Attempts \ {a} : owner'[b] = owner[b]
      /\ owner'[a].pc \in {"done", "dead"}
      /\ owner[a].doc \in Docs
      /\ CoordinationSnapshot(a, owner[a].doc.state) = owner[a].doc.coordination
      /\ owner[a].doc.state = "accepted" => ValidateAcceptance(a)
  BY <1>1, FinalizationFacts
<1>3. ASSUME NEW b \in Attempts, Planned(b) PROVE Planned(b)'
  BY <1>2, <1>3 DEF Planned, Filling
<1> QED BY <1>2, <1>3 DEF Finishes

\* The other steps leave the records of attempts alone, or end one of them.
LEMMA RecoverCarries ==
    ASSUME IInv, RecoverStep \/ RecoverCrash
    PROVE  Carries \/ \E a \in Attempts : Finishes(a)
<1>1. TypeInv /\ ClaimInv /\ RecoveryInv
  BY DEF IInv
<1>2. ASSUME UNCHANGED <<row, selected, receipt, owner>>, \A a \in Attempts : Same(a)
      PROVE  Carries
  BY <1>2 DEF Carries, Goes, Planned
<1>3. CASE RecoverBegin
  <2>1. /\ UNCHANGED <<row, selected, receipt, owner>>
        /\ obs' = [a \in Attempts |-> [p \in Points |->
               IF obs[a][p] = "disk" THEN "imported" ELSE obs[a][p]]]
    BY <1>3 DEF RecoverBegin, db
  <2>2. \A a \in Attempts : Same(a)
    BY <2>1 DEF Same, Registered
  <2> QED BY <1>2, <2>1, <2>2
<1>4. ASSUME NEW a \in Attempts, RecoverTake(a) PROVE Carries
  <2>1. /\ UNCHANGED <<selected, receipt, owner, obs>>
        /\ \A b \in Attempts \ {a} : row'[b] = row[b]
        /\ row' = row \/ (row[a].state \in Active /\ row'[a].state = "finalizing")
    BY <1>1, <1>4, TakeFacts
  <2> QED BY <2>1 DEF Carries, Goes, Same, Planned, Active
<1>5. CASE RecoverImport \/ RecoverCommit
  <2>1. PICK a \in Attempts : a = rec.attempt
    BY <1>1, <1>5, RecoverEndFacts
  <2>2. PICK doc : doc = rec.doc
    OBVIOUS
  <2>3. /\ doc \in DocsOf(a) /\ Ends(a, doc) /\ row[a].state = "finalizing"
        /\ UNCHANGED <<obs, published, owner>>
        /\ CoordinationSnapshot(a, doc.state) = doc.coordination
    BY <1>1, <1>5, <2>1, <2>2, RecoverEndFacts
  <2>4. doc \in Docs
    BY <1>1, <2>3 DEF DocsOf, TypeInv, TypeOK
  <2>5. doc.state = "accepted" => ValidateAcceptance(a)
    BY <2>3 DEF IInv, About, Documented, Standing, Active
  <2>6. \A b \in Attempts : Planned(b) => Planned(b)'
    BY <2>3 DEF Planned
  <2> QED BY <2>3, <2>4, <2>5, <2>6 DEF Finishes
<1>6. CASE RecoverJudge \/ RecoverPublish \/ RecoverFails \/ RecoverEnd \/ RecoverCrash
  <2>1. UNCHANGED <<row, selected, receipt, owner, obs>>
    BY <1>6 DEF RecoverJudge, RecoverPublish, RecoverFails, RecoverEnd, RecoverCrash, db
  <2> QED BY <1>2, <2>1, SMTT(30) DEF Same
<1>7. ASSUME NEW a \in Attempts, NEW job \in Jobs, RecoverQuarantine(a, job) PROVE Carries
  <2>1. UNCHANGED <<row, selected, receipt, owner, obs>>
    BY <1>7 DEF RecoverQuarantine, db
  <2> QED BY <1>2, <2>1 DEF Same
<1> QED BY <1>3, <1>4, <1>5, <1>6, <1>7 DEF RecoverStep

LEMMA StepCarries ==
    ASSUME IInv, [Next]_vars
    PROVE  Carries \/ \E a \in Attempts : Finishes(a)
<1>1. ASSUME NEW a \in Attempts, Reserve(a) \/ OwnerStep(a) \/ Renew(a)
      PROVE  Carries \/ Finishes(a)
  BY <1>1, OwnerCarries, CommitFinishes DEF IInv
<1>2. CASE Tick \/ UNCHANGED vars
  BY <1>2 DEF Tick, vars, db, Carries, Goes, Same, Planned
<1> QED BY <1>1, <1>2, RecoverCarries DEF Next

-----------------------------------------------------------------------------
(***************************************************************************)
(* The archive's invariant.                                                 *)
(***************************************************************************)
LEMMA CarriesKeeps ==
    ASSUME IInv, ArchiveInv, Carries
    PROVE  ArchiveInv'
<1>1. ASSUME NEW a \in Attempts PROVE Measured(a)'
  <2>1. Goes(a) /\ Measured(a)
    BY DEF Carries, ArchiveInv
  <2>2. CASE Same(a)
    <3>1. \A p \in Points : obs'[a][p] = obs[a][p]
             \/ (obs[a][p] \notin Registered /\ obs'[a][p] \notin Registered)
      BY <2>2 DEF Same
    <3>2. CASE row'[a].state = row[a].state /\ receipt'[a] = receipt[a]
      BY <2>1, <3>1, <3>2 DEF Measured, Slot, PointsOf
    <3>3. CASE row'[a].state \in Active
      <4>1. row'[a].state # "accepted" /\ row'[a].state \notin Terminal
        BY <3>3, StatesApart DEF Terminal
      <4> QED BY <2>1, <3>1, <4>1 DEF Measured, Slot, PointsOf
    <3> QED BY <2>1, <3>2, <3>3 DEF Goes
  <2>3. CASE Registers(a)
    <3>1. row'[a].state # "accepted" /\ row'[a].state \notin Terminal
      BY <2>3, StatesApart DEF Registers, Terminal
    <3>2. \A p \in Points : obs'[a][p] \in Registered => p \in PointsOf(Slot(a))
      BY <2>1, <2>3 DEF Registers, Measured
    <3> QED BY <3>1, <3>2 DEF Measured, Slot, PointsOf
  <2> QED BY <2>2, <2>3 DEF Carries
<1>2. ASSUME NEW s \in Profiles, NEW p \in Points, selected'[s][p] # None
      PROVE  row'[selected'[s][p]].state = "accepted"
  <2>1. s \in Slots
    BY StoreAssumption
  <2>2. selected'[s][p] = selected[s][p]
    <3>1. ASSUME NEW a \in Attempts, Registers(a) PROVE selected'[s][p] = selected[s][p]
      <4>1. CASE s = Slot(a)
        <5>1. owner[a].plan = None
          BY <3>1, <4>1 DEF ArchiveInv, Planned, Registers, Filling
        <5>2. owner[a].plan # "accepted"
          BY <5>1, NoneAssumption DEF Terminal
        <5> QED BY <2>1, <3>1, <5>2 DEF Registers
      <4> QED BY <2>1, <3>1, <4>1 DEF Registers
    <3> QED BY <3>1 DEF Carries
  <2>3. PICK b \in Attempts : b = selected[s][p]
    BY <1>2, <2>1, <2>2 DEF IInv, TypeInv, TypeOK
  <2>4. row[b].state = "accepted" /\ Goes(b)
    BY <1>2, <2>2, <2>3 DEF ArchiveInv, SelectedWithAcceptance, Carries
  <2>5. row'[b].state = "accepted"
    BY <2>4, StatesApart DEF Goes, Terminal
  <2> QED BY <2>2, <2>3, <2>5
<1>3. \A a \in Attempts : Planned(a)'
  BY DEF Carries, ArchiveInv
<1>4. ASSUME NEW a \in Attempts PROVE StreamRecords(a)'
  <2>1. Goes(a) /\ StreamRecords(a)
    BY DEF Carries, ArchiveInv
  <2> QED BY <2>1, StatesApart DEF Goes, StreamRecords, Slot, Terminal
<1> QED BY <1>1, <1>2, <1>3, <1>4 DEF ArchiveInv, SelectedWithAcceptance

LEMMA FinishesKeeps ==
    ASSUME IInv, ArchiveInv, NEW a \in Attempts, Finishes(a)
    PROVE  ArchiveInv'
<1>1. PICK doc \in Docs :
         /\ Ends(a, doc)
         /\ doc.coordination = CoordinationSnapshot(a, doc.state)
         /\ doc.state = "accepted" => ValidateAcceptance(a)
  BY DEF Finishes
<1>2. /\ row'[a].state = doc.state /\ receipt'[a] = doc /\ obs' = obs
      /\ \A b \in Attempts \ {a} : row'[b] = row[b] /\ receipt'[b] = receipt[b]
      /\ row[a].state = "finalizing"
  BY <1>1 DEF Ends, Finishes
<1>3. \A p \in Points : doc.coordination.own[p] =
         IF obs[a][p] \in Registered THEN obs[a][p] ELSE "absent"
  <2>1. PICK sel : doc.coordination =
          [own |-> [p \in Points |-> IF obs[a][p] \in Registered THEN obs[a][p] ELSE "absent"],
           selected |-> sel]
    BY <1>1 DEF CoordinationSnapshot
  <2>2. doc.coordination.own =
          [p \in Points |-> IF obs[a][p] \in Registered THEN obs[a][p] ELSE "absent"]
    BY <2>1
  <2> QED BY <2>2
<1>4. doc.state = "accepted" => \E p \in Points : obs[a][p] \in Registered
  <2>1. 1 \in Points
    BY StoreAssumption DEF Points
  <2> QED BY <1>1, <2>1 DEF ValidateAcceptance, Registered
<1>5. Measured(a)'
  <2>1. Measured(a)
    BY DEF ArchiveInv
  <2> QED BY <1>2, <1>3, <1>4, <2>1 DEF Measured, Slot, PointsOf
<1>6. ASSUME NEW b \in Attempts, b # a PROVE Measured(b)'
  <2>1. Measured(b) /\ row'[b] = row[b] /\ receipt'[b] = receipt[b]
    BY <1>2, <1>6 DEF ArchiveInv
  <2> QED BY <1>2, <2>1 DEF Measured, Slot, PointsOf
<1>7. ASSUME NEW s \in Profiles, NEW p \in Points, selected'[s][p] # None
      PROVE  row'[selected'[s][p]].state = "accepted"
  <2>1. s \in Slots
    BY StoreAssumption
  <2>2. \/ selected'[s][p] = a /\ doc.state = "accepted"
        \/ selected'[s][p] = selected[s][p]
    BY <1>1, <2>1 DEF Ends
  <2>3. CASE selected'[s][p] = selected[s][p]
    <3>1. PICK b \in Attempts : b = selected[s][p]
      BY <1>7, <2>1, <2>3 DEF IInv, TypeInv, TypeOK
    <3>2. row[b].state = "accepted"
      BY <1>7, <2>3, <3>1 DEF ArchiveInv, SelectedWithAcceptance
    <3> QED BY <1>2, <2>3, <3>1, <3>2
  <2> QED BY <1>2, <2>2, <2>3
<1>8. \A b \in Attempts : Planned(b)'
  BY DEF Finishes, ArchiveInv
<1>9. StreamRecords(a)'
  <2> SUFFICES ASSUME doc.state = "accepted", Slot(a) \in Streams
               PROVE  doc.coordination.selected = [p \in Points |-> None]
    BY <1>2 DEF StreamRecords, Slot
  <2>1. Slot(a) \in Profiles
    BY StoreAssumption
  <2>2. ASSUME NEW p \in Points PROVE selected[Slot(a)][p] = None
    <3>1. selected[Slot(a)][p] \in {None, a}
      BY <1>1, <2>1 DEF ValidateAcceptance
    <3>2. selected[Slot(a)][p] # a
      BY <1>2, <2>1, NoneIsNoAttempt DEF ArchiveInv, SelectedWithAcceptance
    <3> QED BY <3>1, <3>2
  <2>3. PICK o : doc.coordination = [own |-> o, selected |-> [p \in Points |-> selected[Slot(a)][p]]]
    <3>1. PICK outcome : outcome = doc.state
      OBVIOUS
    <3>2. /\ doc.coordination = CoordinationSnapshot(a, outcome) /\ outcome = "accepted"
          /\ IncludeSelected(outcome) /\ Slot(a) \notin Profiles \ Streams
      BY <1>1, <3>1 DEF IncludeSelected
    <3> QED BY <3>2 DEF CoordinationSnapshot
  <2>4. doc.coordination.selected = [p \in Points |-> selected[Slot(a)][p]]
    BY <2>3
  <2> QED BY <2>2, <2>4
<1>10. ASSUME NEW b \in Attempts, b # a PROVE StreamRecords(b)'
  <2>1. StreamRecords(b) /\ row'[b] = row[b] /\ receipt'[b] = receipt[b]
    BY <1>2, <1>10 DEF ArchiveInv
  <2> QED BY <2>1 DEF StreamRecords, Slot
<1> QED BY <1>5, <1>6, <1>7, <1>8, <1>9, <1>10 DEF ArchiveInv, SelectedWithAcceptance

LEMMA ArchiveInit == Init => ArchiveInv
<1> SUFFICES ASSUME Init PROVE ArchiveInv
  OBVIOUS
<1>1. /\ \A a \in Attempts : owner[a].pc = "none" /\ row[a].state = "none"
      /\ \A a \in Attempts, p \in Points : obs[a][p] = "absent"
      /\ \A s \in Slots, p \in Points : selected[s][p] = None
  BY DEF Init, NoOwner
<1> QED BY <1>1, StoreAssumption
        DEF ArchiveInv, Planned, Measured, StreamRecords, SelectedWithAcceptance,
            Filling, Registered, Terminal

LEMMA ArchiveAlways == Spec => [](IInv /\ ArchiveInv)
<1>1. Init => ArchiveInv
  BY ArchiveInit
<1>2. IInv /\ ArchiveInv /\ [Next]_vars => ArchiveInv'
  BY StepCarries, CarriesKeeps, FinishesKeeps
<1> QED BY <1>1, <1>2, OutcomesAlways, PTL DEF Spec

-----------------------------------------------------------------------------
(***************************************************************************)
(* What finished attempts point at.                                         *)
(***************************************************************************)
LEMMA LastingReceipt ==
    ASSUME IInv, ArchiveInv, NEW a \in Attempts, row[a].state \in Terminal,
           receipt[a].state # "censored"
    PROVE  receipt[a].coordination = LastingRecords(a, receipt[a].state)
<1>1. Described(a) /\ Measured(a) /\ StreamRecords(a) /\ receipt[a] \in Docs
  BY NoneAssumption DEF IInv, About, ArchiveInv, Described, DocsOf, TypeInv, TypeOK
<1>2. PICK doc : doc = receipt[a]
  OBVIOUS
<1>3. CASE doc.state = "accepted" /\ Slot(a) \in Streams
  <2>1. row[a].state = "accepted"
    BY <1>1, <1>2, <1>3 DEF Described
  <2>2. doc.coordination.selected = [p \in Points |-> None]
    BY <1>1, <1>2, <1>3, <2>1 DEF StreamRecords
  <2>3. doc.coordination.own =
          [p \in Points |-> IF obs[a][p] \in Registered THEN obs[a][p] ELSE "absent"]
    <3>1. doc.coordination.own \in [Points -> Registered \cup {"absent"}]
      BY <1>1, <1>2 DEF Docs
    <3> QED BY <1>1, <1>2, <3>1 DEF Measured
  <2>4. CoordinationSnapshot(a, "accepted").own =
          [p \in Points |-> IF obs[a][p] \in Registered THEN obs[a][p] ELSE "absent"]
    BY DEF CoordinationSnapshot
  <2>5. doc.coordination = [own |-> doc.coordination.own,
                            selected |-> doc.coordination.selected]
    BY <1>1, <1>2 DEF Docs
  <2>6. LastingRecords(a, doc.state) =
          [own |-> CoordinationSnapshot(a, "accepted").own,
           selected |-> [p \in Points |-> None]]
    BY <1>3 DEF LastingRecords
  <2> QED BY <1>2, <2>2, <2>3, <2>4, <2>5, <2>6
<1>4. CASE ~(doc.state = "accepted" /\ Slot(a) \in Streams)
  <2>1. Lasts(a, doc.state)
    BY <1>2, <1>4 DEF Lasts
  <2>2. doc.coordination = CoordinationSnapshot(a, doc.state)
    BY <1>1, <1>2, <2>1 DEF Described
  <2>3. LastingRecords(a, doc.state) = CoordinationSnapshot(a, doc.state)
    BY <1>4, Zenon DEF LastingRecords
  <2> QED BY <1>2, <2>2, <2>3
<1> QED BY <1>3, <1>4

\* Every finished attempt points at one published document that states its
\* outcome, its finish time and its revision.  Unless the attempt was censored,
\* the document describes the attempt's observations for ever, and the slot's
\* selections too; the document of an accepted stream names none of them
\* (publisher.rs coordination_snapshot), whoever commits it.
THEOREM ReceiptsDescribeRows == Spec => []ReceiptDescribesRow
<1>1. IInv /\ ArchiveInv => ReceiptDescribesRow
  <2> SUFFICES ASSUME IInv, ArchiveInv PROVE ReceiptDescribesRow
    OBVIOUS
  <2>1. ASSUME NEW a \in Attempts PROVE Described(a)
    BY DEF IInv, About
  <2> QED BY <2>1, LastingReceipt DEF Described, DocsOf, ReceiptDescribesRow
<1> QED BY <1>1, ArchiveAlways, PTL

-----------------------------------------------------------------------------
(***************************************************************************)
(* The theorems about archives.                                             *)
(***************************************************************************)
\* What RegisterObservation alone can spoil: it selects a one-shot point for an
\* attempt that may still fail.
OneShotsSelectWinners ==
    \A s \in Slots \ Profiles, p \in Points :
        selected[s][p] # None => row[selected[s][p]].state = "accepted"

LEMMA ArchivableStore ==
    IInv /\ ArchiveInv => (OneShotsSelectWinners => SettledStoreArchivable)
<1> SUFFICES ASSUME IInv, ArchiveInv, OneShotsSelectWinners, Settled PROVE Archivable
  BY DEF SettledStoreArchivable
<1>0. TypeInv /\ OneAccepted /\ SelectedInv
  BY DEF IInv, ClaimInv
<1>1. ASSUME NEW s \in Slots, NEW p \in Points, selected[s][p] # None
      PROVE  /\ selected[s][p] \in Attempts /\ Slot(selected[s][p]) = s
             /\ row[selected[s][p]].state = "accepted"
  <2>1. selected[s][p] \in Attempts
    BY <1>0, <1>1 DEF TypeInv, TypeOK
  <2>2. Slot(selected[s][p]) = s
    BY <1>0, <1>1, Zenon DEF SelectedInv
  <2>3. row[selected[s][p]].state = "accepted"
    BY <1>1, Zenon DEF ArchiveInv, SelectedWithAcceptance, OneShotsSelectWinners
  <2> QED BY <2>1, <2>2, <2>3
<1>2. ValidSelections
  BY <1>1 DEF ValidSelections
<1>3. ASSUME NEW a \in Attempts, row[a].state = "accepted" PROVE ValidAcceptance(a)
  <2>1. Measured(a) /\ Earned(a)
    BY DEF ArchiveInv, IInv, About
  <2>2. PointsOf(Slot(a)) \subseteq Points
    BY StoreAssumption DEF PointsOf, Points
  <2>3. Observed(a) # {}
    BY <1>3, <2>1 DEF Measured, Observed
  <2>4. ASSUME NEW p \in Observed(a) PROVE selected[Slot(a)][p] = a
    <3>1. p \in PointsOf(Slot(a)) /\ p \in Points /\ obs[a][p] \in Registered
      BY <2>2, <2>4 DEF Observed
    <3>2. CASE Slot(a) \in Profiles
      BY <1>3, <2>1, <3>1, <3>2 DEF Earned
    <3>3. CASE Slot(a) \notin Profiles
      <4>1. p = 1 /\ selected[Slot(a)][1] # None
        BY <1>3, <2>1, <3>1, <3>3 DEF Earned, PointsOf
      <4>2. PICK b : b = selected[Slot(a)][p]
        OBVIOUS
      <4>3. b \in Attempts /\ Slot(b) = Slot(a) /\ row[b].state = "accepted"
        BY <1>1, <3>1, <4>1, <4>2, SlotType
      <4> QED BY <1>0, <1>3, <4>2, <4>3 DEF OneAccepted
    <3> QED BY <3>2, <3>3
  <2> QED BY <2>3, <2>4 DEF ValidAcceptance
<1>4. ValidateEvidence
  BY <1>0, <1>2, <1>3 DEF ValidateEvidence, OneAccepted
<1>5. ASSUME NEW a \in Attempts, row[a].state \in Terminal
      PROVE  /\ receipt[a] # None
             /\ receipt[a].state = row[a].state
             /\ {p \in Points : receipt[a].coordination.own[p] \in Registered} = Observed(a)
  <2>1. Described(a) /\ Measured(a)
    BY DEF ArchiveInv, IInv, About
  <2>2. receipt[a] # None /\ receipt[a].state = row[a].state
    BY <1>5, <2>1 DEF Described
  <2>3. PointsOf(Slot(a)) \subseteq Points
    BY StoreAssumption DEF PointsOf, Points
  <2>4. \A p \in Points :
          receipt[a].coordination.own[p] \in Registered <=> obs[a][p] \in Registered
    BY <1>5, <2>1 DEF Measured, Registered
  <2>5. \A p \in Points : obs[a][p] \in Registered => p \in PointsOf(Slot(a))
    BY <2>1 DEF Measured
  <2> QED BY <2>2, <2>3, <2>4, <2>5 DEF Observed
<1> QED BY <1>4, <1>5 DEF Archivable, ValidateDocuments

\* Whatever ended the attempts of a store, archive creation accepts its evidence
\* once all have ended, unless a one-shot point was selected by an attempt that
\* did not go on to be accepted: register_observation selects before the outcome
\* is committed, and that is the only way to an unarchivable store.
THEOREM OnlyLosersSpoilArchives ==
    Spec => [](OneShotsSelectWinners => SettledStoreArchivable)
<1>1. IInv /\ ArchiveInv => (OneShotsSelectWinners => SettledStoreArchivable)
  BY ArchivableStore
<1> QED BY <1>1, ArchiveAlways, PTL

\* A store of buffered and streamed profiles can always be archived once its
\* attempts have ended: a profile is selected in the transaction that accepts it.
THEOREM ProfilesAreArchivable ==
    ASSUME Profiles = Slots
    PROVE  Spec => []SettledStoreArchivable
<1>1. IInv /\ ArchiveInv => SettledStoreArchivable
  <2>1. OneShotsSelectWinners
    BY DEF OneShotsSelectWinners
  <2> QED BY <2>1, ArchivableStore
<1> QED BY <1>1, ArchiveAlways, PTL

-----------------------------------------------------------------------------
(***************************************************************************)
(* Status, read with an exact clock.                                        *)
(***************************************************************************)
Exact == Stale = 0 /\ Back = 0

\* No attempt was written to in the future, no reservation reaches further than
\* one renewed now, and the claim's lease lasts at least as long as it.
Punctual(a) ==
    /\ owner[a].updated <= clock
    /\ lease[a].reservation <= clock + Lease
    /\ row[a].state \in Active => row[a].updated <= clock /\ lease[a].live
    /\ claim[Slot(a)] = a => lease[a].reservation <= lease[a].finalization

StatusInv ==
    /\ rec.now <= clock
    /\ \A a \in Attempts : Punctual(a)

LEMMA ExactSamples ==
    ASSUME Exact, clock \in Nat
    PROVE  /\ \A t \in Sampled : t = clock
           /\ \A t \in Current : t = clock
BY DEF Exact, Sampled, Current

\* The numbers that Punctual compares.
LEMMA PunctualTypes ==
    ASSUME TypeInv, NEW a \in Attempts
    PROVE  /\ clock \in Nat /\ Lease \in Nat /\ rec.now \in Nat
           /\ owner[a].updated \in Nat /\ row[a].updated \in Nat
           /\ lease[a].reservation \in Nat /\ lease[a].finalization \in Nat
BY StoreAssumption DEF TypeInv, TypeOK, OwnerType, RowType, LeaseType, RecType

\* An attempt whose row and leases a step leaves alone.
LEMMA PunctualKept ==
    ASSUME TypeInv, NEW a \in Attempts, Punctual(a), clock' \in Nat, clock' >= clock,
           owner'[a].updated \in {0, owner[a].updated},
           \/ row'[a] = row[a] /\ lease'[a] = lease[a]
           \/ /\ row'[a].state \notin Active
              /\ lease'[a].reservation = lease[a].reservation
              /\ lease'[a].finalization = lease[a].finalization,
           claim'[Slot(a)] = a => claim[Slot(a)] = a
    PROVE  Punctual(a)'
<1>1. /\ clock \in Nat /\ Lease \in Nat
      /\ owner[a].updated \in Nat /\ row[a].updated \in Nat
      /\ lease[a].reservation \in Nat /\ lease[a].finalization \in Nat
  BY PunctualTypes
<1>2. owner'[a].updated <= clock' /\ lease'[a].reservation <= clock' + Lease
  BY <1>1 DEF Punctual
<1>3. row'[a].state \in Active => row'[a].updated <= clock' /\ lease'[a].live
  BY <1>1 DEF Punctual
<1>4. claim'[Slot(a)] = a => lease'[a].reservation <= lease'[a].finalization
  BY DEF Punctual
<1> QED BY <1>2, <1>3, <1>4 DEF Punctual, Slot

LEMMA PunctualOthers ==
    ASSUME TypeInv, StatusInv, NEW a \in Attempts, Alone(a), clock' = clock,
           \A s \in Slots : claim'[s] = claim[s] \/ claim'[s] \in {a, None},
           Punctual(a)'
    PROVE  StatusInv'
<1>1. ASSUME NEW b \in Attempts, b # a PROVE Punctual(b)'
  <2>1. /\ owner'[b] = owner[b] /\ row'[b] = row[b] /\ lease'[b] = lease[b]
        /\ Punctual(b) /\ clock \in Nat
    BY <1>1 DEF Alone, StatusInv, TypeInv, TypeOK
  <2>2. claim'[Slot(b)] = b => claim[Slot(b)] = b
    BY <1>1, SlotType, NoneIsNoAttempt
  <2> QED BY <2>1, <2>2, PunctualKept
<1> QED BY <1>1 DEF StatusInv, Alone

LEMMA PunctualQuiet ==
    ASSUME TypeInv, StatusInv, NEW a \in Attempts, Quiet(a), clock' = clock,
           owner'[a].updated \in {0, owner[a].updated}
    PROVE  StatusInv'
<1>1. Punctual(a)'
  BY PunctualKept DEF Quiet, StatusInv, TypeInv, TypeOK
<1> QED BY <1>1, PunctualOthers DEF Quiet

LEMMA PunctualReserve ==
    ASSUME Exact, TypeInv, StatusInv, NEW a \in Attempts, ClaimInv, Reserve(a)
    PROVE  StatusInv'
<1>1. PICK now \in Sampled :
        /\ row' = [row EXCEPT ![a] =
               [state |-> "reserved", revision |-> 0, updated |-> now]]
        /\ lease' = [lease EXCEPT ![a].live = TRUE, ![a].reservation = now + Lease]
        /\ owner' = [owner EXCEPT ![a] = [NoOwner EXCEPT
               !.pc = "work", !.updated = now]]
  BY DEF Reserve
<1>2. /\ clock' = clock /\ claim' = claim /\ row[a].state = "none" /\ Alone(a)
  BY ReserveFacts DEF Reserve
<1>3. now = clock
  BY ExactSamples DEF TypeInv, TypeOK
<1>4. row'[a] = [state |-> "reserved", revision |-> 0, updated |-> now]
  BY <1>1 DEF TypeInv, TypeOK
<1>5. owner'[a] = [NoOwner EXCEPT !.pc = "work", !.updated = now]
  BY <1>1 DEF TypeInv, TypeOK
<1>6. owner'[a].updated = now
  BY <1>5 DEF NoOwner
<1>7. lease'[a].live /\ lease'[a].reservation = now + Lease
  BY <1>1 DEF TypeInv, TypeOK, LeaseType
<1>8. claim'[Slot(a)] # a
  BY <1>2, SlotType, NoneIsNoAttempt DEF ClaimInv, ClaimHeldByFinalizer
<1>9. Punctual(a)'
  <2>1. row'[a].updated = now
    BY <1>4
  <2>2. clock \in Nat /\ Lease \in Nat
    BY PunctualTypes
  <2> QED BY <1>2, <1>3, <1>6, <1>7, <1>8, <2>1, <2>2 DEF Punctual, Slot
<1> QED BY <1>2, <1>9, PunctualOthers

\* advance, conclude and begin_finalization stamp the row with the present.
LEMMA PunctualMoves ==
    ASSUME Exact, TypeInv, StatusInv, NEW a \in Attempts,
           \/ \E phase \in Phases : Advance(a, phase)
           \/ \E outcome \in Outcomes, observe \in BOOLEAN : Conclude(a, outcome, observe)
    PROVE  StatusInv'
<1>1. Alone(a) /\ UNCHANGED <<clock, claim, lease>> /\ row[a].state \in Active
      /\ row'[a].updated = owner'[a].updated
  <2>1. ASSUME NEW phase \in Phases, Advance(a, phase)
        PROVE  /\ Alone(a) /\ UNCHANGED <<clock, claim, lease>> /\ row[a].state \in Active
               /\ row'[a].updated = owner'[a].updated
    BY <2>1, AdvanceFacts DEF Moves, Advance
  <2>2. ASSUME NEW outcome \in Outcomes, NEW observe \in BOOLEAN, Conclude(a, outcome, observe)
        PROVE  /\ Alone(a) /\ UNCHANGED <<clock, claim, lease>> /\ row[a].state \in Active
               /\ row'[a].updated = owner'[a].updated
    <3>1. Moves(a, outcome, {"observe", "final"}) /\ UNCHANGED <<claim, lease>>
      BY <2>2, ConcludeFacts
    <3>2. clock' = clock
      BY <2>2 DEF Conclude
    <3> QED BY <3>1, <3>2 DEF Moves
  <2> QED BY <2>1, <2>2
<1>2. PICK to \in Active, t \in Sampled :
        Transition(a, owner[a].revision, owner[a].updated, to, t)
  BY DEF Advance, Conclude, Active
<1>3. /\ t = clock /\ clock \in Nat /\ Lease \in Nat /\ owner[a].updated \in Nat
      /\ owner[a].revision \in Nat /\ owner[a].updated <= clock
  BY ExactSamples, PunctualTypes, OwnerFields DEF StatusInv, Punctual, TypeInv, TypeOK
<1>4. row'[a].updated = Later(t, owner[a].updated)
  <2>1. PICK revision \in Nat, updated \in Nat :
          revision = owner[a].revision /\ updated = owner[a].updated
    BY <1>3
  <2>2. t \in Nat /\ Transition(a, revision, updated, to, t)
    BY <1>2, <1>3, <2>1
  <2> QED BY <2>1, <2>2, TransitionFacts
<1>5. row'[a].updated = clock
  BY <1>3, <1>4 DEF Later
<1>6. Punctual(a)'
  BY <1>1, <1>3, <1>5 DEF StatusInv, Punctual, Slot
<1> QED BY <1>1, <1>6, PunctualOthers

LEMMA PunctualBegin ==
    ASSUME Exact, TypeInv, StatusInv, NEW a \in Attempts, BeginFinalization(a)
    PROVE  StatusInv'
<1> DEFINE wins == Disposition(a) # "superseded"
<1>1. PICK t \in Sampled :
        /\ Transition(a, owner[a].revision, owner[a].updated, "finalizing",
                      Later(t, owner[a].updated))
        /\ claim' = IF wins THEN [claim EXCEPT ![Slot(a)] = a] ELSE claim
        /\ lease' = IF wins THEN [lease EXCEPT ![a].acquired = Later(t, owner[a].updated),
                                               ![a].finalization = t + Lease]
                            ELSE lease
  BY SMTT(30) DEF BeginFinalization
<1>2. /\ Alone(a) /\ clock' = clock /\ row[a].state \in Active
      /\ row'[a].updated = owner'[a].updated
  BY BeginFacts DEF Moves, BeginFinalization
<1>3. /\ t = clock /\ clock \in Nat /\ Lease \in Nat /\ owner[a].updated \in Nat
      /\ owner[a].revision \in Nat /\ owner[a].updated <= clock
  BY ExactSamples, PunctualTypes, OwnerFields DEF StatusInv, Punctual, TypeInv, TypeOK
<1>4. Later(t, owner[a].updated) = clock
  BY <1>3 DEF Later
<1>5. row'[a].updated = clock
  <2>1. PICK revision \in Nat, updated \in Nat :
          revision = owner[a].revision /\ updated = owner[a].updated
    BY <1>3
  <2>2. Transition(a, revision, updated, "finalizing", clock)
    BY <1>1, <1>4, <2>1
  <2>3. row'[a] = [state |-> "finalizing", revision |-> revision + 1,
                  updated |-> Later(clock, updated)]
    BY <2>2 DEF Transition, TypeInv, TypeOK
  <2> QED BY <1>3, <2>1, <2>3 DEF Later
<1>6. /\ lease'[a].reservation = lease[a].reservation
      /\ lease'[a].live = lease[a].live
      /\ IF wins THEN lease'[a].finalization = clock + Lease
                 ELSE lease'[a].finalization = lease[a].finalization
  BY <1>1, <1>3, <1>4 DEF TypeInv, TypeOK, LeaseType
<1>7. claim'[Slot(a)] = a => wins \/ claim[Slot(a)] = a
  BY <1>1
<1>8. Punctual(a)
  BY DEF StatusInv
<1>9. Punctual(a)'
  BY <1>2, <1>3, <1>5, <1>6, <1>7, <1>8 DEF Punctual, Slot
<1>10. \A s \in Slots : claim'[s] = claim[s] \/ claim'[s] \in {a, None}
  BY <1>1 DEF TypeInv, TypeOK
<1> QED BY <1>2, <1>9, <1>10, PunctualOthers

LEMMA PunctualRenew ==
    ASSUME Exact, TypeInv, StatusInv, NEW a \in Attempts, Renew(a)
    PROVE  StatusInv'
<1>1. PICK t \in Sampled :
        lease' = [lease EXCEPT ![a].reservation = t + Lease,
               ![a].finalization = IF claim[Slot(a)] = a THEN t + Lease ELSE @]
  BY DEF Renew
<1>2. /\ Alone(a) /\ owner' = owner /\ clock' = clock /\ claim' = claim /\ row' = row
  BY RenewFacts DEF Renew
<1>3. t = clock /\ clock \in Nat /\ Lease \in Nat
  BY ExactSamples, PunctualTypes DEF TypeInv, TypeOK
<1>4. /\ lease'[a].reservation = clock + Lease /\ lease'[a].live = lease[a].live
      /\ claim[Slot(a)] = a => lease'[a].finalization = clock + Lease
  BY <1>1, <1>3 DEF TypeInv, TypeOK, LeaseType
<1>5. Punctual(a)
  BY DEF StatusInv
<1>6. Punctual(a)'
  BY <1>2, <1>3, <1>4, <1>5 DEF Punctual, Slot
<1> QED BY <1>2, <1>6, PunctualOthers

\* The remaining steps of an owner do not touch times, or end the attempt.
LEMMA PunctualOwner ==
    ASSUME Exact, IInv, StatusInv, NEW a \in Attempts, OwnerStep(a) \/ Reserve(a) \/ Renew(a)
    PROVE  StatusInv'
<1> USE DEF IInv
<1>1. CASE Reserve(a) \/ Renew(a)
  BY <1>1, PunctualReserve, PunctualRenew
<1>2. CASE \/ \E phase \in Phases : Advance(a, phase)
           \/ \E outcome \in Outcomes, observe \in BOOLEAN : Conclude(a, outcome, observe)
           \/ BeginFinalization(a)
  BY <1>2, PunctualMoves, PunctualBegin
<1>3. ASSUME NEW job \in Jobs, CreateStage(a, job) \/ LeaseStage(a, job) PROVE StatusInv'
  <2>1. Quiet(a) /\ Keeps(a)
    BY <1>3, CreateFacts, LeaseFacts
  <2>2. clock' = clock
    BY <1>3 DEF CreateStage, LeaseStage
  <2> QED BY <2>1, <2>2, PunctualQuiet DEF Keeps
<1>4. CASE PublishObservation(a) \/ CommitArtifact(a) \/ WriteOutcome(a)
  <2>1. Quiet(a) /\ Keeps(a)
    BY <1>4, PublishObservationFacts, CommitArtifactFacts, WriteFacts
  <2>2. clock' = clock
    BY <1>4 DEF PublishObservation, CommitArtifact, WriteOutcome
  <2> QED BY <2>1, <2>2, PunctualQuiet DEF Keeps
<1>5. CASE ObservationFails(a)
  <2>1. clock' = clock
    BY <1>5 DEF ObservationFails
  <2> QED BY <1>5, <2>1, ObservationFailsFacts, PunctualQuiet
<1>6. CASE Abort(a)
  <2>1. clock' = clock /\ owner' = [owner EXCEPT ![a] = [NoOwner EXCEPT !.pc = "dead"]]
    BY <1>6 DEF Abort
  <2>2. owner'[a] = [NoOwner EXCEPT !.pc = "dead"]
    BY <2>1 DEF TypeInv, TypeOK
  <2>3. owner'[a].updated = 0
    BY <2>2 DEF NoOwner
  <2> QED BY <1>6, <2>1, <2>3, AbortFacts, PunctualQuiet
<1>7. CASE RegisterObservation(a) \/ PublishOutcome(a)
  <2>1. Alone(a) /\ Keeps(a) /\ UNCHANGED <<row, lease, claim>>
    BY <1>7, RegisterFacts, PublishFacts
  <2>2. clock' = clock
    BY <1>7 DEF RegisterObservation, PublishOutcome
  <2>3. Punctual(a)'
    BY <2>1, <2>2, PunctualKept DEF StatusInv, Keeps, TypeInv, TypeOK
  <2> QED BY <2>1, <2>2, <2>3, PunctualOthers
<1>8. CASE CommitFinalization(a)
  <2>1. PICK doc \in Docs :
          /\ Ends(a, doc) /\ \A b \in Attempts \ {a} : owner'[b] = owner[b]
          /\ rec' = rec
    BY <1>8, FinalizationFacts DEF About
  <2>2. clock' = clock /\ owner'[a].updated = 0
    <3>1. /\ clock' = clock
          /\ \/ owner' = [owner EXCEPT ![a] = [NoOwner EXCEPT
                   !.pc = "done", !.plan = owner[a].doc.state]]
             \/ owner' = [owner EXCEPT ![a] = [NoOwner EXCEPT !.pc = "dead"]]
      BY <1>8 DEF CommitFinalization
    <3>2. PICK plan : plan = owner[a].doc.state
      OBVIOUS
    <3>3. \/ owner'[a] = [NoOwner EXCEPT !.pc = "done", !.plan = plan]
          \/ owner'[a] = [NoOwner EXCEPT !.pc = "dead"]
      BY <3>1, <3>2, Zenon DEF TypeInv, TypeOK
    <3> QED BY <3>1, <3>3 DEF NoOwner
  <2>3. row'[a].state \notin Active
    BY <2>1, StatesApart DEF Ends, Docs
  <2>4. ASSUME NEW b \in Attempts PROVE Punctual(b)'
    <3>1. claim'[Slot(b)] = b => claim[Slot(b)] = b
      BY <2>1, SlotType, NoneIsNoAttempt DEF Ends
    <3>2. /\ owner'[b].updated \in {0, owner[b].updated}
          /\ \/ row'[b] = row[b] /\ lease'[b] = lease[b]
             \/ /\ row'[b].state \notin Active
                /\ lease'[b].reservation = lease[b].reservation
                /\ lease'[b].finalization = lease[b].finalization
      BY <2>1, <2>2, <2>3 DEF Ends
    <3>3. Punctual(b) /\ clock' \in Nat /\ clock' >= clock
      BY <2>2 DEF StatusInv, TypeInv, TypeOK
    <3> QED BY <3>1, <3>2, <3>3, PunctualKept
  <2> QED BY <2>1, <2>2, <2>4 DEF StatusInv
<1> QED BY <1>1, <1>2, <1>3, <1>4, <1>5, <1>6, <1>7, <1>8 DEF OwnerStep

\* A pass begins now, and forces rows into finalizing at that time at the latest.
LEMMA PassTime ==
    ASSUME Exact, TypeInv, StatusInv, RecoverStep \/ RecoverCrash
    PROVE  rec'.now <= clock
<1>1. rec.now \in Nat /\ clock \in Nat /\ rec.now <= clock /\ rec \in RecType
  BY DEF StatusInv, TypeInv, TypeOK, RecType
<1>2. CASE RecoverBegin
  <2>1. PICK todo, stages, orphans :
          /\ todo = {a \in Attempts : row[a].state \in Active /\ ~Busy(a)}
          /\ stages = {sj \in Attempts \X Jobs : Unowned(stage[sj[1]][sj[2]])}
          /\ orphans = {d \in published : row[d.attempt].state \in Active}
    OBVIOUS
  <2>2. PICK t \in Current :
          rec' = [Off EXCEPT !.pc = "attempts", !.now = t, !.todo = todo,
                             !.stages = stages, !.orphans = orphans]
    BY <1>2, <2>1 DEF RecoverBegin
  <2>3. rec'.now = t
    BY <2>2 DEF Off
  <2>4. t = clock
    BY <1>1, ExactSamples
  <2> QED BY <1>1, <2>3, <2>4
<1>3. ASSUME NEW a \in Attempts, RecoverTake(a) PROVE rec'.now = rec.now
  <2>1. PICK checked, revision, updated :
          \/ rec' = [rec EXCEPT !.todo = @ \ {a}]
          \/ rec' = [rec EXCEPT !.pc = "judge", !.todo = @ \ {a},
                     !.attempt = a, !.checked = checked,
                     !.revision = revision, !.updated = updated]
    BY <1>3 DEF RecoverTake
  <2> QED BY <1>1, <2>1 DEF RecType
<1>4. CASE RecoverJudge
  <2>1. PICK d : rec' = [rec EXCEPT !.pc = "import", !.doc = d] \/ rec' = [rec EXCEPT !.pc = "fail"]
    BY <1>4 DEF RecoverJudge
  <2>2. rec'.now = rec.now
    BY <1>1, <2>1 DEF RecType
  <2> QED BY <1>1, <2>2
<1>5. CASE RecoverImport \/ RecoverCommit
  <2>1. rec' = NextAttempt
    BY <1>5 DEF RecoverImport, RecoverCommit
  <2>2. rec'.now = rec.now
    BY <1>1, <2>1 DEF RecType, NextAttempt
  <2> QED BY <1>1, <2>2
<1>6. CASE RecoverPublish
  <2>1. PICK doc : rec' = [rec EXCEPT !.pc = "commit", !.doc = doc]
    BY <1>6 DEF RecoverPublish
  <2>2. rec'.now = rec.now
    BY <1>1, <2>1 DEF RecType
  <2> QED BY <1>1, <2>2
<1>7. CASE RecoverFails \/ RecoverEnd \/ RecoverCrash
  <2>1. rec' = Off
    BY <1>7 DEF RecoverFails, RecoverEnd, RecoverCrash
  <2>2. rec'.now = 0
    BY <2>1 DEF Off
  <2> QED BY <1>1, <2>2
<1>8. ASSUME NEW a \in Attempts, NEW job \in Jobs, RecoverQuarantine(a, job)
      PROVE  rec'.now = rec.now
  <2>1. rec' = [rec EXCEPT !.stages = @ \ {<<a, job>>}]
    BY <1>8 DEF RecoverQuarantine
  <2> QED BY <1>1, <2>1 DEF RecType
<1> QED BY <1>1, <1>2, <1>3, <1>4, <1>5, <1>6, <1>7, <1>8 DEF RecoverStep

LEMMA PunctualRecovery ==
    ASSUME Exact, IInv, StatusInv, RecoverStep \/ RecoverCrash
    PROVE  StatusInv'
<1> USE DEF IInv
<1>1. /\ clock' = clock /\ clock \in Nat /\ owner' = owner /\ rec'.now <= clock
  <2>1. clock' = clock /\ owner' = owner
    BY Zenon DEF RecoverStep, RecoverBegin, RecoverTake, RecoverJudge, RecoverImport, RecoverPublish,
           RecoverCommit, RecoverFails, RecoverQuarantine, RecoverEnd, RecoverCrash
  <2> QED BY <2>1, PassTime DEF TypeInv, TypeOK
<1>2. ASSUME UNCHANGED <<row, lease, claim>> PROVE StatusInv'
  <2>1. \A b \in Attempts : Punctual(b)'
    BY <1>1, <1>2, PunctualKept DEF StatusInv
  <2> QED BY <1>1, <2>1 DEF StatusInv
<1>3. ASSUME NEW a \in Attempts, RecoverTake(a) PROVE StatusInv'
  <2>1. /\ UNCHANGED <<lease, claim>>
        /\ \A b \in Attempts \ {a} : row'[b] = row[b]
        /\ row' = row \/ row[a].state \in Active
    BY <1>3, TakeFacts
  <2>2. PICK t \in Current :
          \/ row' = row
          \/ Transition(a, row[a].revision, row[a].updated, "finalizing", Later(t, rec.now))
    BY <1>3 DEF RecoverTake
  <2>3. /\ t = clock /\ rec.now \in Nat /\ rec.now <= clock
        /\ row[a].revision \in Nat /\ row[a].updated \in Nat
    BY <1>1, ExactSamples, PunctualTypes DEF StatusInv, TypeInv, TypeOK, RowType
  <2>4. Later(t, rec.now) = clock
    BY <1>1, <2>3 DEF Later
  <2>5. CASE row' # row
    <3>1. row[a].updated <= clock /\ lease[a].live
      BY <2>1, <2>5 DEF StatusInv, Punctual
    <3>2. PICK revision \in Nat, updated \in Nat, to \in Active :
            revision = row[a].revision /\ updated = row[a].updated /\ to = "finalizing"
      BY <2>3 DEF Active
    <3>3. Transition(a, revision, updated, to, clock)
      BY <2>2, <2>4, <2>5, <3>2
    <3>4. row'[a].updated = Later(clock, updated)
      BY <1>1, <3>2, <3>3, TransitionFacts
    <3>5. row'[a].updated <= clock
      BY <1>1, <3>1, <3>2, <3>4 DEF Later
    <3>6. Punctual(a)'
      BY <1>1, <2>1, <3>1, <3>5 DEF StatusInv, Punctual, Slot
    <3>7. ASSUME NEW b \in Attempts, b # a PROVE Punctual(b)'
      BY <1>1, <2>1, <3>7, PunctualKept DEF StatusInv
    <3> QED BY <1>1, <3>6, <3>7 DEF StatusInv
  <2> QED BY <1>2, <2>1, <2>5
<1>4. CASE RecoverImport \/ RecoverCommit
  <2>1. PICK a \in Attempts, doc \in Docs : Ends(a, doc)
    <3>1. /\ rec.attempt \in Attempts /\ rec.doc \in DocsOf(rec.attempt)
          /\ Ends(rec.attempt, rec.doc)
      BY <1>4, RecoverEndFacts
    <3>2. rec.doc \in Docs
      BY <3>1 DEF DocsOf, TypeInv, TypeOK
    <3> QED BY <3>1, <3>2
  <2>3. row'[a].state \notin Active
    BY <2>1, StatesApart DEF Ends, Docs
  <2>4. ASSUME NEW b \in Attempts PROVE Punctual(b)'
    <3>1. claim'[Slot(b)] = b => claim[Slot(b)] = b
      BY <2>1, SlotType, NoneIsNoAttempt DEF Ends
    <3>2. \/ row'[b] = row[b] /\ lease'[b] = lease[b]
          \/ /\ row'[b].state \notin Active
             /\ lease'[b].reservation = lease[b].reservation
             /\ lease'[b].finalization = lease[b].finalization
      BY <2>1, <2>3, SMTT(30) DEF Ends
    <3>3. Punctual(b) /\ clock' \in Nat /\ clock' >= clock
      BY <1>1 DEF StatusInv
    <3> QED BY <1>1, <3>1, <3>2, <3>3, PunctualKept
  <2> QED BY <1>1, <2>4 DEF StatusInv
<1>5. CASE \/ RecoverBegin \/ RecoverJudge \/ RecoverPublish \/ RecoverFails
           \/ RecoverEnd \/ RecoverCrash
           \/ \E a \in Attempts, job \in Jobs : RecoverQuarantine(a, job)
  <2>1. UNCHANGED <<row, lease, claim>>
    BY <1>5 DEF RecoverBegin, RecoverJudge, RecoverPublish, RecoverFails, RecoverEnd,
                RecoverCrash, RecoverQuarantine, db
  <2> QED BY <1>2, <2>1
<1> QED BY <1>3, <1>4, <1>5 DEF RecoverStep

LEMMA StatusInit == Init => StatusInv
<1> SUFFICES ASSUME Init PROVE StatusInv
  OBVIOUS
<1>1. /\ clock = 0 /\ rec.now = 0
      /\ \A a \in Attempts :
           /\ owner[a].updated = 0 /\ lease[a].reservation = 0 /\ lease[a].finalization = 0
           /\ row[a].state = "none"
  BY DEF Init, NoOwner, Off
<1>2. Lease \in Nat
  BY StoreAssumption
<1> QED BY <1>1, <1>2, StatesApart DEF StatusInv, Punctual

LEMMA StatusNext == ASSUME Exact, IInv, StatusInv, [Next]_vars PROVE StatusInv'
<1>1. CASE Tick \/ UNCHANGED vars
  <2>1. /\ UNCHANGED <<row, lease, claim, owner, rec>>
        /\ clock' \in Nat /\ clock' >= clock /\ clock \in Nat /\ rec.now \in Nat
    BY <1>1 DEF Tick, vars, db, IInv, TypeInv, TypeOK, RecType
  <2>2. \A b \in Attempts : Punctual(b)'
    BY <2>1, PunctualKept DEF StatusInv, IInv
  <2> QED BY <2>1, <2>2 DEF StatusInv
<1> QED BY <1>1, PunctualOwner, PunctualRecovery DEF Next

LEMMA StatusAlways == Spec => [](IInv /\ (Exact => StatusInv))
<1>1. Init => (Exact => StatusInv)
  BY StatusInit
<1>2. IInv /\ (Exact => StatusInv) /\ [Next]_vars => (Exact => StatusInv)'
  <2> SUFFICES ASSUME IInv, Exact => StatusInv, [Next]_vars, Exact PROVE StatusInv'
    BY DEF Exact
  <2> QED BY StatusNext
<1> QED BY <1>1, <1>2, OutcomesAlways, PTL DEF Spec

\* With exact clocks, status asks for recovery of exactly the attempts that a
\* pass at that time would take, although it never looks at the claim's lease:
\* begin_finalization and renew keep that one at least as long as the
\* reservation.  Every committed outcome can be read, and a slot that is being
\* finalized is reported as active or as in need of recovery.
THEOREM StatusesMatchRecovery == Spec => []StatusMatchesRecovery
<1>1. IInv /\ (Exact => StatusInv) => StatusMatchesRecovery
  <2> SUFFICES ASSUME IInv, StatusInv, NEW a \in Attempts
               PROVE  /\ RecoveryRequired(a, clock) <=> Expired(a, clock)
                      /\ ReadArtifact(a)
                      /\ claim[Slot(a)] # None =>
                           SlotState(Slot(a), clock) \in {"active", "recovery_required"}
    BY DEF StatusMatchesRecovery, Exact
  <2>1. RecoveryRequired(a, clock) <=> Expired(a, clock)
    <3>1. /\ clock \in Nat /\ row[a].updated \in Nat
          /\ lease[a].reservation \in Nat /\ lease[a].finalization \in Nat
      BY PunctualTypes DEF IInv
    <3>2. Punctual(a)
      BY DEF StatusInv
    <3>3. ASSUME row[a].state \in Active
          PROVE  RecoveryRequired(a, clock) <=> Expired(a, clock)
      <4>1. /\ Later(clock, row[a].updated) = clock /\ lease[a].live
            /\ claim[Slot(a)] = a => lease[a].reservation <= lease[a].finalization
        BY <3>1, <3>2, <3>3 DEF Punctual, Later
      <4>2. LeaseExpiry(a) = lease[a].reservation /\ LeaseExpiry(a) # None
        BY <3>1, <4>1, ExpiryAssumption DEF LeaseExpiry
      <4>3. RecoveryRequired(a, clock) <=> lease[a].reservation <= clock
        BY <3>3, <4>2 DEF RecoveryRequired
      <4>4. Expired(a, clock) <=>
              \/ lease[a].reservation <= clock
              \/ claim[Slot(a)] = a /\ lease[a].finalization <= clock
        BY <3>3, <4>1 DEF Expired
      <4> QED BY <3>1, <4>1, <4>3, <4>4
    <3> QED BY <3>3 DEF RecoveryRequired, Expired
  <2>2. ReadArtifact(a)
    BY DEF ReadArtifact, IInv, About, Described, DocsOf
  <2>3. ASSUME claim[Slot(a)] # None
        PROVE  SlotState(Slot(a), clock) \in {"active", "recovery_required"}
    <3>1. PICK s \in Slots : s = Slot(a)
      BY SlotType
    <3>2. PICK b : b = claim[s]
      OBVIOUS
    <3>3. /\ b \in Attempts /\ Slot(b) = s /\ row[b].state = "finalizing" /\ ~Satisfied(s)
      BY <2>3, <3>1, <3>2 DEF IInv, ClaimInv, ClaimHeldByFinalizer, TypeInv, TypeOK
    <3>4. row[b].state \in Active /\ row[b].state # "none"
      BY <3>3 DEF Active
    <3>5. ~ \E x \in {x \in Attempts : Slot(x) = s /\ row[x].state # "none"} :
              row[x].state = "accepted"
      BY <3>3 DEF Satisfied
    <3> DEFINE mine == {x \in Attempts : Slot(x) = s /\ row[x].state # "none"}
               live == \E x \in mine : row[x].state \in Active /\ ~RecoveryRequired(x, clock)
               lost == \E x \in mine : RecoveryRequired(x, clock)
    <3>6. live \/ lost
      BY <3>3, <3>4
    <3>7. SlotState(s, clock) =
            IF \E x \in mine : row[x].state = "accepted" THEN "satisfied"
            ELSE IF live THEN "active" ELSE IF lost THEN "recovery_required"
            ELSE IF mine = {} THEN "pending" ELSE "retry_required"
      BY DEF SlotState
    <3> HIDE DEF mine, live, lost
    <3> QED BY <3>1, <3>5, <3>6, <3>7 DEF mine
  <2> QED BY <2>1, <2>2, <2>3
<1> QED BY <1>1, StatusAlways, PTL
=============================================================================
