------------------------------ MODULE RunStore ------------------------------
(***************************************************************************)
(* The durable run store: SQLite coordination rows, immutable artifact      *)
(* directories, the owners that publish attempts into them, and the         *)
(* recovery pass that resolves what a dead owner left behind                *)
(* (src/runtime/run_store/{attempts,publisher,recovery,coordination}.rs and *)
(* src/runtime/run/attempt.rs).                                             *)
(*                                                                          *)
(* A step is one SQLite write transaction, one namespace change (mkdir,     *)
(* rename), or one lock attempt; between two of them any other process may  *)
(* run or the process may die.  The checks that only the SQL schema makes   *)
(* (the one_accepted_attempt_per_slot index, the CHECK and triggers on      *)
(* finalizing and terminal rows, the insert-only tables) are NOT guards     *)
(* here: the properties show that the Rust code never relies on them.       *)
(*                                                                          *)
(* An operator named X_Fault is X with one seeded fault.  Nothing refers to *)
(* it; substituting it for X must make a property fail.                     *)
(***************************************************************************)
EXTENDS Naturals, FiniteSets

CONSTANTS
    Slots,        \* resolved execution slots
    Profiles,     \* the slots delivered as a buffered or streamed profile
    Streams,      \* the streamed ones among them
    Snapshots,    \* observation slots of a profile; a one-shot slot has one
    MaxRetry,     \* bound: attempts of a slot have retry index 0..MaxRetry
    MaxAttempts,  \* bound: attempts reserved in all
    MaxRevision,  \* bound: no phase is entered beyond this revision
    Lease,        \* LEASE_DURATION_NS, in ticks
    MaxTime,      \* bound: the clock, and every lease, ends here
    Stale,        \* how old a clock sample taken before the write lock may be
    Back,         \* how far the wall clock may be set back
    Outcomes,     \* bound: the outcomes without a claim that are explored
    MaxFaults,    \* bound: crashes of the recovery process
    Cleanups,     \* what is left of a stage after its commit: "none" or "left"
    None          \* no attempt, no document

ASSUME StoreAssumption ==
    /\ Profiles \subseteq Slots /\ Streams \subseteq Profiles
    /\ Snapshots \in Nat \ {0}
    /\ MaxRetry \in Nat /\ MaxAttempts \in Nat /\ MaxRevision \in Nat
    /\ Lease \in Nat \ {0} /\ MaxTime \in Nat /\ MaxFaults \in Nat
    /\ Stale \in Nat /\ Back \in Nat
    /\ Cleanups \subseteq {"none", "left"}
    /\ Outcomes \subseteq {"failed", "censored"}
    /\ None \notin Slots \X (0..MaxRetry)

Attempts == Slots \X (0..MaxRetry)
Slot(a) == a[1]
Points == 1..Snapshots
PointsOf(s) == IF s \in Profiles THEN Points ELSE {1}

Phases == {"materializing", "starting", "preparing", "executing",
           "checkpointing", "validating", "evaluating"}
Active == Phases \cup {"reserved", "finalizing"}
Terminal == {"accepted", "censored", "superseded", "failed"}

\* The order in which the executors call advance; "finalizing" is entered by
\* Conclude, BeginFinalization and recovery, from any of them.
Edges ==
    {<<"reserved", "materializing">>, <<"materializing", "starting">>,
     <<"starting", "preparing">>, <<"preparing", "executing">>,
     <<"executing", "checkpointing">>, <<"executing", "validating">>,
     <<"checkpointing", "validating">>, <<"validating", "evaluating">>,
     <<"evaluating", "executing">>}

Jobs == {"observation", "outcome"}
Registered == {"complete", "incomplete"}

VARIABLES
    clock,      \* real time, in ticks
    row,        \* attempts: state, revision and updated_at_ns
    lease,      \* reservation and finalization leases of an attempt
    claim,      \* finalization_claims: the attempt holding a slot's claim
    stage,      \* staging directory and staging lease, per attempt and job
    obs,        \* where each observation of an attempt stands
    selected,   \* selected_observations: the attempt selected at each point
    published,  \* outcome directories renamed into artifacts/
    receipt,    \* attempts.final_artifact_id: the document the row points at
    owner,      \* the AttemptExecution of an attempt, with its OwnedAttempt
    rec,        \* the recovery pass that is running, if any
    faults      \* recovery crashes so far

db == <<row, lease, claim, selected, receipt>>
vars == <<clock, row, lease, claim, stage, obs, selected, published, receipt,
          owner, rec, faults>>

Later(x, y) == IF x >= y THEN x ELSE y

(***************************************************************************)
(* Clock samples.  advance, renew, begin_finalization, stage and            *)
(* register_observation are handed a time read before BEGIN IMMEDIATE;      *)
(* the publishing commits and recovery read it under the write lock.        *)
(***************************************************************************)
Sampled == {t \in 0..clock : t + Stale + Back >= clock}
Current == {t \in 0..clock : t + Back >= clock}

-----------------------------------------------------------------------------
(***************************************************************************)
(* Database predicates.                                                     *)
(***************************************************************************)
Satisfied(s) == \E a \in Attempts : Slot(a) = s /\ row[a].state = "accepted"

\* Seeded fault: the fence compares the revision but not the expiry.
Fence_NoExpiry(a, now) ==
    /\ row[a].state \in Active
    /\ row[a].revision = owner[a].revision
    /\ lease[a].live

\* The fence every owner write passes: the guard's revision is current and the
\* reservation, and the claim if it holds one, are live at the sampled time.
Fence(a, now) ==
    LET at == Later(now, owner[a].updated) IN
    /\ row[a].state \in Active
    /\ row[a].revision = owner[a].revision
    /\ lease[a].live
    /\ lease[a].reservation > at
    /\ claim[Slot(a)] = a => lease[a].finalization > at

CheckStage(a, job, now) ==
    /\ Fence(a, now)
    /\ stage[a][job].lease = "live"
    /\ stage[a][job].expires > now

\* Seeded fault: only the claim's lease is consulted.
Expired_ClaimOnly(a, now) ==
    /\ row[a].state \in Active
    /\ claim[Slot(a)] = a /\ lease[a].finalization <= Later(now, row[a].updated)

\* What recovery takes for an abandoned attempt.
Expired(a, now) ==
    LET at == Later(now, row[a].updated) IN
    /\ row[a].state \in Active
    /\ \/ ~lease[a].live
       \/ lease[a].reservation <= at
       \/ claim[Slot(a)] = a /\ lease[a].finalization <= at

\* What a profile needs is its own trajectory; a one-shot slot needs a
\* selected observation and a complete one of this attempt.
ValidateAcceptance(a) ==
    LET s == Slot(a) IN
    IF s \in Profiles
      THEN /\ \E p \in Points : obs[a][p] \in Registered
           /\ \A p \in Points : selected[s][p] \in {None, a}
      ELSE selected[s][1] # None /\ obs[a][1] = "complete"

ValidateFinalization(a, outcome, now) ==
    /\ Fence(a, now)
    /\ row[a].state = "finalizing"
    /\ outcome = "accepted" => claim[Slot(a)] = a /\ ValidateAcceptance(a)

\* Seeded fault: every document embeds the slot's selections.
IncludeSelected_Always(outcome) == TRUE

\* The outcomes whose document embeds the selections other attempts made.
IncludeSelected(outcome) == outcome \in {"accepted", "censored"}

\* The mutable part of the coordination records an outcome document embeds.  An
\* acceptance names the selections its own commit will make, except for a stream.
CoordinationSnapshot(a, outcome) ==
    LET s == Slot(a)
        own(p) == obs[a][p] \in Registered
    IN [own |-> [p \in Points |-> IF own(p) THEN obs[a][p] ELSE "absent"],
        selected |-> [p \in Points |->
            IF outcome = "accepted" /\ s \in Profiles \ Streams /\ own(p) THEN a
            ELSE IF IncludeSelected(outcome) \/ selected[s][p] = a THEN selected[s][p]
            ELSE None]]

OutcomeDocument(a, revision, outcome, finished, by) ==
    [attempt |-> a, revision |-> revision, state |-> outcome,
     finished |-> finished, by |-> by,
     coordination |-> CoordinationSnapshot(a, outcome)]

(***************************************************************************)
(* Database updates shared by owners and recovery.                          *)
(***************************************************************************)
Transition(a, revision, updated, to, now) ==
    row' = [row EXCEPT ![a] = [state |-> to, revision |-> revision + 1,
                               updated |-> Later(now, updated)]]

\* A released staging lease is never read again, so its expiry is forgotten.
Release(st) ==
    IF st.lease = "live" THEN [st EXCEPT !.lease = "released", !.expires = 0] ELSE st

ReleaseStages(a) == [job \in Jobs |-> Release(stage[a][job])]

\* Seeded fault: INSERT OR REPLACE instead of ON CONFLICT DO NOTHING.
SelectOnce_Replace(old, a) == a

\* Inserting a selection for a point that may have one.
SelectOnce(old, a) == IF old = None THEN a ELSE old

\* Seeded fault: every terminal outcome of a profile selects its observations.
TerminalSelection_AnyOutcome(a, outcome) ==
    [selected EXCEPT ![Slot(a)] =
        IF Slot(a) \in Profiles
          THEN [p \in Points |-> IF obs[a][p] \in Registered
                                   THEN SelectOnce(@[p], a) ELSE @[p]]
          ELSE @]

\* Seeded fault: the acceptance of a profile selects nothing.
TerminalSelection_Missing(a, outcome) == selected

\* A profile selects its observations together with its acceptance.
TerminalSelection(a, outcome) ==
    [selected EXCEPT ![Slot(a)] =
        IF outcome = "accepted" /\ Slot(a) \in Profiles
          THEN [p \in Points |-> IF obs[a][p] \in Registered
                                   THEN SelectOnce(@[p], a) ELSE @[p]]
          ELSE @]

\* Seeded fault: the terminal transaction leaves the claim behind.
WithoutClaim_Kept(a) == claim

WithoutClaim(a) == [claim EXCEPT ![Slot(a)] = IF @ = a THEN None ELSE @]

\* Seeded fault: the row carries the commit's time, not the document's.
FinishTime_OfCommit(doc) == Later(clock, doc.finished)

FinishTime(doc) == doc.finished

\* commit_terminal_in: selection of a profile, terminal row and receipt, then
\* the claim and every lease of the attempt are given up.
CommitTerminal(a, revision, updated, doc) ==
    /\ selected' = TerminalSelection(a, doc.state)
    /\ Transition(a, revision, updated, doc.state, FinishTime(doc))
    /\ receipt' = [receipt EXCEPT ![a] = doc]
    /\ claim' = WithoutClaim(a)
    /\ lease' = [lease EXCEPT ![a].live = FALSE]

-----------------------------------------------------------------------------
(***************************************************************************)
(* The owner of an attempt.  pc is its place in AttemptExecution: "work"    *)
(* while the worker runs, "observe" and "final" in finalizing before the    *)
(* observation and the outcome are staged, and a triple create / stage /    *)
(* publish for each staged publication.  A guard that fails is an error the *)
(* owner returns; Abort is that return.                                     *)
(***************************************************************************)
Creating == {"obs_create", "out_create"}
Staged == {"obs_stage", "obs_publish", "out_stage", "out_write", "out_publish"}
Alive == Creating \cup Staged \cup {"work", "observe", "obs_register", "final"}

NoOwner == [pc |-> "none", revision |-> 0, updated |-> 0, plan |-> None,
            at |-> 0, doc |-> None]
NoStage == [dir |-> "none", lease |-> "none", expires |-> 0]

\* Dropping the Stage releases its kernel lock; the directory stays.
Dropped(a) ==
    [job \in Jobs |-> [stage[a][job] EXCEPT
        !.dir = IF @ \in {"private", "locked"} THEN "left" ELSE @]]

\* The next observation of an attempt, in checkpoint order.
IsNext(a, p) ==
    /\ p \in PointsOf(Slot(a))
    /\ obs[a][p] \notin Registered
    /\ \A q \in Points : q < p => obs[a][q] \in Registered

\* Reserves the next retry index of an unsatisfied slot.  Concurrent attempts
\* of the slot do not prevent it.
Reserve(a) ==
    LET s == Slot(a) IN
    \E now \in Sampled :
        /\ row[a].state = "none"
        /\ \A b \in Attempts :
             Slot(b) = s => (row[b].state # "none") = (b[2] < a[2])
        /\ ~Satisfied(s)
        /\ Cardinality({b \in Attempts : row[b].state # "none"}) < MaxAttempts
        /\ now + Lease <= MaxTime
        /\ row' = [row EXCEPT ![a] =
               [state |-> "reserved", revision |-> 0, updated |-> now]]
        /\ lease' = [lease EXCEPT ![a].live = TRUE, ![a].reservation = now + Lease]
        /\ owner' = [owner EXCEPT ![a] = [NoOwner EXCEPT
               !.pc = "work", !.updated = now]]
        /\ UNCHANGED <<clock, claim, stage, obs, selected, published, receipt,
                       rec, faults>>

\* Enters the next execution phase.
Advance(a, phase) ==
    \E t \in Sampled :
        /\ owner[a].pc = "work"
        /\ owner[a].plan = None
        /\ Fence(a, t)
        /\ <<row[a].state, phase>> \in Edges
        /\ row[a].revision < MaxRevision
        /\ Transition(a, owner[a].revision, owner[a].updated, phase, t)
        /\ owner' = [owner EXCEPT ![a].revision = @ + 1,
                                  ![a].updated = row'[a].updated]
        /\ UNCHANGED <<clock, lease, claim, stage, obs, selected, published,
                       receipt, rec, faults>>

\* Enters finalizing with an outcome that needs no claim.  A one-shot result
\* that misses its target still publishes its observation.
Conclude(a, outcome, observe) ==
    \E t \in Sampled :
        /\ owner[a].pc = "work"
        /\ owner[a].plan \in {None, outcome}
        /\ Slot(a) \in Profiles => ~observe
        /\ Slot(a) \notin Profiles => outcome = "failed"
        /\ Fence(a, t)
        /\ Transition(a, owner[a].revision, owner[a].updated, "finalizing", t)
        /\ owner' = [owner EXCEPT ![a].revision = @ + 1,
                                  ![a].updated = row'[a].updated,
                                  ![a].plan = outcome,
                                  ![a].pc = IF observe THEN "observe" ELSE "final"]
        /\ UNCHANGED <<clock, lease, claim, stage, obs, selected, published,
                       receipt, rec, faults>>

\* Seeded fault: only a competing claim is looked for, not an acceptance.
Disposition_ClaimsOnly(a) ==
    IF claim[Slot(a)] = None THEN "accepted" ELSE "superseded"

\* Seeded fault: the claim decision itself is taken for the outcome.
Disposition_Raw(a) ==
    IF claim[Slot(a)] = None /\ ~Satisfied(Slot(a)) THEN "claimed" ELSE "superseded"

\* The outcome the claim decision leaves a successful attempt.
Disposition(a) ==
    IF claim[Slot(a)] = None /\ ~Satisfied(Slot(a)) THEN "accepted" ELSE "superseded"

\* Enters finalizing with a success and competes for the slot's claim.  Any
\* claim, expired or not, and any acceptance make this attempt superseded.
BeginFinalization(a) ==
    LET s == Slot(a) IN
    \E t \in Sampled :
        LET now == Later(t, owner[a].updated)
            wins == Disposition(a) # "superseded"
        IN
        /\ owner[a].pc = "work"
        /\ owner[a].plan = None
        /\ s \in Profiles => \E p \in Points : obs[a][p] \in Registered
        /\ t + Lease > now
        /\ t + Lease <= MaxTime
        /\ Fence(a, now)
        /\ Transition(a, owner[a].revision, owner[a].updated, "finalizing", now)
        /\ claim' = IF wins THEN [claim EXCEPT ![s] = a] ELSE claim
        /\ lease' = IF wins THEN [lease EXCEPT ![a].acquired = now,
                                               ![a].finalization = t + Lease]
                            ELSE lease
        /\ owner' = [owner EXCEPT ![a].revision = @ + 1,
                                  ![a].updated = row'[a].updated,
                                  ![a].plan = Disposition(a),
                                  ![a].pc = IF s \in Profiles THEN "final" ELSE "observe"]
        /\ UNCHANGED <<clock, stage, obs, selected, published, receipt, rec,
                       faults>>

\* The job an owner is about to stage, if any.
Wants(a, job) ==
    \/ job = "observation" /\ owner[a].pc = "observe"
    \/ /\ job = "observation"
       /\ owner[a].pc = "work"
       /\ owner[a].plan = None
       /\ Slot(a) \in Profiles
       /\ \E p \in Points : IsNext(a, p)
    \/ job = "outcome" /\ owner[a].pc = "final"

\* stage, first half: the shared coordination lock, which a recovery pass
\* excludes, and a private directory whose lock file does not exist yet.
CreateStage(a, job) ==
    /\ rec.pc = "off"
    /\ Wants(a, job)
    /\ stage' = [stage EXCEPT ![a][job] = [NoStage EXCEPT !.dir = "private"]]
    /\ owner' = [owner EXCEPT ![a].pc =
           IF job = "observation" THEN "obs_create" ELSE "out_create"]
    /\ UNCHANGED <<clock, db, obs, published, rec, faults>>

\* stage, second half: the kernel lock, and a staging lease that copies the
\* reservation's expiry.
LeaseStage(a, job) ==
    \E t \in Sampled :
        /\ owner[a].pc = IF job = "observation" THEN "obs_create" ELSE "out_create"
        /\ Fence(a, Later(t, owner[a].updated))
        /\ stage' = [stage EXCEPT ![a][job] =
               [dir |-> "locked", lease |-> "live", expires |-> lease[a].reservation]]
        /\ owner' = [owner EXCEPT
               ![a].pc = IF job = "observation" THEN "obs_stage" ELSE "out_stage",
               ![a].at = Later(t, owner[a].updated)]
        /\ UNCHANGED <<clock, db, obs, published, rec, faults>>

\* publish_stage for an observation: the no-replace rename into artifacts/.
PublishObservation(a) ==
    \E p \in Points :
        /\ owner[a].pc = "obs_stage"
        /\ IsNext(a, p)
        /\ obs' = [obs EXCEPT ![a][p] = "disk"]
        /\ owner' = [owner EXCEPT ![a].pc = "obs_publish"]
        /\ UNCHANGED <<clock, db, stage, published, rec, faults>>

\* publish_artifact's transaction: the artifact row, its protection by the
\* reservation lease, and the release of the stage, which is then removed.
CommitArtifact(a) ==
    \E t \in Current, p \in Points, rest \in Cleanups :
        /\ owner[a].pc = "obs_publish"
        /\ CheckStage(a, "observation", Later(t, owner[a].at))
        /\ IsNext(a, p)
        /\ obs' = [obs EXCEPT ![a][p] = "leased"]
        /\ stage' = [stage EXCEPT ![a]["observation"] = [Release(@) EXCEPT !.dir = rest]]
        /\ owner' = [owner EXCEPT ![a].pc = "obs_register", ![a].at = 0]
        /\ UNCHANGED <<clock, db, published, rec, faults>>

\* Registers the observation and, for a claimed one-shot success, selects it
\* unless the point is already selected.
RegisterObservation(a) ==
    LET s == Slot(a)
        select == owner[a].plan = "accepted"
    IN
    \E t \in Sampled, p \in Points :
        /\ owner[a].pc = "obs_register"
        /\ Fence(a, t)
        /\ IsNext(a, p)
        /\ obs' = [obs EXCEPT ![a][p] =
               IF owner[a].plan = "failed" THEN "incomplete" ELSE "complete"]
        /\ select => claim[s] = a
        /\ selected' = [selected EXCEPT ![s][p] =
               IF select THEN SelectOnce(@, a) ELSE @]
        /\ owner' = [owner EXCEPT ![a].pc =
               IF owner[a].plan = None THEN "work" ELSE "final"]
        /\ UNCHANGED <<clock, row, lease, claim, stage, published, receipt, rec,
                       faults>>

\* A profile whose observation could not be stored drops the stage and goes on
\* to conclude as failed.
ObservationFails(a) ==
    /\ owner[a].pc \in {"obs_create", "obs_stage", "obs_publish", "obs_register"}
    /\ owner[a].plan = None
    /\ owner' = [owner EXCEPT ![a].pc = "work", ![a].plan = "failed", ![a].at = 0]
    /\ stage' = [stage EXCEPT ![a] =
           IF owner[a].pc = "obs_create" THEN [@ EXCEPT !["observation"] = NoStage]
                                         ELSE Dropped(a)]
    /\ UNCHANGED <<clock, db, obs, published, rec, faults>>

\* outcome_document: ownership, stage and acceptance are checked at the finish
\* time, which becomes immutable.
WriteOutcome(a) ==
    \E t \in Sampled :
        LET finished == Later(t, owner[a].at) IN
        /\ owner[a].pc = "out_stage"
        /\ CheckStage(a, "outcome", finished)
        /\ ValidateFinalization(a, owner[a].plan, finished)
        /\ owner' = [owner EXCEPT ![a].pc = "out_write", ![a].at = 0,
               ![a].doc = OutcomeDocument(a, owner[a].revision, owner[a].plan,
                                          finished, "owner")]
        /\ UNCHANGED <<clock, db, stage, obs, published, rec, faults>>

\* publish_stage for an outcome: from here on it is evidence for recovery.
PublishOutcome(a) ==
    /\ owner[a].pc = "out_write"
    /\ published' = published \cup {owner[a].doc}
    /\ owner' = [owner EXCEPT ![a].pc = "out_publish"]
    /\ UNCHANGED <<clock, db, stage, obs, rec, faults>>

\* publish_finalization's transaction.  Ownership is checked again, and the
\* records the document embeds must not have changed.  finish_heartbeat then
\* reports the outcome, or an error the heartbeat thread ended with earlier.
CommitFinalization(a) ==
    LET doc == owner[a].doc IN
    \E t \in Current, rest \in Cleanups :
        LET now == Later(t, doc.finished) IN
        /\ owner[a].pc = "out_publish"
        /\ CheckStage(a, "outcome", now)
        /\ CoordinationSnapshot(a, doc.state) = doc.coordination
        /\ ValidateFinalization(a, doc.state, now)
        /\ CommitTerminal(a, owner[a].revision, owner[a].updated, doc)
        /\ stage' = [stage EXCEPT ![a] =
               [ReleaseStages(a) EXCEPT !["outcome"].dir = rest]]
        /\ \/ owner' = [owner EXCEPT ![a] = [NoOwner EXCEPT
                  !.pc = "done", !.plan = doc.state]]
           \/ owner' = [owner EXCEPT ![a] = [NoOwner EXCEPT !.pc = "dead"]]
        /\ UNCHANGED <<clock, obs, published, rec, faults>>

StageLive(a, job, t) ==
    /\ stage[a][job].lease = "live"
    /\ stage[a][job].expires > Later(t, owner[a].updated)

Renewable(a, t) ==
    /\ Fence(a, t)
    /\ t + Lease >= lease[a].reservation
    /\ claim[Slot(a)] = a => t + Lease >= lease[a].finalization
    /\ \A job \in Jobs : StageLive(a, job, t) => t + Lease >= stage[a][job].expires

\* The heartbeat extends the reservation, the claim's lease and the staging
\* leases that are still live, together.  A renewal that fails changes nothing
\* and ends the thread; the owner works on until its lease runs out.
Renew(a) ==
    \E t \in Sampled :
        /\ owner[a].pc \in Alive
        /\ t + Lease <= MaxTime
        /\ Renewable(a, t)
        /\ lease' = [lease EXCEPT ![a].reservation = t + Lease,
               ![a].finalization = IF claim[Slot(a)] = a THEN t + Lease ELSE @]
        /\ stage' = [stage EXCEPT ![a] = [job \in Jobs |-> [stage[a][job] EXCEPT
               !.expires = IF StageLive(a, job, t) THEN t + Lease ELSE @]]]
        /\ UNCHANGED <<clock, row, claim, obs, selected, published, receipt,
                       owner, rec, faults>>

\* The owner returns an error (also Busy, when it stages during a recovery pass of
\* another process) or is killed: locks go, records stay.  A stage
\* whose lease was never committed is removed unless the process was killed.
Abort(a) ==
    /\ owner[a].pc \in Alive
    /\ owner' = [owner EXCEPT ![a] = [NoOwner EXCEPT !.pc = "dead"]]
    /\ \/ stage' = [stage EXCEPT ![a] = Dropped(a)]
       \/ \E job \in Jobs :
            /\ stage[a][job].dir = "private"
            /\ stage' = [stage EXCEPT ![a][job] = NoStage]
    /\ UNCHANGED <<clock, db, obs, published, rec, faults>>

-----------------------------------------------------------------------------
(***************************************************************************)
(* Recovery (every `run --resume` starts with a pass).  It holds the        *)
(* coordination lock exclusively from RecoverBegin until it stops.          *)
(***************************************************************************)
Off == [pc |-> "off", now |-> 0, todo |-> {}, stages |-> {}, orphans |-> {},
        attempt |-> None, revision |-> 0, updated |-> 0, checked |-> 0,
        doc |-> None]

\* Seeded fault: a kernel-locked stage does not make its attempt busy.
Busy_Never(a) == FALSE

Busy(a) == \E job \in Jobs : stage[a][job].dir = "locked"

\* Seeded fault: recovery does not exclude stage creation.
ExclusiveLock_None == TRUE

\* Stage creation holds the coordination lock shared.
ExclusiveLock == \A a \in Attempts : owner[a].pc \notin Creating

\* Seeded fault: only stages with a database lease are looked for.
Unowned_Leased(st) == st.dir # "locked" /\ st.lease = "live"

\* A stage recovery can lock, or that has no lock file, or of which only the
\* lease is left.
Unowned(st) ==
    \/ st.dir \in {"left", "private"}
    \/ st.dir # "locked" /\ st.lease = "live"

\* lock_stages, find_orphans and the list of unfinished attempts.  An attempt
\* with a kernel-locked stage is skipped; unregistered observation artifacts
\* are imported on the way.  No stage can be created during the pass, so the
\* three scans see the same stages.
RecoverBegin ==
    \E t \in Current :
        /\ rec.pc = "off"
        /\ ExclusiveLock
        /\ rec' = [Off EXCEPT
               !.pc = "attempts",
               !.now = t,
               !.todo = {a \in Attempts : row[a].state \in Active /\ ~Busy(a)},
               !.stages = {sj \in Attempts \X Jobs : Unowned(stage[sj[1]][sj[2]])},
               !.orphans = {d \in published : row[d.attempt].state \in Active}]
        /\ obs' = [a \in Attempts |-> [p \in Points |->
               IF obs[a][p] = "disk" THEN "imported" ELSE obs[a][p]]]
        /\ UNCHANGED <<clock, db, stage, published, owner, faults>>

\* The attempt loop's first transaction: an attempt that is not expired is left
\* alone, an expired one is forced into finalizing, which fences its owner.
RecoverTake(a) ==
    \E t \in Current :
        LET checked == Later(t, rec.now) IN
        /\ rec.pc = "attempts"
        /\ a \in rec.todo
        /\ \/ /\ ~Expired(a, checked)
              /\ rec' = [rec EXCEPT !.todo = @ \ {a}]
              /\ UNCHANGED row
           \/ /\ Expired(a, checked)
              /\ IF row[a].state = "finalizing"
                   THEN UNCHANGED row
                   ELSE Transition(a, row[a].revision, row[a].updated,
                                   "finalizing", checked)
              /\ rec' = [rec EXCEPT !.pc = "judge", !.todo = @ \ {a},
                     !.attempt = a, !.checked = checked,
                     !.revision = row'[a].revision, !.updated = row'[a].updated]
        /\ UNCHANGED <<clock, lease, claim, stage, obs, selected, published,
                       receipt, owner, faults>>

RequireExpired(now) ==
    /\ Expired(rec.attempt, now)
    /\ row[rec.attempt].revision = rec.revision
    /\ row[rec.attempt].state = "finalizing"

\* validate_orphan, once RequireExpired holds.
ValidOrphan(doc, now) ==
    LET a == rec.attempt IN
    /\ rec.updated <= doc.finished /\ doc.finished <= now
    /\ doc = OutcomeDocument(a, rec.revision, doc.state, doc.finished, doc.by)
    /\ doc.state = "accepted" =>
         /\ claim[Slot(a)] = a
         /\ lease[a].live
         /\ lease[a].acquired <= doc.finished
         /\ doc.finished < lease[a].finalization
         /\ doc.finished < lease[a].reservation
         /\ ValidateAcceptance(a)

\* check_orphan on every orphan of the attempt: exactly one valid document is
\* imported, none or several are not evidence of success.
RecoverJudge ==
    LET candidates == {d \in rec.orphans : d.attempt = rec.attempt}
        valid == {d \in candidates : ValidOrphan(d, rec.checked)}
    IN
    /\ rec.pc = "judge"
    /\ candidates # {} => RequireExpired(rec.checked)
    /\ \/ \E d \in valid :
            /\ valid = {d}
            /\ rec' = [rec EXCEPT !.pc = "import", !.doc = d]
       \/ /\ \A d \in valid : valid # {d}
          /\ rec' = [rec EXCEPT !.pc = "fail"]
    /\ UNCHANGED <<clock, db, stage, obs, published, owner, faults>>

NextAttempt == [rec EXCEPT !.pc = "attempts", !.attempt = None, !.revision = 0,
                           !.updated = 0, !.checked = 0, !.doc = None]

\* The document is validated again under the write lock and committed.
RecoverImport ==
    \E t \in Current :
        LET a == rec.attempt
            checked == Later(Later(t, rec.now), rec.checked)
        IN
        /\ rec.pc = "import"
        /\ RequireExpired(checked)
        /\ ValidOrphan(rec.doc, checked)
        /\ CommitTerminal(a, rec.revision, rec.updated, rec.doc)
        /\ stage' = [stage EXCEPT ![a] = ReleaseStages(a)]
        /\ rec' = NextAttempt
        /\ UNCHANGED <<clock, obs, published, owner, faults>>

\* fail_interrupted up to the rename of its own outcome document.
RecoverPublish ==
    \E t \in Current :
        LET finished == Later(Later(t, rec.checked), rec.updated)
            doc == OutcomeDocument(rec.attempt, rec.revision, "failed",
                                   finished, "recovery")
        IN
        /\ rec.pc = "fail"
        /\ RequireExpired(finished)
        /\ published' = published \cup {doc}
        /\ rec' = [rec EXCEPT !.pc = "commit", !.doc = doc]
        /\ UNCHANGED <<clock, db, stage, obs, owner, faults>>

\* fail_interrupted's second transaction: still expired, records unchanged.
RecoverCommit ==
    \E t \in Current :
        LET a == rec.attempt IN
        /\ rec.pc = "commit"
        /\ RequireExpired(Later(t, rec.doc.finished))
        /\ CoordinationSnapshot(a, "failed") = rec.doc.coordination
        /\ CommitTerminal(a, rec.revision, rec.updated, rec.doc)
        /\ stage' = [stage EXCEPT ![a] = ReleaseStages(a)]
        /\ rec' = NextAttempt
        /\ UNCHANGED <<clock, obs, published, owner, faults>>

\* A revalidation that fails ends the whole pass with an error.
RecoverFails ==
    \E t \in Current :
        LET later == Later(Later(t, rec.now), rec.checked) IN
        /\ \/ /\ rec.pc = "judge"
              /\ \E d \in rec.orphans : d.attempt = rec.attempt
              /\ ~RequireExpired(rec.checked)
           \/ /\ rec.pc = "import"
              /\ ~(RequireExpired(later) /\ ValidOrphan(rec.doc, later))
           \/ /\ rec.pc = "fail"
              /\ ~RequireExpired(Later(Later(t, rec.checked), rec.updated))
           \/ /\ rec.pc = "commit"
              /\ ~(/\ RequireExpired(Later(t, rec.doc.finished))
                   /\ CoordinationSnapshot(rec.attempt, "failed")
                        = rec.doc.coordination)
        /\ rec' = Off
        /\ UNCHANGED <<clock, db, stage, obs, published, owner, faults>>

Moved(a, job) == IF stage[a][job].dir \in {"left", "private"} THEN "quarantined"
                                                              ELSE stage[a][job].dir

\* The stage loop: a stage that is unleased, released, expired or of a finished
\* attempt is moved aside and its lease released.
RecoverQuarantine(a, job) ==
    \E t \in Current :
        LET checked == Later(t, rec.now)
            st == stage[a][job]
            recoverable == \/ st.lease # "live"
                           \/ st.expires <= checked
                           \/ row[a].state \in Terminal
        IN
        /\ rec.pc = "attempts" /\ rec.todo = {}
        /\ <<a, job>> \in rec.stages
        /\ rec' = [rec EXCEPT !.stages = @ \ {<<a, job>>}]
        /\ stage' = IF recoverable
             THEN [stage EXCEPT ![a][job] = [Release(@) EXCEPT !.dir = Moved(a, job)]]
             ELSE stage
        /\ UNCHANGED <<clock, db, obs, published, owner, faults>>

RecoverEnd ==
    /\ rec.pc = "attempts" /\ rec.todo = {} /\ rec.stages = {}
    /\ rec' = Off
    /\ UNCHANGED <<clock, db, stage, obs, published, owner, faults>>

\* The recovery process is killed, possibly after the quarantine rename and
\* before the transaction that releases the lease.
RecoverCrash ==
    /\ rec.pc # "off"
    /\ faults < MaxFaults
    /\ faults' = faults + 1
    /\ rec' = Off
    /\ \/ UNCHANGED stage
       \/ \E a \in Attempts, job \in Jobs :
            /\ rec.pc = "attempts" /\ rec.todo = {}
            /\ <<a, job>> \in rec.stages
            /\ stage' = [stage EXCEPT ![a][job].dir = Moved(a, job)]
    /\ UNCHANGED <<clock, db, obs, published, owner>>

-----------------------------------------------------------------------------
Tick ==
    /\ clock < MaxTime
    /\ clock' = clock + 1
    /\ UNCHANGED <<db, stage, obs, published, owner, rec, faults>>

Init ==
    /\ clock = 0
    /\ row = [a \in Attempts |-> [state |-> "none", revision |-> 0, updated |-> 0]]
    /\ lease = [a \in Attempts |-> [live |-> FALSE, reservation |-> 0,
                                    acquired |-> 0, finalization |-> 0]]
    /\ claim = [s \in Slots |-> None]
    /\ stage = [a \in Attempts |-> [job \in Jobs |-> NoStage]]
    /\ obs = [a \in Attempts |-> [p \in Points |-> "absent"]]
    /\ selected = [s \in Slots |-> [p \in Points |-> None]]
    /\ published = {}
    /\ receipt = [a \in Attempts |-> None]
    /\ owner = [a \in Attempts |-> NoOwner]
    /\ rec = Off
    /\ faults = 0

\* Everything the owner of an attempt does on its own thread.
OwnerStep(a) ==
    \/ \E phase \in Phases : Advance(a, phase)
    \/ \E outcome \in Outcomes, observe \in BOOLEAN :
         Conclude(a, outcome, observe)
    \/ BeginFinalization(a)
    \/ \E job \in Jobs : CreateStage(a, job) \/ LeaseStage(a, job)
    \/ PublishObservation(a) \/ CommitArtifact(a) \/ RegisterObservation(a)
    \/ ObservationFails(a)
    \/ WriteOutcome(a) \/ PublishOutcome(a) \/ CommitFinalization(a)
    \/ Abort(a)

RecoverStep ==
    \/ RecoverBegin
    \/ \E a \in Attempts : RecoverTake(a)
    \/ RecoverJudge \/ RecoverImport \/ RecoverPublish \/ RecoverCommit
    \/ RecoverFails
    \/ \E a \in Attempts, job \in Jobs : RecoverQuarantine(a, job)
    \/ RecoverEnd

Next ==
    \/ Tick
    \/ \E a \in Attempts : Reserve(a) \/ OwnerStep(a) \/ Renew(a)
    \/ RecoverStep
    \/ RecoverCrash

Spec == Init /\ [][Next]_vars

\* Transactions and renames finish, a running worker ends (or its process
\* dies), time passes, and somebody resumes the run again.
Fairness ==
    /\ WF_vars(Tick)
    /\ \A a \in Attempts : WF_vars(OwnerStep(a))
    /\ WF_vars(RecoverStep)

FairSpec == Spec /\ Fairness

-----------------------------------------------------------------------------
(***************************************************************************)
(* Properties.                                                              *)
(***************************************************************************)
Docs == [attempt : Attempts, revision : Nat, state : Terminal, finished : Nat,
         by : {"owner", "recovery"},
         coordination : [own : [Points -> Registered \cup {"absent"}],
                         selected : [Points -> Attempts \cup {None}]]]

\* None marks the absence of an outcome and of a document.
ASSUME NoneAssumption == None \notin Terminal \cup Docs

RowType == [state : Active \cup Terminal \cup {"none"}, revision : Nat, updated : Nat]
LeaseType == [live : BOOLEAN, reservation : Nat, acquired : Nat, finalization : Nat]
StageType == [dir : {"none", "private", "locked", "left", "quarantined"},
              lease : {"none", "live", "released"}, expires : Nat]
OwnerType == [pc : Alive \cup {"none", "done", "dead"}, revision : Nat,
              updated : Nat, plan : Terminal \cup {None}, at : Nat,
              doc : Docs \cup {None}]
RecType == [pc : {"off", "attempts", "judge", "import", "fail", "commit"},
            now : Nat, todo : SUBSET Attempts, stages : SUBSET (Attempts \X Jobs),
            orphans : SUBSET published, attempt : Attempts \cup {None},
            revision : Nat, updated : Nat, checked : Nat, doc : Docs \cup {None}]

\* Every row, lease, stage, document and process state has its declared shape;
\* a recovery pass works on documents that are on disk (RunStore, Stage,
\* OwnedAttempt and the schema's STRICT tables).
TypeOK ==
    /\ clock \in Nat /\ faults \in Nat
    /\ row \in [Attempts -> RowType]
    /\ lease \in [Attempts -> LeaseType]
    /\ claim \in [Slots -> Attempts \cup {None}]
    /\ stage \in [Attempts -> [Jobs -> StageType]]
    /\ obs \in [Attempts -> [Points -> Registered \cup {"absent", "disk",
                                                        "imported", "leased"}]]
    /\ selected \in [Slots -> [Points -> Attempts \cup {None}]]
    /\ published \subseteq Docs
    /\ receipt \in [Attempts -> Docs \cup {None}]
    /\ owner \in [Attempts -> OwnerType]
    /\ rec \in RecType

\* At most one attempt of a slot is ever accepted, whatever the clocks, retries,
\* crashes and recovery passes do; the unique index
\* one_accepted_attempt_per_slot is never what stops a commit.
OneAccepted ==
    \A a, b \in Attempts :
        /\ Slot(a) = Slot(b)
        /\ row[a].state = "accepted" /\ row[b].state = "accepted"
        => a = b

\* A finalization claim is held by an attempt of its slot that is finalizing
\* under unreleased leases, and the slot has no accepted attempt: a claim never
\* outlives its attempt and is never taken over.
ClaimHeldByFinalizer ==
    \A s \in Slots : claim[s] # None =>
        LET a == claim[s] IN
        /\ Slot(a) = s
        /\ row[a].state = "finalizing"
        /\ lease[a].live
        /\ ~Satisfied(s)

\* What the database goes on holding of the records embedded in the document of
\* a finished attempt.  An accepted stream's document names its observations, and
\* none of the selections that commit_terminal_in makes of them.
LastingRecords(a, outcome) ==
    IF outcome = "accepted" /\ Slot(a) \in Streams
      THEN [own |-> CoordinationSnapshot(a, outcome).own,
            selected |-> [p \in Points |-> None]]
      ELSE CoordinationSnapshot(a, outcome)

\* A finished attempt points at one published outcome document, which states its
\* outcome, finish time and revision.  Except for a censored one, the document
\* goes on describing the observations that the database holds, and the
\* selections too unless it is a stream's, whatever later attempts of the slot do.
ReceiptDescribesRow ==
    \A a \in Attempts :
        /\ row[a].state \in Terminal <=> receipt[a] # None
        /\ row[a].state \in Terminal =>
             LET doc == receipt[a] IN
             /\ doc \in published
             /\ doc.attempt = a
             /\ doc.state = row[a].state
             /\ doc.finished = row[a].updated
             /\ doc.revision + 1 = row[a].revision
             /\ doc.state # "censored" =>
                  doc.coordination = LastingRecords(a, doc.state)

\* Recovery never manufactures a success: an accepted attempt was finished by
\* its owner, at a time its reservation and its claim covered, and it holds the
\* evidence its slot requires; a profile is selected whole and from this attempt
\* only.
SuccessIsEarned ==
    \A a \in Attempts : row[a].state = "accepted" =>
        LET doc == receipt[a] IN
        /\ doc.by = "owner"
        /\ lease[a].acquired <= doc.finished
        /\ doc.finished < lease[a].reservation
        /\ doc.finished < lease[a].finalization
        /\ IF Slot(a) \in Profiles
             THEN \A p \in Points : selected[Slot(a)][p] =
                      IF obs[a][p] \in Registered THEN a ELSE None
             ELSE /\ obs[a][1] = "complete"
                  /\ selected[Slot(a)][1] # None

\* Recovery never moves a stage away from a publisher that is using it, not even
\* in the window before the stage's lock file exists.
StageStaysWithPublisher ==
    \A a \in Attempts, job \in Jobs :
        LET pc == owner[a].pc
            mine(x, y) == pc = IF job = "observation" THEN x ELSE y
        IN /\ mine("obs_create", "out_create") => stage[a][job].dir = "private"
           /\ \/ mine("obs_stage", "out_stage")
              \/ mine("obs_publish", "out_publish")
              \/ job = "outcome" /\ pc = "out_write"
              => stage[a][job].dir = "locked"

\* The records embedded in a failed or superseded outcome do not change while
\* it is published, whoever wins the slot meanwhile: its commit cannot fail with
\* "coordination records changed during publication".
LoserSnapshotStable ==
    \A a \in Attempts :
        /\ owner[a].pc \in {"out_write", "out_publish"}
        /\ owner[a].plan \in {"failed", "superseded"}
        => owner[a].doc.coordination = CoordinationSnapshot(a, owner[a].plan)

\* A selection is permanent: no later attempt replaces a selected observation,
\* even when the attempt that selected it failed.
SelectionPermanent ==
    [][\A s \in Slots, p \in Points :
         selected[s][p] # None => selected'[s][p] = selected[s][p]]_vars

\* Once an owner has published a success, recovery does not publish a failure
\* over it, even if the owner died before its commit or is still between rename
\* and commit: only a second, contradicting document makes the evidence ambiguous.
SoleSuccessNotOverruled ==
    [][\A d \in published' \ published, e \in published :
         /\ d.by = "recovery"
         /\ e.attempt = d.attempt /\ e.state = "accepted"
         => \E f \in published : f.attempt = e.attempt /\ f # e]_vars

\* Every reserved attempt ends: its owner finishes it, or recovery resolves it
\* after its lease has run out, crashed passes included.
EveryAttemptEnds ==
    \A a \in Attempts : row[a].state \in Active ~> row[a].state \in Terminal

\* Every staging directory a dead publisher left is moved to quarantine.
StagesResolved ==
    \A a \in Attempts, job \in Jobs :
        stage[a][job].dir = "left" ~> stage[a][job].dir # "left"
=============================================================================
