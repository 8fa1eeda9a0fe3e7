--------------------------- MODULE FreshSequence ---------------------------
(***************************************************************************)
(* Fresh sequences and the run loop: several invocations on one output      *)
(* directory work through a schedule whose points are grouped into          *)
(* repetitions; the points of a repetition share an active-time budget and  *)
(* a target decision (src/runtime/run_store/fresh.rs, src/runtime/run.rs,   *)
(* src/runtime/run/{attempt,selection}.rs).                                 *)
(*                                                                          *)
(* A step is one SQLite write transaction, one progress query or one        *)
(* publication.  The lifecycle underneath (leases, revisions, stages) is    *)
(* module RunStore; here an owner is fenced off from the moment its lease   *)
(* has run out (expired), and recovery takes exactly such attempts.         *)
(*                                                                          *)
(* An operator named X_Fault is X with one seeded fault.  Nothing refers to *)
(* it; substituting it for X must make a property fail.                     *)
(***************************************************************************)
EXTENDS Naturals, Sequences, FiniteSets, FiniteSetsExt

CONSTANTS
    Repetitions,  \* repetitions of a candidate with a fresh profile
    Points,       \* points (controls) of a repetition
    Schedule,     \* the resolved dispatch order of all points
    Limit,        \* max-active-time of a repetition, in time units
    PointLimit,   \* timeout of one point; at least Limit when there is none
    Target,       \* whether the policy has a target metric
    Lanes,        \* max_concurrency
    Procs,        \* processes that invoke `run` on the output directory
    Selections,   \* what an invocation may select: sets of points
    Retries,      \* whether an invocation may say --retry: subset of BOOLEAN
    Dispatches,   \* the values of --max-attempts that are explored, None for none
    Measured,     \* bound: the measured times that are explored, None for unavailable
    Plans,        \* bound: how an execution may end
    MaxRetry,     \* bound: attempts of a point have retry index 0..MaxRetry
    MaxCrashes,   \* bound: processes killed
    None          \* no attempt, no measurement, no document

Slots == Repetitions \X (1..Points)
Rep(s) == s[1]
Attempts == Slots \X (0..MaxRetry)
Slot(a) == a[1]

ASSUME SequenceAssumption ==
    /\ Points \in Nat \ {0} /\ Limit \in Nat \ {0} /\ PointLimit \in Nat \ {0}
    /\ Lanes \in Nat \ {0} /\ MaxRetry \in Nat /\ MaxCrashes \in Nat
    /\ Target \in BOOLEAN /\ Retries \subseteq BOOLEAN
    /\ Dispatches \subseteq (Nat \ {0}) \cup {None}
    /\ Measured \subseteq Nat \cup {None}
    /\ Plans \subseteq {"accepted", "failed", "timeout"}
    /\ Selections \subseteq (SUBSET Slots) \ {{}}
    /\ Schedule \in Seq(Slots)
    /\ \A s \in Slots : \E i \in 1..Len(Schedule) : Schedule[i] = s
    /\ \A i, j \in 1..Len(Schedule) : i < j =>
          /\ Schedule[i] # Schedule[j]
          /\ Rep(Schedule[i]) = Rep(Schedule[j]) => Schedule[i][2] < Schedule[j][2]
    /\ None \notin Attempts /\ None \notin Nat

VARIABLES
    members,      \* fresh_members: the registered points
    row,          \* attempts.state; "active" stands for every phase before finalizing
    expired,      \* unfinished attempts whose leases have run out
    budget,       \* fresh_budget: reserved_ns (0: no row) and charged_ns
    observed,     \* observations.completion of an attempt's observation
    claim,        \* finalization_claims
    disposition,  \* fresh_dispositions.reason of a point
    doc,          \* an outcome document in artifacts/ that no row points at yet
    exec,         \* the execution thread of an attempt
    run,          \* the invocation a process is in
    crashes       \* processes killed so far

db == <<members, row, budget, observed, claim, disposition>>
vars == <<members, row, expired, budget, observed, claim, disposition, doc,
          exec, run, crashes>>

Unfinished == {"active", "finalizing"}
Terminal == {"accepted", "failed", "censored", "superseded"}
Completions == IF Target THEN {"reached", "not_reached"} ELSE {"not_required"}

AttemptsOf(s) == {a \in Attempts : Slot(a) = s /\ row[a] # "none"}
InRep(r) == {a \in Attempts : Rep(Slot(a)) = r}
MembersOf(r) == {s \in members : Rep(s) = r}
Satisfied(s) == \E a \in AttemptsOf(s) : row[a] = "accepted"

-----------------------------------------------------------------------------
(***************************************************************************)
(* The budget of a repetition.                                              *)
(***************************************************************************)
Charge(a) == IF budget[a].charged = None THEN budget[a].reserved ELSE budget[a].charged

\* allowance: what unfinished attempts have reserved and finished ones spent,
\* added up over the repetition by counting its units of time one by one.
Cost(a) == IF row[a] \in Unfinished THEN budget[a].reserved ELSE Charge(a)
Units(r) == UNION {{a} \X (1..Cost(a)) : a \in InRep(r)}
Used(r) == Cardinality(Units(r))

Refund(a) == budget[a].reserved - Charge(a)

\* Seeded fault: a budget that is used up exactly is not used up.
Exhausted_Strict(a) == Used(Rep(Slot(a))) - Refund(a) > Limit

\* fresh_budget_exhausted: the account as it will be once the attempt has ended.
Exhausted(a) == Used(Rep(Slot(a))) - Refund(a) >= Limit

\* Seeded fault: only accepted outcomes decide.
Effect_Accepted(a, outcome) ==
    IF outcome # "accepted" THEN "none"
    ELSE IF observed[a] = "reached" THEN "skipped_target_reached"
    ELSE IF Exhausted(a) THEN "active_time_limit" ELSE "none"

\* The decision an outcome makes for the rest of its repetition.  The document
\* embeds it, and the terminal transaction computes it again.
Effect(a, outcome) ==
    IF outcome = "accepted" /\ observed[a] = "reached" THEN "skipped_target_reached"
    ELSE IF Exhausted(a) THEN "active_time_limit" ELSE "none"

\* Seeded fault: the disposition does not spare points accepted earlier.
Finish_All(a, outcome) ==
    LET effect == Effect(a, outcome) IN
    [s \in Slots |->
        IF /\ effect # "none" /\ s \in MembersOf(Rep(Slot(a)))
           /\ disposition[s] = "none"
           /\ s # Slot(a) \/ outcome # "accepted"
        THEN effect ELSE disposition[s]]

\* finish: the undecided points of the repetition are disposed of.
Finish(a, outcome) ==
    LET effect == Effect(a, outcome) IN
    [s \in Slots |->
        IF /\ effect # "none" /\ s \in MembersOf(Rep(Slot(a)))
           /\ disposition[s] = "none" /\ ~Satisfied(s)
           /\ s # Slot(a) \/ outcome # "accepted"
        THEN effect ELSE disposition[s]]

-----------------------------------------------------------------------------
(***************************************************************************)
(* Reservation.                                                             *)
(***************************************************************************)
\* Seeded fault: the active attempt is looked for at the point alone.
SequenceBusy_SamePoint(s) == \E a \in AttemptsOf(s) : row[a] \in Unfinished

SequenceBusy(s) == \E a \in InRep(Rep(s)) : row[a] \in Unfinished

Retry(s) == Cardinality(AttemptsOf(s))

\* Seeded fault: the repetition is not consulted.
Reservation_Unchecked(s, retry) ==
    IF Satisfied(s) \/ (Retry(s) > 0 /\ (~retry \/ Retry(s) > MaxRetry)) THEN "none"
    ELSE "reserved"

\* What AttemptExecution::reserve answers; "none" is a satisfied, decided or
\* exhausted point, or one that was tried and is not retried.
Reservation(s, retry) ==
    IF Satisfied(s) \/ disposition[s] # "none" THEN "none"
    ELSE IF SequenceBusy(s) THEN "busy"
    ELSE IF \/ Used(Rep(s)) >= Limit
            \/ Retry(s) > 0 /\ (~retry \/ Retry(s) > MaxRetry) THEN "none"
    ELSE "reserved"

NoExec == [pc |-> "none", plan |-> "none", completion |-> "none"]
Ended(pc) == [NoExec EXCEPT !.pc = pc]
Live(a) == exec[a].pc \notin {"none", "done", "dead"}

\* An invocation: input is what its current loop has yet to visit, todo the
\* schedule it filtered, left what --max-attempts still allows.
Idle == [pc |-> "idle", retry |-> FALSE, select |-> {}, left |-> None, input |-> <<>>,
         todo |-> <<>>, running |-> {}, busy |-> {}, held |-> None]

Recovering == \E p \in Procs : run[p].pc = "recover"

-----------------------------------------------------------------------------
(***************************************************************************)
(* An invocation: recover, register, filter, then batch after batch.        *)
(***************************************************************************)
Start(p) ==
    /\ run[p].pc = "idle"
    /\ ~Recovering
    /\ \E retry \in Retries, select \in Selections, bound \in Dispatches :
          run' = [run EXCEPT ![p] = [Idle EXCEPT !.pc = "recover", !.retry = retry,
                                                 !.select = select, !.left = bound]]
    /\ UNCHANGED <<db, expired, doc, exec, crashes>>

\* Seeded fault: attempts that were finalizing are left to their owners.
Recoverable_Active(a) == row[a] = "active" /\ a \in expired

\* An attempt whose publisher still holds its stage lock is skipped.
Recoverable(a) ==
    /\ row[a] \in Unfinished
    /\ a \in expired
    /\ exec[a].pc # "published"

RecoverTake(p, a) ==
    /\ run[p].pc = "recover" /\ run[p].held = None
    /\ Recoverable(a)
    /\ row' = [row EXCEPT ![a] = "finalizing"]
    /\ run' = [run EXCEPT ![p].held = a]
    /\ UNCHANGED <<members, expired, budget, observed, claim, disposition, doc, exec, crashes>>

ValidDocument(a) ==
    /\ doc[a] # None
    /\ doc[a].effect = Effect(a, doc[a].state)
    /\ doc[a].budget = budget[a]
    /\ doc[a].state = "accepted" => observed[a] # "none" /\ claim[Slot(a)] = a

CommitTerminal(a, outcome) ==
    /\ disposition' = Finish(a, outcome)
    /\ row' = [row EXCEPT ![a] = outcome]
    /\ claim' = [claim EXCEPT ![Slot(a)] = IF @ = a THEN None ELSE @]
    /\ expired' = expired \ {a}
    /\ doc' = [doc EXCEPT ![a] = None]

\* The published outcome is imported, or the attempt fails as interrupted.
RecoverResolve(p) ==
    LET a == run[p].held IN
    /\ run[p].pc = "recover" /\ a # None
    /\ CommitTerminal(a, IF ValidDocument(a) THEN doc[a].state ELSE "failed")
    /\ run' = [run EXCEPT ![p].held = None]
    /\ UNCHANGED <<members, budget, observed, exec, crashes>>

RecoverEnd(p) ==
    /\ run[p].pc = "recover" /\ run[p].held = None
    /\ \A a \in Attempts : ~Recoverable(a)
    /\ run' = [run EXCEPT ![p].pc = "register", ![p].input = Schedule]
    /\ UNCHANGED <<db, expired, doc, exec, crashes>>

\* The points to register are those of every repetition with a selected point.
Registers(p, s) == \E t \in run[p].select : Rep(t) = Rep(s)

RegisterFresh(p) ==
    /\ run[p].pc = "register"
    /\ LET s == Head(run[p].input)
           rest == Tail(run[p].input)
       IN /\ members' = members \cup (IF Registers(p, s) THEN {s} ELSE {})
          /\ run' = [run EXCEPT ![p].pc = IF rest = <<>> THEN "filter" ELSE @,
                                ![p].input = IF rest = <<>> THEN Schedule ELSE rest]
    /\ UNCHANGED <<row, expired, budget, observed, claim, disposition, doc, exec, crashes>>

\* slot_progress: the points an invocation puts on its own schedule.
Wanted(p, s) ==
    /\ s \in run[p].select
    /\ ~Satisfied(s) /\ disposition[s] = "none"
    /\ AttemptsOf(s) = {} \/ run[p].retry

FilterSlot(p) ==
    /\ run[p].pc = "filter"
    /\ LET s == Head(run[p].input) IN
       run' = [run EXCEPT ![p].input = Tail(@),
                          ![p].todo = IF Wanted(p, s) THEN Append(@, s) ELSE @,
                          ![p].pc = IF Len(run[p].input) > 1 THEN @ ELSE "batch"]
    /\ UNCHANGED <<db, expired, doc, exec, crashes>>

\* rebuild_batches: as many points as there are lanes, of different repetitions.
Batches(todo, n) ==
    /\ n <= Len(todo) /\ n <= Lanes
    /\ \A i, j \in 1..n : i # j => Rep(todo[i]) # Rep(todo[j])

NextBatch(p) ==
    /\ run[p].pc = "batch"
    /\ run[p].todo # <<>> /\ run[p].left # 0
    /\ \E n \in 1..Len(run[p].todo) :
          /\ Batches(run[p].todo, n) /\ ~Batches(run[p].todo, n + 1)
          /\ run' = [run EXCEPT ![p].pc = "reserve",
                                ![p].input = SubSeq(run[p].todo, 1, n),
                                ![p].todo = SubSeq(@, n + 1, Len(@))]
    /\ UNCHANGED <<db, expired, doc, exec, crashes>>

FinishRun(p) ==
    /\ run[p].pc = "batch"
    /\ run[p].todo = <<>> \/ run[p].left = 0
    /\ run' = [run EXCEPT ![p] = Idle]
    /\ UNCHANGED <<db, expired, doc, exec, crashes>>

Skips(p, s) == Rep(s) \in run[p].busy

\* The batch has been walked through, or --max-attempts is used up.
Filled(p) == run[p].input = <<>> \/ run[p].left = 0

Reserve(p) ==
    /\ run[p].pc = "reserve" /\ ~Filled(p)
    /\ LET s == Head(run[p].input)
           a == <<s, Retry(s)>>
           answer == IF Skips(p, s) THEN "none" ELSE Reservation(s, run[p].retry)
           rest == [run[p] EXCEPT !.input = Tail(@)]
       IN \/ /\ answer = "none"
             /\ run' = [run EXCEPT ![p] = rest]
             /\ UNCHANGED <<row, exec>>
          \/ /\ answer = "busy"
             /\ run' = [run EXCEPT ![p] = [rest EXCEPT !.busy = @ \cup {Rep(s)}]]
             /\ UNCHANGED <<row, exec>>
          \/ /\ answer = "reserved"
             /\ row' = [row EXCEPT ![a] = "active"]
             /\ exec' = [exec EXCEPT ![a].pc = "reserved"]
             /\ run' = [run EXCEPT ![p] = [rest EXCEPT !.running = @ \cup {a},
                    !.left = IF @ = None THEN None ELSE @ - 1]]
    /\ UNCHANGED <<members, expired, budget, observed, claim, disposition, doc, crashes>>

\* Every dispatched attempt is joined; the error of one ends the invocation.
Join(p) ==
    /\ run[p].pc = "reserve" /\ Filled(p)
    /\ \A a \in run[p].running : ~Live(a)
    /\ run' = [run EXCEPT ![p] =
                 IF \E a \in run[p].running : exec[a].pc = "dead" THEN Idle
                 ELSE [@ EXCEPT !.pc = "batch", !.input = <<>>, !.running = {}]]
    /\ UNCHANGED <<db, expired, doc, exec, crashes>>

\* A process is killed: its threads, its recovery pass and its plan are gone.
Crash(p) ==
    /\ run[p].pc # "idle" /\ crashes < MaxCrashes
    /\ exec' = [a \in Attempts |-> IF a \in run[p].running /\ Live(a) THEN Ended("dead")
                                   ELSE exec[a]]
    /\ run' = [run EXCEPT ![p] = Idle]
    /\ crashes' = crashes + 1
    /\ UNCHANGED <<db, expired, doc>>

-----------------------------------------------------------------------------
(***************************************************************************)
(* An execution.  A batch is executed once all of it is reserved.           *)
(***************************************************************************)
Dispatched(a) ==
    \A p \in Procs : a \in run[p].running => Filled(p)

Fence(a) == row[a] \in Unfinished /\ a \notin expired

At(a, pc) == exec[a].pc = pc /\ Dispatched(a)

\* Preflight, input verification, launch or warm-up fails: no time is reserved.
FailEarly(a) ==
    /\ At(a, "reserved")
    /\ exec' = [exec EXCEPT ![a].pc = "ran", ![a].plan = "failed"]
    /\ UNCHANGED <<db, expired, doc, run, crashes>>

Granted(r) ==
    LET remaining == IF Used(r) > Limit THEN 0 ELSE Limit - Used(r) IN
    Min({remaining, PointLimit})

ReserveFreshTime(a) ==
    /\ At(a, "reserved") /\ Fence(a)
    /\ LET granted == Granted(Rep(Slot(a))) IN
       /\ budget' = [budget EXCEPT ![a].reserved = granted]
       /\ exec' = [exec EXCEPT ![a] = IF granted = 0
                     THEN [@ EXCEPT !.pc = "ran", !.plan = "failed"]
                     ELSE [@ EXCEPT !.pc = "timed"]]
    /\ UNCHANGED <<members, row, expired, observed, claim, disposition, doc, run, crashes>>

\* Seeded fault: the overrun of a cleanup is charged.
Charged_Measured(a, measured) == measured

Charged(a, measured) ==
    IF measured = None THEN None ELSE Min({measured, budget[a].reserved})

\* The worker ends; a cleanup may run past the reservation, and a measurement
\* that is unavailable records nothing.
RecordFreshTime(a) ==
    /\ At(a, "timed") /\ Fence(a)
    /\ \E measured \in Measured, plan \in Plans :
          /\ budget' = [budget EXCEPT ![a].charged = Charged(a, measured)]
          /\ \E completion \in IF plan = "accepted" THEN Completions ELSE {"none"} :
                exec' = [exec EXCEPT ![a] = [pc |-> "ran", plan |-> plan,
                                             completion |-> completion]]
    /\ UNCHANGED <<members, row, expired, observed, claim, disposition, doc, run, crashes>>

\* failed_attempt: a timeout that uses up the budget censors the point.
ClassifyTimeout(a) ==
    /\ At(a, "ran") /\ exec[a].plan = "timeout"
    /\ exec' = [exec EXCEPT ![a].plan = IF Exhausted(a) THEN "censored" ELSE "failed"]
    /\ UNCHANGED <<db, expired, doc, run, crashes>>

BeginFinalization(a) ==
    /\ At(a, "ran") /\ exec[a].plan # "timeout" /\ Fence(a)
    /\ row' = [row EXCEPT ![a] = "finalizing"]
    /\ LET claims == exec[a].plan = "accepted"
           competing == claim[Slot(a)] # None \/ Satisfied(Slot(a))
       IN /\ claim' = [claim EXCEPT ![Slot(a)] = IF claims /\ ~competing THEN a ELSE @]
          /\ exec' = [exec EXCEPT ![a].pc = IF claims THEN "observe" ELSE "decided",
                                  ![a].plan = IF claims /\ competing THEN "superseded" ELSE @]
    /\ UNCHANGED <<members, expired, budget, observed, disposition, doc, run, crashes>>

\* publish_artifact and register_observation.  Staging takes the coordination
\* lock shared, which a recovery pass holds exclusively.
RegisterObservation(a) ==
    /\ At(a, "observe") /\ Fence(a) /\ ~Recovering
    /\ observed' = [observed EXCEPT ![a] = exec[a].completion]
    /\ exec' = [exec EXCEPT ![a].pc = "decided", ![a].completion = "none"]
    /\ UNCHANGED <<members, row, expired, budget, claim, disposition, doc, run, crashes>>

PublishOutcome(a) ==
    /\ At(a, "decided") /\ Fence(a) /\ ~Recovering
    /\ doc' = [doc EXCEPT ![a] = [state |-> exec[a].plan, budget |-> budget[a],
                                  effect |-> Effect(a, exec[a].plan)]]
    /\ exec' = [exec EXCEPT ![a].pc = "published"]
    /\ UNCHANGED <<db, expired, run, crashes>>

CommitFinalization(a) ==
    /\ At(a, "published") /\ Fence(a)
    /\ ValidDocument(a)
    /\ CommitTerminal(a, exec[a].plan)
    /\ exec' = [exec EXCEPT ![a] = Ended("done")]
    /\ UNCHANGED <<members, budget, observed, run, crashes>>

\* The store refuses a stale owner's next write, or a stage during a recovery
\* pass (Busy: the lock is tried, not waited for); the thread returns the error.
Refused(a) == ~Fence(a) \/ (Recovering /\ exec[a].pc \in {"observe", "decided"})

Abort(a) ==
    /\ Live(a) /\ Dispatched(a) /\ Refused(a)
    /\ exec' = [exec EXCEPT ![a] = Ended("dead")]
    /\ UNCHANGED <<db, expired, doc, run, crashes>>

\* The reservation runs out: the owner is dead, or its heartbeat is too slow.
Expire(a) ==
    /\ row[a] \in Unfinished /\ a \notin expired
    /\ expired' = expired \cup {a}
    /\ UNCHANGED <<db, doc, exec, run, crashes>>

-----------------------------------------------------------------------------
Init ==
    /\ members = {}
    /\ row = [a \in Attempts |-> "none"]
    /\ expired = {}
    /\ budget = [a \in Attempts |-> [reserved |-> 0, charged |-> None]]
    /\ observed = [a \in Attempts |-> "none"]
    /\ claim = [s \in Slots |-> None]
    /\ disposition = [s \in Slots |-> "none"]
    /\ doc = [a \in Attempts |-> None]
    /\ exec = [a \in Attempts |-> NoExec]
    /\ run = [p \in Procs |-> Idle]
    /\ crashes = 0

Invoke(p) ==
    \/ \E a \in Attempts : RecoverTake(p, a)
    \/ RecoverResolve(p) \/ RecoverEnd(p)
    \/ RegisterFresh(p) \/ FilterSlot(p)
    \/ NextBatch(p) \/ Reserve(p) \/ Join(p) \/ FinishRun(p)

Execute(a) ==
    \/ FailEarly(a) \/ ReserveFreshTime(a) \/ RecordFreshTime(a) \/ ClassifyTimeout(a)
    \/ BeginFinalization(a) \/ RegisterObservation(a) \/ PublishOutcome(a)
    \/ CommitFinalization(a) \/ Abort(a)

Next ==
    \/ \E p \in Procs : Start(p) \/ Invoke(p) \/ Crash(p)
    \/ \E a \in Attempts : Execute(a) \/ Expire(a)

Spec == Init /\ [][Next]_vars

\* Threads and invocations proceed, the lease of a dead owner runs out, and
\* somebody resumes the output directory again.
Fairness ==
    /\ \A p \in Procs : WF_vars(Start(p)) /\ WF_vars(Invoke(p))
    /\ \A a \in Attempts :
          /\ WF_vars(Execute(a))
          /\ WF_vars(exec[a].pc = "dead" /\ Expire(a))

FairSpec == Spec /\ Fairness

-----------------------------------------------------------------------------
(***************************************************************************)
(* progress: what the report says of a repetition.                          *)
(***************************************************************************)
Reached(r) == \E a \in InRep(r) : row[a] = "accepted" /\ observed[a] = "reached"
Active(r) == \E a \in InRep(r) : row[a] \in Unfinished
AcceptedPoints(r) == {s \in MembersOf(r) : Satisfied(s)}
AttemptedPoints(r) == {s \in MembersOf(r) : \E a \in AttemptsOf(s) : row[a] \in Terminal}

Progress(r) ==
    IF MembersOf(r) = {} THEN "absent"
    ELSE IF Reached(r) THEN "target_reached"
    ELSE IF ~Target /\ AcceptedPoints(r) = MembersOf(r) THEN "fixed_count"
    ELSE IF Active(r) THEN "partial"
    ELSE IF Used(r) >= Limit THEN "active_time_limit"
    ELSE IF AttemptedPoints(r) = MembersOf(r) THEN "schedule_exhausted"
    ELSE "partial"

-----------------------------------------------------------------------------
(***************************************************************************)
(* Properties.                                                              *)
(***************************************************************************)
ExecPCs == {"none", "reserved", "timed", "ran", "observe", "decided", "published", "done", "dead"}
Effects == {"none", "skipped_target_reached", "active_time_limit"}

\* check_reservation: whatever invocations run, at most one attempt of a
\* repetition is unfinished, so its budget has one spender at a time.
OneOwner ==
    \A r \in Repetitions : \A a, b \in InRep(r) :
        row[a] \in Unfinished /\ row[b] \in Unfinished => a = b

\* reserve_fresh_time, record_fresh_time: what attempts hold and what they
\* spent never exceeds max-active-time, over retries, overruns and crashes.
BudgetHeld == \A r \in Repetitions : Used(r) <= Limit

\* finish and check_reservation: a point is never both accepted and disposed
\* of, and nobody works on a point that was disposed of.
DecidedPointsRest ==
    \A s \in Slots : disposition[s] # "none" =>
        \A a \in AttemptsOf(s) : row[a] \notin Unfinished \cup {"accepted"}

\* failed_attempt: an attempt that is reported as censored by the time limit
\* has in fact disposed of its point for that reason.
CensoredDecides ==
    \A a \in Attempts : row[a] = "censored" => disposition[Slot(a)] = "active_time_limit"

\* progress: a repetition that is reported as decided stays so, in the same way.
DecisionFinal ==
    [][\A r \in Repetitions :
          Progress(r) \in {"target_reached", "fixed_count", "active_time_limit"} =>
              Progress(r)' = Progress(r)]_vars

\* Somebody who resumes brings every repetition to a decision, or to the end of
\* its schedule, whoever died on the way.
RepetitionsEnd == \A r \in Repetitions : <>[](Progress(r) \notin {"absent", "partial"})
=============================================================================
