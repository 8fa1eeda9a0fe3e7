---------------------------- MODULE FreshReport ----------------------------
(***************************************************************************)
(* What readers make of fresh sequences: the slot states of `metewand       *)
(* status` (src/runtime/inspection.rs) and the recomputation with which an  *)
(* archive checks the stored progress (validate_fresh in                    *)
(* src/core/archive/validation.rs).  Both work on one committed state of    *)
(* module FreshSequence.                                                    *)
(***************************************************************************)
EXTENDS FreshSequence

\* Every started attempt is terminal, as an archive requires.
Settled == \A a \in Attempts : row[a] \notin Unfinished

\* add_snapshot, with the dispositions of fresh points.
SlotState(s) ==
    IF Satisfied(s) THEN "satisfied"
    ELSE IF \E a \in AttemptsOf(s) : row[a] \in Unfinished /\ a \notin expired THEN "active"
    ELSE IF \E a \in AttemptsOf(s) : row[a] \in Unfinished THEN "recovery_required"
    ELSE IF disposition[s] = "skipped_target_reached" THEN "skipped"
    ELSE IF disposition[s] = "active_time_limit" THEN "censored"
    ELSE IF AttemptsOf(s) = {} THEN "pending"
    ELSE "retry_required"

\* The budget rows of a repetition, and what an archive adds up from them.
Budgeted(r) == {a \in InRep(r) : budget[a].reserved # 0}
Consumed(r) == Cardinality(UNION {{a} \X (1..Charge(a)) : a \in Budgeted(r)})

\* Seeded fault: the time limit is looked at before the target.
ArchivedStatus_LimitFirst(r) ==
    IF Consumed(r) >= Limit THEN "active_time_limit"
    ELSE IF Reached(r) THEN "target_reached"
    ELSE "partial"

\* The status that validate_fresh computes from the attempts, the observations,
\* the budgets and the policy of a repetition.
ArchivedStatus(r) ==
    LET accepted == {a \in InRep(r) : row[a] = "accepted"}
        attempted == {s \in MembersOf(r) : AttemptsOf(s) # {}}
    IN IF \E a \in accepted : observed[a] = "reached" THEN "target_reached"
       ELSE IF ~Target /\ Cardinality(accepted) = Cardinality(MembersOf(r))
         THEN "fixed_count"
       ELSE IF Consumed(r) >= Limit THEN "active_time_limit"
       ELSE IF attempted = MembersOf(r) THEN "schedule_exhausted"
       ELSE "partial"

\* validate_fresh: no charge beyond its reservation, every point that was
\* attempted a member, and the counts, the total and the status as stored.
ValidateFresh(r) ==
    /\ \A a \in Budgeted(r) : budget[a].charged # None =>
         budget[a].charged <= budget[a].reserved
    /\ \A a \in InRep(r) : row[a] # "none" => Slot(a) \in members
    /\ MembersOf(r) # {} =>
         /\ Cardinality({a \in InRep(r) : row[a] = "accepted"})
              = Cardinality(AcceptedPoints(r))
         /\ Consumed(r) = Used(r)
         /\ ArchivedStatus(r) = Progress(r)

-----------------------------------------------------------------------------
(***************************************************************************)
(* Properties.                                                              *)
(***************************************************************************)
\* create_archive never rejects a settled store for its fresh sequences: what
\* validate_fresh recomputes agrees with the progress the store reports, over
\* retries, overruns, interrupted attempts and two invocations.
ProgressArchivable == Settled => \A r \in Repetitions : ValidateFresh(r)

\* status and the next `run --resume` agree on a settled store: a pending point
\* is attempted, a point that requires a retry only with --retry, and a point
\* reported as satisfied, skipped or censored never again.  In particular a
\* budget that is used up leaves no point pending.
StatusPredictsResume ==
    Settled => \A s \in members :
        LET state == SlotState(s) IN
        /\ state = "pending" => Reservation(s, FALSE) = "reserved"
        /\ state = "retry_required" =>
             /\ Reservation(s, FALSE) = "none"
             /\ Retry(s) <= MaxRetry => Reservation(s, TRUE) = "reserved"
        /\ state \in {"satisfied", "skipped", "censored"} =>
             Reservation(s, TRUE) = "none"
=============================================================================
