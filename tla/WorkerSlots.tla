---------------------------- MODULE WorkerSlots ----------------------------
(***************************************************************************)
(* One execution lane: the slots of a plan one after another, each on the  *)
(* lane's retained worker or on a new one, with its warm-ups, its timing   *)
(* envelope, its dataset view, its independent evaluator and the checks    *)
(* that stand between a worker's answer and a result that may be           *)
(* published.  Composes the two sessions of WorkerSession.                 *)
(*                                                                         *)
(* Source: src/runtime/worker_reuse.rs, run.rs and run/profile.rs          *)
(* (execute), fixed_dataset_run.rs, fixed_dataset_run/buffered.rs and      *)
(* streaming.rs, worker_output.rs, local_tree.rs.                          *)
(***************************************************************************)
EXTENDS WorkerSession, BufferedTrace

CONSTANTS
    Plans,       \* sequences of slots [key, spec] a run may schedule
    Policy,      \* key |-> [reuse, warmups, scope, mode]
    MaxFaults,   \* bound on the misbehaviours beyond a bad answer
    AheadCost    \* what a frame written ahead counts for in that bound

(* What WorkerReuseError::InvalidPolicy refuses, compatibility checking    *)
(* has refused before: warm-ups need reuse, a cold scope excludes both.    *)
ASSUME PolicyAssumption ==
    /\ MaxFaults \in Nat /\ AheadCost \in Nat
    /\ \A key \in DOMAIN Policy :
         /\ Policy[key].mode \in {"one_shot", "buffered", "stream"}
         /\ Policy[key].warmups \in Nat
         /\ Policy[key].warmups > 0 => Policy[key].reuse
         /\ Policy[key].scope = "cold_end_to_end" => ~Policy[key].reuse

(* A plan has slots, each under the policy of its key and with executions  *)
(* whose deadlines may pass; none is mistaken for `no retained worker'.    *)
ASSUME PlansAssumption ==
    \A p \in Plans :
        /\ Len(p) \in Nat \ {0}
        /\ DOMAIN p = 1..Len(p)
        /\ \A i \in DOMAIN p :
             /\ p[i].key \in DOMAIN Policy
             /\ {i} \X (0..Policy[p[i].key].warmups) \subseteq Runs
             /\ None # [key |-> p[i].key, spec |-> p[i].spec]

VARIABLES
    plan,      \* the plan of this run
    pc,        \* where the lane is in `run_slot_scoped' and `run_workers'
    at,        \* <<slot, execution>>; the last execution is the measured one
    retained,  \* ReusableWorker.retained: None or [key, spec]
    open,      \* the envelope of this execution has started, not finished
    view,      \* the slot's private dataset view is intact
    tree,      \* content of the result: now, as hashed, as judged; and
               \* whether it was changed and put back since it was hashed
    reached,   \* the observations so far are what the profile asks for
    left,      \* snapshots of a buffer still to evaluate
    files,     \* executions with files in the pooled worker's directory
    outcome,   \* how the slot before ended; None while a slot is running
    faults,    \* misbehaviours so far
    history    \* what happened, for the properties only

slotVars == <<plan, pc, at, retained, open, view, tree, reached, left,
              files, outcome, faults, history>>
vars == <<sessionVars, slotVars>>
given == <<plan, faults>>

Slot == plan[at[1]]
Key == Slot.key
Terms == Policy[Key]
Measured == at[2] = Terms.warmups
Borrowed == Terms.reuse
I == IF Borrowed THEN "pooled" ELSE "owned"
E == "evaluator"

Untouched ==
    [now |-> 0, hashed |-> None, judged |-> None, restored |-> FALSE]

Init ==
    /\ SessionInit
    /\ plan \in Plans
    /\ pc = "start"
    /\ at = <<1, 0>>
    /\ retained = None
    /\ open = FALSE
    /\ view = TRUE
    /\ tree = Untouched
    /\ reached = FALSE
    /\ left = 0
    /\ files = {}
    /\ outcome = None
    /\ faults = 0
    /\ history = [key |-> None, spec |-> None, warmed |-> 0,
                  overrun |-> FALSE, published |-> None]

(***************************************************************************)
(* A failure anywhere: every session is dropped, the lane's retained one   *)
(* too, and the slot is recorded as failed.                                *)
(***************************************************************************)
NextSlot ==
    /\ pc' = IF at[1] = Len(plan) THEN "done" ELSE "start"
    /\ at' = IF at[1] = Len(plan) THEN at ELSE <<at[1] + 1, 0>>
    /\ view' = TRUE
    /\ tree' = Untouched
    /\ reached' = FALSE
    /\ left' = 0
    /\ open' = FALSE
    /\ passed' = {}
    /\ late' = {}

DropAll_Implementations ==
    /\ session' = [r \in Roles |-> IF r = E THEN session[r] ELSE NoSession]
    /\ worker' = [r \in Roles |-> IF r = E THEN worker[r] ELSE Dead]
    /\ files' = {}
    /\ retained' = None

DropAll ==
    /\ session' = [r \in Roles |-> NoSession]
    /\ worker' = [r \in Roles |-> Dead]
    /\ files' = {}
    /\ retained' = None

EndWithout(status) ==
    /\ DropAll
    /\ NextSlot
    /\ outcome' = status
    /\ history' = [history EXCEPT !.overrun = FALSE, !.published = None]
    /\ UNCHANGED given

Fail == EndWithout("failed")

(* A private view that could not be made returns from the one-shot         *)
(* `execute' without `discard': the retained worker stays.                 *)
ViewFails ==
    /\ pc = "start" /\ Terms.mode = "one_shot"
    /\ NextSlot
    /\ outcome' = "failed"
    /\ UNCHANGED <<session, worker, given, retained, files, history>>

(* Controls that cannot be enforced, or inputs that changed since planning. *)
InputsChanged ==
    /\ pc = "start" /\ Terms.mode = "one_shot"
    /\ Fail

(* The same and a failing view, of a profile: all of them discard.         *)
ProfileRefused ==
    /\ pc = "start" /\ Terms.mode # "one_shot"
    /\ Fail

(***************************************************************************)
(* run_slot_scoped: reset the retained worker if it is eligible, else      *)
(* replace it; then the warm-ups this process still owes this              *)
(* specification.                                                          *)
(***************************************************************************)
Eligible == /\ retained # None
            /\ Terms.reuse
            /\ retained.key = Key
            /\ session[I].usable

NeedsWarmups == retained.spec # Slot.spec

FirstOn(needed) == IF needed THEN 0 ELSE Terms.warmups

Executing(first, step) ==
    /\ at' = <<at[1], first>>
    /\ pc' = step
    /\ open' = FALSE
    /\ tree' = Untouched
    /\ reached' = FALSE
    /\ outcome' = None

StartReuse ==
    /\ pc = "start" /\ Eligible
    /\ Executing(FirstOn(NeedsWarmups), "reset")
    /\ history' = [history EXCEPT !.published = None]
    /\ UNCHANGED <<sessionVars, given, retained, view, left, files>>

(* Taking the retained worker drops it; a slot that does not reuse leaves  *)
(* it where it is.                                                         *)
StartNew ==
    /\ pc = "start" /\ ~Eligible
    /\ session' = [session EXCEPT ![I] = NoSession]
    /\ worker' = [worker EXCEPT ![I] = Dead]
    /\ retained' = IF Borrowed THEN None ELSE retained
    /\ files' = IF Borrowed THEN {} ELSE files
    /\ Executing(0, "launch")
    /\ history' = [history EXCEPT !.published = None]
    /\ UNCHANGED <<late, passed, given, view, left>>

(***************************************************************************)
(* The calls.  `integrity.operation' verifies the view before and after    *)
(* each; the streamed ones and a stream's launches are not wrapped.        *)
(***************************************************************************)
Wrapped(method) ==
    CASE method = "hello" -> Terms.mode # "stream"
      [] method \in Streamed \cup {"reset"} -> FALSE
      [] OTHER -> TRUE

Verified(method) == view \/ ~Wrapped(method)

(* The launch of a pooled worker precedes every check of the view.         *)
HelloVerified == Borrowed \/ Verified("hello")

Idle(r) == session[r].call = None /\ session[r].result = None

Consumed(r) == [session EXCEPT ![r].result = None, ![r].answer = None]

(* TimingEnvelope.start, at the first call of the selected scope.          *)
Opens(method) ==
    CASE method = "hello" -> Terms.scope = "cold_end_to_end"
      [] method = "prepare" -> Terms.scope = "prepare_and_execute"
      [] method \in {"execute", "execute_buffered", "execute_stream"} ->
           Terms.scope = "execute_only"
      [] OTHER -> FALSE

(* set_scientific_deadline before a call of the scope.                     *)
Deadline(opened) == IF opened THEN at ELSE None

Launch ==
    LET opened == Opens("hello") IN
    /\ pc = "launch" /\ Idle(I)
    /\ HelloVerified
    /\ open' = opened
    /\ \/ Connect(I, at, Deadline(opened))
       \/ LaunchFails(I)
    /\ history' = IF Borrowed THEN [history EXCEPT !.key = Key,
                                                  !.spec = Slot.spec,
                                                  !.warmed = 0]
                  ELSE history
    /\ UNCHANGED <<pc, given, at, retained, view, tree, reached, left, files,
                   outcome>>

HelloAccepted ==
    /\ pc = "launch" /\ session[I].result = "ok" /\ HelloVerified
    /\ session' = Consumed(I)
    /\ pc' = "prepare"
    /\ UNCHANGED <<worker, late, passed, given, at, retained, open, view,
                   tree, reached, left, files, outcome, history>>

(* reset_and_clear forgets the previous slot's deadline, resets the worker *)
(* and wipes its private directory.                                        *)
Reset ==
    /\ pc = "reset" /\ Idle(I)
    /\ Call(I, "reset", at, FALSE, None)
    /\ UNCHANGED slotVars

Cleared_Kept == files
Cleared == {}

ResetDone ==
    /\ pc = "reset" /\ session[I].result = "ok"
    /\ session' = Consumed(I)
    /\ worker' = [worker EXCEPT ![I].private = TRUE]
    /\ files' = Cleared
    /\ pc' = "prepare"
    /\ UNCHANGED <<late, passed, given, at, retained, open, view, tree,
                   reached, left, outcome, history>>

CleanupFails ==
    /\ pc = "reset" /\ session[I].result = "ok"
    /\ Fail

Prepare ==
    LET opened == open \/ Opens("prepare") IN
    /\ pc = "prepare" /\ Idle(I) /\ Verified("prepare")
    /\ Call(I, "prepare", at, FALSE, Deadline(opened))
    /\ open' = opened
    /\ files' = IF Borrowed THEN files \cup {at} ELSE files
    /\ UNCHANGED <<pc, given, at, retained, view, tree, reached, left,
                   outcome, history>>

Prepared ==
    /\ pc = "prepare" /\ session[I].result = "ok" /\ Verified("prepare")
    /\ session' = Consumed(I)
    /\ pc' = "execute"
    /\ UNCHANGED <<worker, late, passed, given, at, retained, open, view,
                   tree, reached, left, files, outcome, history>>

ExecuteMethod ==
    CASE Terms.mode = "stream" -> "execute_stream"
      [] Terms.mode = "buffered" -> "execute_buffered"
      [] OTHER -> "execute"

Execute ==
    LET opened == open \/ Opens(ExecuteMethod) IN
    /\ pc = "execute" /\ Idle(I) /\ Verified(ExecuteMethod)
    /\ Call(I, ExecuteMethod, at, FALSE, Deadline(opened))
    /\ open' = opened
    /\ UNCHANGED <<pc, given, at, retained, view, tree, reached, left, files,
                   outcome, history>>

(* timing.finish, then the deadline is cleared before anything untimed.    *)
Untimed_Kept == Consumed(I)
Untimed == [Consumed(I) EXCEPT ![I].deadline = None]

(* The buffers that validate_buffer passes hold this many snapshots.       *)
MostSnapshots ==
    Max(UNION {{Len(b.snapshots) : b \in Written(p)} : p \in Profiles})

Executed ==
    /\ pc = "execute" /\ session[I].result = "ok"
    /\ Terms.mode # "stream"
    /\ Verified(ExecuteMethod)
    /\ at \notin passed
    /\ session' = Untimed
    /\ open' = FALSE
    /\ pc' = "eval_launch"
    /\ IF Terms.mode = "buffered" THEN left' \in 1..MostSnapshots
       ELSE left' = 1
    /\ UNCHANGED <<worker, late, passed, given, at, retained, view, tree,
                   reached, files, outcome, history>>

(* The envelope ran out as the answer came in: timing.finish.              *)
EnvelopeOverrun ==
    /\ pc = "execute" /\ session[I].result = "ok" /\ Terms.mode # "stream"
    /\ at \in passed
    /\ Fail

(* validate_buffer, an instrumented total above the observed time, or a    *)
(* snapshot that is no result.                                             *)
BufferRefused ==
    /\ pc = "execute" /\ session[I].result = "ok" /\ Terms.mode = "buffered"
    /\ Fail

(* A checkpoint off its schedule, or whose snapshot is no result.          *)
CheckpointRefused ==
    /\ pc \in {"execute", "decide"} /\ session[I].result = "checkpoint"
    /\ Fail

(* A checkpoint pauses the active clock.                                   *)
Checkpointed ==
    /\ pc \in {"execute", "decide"} /\ session[I].result = "checkpoint"
    /\ session' = Untimed
    /\ open' = FALSE
    /\ pc' = IF session[E].open THEN "evaluate" ELSE "eval_launch"
    /\ left' = 1
    /\ UNCHANGED <<worker, late, passed, given, at, retained, view, tree,
                   reached, files, outcome, history>>

StreamFinished ==
    /\ pc \in {"execute", "decide"} /\ session[I].result = "ok"
    /\ Terms.mode = "stream"
    /\ view
    /\ session' = Untimed
    /\ open' = FALSE
    /\ pc' = CASE ~Borrowed -> "stop_impl"
               [] Borrowed /\ session[E].open -> "stop_eval"
               [] OTHER -> "finish"
    /\ UNCHANGED <<worker, late, passed, given, at, retained, view, tree,
                   reached, left, files, outcome, history>>

EvaluatorLaunch ==
    /\ pc = "eval_launch" /\ Idle(E) /\ Verified("hello")
    /\ (Connect(E, at, None) \/ LaunchFails(E))
    /\ UNCHANGED slotVars

EvaluatorLaunched ==
    /\ pc = "eval_launch" /\ session[E].result = "ok" /\ Verified("hello")
    /\ session' = Consumed(E)
    /\ pc' = IF Terms.mode = "one_shot" THEN "validate" ELSE "evaluate"
    /\ UNCHANGED <<worker, late, passed, given, at, retained, open, view,
                   tree, reached, left, files, outcome, history>>

(* validate_execution_result on the tree the worker wrote: its manifest,   *)
(* its inventory and its files as declared.  A live worker may change the  *)
(* tree between this and the hash.                                         *)
ResultValidated ==
    /\ pc = "validate"
    /\ pc' = "evaluate"
    /\ UNCHANGED <<sessionVars, given, at, retained, open, view, tree,
                   reached, left, files, outcome, history>>

ResultRefused ==
    /\ pc = "validate"
    /\ Fail

(* hash_local_tree tells contents apart.                                   *)
HashTree(content) == <<"sha256", content>>

(* The result is hashed, or its snapshot validated, copied and hashed, and *)
(* the evaluator is asked about what was hashed.                           *)
Evaluate ==
    /\ pc = "evaluate" /\ Idle(E) /\ Verified("evaluate")
    /\ Call(E, "evaluate", at, FALSE, session[E].deadline)
    /\ tree' = LET now == IF Terms.mode = "one_shot" THEN tree.now ELSE 0
               IN [now |-> now, hashed |-> HashTree(now), judged |-> now,
                   restored |-> FALSE]
    /\ UNCHANGED <<pc, given, at, retained, open, view, reached, left, files,
                   outcome, history>>

(* verify_result_tree.                                                     *)
TreeUnchanged_Unchecked == TRUE
TreeUnchanged == HashTree(tree.now) = tree.hashed

Publication ==
    [run |-> at, tree |-> tree, view |-> view, overrun |-> history.overrun]

Evaluated ==
    /\ pc = "evaluate" /\ session[E].result = "ok" /\ Verified("evaluate")
    /\ TreeUnchanged
    /\ session' = Consumed(E)
    /\ left' = left - 1
    /\ \E meets \in BOOLEAN :
         reached' = (reached \/ (meets /\ Terms.mode # "one_shot"))
    /\ pc' = CASE Terms.mode = "one_shot" /\ ~Borrowed -> "stop_impl"
               [] Terms.mode = "one_shot" /\ Borrowed -> "stop_eval"
               [] Terms.mode = "buffered" ->
                    IF left > 1 THEN "evaluate" ELSE "stop_eval"
               [] OTHER -> "decide"
    /\ history' = IF Terms.mode = "one_shot" \/ ~Measured THEN history
                  ELSE [history EXCEPT !.published = Publication]
    /\ UNCHANGED <<worker, late, passed, given, at, retained, open, view,
                   tree, files, outcome>>

(* validate_metrics, or the verdict on a snapshot is that it is invalid.   *)
MetricsRefused ==
    /\ pc = "evaluate" /\ session[E].result = "ok"
    /\ Fail

(* Metrics of a buffer's snapshot that disagree with the evaluator's fail  *)
(* the slot, after the observation has been handed on.                     *)
AgreementRefused ==
    /\ pc \in {"evaluate", "stop_eval"} /\ Terms.mode = "buffered"
    /\ history.published # None /\ Idle(E)
    /\ Fail

(* The decision on a checkpoint.  The last permitted one, and one that has *)
(* used up the active time or completed the profile, can only stop.        *)
Decide ==
    /\ pc = "decide" /\ session[I].result = None /\ session[I].call = None
    /\ \E stop \in BOOLEAN :
         /\ stop \/ (session[I].stream.count < StreamBound
                        /\ at \notin passed /\ ~reached)
         /\ Call(I, "decide", at, stop, Deadline(~stop))
         /\ open' = ~stop
    /\ UNCHANGED <<pc, given, at, retained, view, tree, reached, left, files,
                   outcome, history>>

Stop(r, step) ==
    /\ pc = step /\ Idle(r) /\ Verified("shutdown")
    /\ Call(r, "shutdown", at, FALSE, session[r].deadline)
    /\ UNCHANGED slotVars

Stopped(r, step) ==
    LET evaluatorFirst == Terms.mode = "buffered" IN
    /\ pc = step /\ session[r].result = "ok" /\ Verified("shutdown")
    /\ session' = Consumed(r)
    /\ pc' = CASE r = I /\ session[E].open -> "stop_eval"
               [] r = E /\ evaluatorFirst /\ ~Borrowed -> "stop_impl"
               [] OTHER -> "finish"
    /\ UNCHANGED <<worker, late, passed, given, at, retained, open, view,
                   tree, reached, left, files, outcome, history>>

(***************************************************************************)
(* The end of one execution.  The result tree and the view are verified    *)
(* once more; a warm-up goes on to the reset before the next execution, a  *)
(* measured execution is accepted and its worker retained.                 *)
(***************************************************************************)
FinalChecks == view /\ (Terms.mode = "one_shot" => TreeUnchanged)

WarmupDone ==
    /\ pc = "finish" /\ ~Measured /\ FinalChecks
    /\ Executing(at[2] + 1, "reset")
    /\ history' = [history EXCEPT !.spec = Slot.spec, !.warmed = at[2] + 1,
                                  !.overrun = FALSE]
    /\ UNCHANGED <<sessionVars, given, retained, view, left, files>>

Retained ==
    CASE ~Terms.reuse -> retained
      [] Terms.reuse /\ session[I].usable ->
           [key |-> Key, spec |-> Slot.spec]
      [] OTHER -> None

(* A profile that ended without its target, or with too few observations,  *)
(* is censored: its observations stay and its worker may be used again.    *)
Status ==
    IF Terms.mode = "one_shot" \/ reached THEN "accepted" ELSE "censored"

Accept ==
    /\ pc = "finish" /\ Measured /\ FinalChecks
    /\ retained' = Retained
    /\ outcome' = Status
    /\ history' = [history EXCEPT
         !.published = IF Terms.mode = "one_shot" THEN Publication ELSE @,
         !.overrun = FALSE]
    /\ NextSlot
    /\ UNCHANGED <<session, worker, given, files>>

(* An invalid one-shot verdict, or inputs that changed under the slot.     *)
FinishRefused ==
    /\ pc = "finish"
    /\ Fail

(* Any call that failed, and any verification that did.                    *)
CallFailed ==
    /\ \E r \in Roles : session[r].result \in {"failure", "lost", "expired"}
    /\ Fail

(* A stream whose active time ran out, in a warm-up too, is censored.      *)
ActiveTimeLimit ==
    /\ Terms.mode = "stream" /\ session[I].result = "expired" /\ view
    /\ EndWithout("censored")

MutationFound ==
    /\ pc \notin {"start", "done"}
    /\ \A r \in Roles : session[r].call = None
    /\ \/ ~view
       \/ pc = "evaluate" /\ session[E].result = "ok" /\ ~TreeUnchanged
       \/ pc = "finish" /\ Terms.mode = "one_shot" /\ ~TreeUnchanged
    /\ Fail

Lane ==
    \/ ViewFails \/ InputsChanged \/ ProfileRefused
    \/ StartReuse \/ StartNew
    \/ Launch \/ HelloAccepted \/ Reset \/ ResetDone \/ CleanupFails
    \/ Prepare \/ Prepared \/ Execute \/ Executed
    \/ EnvelopeOverrun \/ BufferRefused
    \/ Checkpointed \/ CheckpointRefused \/ StreamFinished
    \/ EvaluatorLaunch \/ EvaluatorLaunched
    \/ ResultValidated \/ ResultRefused
    \/ Evaluate \/ Evaluated \/ MetricsRefused \/ AgreementRefused
    \/ Decide
    \/ Stop(I, "stop_impl") \/ Stopped(I, "stop_impl")
    \/ Stop(E, "stop_eval") \/ Stopped(E, "stop_eval")
    \/ WarmupDone \/ Accept \/ FinishRefused \/ CallFailed
    \/ ActiveTimeLimit \/ MutationFound

(***************************************************************************)
(* Workers beyond their pipes (external): the evaluator judges the tree it *)
(* finds when it reads its request; either may change a tree, and put it   *)
(* back, or change the dataset view it was given.                          *)
(***************************************************************************)
Answers(r) ==
    /\ WorkerAnswers(r)
    /\ tree' = IF r = E /\ worker[r].inbox.method = "evaluate"
               THEN [tree EXCEPT !.judged = tree.now] ELSE tree
    /\ UNCHANGED <<given, pc, at, retained, open, view, reached, left, files,
                   outcome, history>>

Fault == faults < MaxFaults /\ faults' = faults + 1

(* It exits once its shutdown is acknowledged.                             *)
Quits(r) ==
    /\ session[r].thread = "joined"
    /\ WorkerExits(r)
    /\ UNCHANGED slotVars

Misbehaves(r) ==
    /\ Fault
    /\ WorkerRepeats(r) \/ WorkerExits(r) \/ WorkerLoosens(r)
    /\ UNCHANGED <<plan, pc, at, retained, open, view, tree, reached, left,
                   files, outcome, history>>

WritesAhead(r) ==
    /\ faults + AheadCost <= MaxFaults /\ faults' = faults + AheadCost
    /\ WorkerWritesAhead(r)
    /\ UNCHANGED <<plan, pc, at, retained, open, view, tree, reached, left,
                   files, outcome, history>>

ChangesView(r) ==
    /\ Fault
    /\ worker[r].alive /\ view /\ pc \notin {"start", "done"}
    /\ view' = FALSE
    /\ UNCHANGED <<sessionVars, plan, pc, at, retained, open, tree, reached,
                   left, files, outcome, history>>

ChangesTree(r) ==
    /\ Fault
    /\ worker[r].alive
    /\ \/ r = E /\ pc \in {"evaluate", "stop_impl", "stop_eval"}
             /\ worker[E].last # None
       \/ r = I /\ Terms.mode = "one_shot"
             /\ pc \in {"execute", "eval_launch", "validate", "evaluate",
                        "stop_impl", "stop_eval", "finish"}
    /\ LET now == 1 - tree.now IN
       tree' = [tree EXCEPT !.now = now,
                            !.restored = @ \/ HashTree(now) = tree.hashed]
    /\ UNCHANGED <<sessionVars, plan, pc, at, retained, open, view, reached,
                   left, files, outcome, history>>

Protocol(r) ==
    /\ SessionStep(r)
    /\ UNCHANGED slotVars

(* An exit that shutdown polls for may be seen as the limit elapses.       *)
Elapses(r) ==
    /\ LimitElapses(r)
    /\ history' = [history EXCEPT
         !.overrun = @ \/ session[r].thread # "joined"]
    /\ UNCHANGED <<given, pc, at, retained, open, view, tree, reached, left,
                   files, outcome>>

(* A deadline that passes between a checkpoint's arrival and the pause of  *)
(* the clock makes the decision a stop; it is not an overrun.              *)
Passes ==
    /\ \E run \in Runs :
         /\ (open /\ run = at) \/ \E r \in Roles : session[r].deadline = run
         /\ DeadlinePasses(run)
    /\ history' = [history EXCEPT
         !.overrun = @ \/ session[I].result # "checkpoint"]
    /\ UNCHANGED <<given, pc, at, retained, open, view, tree, reached, left,
                   files, outcome>>

Finished == pc = "done" /\ UNCHANGED vars

Next ==
    \/ Lane
    \/ Passes
    \/ \E r \in Roles :
          \/ Protocol(r) \/ Elapses(r) \/ Answers(r) \/ Quits(r)
          \/ Misbehaves(r) \/ WritesAhead(r)
          \/ ChangesView(r) \/ ChangesTree(r)
    \/ Finished

Fairness ==
    /\ WF_vars(Lane)
    /\ \A r \in Roles : WF_vars(Protocol(r)) /\ WF_vars(Elapses(r))

Spec == Init /\ [][Next]_vars /\ Fairness

(***************************************************************************)
(* Properties.                                                             *)
(***************************************************************************)
(* A frame that was written for one request is never taken for the answer  *)
(* to another: what the host acts on was written for the very request, or  *)
(* decision of a stream, it was waiting for in the execution it is in,     *)
(* whatever a worker repeats, writes ahead or leaves in its pipe when an   *)
(* earlier exchange ends.  The request tracker's identifiers and the       *)
(* checkpoint numbers are what this rests on.  They do not tell an answer  *)
(* from a frame the same process wrote unasked under an identifier it      *)
(* guessed (its run is None here): such a frame is taken, whenever it was  *)
(* written.                                                                *)
AnswersTheRequest ==
    \A r \in Roles :
        session[r].result \in {"ok", "checkpoint", "failure"}
            /\ session[r].answer.run # None =>
            /\ session[r].answer.run = at
            /\ \/ pc \in {"launch", "eval_launch"}
                    /\ session[r].answer.method = "hello"
               \/ pc \in {"reset", "prepare", "evaluate", "decide"}
                    /\ session[r].answer.method = pc
               \/ pc = "execute"
                    /\ session[r].answer.method = ExecuteMethod
               \/ pc \in {"stop_impl", "stop_eval"}
                    /\ session[r].answer.method = "shutdown"

(* An execution starts in the process its terms promise.  Nothing of       *)
(* another execution is left in it: every earlier prepare has been reset   *)
(* and its private directory wiped (reset_and_clear before each reuse and  *)
(* after each warm-up; a worker whose slot failed is never used again).    *)
(* What a process remembers that answers unasked, and so may acknowledge a *)
(* reset it has not read, the host cannot know.                            *)
(* A measured execution on a reused process was launched for its key and   *)
(* follows all of its specification's warm-ups on that very process, with  *)
(* no other specification in between (run_slot_scoped).                    *)
CleanWorker ==
    /\ pc \in {"execute", "decide"} /\ session[I].open =>
         /\ ~worker[I].ahead => worker[I].memory \subseteq {at}
         /\ Borrowed => files \subseteq {at}
    /\ Borrowed /\ Measured /\ pc \in {"prepare", "execute"} =>
         /\ history.key = Key
         /\ Terms.warmups > 0 =>
              history.spec = Slot.spec /\ history.warmed = Terms.warmups

(* Between slots no process of the lane is alive but the retained one; a   *)
(* failed slot leaves none.  (discard kills and reaps before it returns,   *)
(* and every early return of a slot drops its sessions.)                   *)
NothingLeftBehind ==
    pc \in {"start", "done"} =>
        \A r \in Roles :
            worker[r].alive \/ session[r].open =>
                r = "pooled" /\ retained # None

(* The scientific deadline limits only the calls of its own execution's    *)
(* timed scope; resets, evaluations, shutdowns, stopping decisions and the *)
(* calls of a later slot run under their own limits only.                  *)
TimedCalls ==
    {ExecuteMethod, "decide"} \cup
    CASE Terms.scope = "cold_end_to_end" -> {"hello", "prepare"}
      [] Terms.scope = "prepare_and_execute" -> {"prepare"}
      [] OTHER -> {}

DeadlineInScope ==
    \A r \in Roles :
        session[r].call # None /\ ~session[r].call.stopping
            /\ session[r].deadline # None =>
                /\ r = I /\ session[r].deadline = at
                /\ session[r].call.method \in TimedCalls

(* What is published has the content that was hashed before the evaluator  *)
(* was asked, on a dataset view that had not been changed, and that        *)
(* content is what the evaluator found when it read its request.  Live     *)
(* workers may change both between any two steps of the host; the one      *)
(* change of the result that verify_result_tree cannot notice is one that  *)
(* was undone before it looked (ChangesView undoes nothing: a view that is *)
(* changed and restored would go unnoticed in the same way).               *)
PublishedAsJudged ==
    LET published == history.published IN
    published # None =>
        /\ HashTree(published.tree.now) = published.tree.hashed
        /\ \/ HashTree(published.tree.judged) = published.tree.hashed
           \/ published.tree.restored
        /\ published.view

(* No observation is published from an execution in which an exchange had  *)
(* overrun its limit or the timed scope its deadline, even when the late   *)
(* answer arrived and was well formed (the check after the answer in       *)
(* `exchange' and `stream_frame', timing.finish between answers).          *)
NothingLatePublished ==
    history.published # None => ~history.published.overrun

(* Whatever a worker records in a buffered execution, in whatever order    *)
(* levels are crossed, time runs out and limits are met, the buffer the    *)
(* collector writes passes the host's validate_buffer; and a terminal      *)
(* reserve that holds one check and one snapshot is never eaten up by      *)
(* regular collection.                                                     *)
RecordingAccepted ==
    pc = "execute" /\ Terms.mode = "buffered" => AcceptsRecordings

(* However a worker behaves, hangs included, the lane gets to the end of   *)
(* its plan: limits elapse, and every failure path ends in a discard that  *)
(* does not wait for the worker.                                           *)
LaneEnds == <>(pc = "done")
=============================================================================
