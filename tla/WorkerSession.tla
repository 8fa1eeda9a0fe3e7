--------------------------- MODULE WorkerSession ---------------------------
(***************************************************************************)
(* One serial session with a worker process for each role of a slot: the   *)
(* request tracker, the protocol thread that writes one frame and reads    *)
(* one, the typed exchange with its operational and scientific limits, the *)
(* streamed exchange, shutdown, and the discard that ends every failure.   *)
(*                                                                         *)
(* The worker program is external.  It is modelled as anything a process   *)
(* can do on its two pipes: answer, fail, answer twice, answer with the    *)
(* shape of another answer, write garbage, write a frame nobody has asked  *)
(* for yet under an identifier and a checkpoint number it has guessed,     *)
(* loosen its private directory, exit, or say nothing for ever.            *)
(*                                                                         *)
(* Source: src/runtime/worker_session.rs, worker_session/streaming.rs,     *)
(* worker_process.rs, executor.rs, managed_output.rs, protocol/messages.rs *)
(* and framing.rs.                                                         *)
(***************************************************************************)
EXTENDS Integers, Sequences, FiniteSets

CONSTANTS
    Runs,        \* executions whose timing envelope a deadline belongs to
    MaxFrames,   \* bound on the frames a worker has unread in its pipe
    StreamBound, \* max-observations of a streaming profile
    Unasked,     \* frames [ahead, kind, n] a worker writes unasked: for the
                 \* pending request (0), the one after it (1), and so on
    None

Methods == {"hello", "prepare", "execute", "execute_buffered",
            "execute_stream", "decide", "reset", "evaluate", "shutdown"}
Streamed == {"execute_stream", "decide"}

(* The request messages, up to what the worker can tell apart; n is the    *)
(* number of the checkpoint a stream's next frame would be.  And what an   *)
(* exchange returns to its caller.                                         *)
Requests ==
    [id : Nat, method : Methods, run : Runs, stopping : BOOLEAN, n : Nat]
Results == {"ok", "checkpoint", "failure", "lost", "expired"}

FrameKinds ==
    {"ok", "checkpoint", "draft", "failure", "misshapen", "garbage"}

ASSUME SessionAssumption ==
    /\ Unasked \subseteq [ahead : Nat, kind : FrameKinds, n : Nat]
    /\ MaxFrames \in Nat \ {0}
    /\ StreamBound \in Nat \ {0}
    /\ None \notin Runs \cup Nat \cup Results
    /\ None \notin Requests

VARIABLES
    session,  \* role |-> the host's side, protocol thread included
    worker,   \* role |-> the process and its two pipes (external)
    late,     \* roles whose exchange has used up its operational limit
    passed    \* runs whose scientific deadline has passed

sessionVars == <<session, worker, late, passed>>

(* The lane's retained implementation worker, an implementation worker     *)
(* owned by one execution, and the evaluator.                              *)
Roles == {"pooled", "owned", "evaluator"}

(***************************************************************************)
(* Host side.  `call' is the exchange under way, `result' what the last    *)
(* one returned to its caller and `answer' the frame it took, kept so that *)
(* properties can name the request that frame was written for: its run and *)
(* method are None when it was written for none.                           *)
(*                                                                         *)
(* Worker side.  `inbox' is the last request written to it and not read:   *)
(* a host that took a frame written ahead may write the next request first *)
(* and the answer to the former one is then, for the host, one more frame  *)
(* nobody asked for.  `ahead' marks a process that has written such a      *)
(* frame.                                                                  *)
(***************************************************************************)
NoSession ==
    [open |-> FALSE, usable |-> FALSE, next |-> 0, pending |-> None,
     deadline |-> None, call |-> None, result |-> None, answer |-> None,
     stream |-> None, thread |-> "gone", reply |-> None]

Connected(deadline) ==
    [NoSession EXCEPT !.open = TRUE, !.usable = TRUE, !.thread = "idle",
                      !.deadline = deadline]

Dead ==
    [alive |-> FALSE, private |-> TRUE, inbox |-> None, outbox |-> <<>>,
     last |-> None, memory |-> {}, ahead |-> FALSE]

Launched == [Dead EXCEPT !.alive = TRUE]

SessionInit ==
    /\ session = [r \in Roles |-> NoSession]
    /\ worker = [r \in Roles |-> Dead]
    /\ late = {}
    /\ passed = {}

(* kill: SIGKILL to the process group.                                     *)
Killed(r) == [worker EXCEPT ![r] = Dead]

(* discard: the group is killed, protocol I/O stopped and the child reaped *)
(* before the call returns; discard_after_timeout adds an interrupt and a  *)
(* grace period during which the worker may still act, which is the worker *)
(* acting before this step.                                                *)
Discard(r, result) ==
    /\ late' = late \ {r}
    /\ session' = [session EXCEPT ![r] = [NoSession EXCEPT !.result = result]]
    /\ worker' = Killed(r)

(* The limit of the exchange under way: its phase timeout, and outside a   *)
(* stopping decision the scientific deadline, whichever is first; the      *)
(* error says which, and only the deadline's is "expired".                 *)
Overran(r) ==
    {how \in {"expired", "lost"} :
        IF how = "lost" THEN r \in late
        ELSE ~session[r].call.stopping /\ session[r].deadline \in passed}

LimitPassed(r) == Overran(r) # {}

(* RequestTracker.begin_request: serial, identifiers only grow.            *)
BeginRequest(s) == [s EXCEPT !.pending = s.next, !.next = s.next + 1]

(* complete_response: the frame must carry the pending identifier.         *)
CompleteResponse_Uncorrelated(s, frame) == s.pending # None
CompleteResponse(s, frame) == frame.id = s.pending

(* verify_controls: the private directory is still private.                *)
ControlsKept(r) == worker[r].private

Request(id, method, run, stopping, n) ==
    [id |-> id, method |-> method, run |-> run, stopping |-> stopping,
     n |-> n]

(* The caller's deadline for the exchange, nothing returned yet.           *)
Limited(s, deadline) ==
    [s EXCEPT !.deadline = deadline, !.result = None, !.answer = None]

(* A new request, or within a stream the answer to its last checkpoint,    *)
(* handed to the protocol thread.                                          *)
Handed(s, method, run, stopping) ==
    LET continued == method = "decide"
        begun == IF continued THEN s ELSE BeginRequest(s)
    IN  [begun EXCEPT
           !.call = Request(begun.pending, method, run, stopping,
                            IF continued THEN s.stream.count ELSE 0),
           !.thread = "write",
           !.stream = CASE continued ->
                             [s.stream EXCEPT !.awaiting = FALSE,
                                              !.stopped = stopping]
                        [] method = "execute_stream" ->
                             [count |-> 0, awaiting |-> FALSE,
                              stopped |-> FALSE]
                        [] OTHER -> None]

(***************************************************************************)
(* exchange and stream_frame, up to the hand-over to the protocol thread.  *)
(* A session with a zero limit or a loosened private directory is          *)
(* discarded before anything is written.                                   *)
(***************************************************************************)
Call(r, method, run, stopping, deadline) ==
    LET s == Limited(session[r], deadline)
        continued == method = "decide"
    IN
    /\ s.usable /\ s.call = None
    /\ continued <=> s.pending # None
    /\ continued => s.stream.awaiting /\ ~s.stream.stopped
    /\ UNCHANGED passed
    /\ IF ~ControlsKept(r) THEN Discard(r, "lost")
       ELSE IF ~stopping /\ deadline \in passed THEN Discard(r, "expired")
       ELSE /\ session' = [session EXCEPT ![r] =
                            Handed(s, method, run, stopping)]
            /\ UNCHANGED <<worker, late>>

(* connect_with_deadline: a fresh process and the hello exchange.          *)
Connect(r, run, deadline) ==
    /\ ~session[r].open
    /\ session' = [session EXCEPT ![r] =
         [BeginRequest(Connected(deadline)) EXCEPT
            !.call = Request(0, "hello", run, FALSE, 0),
            !.thread = "write"]]
    /\ worker' = [worker EXCEPT ![r] = Launched]
    /\ UNCHANGED <<late, passed>>

(* A launch that fails leaves no process behind.                           *)
LaunchFails(r) ==
    /\ ~session[r].open
    /\ session' = [session EXCEPT ![r] = [NoSession EXCEPT !.result = "lost"]]
    /\ UNCHANGED <<worker, late, passed>>

(***************************************************************************)
(* The protocol thread: one frame out, one frame in; an I/O error, a bad   *)
(* frame or end of file ends it after its reply.                           *)
(***************************************************************************)
NoFrame(kind) ==
    [id |-> None, kind |-> kind, n |-> 0, run |-> None, method |-> None]

ThreadWrite(r) ==
    /\ session[r].thread = "write"
    /\ IF worker[r].alive
       THEN /\ worker' = [worker EXCEPT ![r].inbox = session[r].call]
            /\ session' = [session EXCEPT ![r].thread = "read"]
       ELSE /\ session' = [session EXCEPT ![r].thread = "gone",
                                          ![r].reply = NoFrame("error")]
            /\ UNCHANGED worker
    /\ UNCHANGED <<late, passed>>

(* read_line: the next line, or a clean end of file between lines.         *)
Incoming(w) == IF w.outbox = <<>> THEN NoFrame("closed") ELSE Head(w.outbox)

(* parse_frame: too long, no UTF-8, no JSON or a duplicate key is garbage. *)
WellFormed(frame) == frame.kind \notin {"closed", "garbage"}

ThreadRead(r) ==
    LET unread == worker[r].outbox
        frame == Incoming(worker[r])
    IN
    /\ session[r].thread = "read"
    /\ unread # <<>> \/ ~worker[r].alive
    /\ session' = [session EXCEPT
         ![r].thread = IF WellFormed(frame) THEN "idle" ELSE "gone",
         ![r].reply = frame]
    /\ worker' = [worker EXCEPT ![r].outbox = IF unread = <<>> THEN unread
                                              ELSE Tail(unread)]
    /\ UNCHANGED <<late, passed>>

(***************************************************************************)
(* The end of an exchange.                                                 *)
(***************************************************************************)
Waiting(r) == session[r].call # None /\ session[r].thread # "joined"

(* recv_timeout gives up.                                                  *)
TimesOut_Blocking(r) ==
    /\ Waiting(r)
    /\ session[r].reply = None
    /\ ~worker[r].alive
    /\ \E how \in Overran(r) : Discard(r, how)
    /\ UNCHANGED passed

TimesOut(r) ==
    /\ Waiting(r)
    /\ session[r].reply = None
    /\ \E how \in Overran(r) : Discard(r, how)
    /\ UNCHANGED passed

(* Decoding is typed: an answer of another operation's shape, or with a    *)
(* field too many, is not a success of this one.                           *)
Decodes(frame) == frame.kind = "ok"
DecodesFailure(frame) == frame.kind = "failure"

(* ManagedOutputResponse: a draft in place of a result or of metrics, for  *)
(* the operation that was asked for.                                       *)
Draftable(method) == method \in {"execute", "evaluate"}

(* finalize and publish: under the limit of the exchange, or not at all.   *)
Finalizes(r, frame) ==
    /\ frame.kind = "draft"
    /\ Draftable(session[r].call.method)
    /\ ~LimitPassed(r)

(* prepare: any draft may turn out unreadable, of another kind, with files *)
(* missing, undeclared or changing as they are hashed.                     *)
DraftRefused(frame) == frame.kind = "draft"

(* The frame is the pending one's success, in time.                        *)
TakesSuccess_Late(r, frame) ==
    /\ session[r].call.method \notin Streamed
    /\ Decodes(frame) \/ frame.kind = "draft"
    /\ CompleteResponse(session[r], frame)

TakesSuccess(r, frame) ==
    /\ session[r].call.method \notin Streamed
    /\ Decodes(frame) \/ Finalizes(r, frame)
    /\ CompleteResponse(session[r], frame)
    /\ ~LimitPassed(r)

(* The terminal frame of a stream, which is not held to the limit again    *)
(* once recv_timeout has returned it.                                      *)
TakesTerminal(r, frame) ==
    /\ session[r].call.method \in Streamed
    /\ Decodes(frame)
    /\ CompleteResponse(session[r], frame)
    /\ frame.n = session[r].stream.count

NextCheckpoint(r, frame) ==
    /\ session[r].call.method \in Streamed
    /\ frame.kind = "checkpoint"
    /\ ~session[r].stream.stopped
    /\ CompleteResponse(session[r], frame)
    /\ frame.n = session[r].stream.count
    /\ session[r].stream.count < StreamBound

TakesCheckpoint(r, frame) == NextCheckpoint(r, frame) /\ ~LimitPassed(r)

(* An answer is held to the limit after it was decoded, a checkpoint after *)
(* it was found to be the next one.                                        *)
Reported(r, frame) ==
    IF /\ LimitPassed(r)
       /\ \/ NextCheckpoint(r, frame)
          \/ /\ session[r].call.method \notin Streamed
             /\ frame.kind \notin {"closed", "garbage", "error"}
    THEN Overran(r) ELSE {"lost"}

(* A well-formed failure of an ordinary exchange; the session stays usable *)
(* unless the exchange was a reset.                                        *)
TakesFailure(r, frame) ==
    /\ session[r].call.method \notin Streamed \cup {"reset"}
    /\ DecodesFailure(frame)
    /\ CompleteResponse(session[r], frame)
    /\ ~LimitPassed(r)

Returned(s, frame, result) ==
    [s EXCEPT !.call = None, !.reply = None, !.result = result,
              !.answer = [run |-> frame.run, method |-> frame.method],
              !.pending = IF result = "checkpoint" THEN s.pending ELSE None]

Receive(r) ==
    LET s == session[r]
        frame == s.reply
        taken == CASE TakesSuccess(r, frame) -> "ok"
                   [] TakesTerminal(r, frame) -> "ok"
                   [] TakesCheckpoint(r, frame) -> "checkpoint"
                   [] TakesFailure(r, frame) -> "failure"
                   [] OTHER -> "lost"
        kept == taken = "checkpoint" \/ ControlsKept(r)
    IN
    /\ Waiting(r)
    /\ frame # None
    /\ UNCHANGED passed
    /\ \/ /\ taken = "lost" \/ ~kept \/ DraftRefused(frame)
          /\ \E how \in Reported(r, frame) : Discard(r, how)
       \/ /\ taken # "lost" /\ kept
          /\ UNCHANGED worker
          /\ late' = IF s.call.method = "shutdown" THEN late ELSE late \ {r}
          /\ session' = [session EXCEPT ![r] =
               IF s.call.method = "shutdown" /\ taken = "ok"
               THEN [s EXCEPT !.reply = None, !.thread = "joined",
                              !.answer = [run |-> frame.run,
                                          method |-> frame.method]]
               ELSE [Returned(s, frame, taken) EXCEPT
                      !.stream = IF taken = "checkpoint"
                                 THEN [s.stream EXCEPT
                                         !.count = s.stream.count + 1,
                                         !.awaiting = TRUE]
                                 ELSE None]]

(* shutdown after its acknowledgement: polls for the exit until the limit. *)
ShutdownExits(r) ==
    /\ session[r].thread = "joined"
    /\ ~worker[r].alive
    /\ \E status \in {"ok", "lost"} :
         session' = [session EXCEPT ![r] =
            [NoSession EXCEPT !.result = status,
                              !.answer = session[r].answer]]
    /\ worker' = [worker EXCEPT ![r] = Dead]
    /\ late' = late \ {r}
    /\ UNCHANGED passed

ShutdownLate(r) ==
    /\ session[r].thread = "joined"
    /\ worker[r].alive
    /\ LimitPassed(r)
    /\ Discard(r, "lost")
    /\ UNCHANGED passed

(***************************************************************************)
(* Time.                                                                   *)
(***************************************************************************)
LimitElapses(r) ==
    /\ session[r].call # None
    /\ r \notin late
    /\ late' = late \cup {r}
    /\ UNCHANGED <<session, worker, passed>>

DeadlinePasses(run) ==
    /\ run \notin passed
    /\ passed' = passed \cup {run}
    /\ UNCHANGED <<session, worker, late>>

(***************************************************************************)
(* The worker (external).                                                  *)
(***************************************************************************)
Write(w, frame) ==
    [w EXCEPT !.outbox = Append(w.outbox, frame), !.last = frame]

Kinds(method) ==
    {"ok", "failure", "misshapen", "garbage"}
        \cup (IF method \in Streamed THEN {"checkpoint"} ELSE {"draft"})

WorkerAnswers(r) ==
    LET w == worker[r]
        q == w.inbox
    IN
    /\ w.alive /\ q # None /\ Len(w.outbox) < MaxFrames
    /\ \E kind \in Kinds(q.method) :
         worker' = [worker EXCEPT ![r] =
           [Write(w, [id |-> q.id, kind |-> kind, n |-> q.n,
                      run |-> q.run, method |-> q.method])
            EXCEPT
              !.inbox = None,
              !.memory = CASE q.method = "prepare" -> w.memory \cup {q.run}
                           [] q.method = "reset" /\ kind = "ok" -> {}
                           [] OTHER -> w.memory]]
    /\ UNCHANGED <<session, late, passed>>

(* It writes what it has not been asked for: another number within its     *)
(* stream, or the answer to a request or a decision it has not read or the *)
(* host has not made.  Identifiers count up, so that it can guess the      *)
(* pending one and those after it; a frame with an earlier one is refused  *)
(* like any other that does not match.                                     *)
Guess(s, ahead) == IF ahead = 0 THEN s.pending ELSE s.next + ahead - 1

WorkerWritesAhead(r) ==
    LET w == worker[r]
        s == session[r]
    IN
    /\ w.alive /\ Len(w.outbox) < MaxFrames
    /\ \E u \in Unasked :
         /\ u.ahead = 0 => s.pending # None
         /\ worker' = [worker EXCEPT ![r] =
              [Write(w, [id |-> Guess(s, u.ahead), kind |-> u.kind,
                         n |-> u.n, run |-> None, method |-> None])
               EXCEPT !.ahead = TRUE]]
    /\ UNCHANGED <<session, late, passed>>

(* It writes its last frame once more.                                     *)
WorkerRepeats(r) ==
    /\ worker[r].alive /\ worker[r].last # None
    /\ Len(worker[r].outbox) < MaxFrames
    /\ worker' = [worker EXCEPT ![r] =
         [Write(worker[r], worker[r].last) EXCEPT !.last = None]]
    /\ UNCHANGED <<session, late, passed>>

WorkerExits(r) ==
    /\ worker[r].alive
    /\ worker' = [worker EXCEPT ![r].alive = FALSE, ![r].inbox = None]
    /\ UNCHANGED <<session, late, passed>>

WorkerLoosens(r) ==
    /\ worker[r].alive /\ worker[r].private
    /\ worker' = [worker EXCEPT ![r].private = FALSE]
    /\ UNCHANGED <<session, late, passed>>

SessionStep(r) ==
    \/ ThreadWrite(r)
    \/ ThreadRead(r)
    \/ TimesOut(r)
    \/ Receive(r)
    \/ ShutdownExits(r)
    \/ ShutdownLate(r)
=============================================================================
