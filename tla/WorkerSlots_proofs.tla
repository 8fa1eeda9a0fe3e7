------------------------- MODULE WorkerSlots_proofs -------------------------
(***************************************************************************)
(* Proofs about WorkerSlots, for every plan, policy, observation bound and *)
(* number of misbehaviours: six of the lane's safety properties, whatever  *)
(* its worker processes do.                                                *)
(*                                                                         *)
(* The argument has two halves.  Session says of one host session and its  *)
(* worker, without the lane, that no frame on its way that was written for *)
(* a request could be taken for an answer to the pending one unless it is  *)
(* one, and that all other frames come from a worker that has written      *)
(* ahead of its requests (Correlated).  The rest of IInv ties the sessions *)
(* to where the lane is: whose turn it is and what was asked (Placed),     *)
(* when a deadline may be set (Timed), which processes may be left         *)
(* (Remaining), what a process remembers (Clean, Warm), what the evaluator *)
(* has seen of a tree that was never restored (Judged), and that an        *)
(* execution that overran can no longer publish (Doomed).  Steps of the    *)
(* sessions and the workers are all instances of one effect, Exchange;     *)
(* steps of the lane begin an exchange (AskStep), act on its answer        *)
(* (ConsumeStep), or move between executions (Settled).                    *)
(***************************************************************************)
EXTENDS WorkerSlots, TLAPS

-----------------------------------------------------------------------------
(* One session and its worker.                                             *)
Frames == [id : Nat, n : Nat, run : Runs \cup {None},
           method : Methods \cup {None}, kind : FrameKinds]
Streams == [count : Nat, awaiting : BOOLEAN, stopped : BOOLEAN]

IsSession(s) ==
    s = [open |-> s.open, usable |-> s.usable, next |-> s.next,
         pending |-> s.pending, deadline |-> s.deadline, call |-> s.call,
         result |-> s.result, answer |-> s.answer, stream |-> s.stream,
         thread |-> s.thread, reply |-> s.reply]

IsWorker(w) ==
    w = [alive |-> w.alive, private |-> w.private, inbox |-> w.inbox,
         outbox |-> w.outbox, last |-> w.last, memory |-> w.memory,
         ahead |-> w.ahead]

Shaped(s, w) ==
    /\ IsSession(s) /\ IsWorker(w)
    /\ (s.usable <=> s.open) /\ s.next \in Nat
    /\ s.call # None => s.call \in Requests
    /\ w.outbox \in Seq(Frames)
    /\ w.last # None => w.last \in Frames
    /\ w.ahead \in BOOLEAN
    /\ s.reply # None => s.reply \in Frames \cup {NoFrame("closed"), NoFrame("error")}

(* A frame, or a request whose answer, could be taken for the answer to    *)
(* the pending request: in a stream its number is not one of an earlier    *)
(* checkpoint.                                                             *)
Current(s, f) ==
    /\ f.id = s.pending
    /\ (s.call = None \/ s.call.method \in Streamed) => s.stream.count <= f.n

(* What an exchange took, by the request it was written for, if by any.    *)
Fits(answer, q) ==
    answer.run # None => answer.run = q.run /\ answer.method = q.method

(* A session that is not open has no process; an exchange under way has    *)
(* not returned; only a paused stream has a pending request without one.   *)
(* A request the worker has not read is the one under way, or no answer to *)
(* it can be taken any more: the latter if the worker has written ahead.   *)
Living(s, w) ==
    /\ ~s.open => /\ w = Dead /\ s.reply = None
                  /\ s.call = None /\ s.pending = None /\ s.deadline = None
    /\ s.call # None => s.open /\ s.result = None /\ s.pending = s.call.id
    /\ s.pending # None => s.pending \in Nat /\ s.pending < s.next
    /\ s.pending # None /\ s.call = None => s.result \in {None, "checkpoint"}
    /\ s.pending # None /\ (s.call = None \/ s.call.method \in Streamed) =>
          s.stream \in Streams
    /\ s.result = "checkpoint" => s.pending # None
    /\ s.call # None /\ s.call.method \in Streamed => s.call.n = s.stream.count
    /\ w.inbox # None =>
          /\ w.inbox \in Requests /\ w.inbox.id < s.next
          /\ w.ahead = FALSE \/ Current(s, w.inbox) =>
                w.inbox = s.call /\ s.thread # "write"
    /\ s.call = None => s.reply = None
    /\ s.thread \in {"write", "read"} => s.call # None /\ s.reply = None
    /\ s.thread = "joined" =>
          /\ s.call # None /\ s.call.method = "shutdown"
          /\ Fits(s.answer, s.call)

(* The frames that are somewhere between the worker and the host.          *)
Held(s, w) ==
    {w.outbox[i] : i \in DOMAIN w.outbox}
        \cup ({w.last, s.reply} \ {None, NoFrame("closed"), NoFrame("error")})

(* Those written for a request are told apart by identifier and number;    *)
(* the others come from a worker that has written ahead.                   *)
Correlated(s, w) ==
    \A f \in Held(s, w) :
        /\ f.run = None => w.ahead = TRUE
        /\ f.run # None => f.id < s.next
        /\ f.run # None /\ Current(s, f) =>
             /\ s.call # None
             /\ f.run = s.call.run /\ f.method = s.call.method
             /\ f.n = s.call.n
             /\ w.inbox = None /\ s.thread # "write"
             /\ s.call.method = "reset" /\ f.kind = "ok" => w.memory = {}

Session(s, w) == Shaped(s, w) /\ Living(s, w) /\ Correlated(s, w)

-----------------------------------------------------------------------------
(* The lane: the steps in which it waits for the implementation, and for   *)
(* the evaluator.                                                          *)
ImplSteps == {"launch", "reset", "prepare", "execute", "decide", "stop_impl"}
EvalSteps == {"eval_launch", "evaluate", "stop_eval"}
PCs == ImplSteps \cup EvalSteps \cup {"start", "validate", "finish", "done"}

Shape ==
    /\ plan \in Plans
    /\ pc \in PCs
    /\ at = <<at[1], at[2]>>
    /\ at[1] \in DOMAIN plan /\ at[2] \in 0..Terms.warmups
    /\ open \in BOOLEAN
    /\ DOMAIN session = Roles /\ DOMAIN worker = Roles
    /\ history = [key |-> history.key, spec |-> history.spec,
                  warmed |-> history.warmed, overrun |-> history.overrun,
                  published |-> history.published]
    /\ history.overrun \in BOOLEAN
    /\ pc = "decide" => Terms.mode = "stream"
    /\ pc = "launch" => at[2] = 0

(* The only role with an exchange under way or an answer not acted on, and *)
(* the request the lane makes where it is.                                 *)
Turn(r) ==
    \/ r = I /\ pc \in ImplSteps
    \/ r = E /\ pc \in EvalSteps

Asks(method) ==
    \/ pc \in {"launch", "eval_launch"} /\ method = "hello"
    \/ pc \in {"reset", "prepare", "evaluate", "decide"} /\ method = pc
    \/ pc = "execute" /\ method = ExecuteMethod
    \/ pc \in {"stop_impl", "stop_eval"} /\ method = "shutdown"

(* What a session may hold where the lane is: an exchange in its turn, a   *)
(* stream paused at a checkpoint, the deadline of the open envelope.       *)
Placed(r, s) ==
    /\ s.call # None \/ s.result # None => Turn(r)
    /\ s.call # None => s.call.run = at /\ Asks(s.call.method)
    /\ s.result \in {"ok", "checkpoint", "failure"} /\ s.answer.run # None =>
          s.answer.run = at /\ Asks(s.answer.method)
    /\ s.result = "ok" /\ pc \in {"stop_impl", "stop_eval"} => ~s.open
    /\ s.call = None /\ s.pending # None =>
          /\ r = I /\ Terms.mode = "stream"
          /\ pc \in {"execute", "decide", "eval_launch", "evaluate"}
          /\ pc = "execute" => s.result = "checkpoint"
    /\ s.deadline # None => r = I /\ s.deadline = at /\ open

(* The envelope is open only in its scope, and then every call has it.     *)
Timed ==
    open => /\ pc \in {"launch", "prepare", "execute", "decide"}
            /\ pc = "launch" => Terms.scope = "cold_end_to_end"
            /\ pc = "prepare" => Terms.scope \in {"cold_end_to_end", "prepare_and_execute"}
            /\ session[I].call # None =>
                  session[I].deadline = at /\ ~session[I].call.stopping
            /\ pc = "decide" => session[I].call # None \/ session[I].result # None

(* Which processes may exist where the lane is.                            *)
Remaining ==
    /\ session["owned"].open =>
          /\ ~Borrowed
          /\ pc \in {"launch", "prepare", "execute", "decide", "eval_launch",
                     "validate", "evaluate", "stop_impl", "stop_eval"}
          /\ pc = "stop_eval" => Terms.mode = "buffered"
    /\ session[E].open =>
          /\ pc \in {"eval_launch", "validate", "evaluate", "decide",
                     "stop_impl", "stop_eval"}
          /\ pc = "stop_impl" => Terms.mode # "buffered"
    /\ session["pooled"].open =>
          retained # None \/ (Borrowed /\ pc \notin {"start", "done"})

Working == {"prepare", "execute", "decide", "eval_launch", "validate", "evaluate"}

(* What the process of an execution remembers, unless it has answered what *)
(* it had not read, and what it has on disk.                               *)
Remembers(w, set) == w.ahead = FALSE => w.memory \subseteq set

Clean ==
    /\ pc = "launch" => Remembers(worker[I], {}) /\ (Borrowed => files = {})
    /\ pc = "reset" /\ session[I].result = "ok" => Remembers(worker[I], {})
    /\ pc \in Working => /\ Remembers(worker[I], {at})
                         /\ Borrowed => files \subseteq {at}

(* What the reused process was launched for, and its warm-ups since.       *)
WarmFor(key, spec) ==
    /\ history.key = key
    /\ Policy[key].warmups > 0 =>
          history.spec = spec /\ history.warmed = Policy[key].warmups

Warm ==
    /\ Borrowed /\ pc = "launch"
          /\ (session[I].call # None \/ session[I].result = "ok") => history.key = Key
    /\ Borrowed /\ pc \notin {"start", "launch", "done"} =>
          /\ history.key = Key
          /\ Measured => WarmFor(Key, Slot.spec)
    /\ retained # None /\ (~Borrowed \/ pc \in {"start", "done"}) =>
          WarmFor(retained.key, retained.spec)

(* A tree that is what was hashed, and was so throughout, was judged so.   *)
IsTree(t) ==
    t = [now |-> t.now, hashed |-> t.hashed, judged |-> t.judged,
         restored |-> t.restored]

Marked(t) ==
    t.restored = FALSE =>
        (HashTree(t.now) = t.hashed => HashTree(t.judged) = t.hashed)

Judged ==
    /\ IsTree(tree)
    /\ tree.restored \in BOOLEAN
    /\ \/ pc = "evaluate" /\ session[E].result # None
       \/ pc = "evaluate" /\ session[E].call # None
       \/ pc \in {"stop_impl", "stop_eval", "finish"} /\ Terms.mode = "one_shot"
       => Marked(tree)

Failing == {"lost", "expired"}

(* An overrun that has been recorded ends the execution without a result:  *)
(* the exchange is late, or was lost, or the envelope is spent, or it is a *)
(* stream, which has published what it will.                               *)
Doomed ==
    \/ \E r \in Roles : r \in late /\ Waiting(r)
    \/ \E r \in Roles : session[r].result \in Failing
    \/ open /\ at \in passed /\ session[I].result # "checkpoint"
    \/ /\ Terms.mode = "stream"
       /\ \/ pc \in {"stop_impl", "stop_eval", "finish"}
          \/ pc \in {"execute", "decide"} /\ session[I].result = "ok"

IInv ==
    /\ Shape
    /\ \A r \in Roles : Session(session[r], worker[r]) /\ Placed(r, session[r])
    /\ Timed /\ Remaining /\ Clean /\ Warm /\ Judged
    /\ history.overrun => Doomed
    /\ PublishedAsJudged /\ NothingLatePublished

-----------------------------------------------------------------------------
(***************************************************************************)
(* Sessions and their workers, one at a time.                              *)
(***************************************************************************)
LEMMA NoneIsNone ==
    /\ None \notin Nat /\ None \notin Results /\ None \notin Requests
    /\ None \notin Runs
BY SessionAssumption

LEMMA NoSessionFields ==
    ASSUME NEW how, NEW s, s = [NoSession EXCEPT !.result = how]
    PROVE  /\ IsSession(s) /\ ~s.open /\ ~s.usable /\ s.next = 0
           /\ s.pending = None /\ s.deadline = None /\ s.call = None
           /\ s.result = how /\ s.answer = None /\ s.thread = "gone"
           /\ s.reply = None /\ s.stream = None
BY DEF NoSession, IsSession

LEMMA DeadFields ==
    /\ IsWorker(Dead) /\ ~Dead.alive /\ Dead.inbox = None
    /\ Dead.outbox = <<>> /\ Dead.last = None /\ Dead.ahead = FALSE
    /\ Dead.memory = {} /\ Dead.private
BY DEF Dead, IsWorker

LEMMA NothingHeld ==
    ASSUME NEW s, NEW w, w.outbox = <<>>, w.last = None, s.reply = None
    PROVE  Held(s, w) = {}
BY DEF Held

\* A session that is closed, for whatever result, and its dead worker.
LEMMA Closed ==
    ASSUME NEW s, NEW how, how # "checkpoint",
           IsSession(s), ~s.open, ~s.usable, s.next = 0,
           s.pending = None, s.deadline = None, s.call = None, s.result = how,
           s.thread = "gone", s.reply = None
    PROVE  Session(s, Dead)
<1>1. Held(s, Dead) = {}
  BY NothingHeld, DeadFields
<1>2. Correlated(s, Dead)
  BY <1>1 DEF Correlated
<1>3. Shaped(s, Dead)
  <2>1. Dead.outbox \in Seq(Frames) /\ Dead.ahead \in BOOLEAN /\ Dead.last = None
    <3>1. FALSE \in BOOLEAN /\ <<>> \in Seq(Frames)
      OBVIOUS
    <3> QED BY <3>1, DeadFields, Zenon
  <2>2. IsWorker(Dead)
    BY DeadFields
  <2>3. (s.usable <=> s.open) /\ s.next \in Nat
    OBVIOUS
  <2> QED BY <2>1, <2>2, <2>3 DEF Shaped
<1>4. Living(s, Dead)
  BY DeadFields DEF Living
<1> QED BY <1>2, <1>3, <1>4 DEF Session

Greeting(run, deadline) ==
    [BeginRequest(Connected(deadline)) EXCEPT
       !.call = Request(0, "hello", run, FALSE, 0), !.thread = "write"]

LEMMA ConnectedFields ==
    ASSUME NEW run \in Runs, NEW deadline, NEW s, s = Greeting(run, deadline)
    PROVE  /\ IsSession(s) /\ s.open /\ s.usable /\ s.next = 1
           /\ s.pending = 0 /\ s.deadline = deadline /\ s.result = None
           /\ s.thread = "write" /\ s.reply = None
           /\ s.call \in Requests /\ s.call # None /\ s.call.id = 0
           /\ s.call.method = "hello" /\ s.call.run = run /\ ~s.call.stopping
<1>1. /\ IsSession(s) /\ s.open /\ s.usable /\ s.next = 0 + 1
      /\ s.pending = 0 /\ s.deadline = deadline /\ s.result = None
      /\ s.thread = "write" /\ s.reply = None
      /\ s.call = Request(0, "hello", run, FALSE, 0)
  BY DEF Greeting, BeginRequest, Connected, NoSession, IsSession
<1>2. Request(0, "hello", run, FALSE, 0) \in Requests
  BY DEF Request, Requests, Methods
<1>3. s.call \in Requests /\ s.call # None
  BY <1>1, <1>2, NoneIsNone
<1>4. /\ s.call.id = 0 /\ s.call.method = "hello" /\ s.call.run = run
      /\ ~s.call.stopping
  BY <1>1 DEF Request
<1>5. s.next = 1
  BY <1>1
<1> QED BY <1>1, <1>3, <1>4, <1>5

LEMMA LaunchedFields ==
    /\ IsWorker(Launched) /\ Launched.alive /\ Launched.inbox = None
    /\ Launched.outbox = <<>> /\ Launched.last = None /\ Launched.ahead = FALSE
    /\ Launched.memory = {}
<1>1. PICK w : w = Dead
  OBVIOUS
<1>2. PICK new : new = [w EXCEPT !.alive = TRUE]
  OBVIOUS
<1>3. IsWorker(w)
  BY <1>1, DeadFields
<1>4. IsWorker(new) /\ new.alive /\ new.inbox = w.inbox /\ new.outbox = w.outbox
      /\ new.last = w.last /\ new.ahead = w.ahead /\ new.memory = w.memory
  BY <1>2, <1>3, Zenon DEF IsWorker
<1>5. Launched = new
  BY <1>1, <1>2 DEF Launched
<1> QED BY <1>1, <1>4, <1>5, DeadFields

LEMMA Connecting ==
    ASSUME NEW s, IsSession(s), s.open, s.usable, s.next = 1, s.pending = 0,
           s.result = None, s.thread = "write", s.reply = None,
           s.call \in Requests, s.call # None, s.call.id = 0,
           s.call.method = "hello"
    PROVE  Session(s, Launched)
<1>3. Held(s, Launched) = {}
  BY LaunchedFields, NothingHeld
<1>4. Correlated(s, Launched)
  BY <1>3 DEF Correlated
<1>5. Shaped(s, Launched)
  <2>1. /\ Launched.outbox \in Seq(Frames) /\ Launched.ahead \in BOOLEAN
        /\ Launched.last = None /\ IsWorker(Launched)
    <3>1. FALSE \in BOOLEAN /\ <<>> \in Seq(Frames)
      OBVIOUS
    <3> QED BY <3>1, LaunchedFields, Zenon
  <2> QED BY <2>1 DEF Shaped
<1>6. Living(s, Launched)
  BY LaunchedFields, NoneIsNone DEF Living, Streamed, Results
<1> QED BY <1>4, <1>5, <1>6 DEF Session

\* What is held shrinks, and nothing else that correlation reads has changed.
LEMMA StillCorrelated ==
    ASSUME NEW s, NEW w, NEW s2, NEW w2, Correlated(s, w),
           Held(s2, w2) \subseteq Held(s, w),
           s2.next = s.next, s2.pending = s.pending, s2.call = s.call,
           s2.stream = s.stream,
           s.thread # "write" => s2.thread # "write",
           w.inbox = None => w2.inbox = None,
           w2.memory = w.memory, w2.ahead = w.ahead
    PROVE  Correlated(s2, w2)
BY DEF Correlated, Current

\* Nothing that was written for a request could be taken for an answer.
Stale(s, f) == f.run # None => f.id < s.next /\ ~Current(s, f)

LEMMA NothingCurrent ==
    ASSUME NEW s, NEW w,
           \A f \in Held(s, w) :
              (f.run = None => w.ahead = TRUE) /\ Stale(s, f)
    PROVE  Correlated(s, w)
BY DEF Correlated, Stale

\* And no request the worker has still to read.
LEMMA NoneUnread ==
    ASSUME NEW s, NEW w, Session(s, w), s.call = None, w.inbox # None
    PROVE  /\ w.ahead # FALSE /\ w.inbox \in Requests
           /\ w.inbox.id < s.next /\ ~Current(s, w.inbox)
BY DEF Session, Living

LEMMA HeldTyped ==
    ASSUME NEW s, NEW w, Shaped(s, w), NEW f \in Held(s, w)
    PROVE  f \in Frames
BY DEF Shaped, Held

-----------------------------------------------------------------------------
(* An exchange begins: a new request, or a decision within a stream.       *)
LEMMA LimitedFields ==
    ASSUME NEW s, NEW deadline, NEW base, IsSession(s), base = Limited(s, deadline)
    PROVE  /\ IsSession(base) /\ (base.open <=> s.open) /\ (base.usable <=> s.usable)
           /\ base.next = s.next /\ base.pending = s.pending
           /\ base.deadline = deadline /\ base.result = None
           /\ base.call = s.call /\ base.stream = s.stream /\ base.reply = s.reply
           /\ base.thread = s.thread
<1>1. base = [s EXCEPT !.deadline = deadline, !.result = None, !.answer = None]
  BY DEF Limited
<1> QED BY <1>1, Zenon DEF IsSession

HandedStream(s, method, stopping) ==
    CASE method = "decide" ->
           [s.stream EXCEPT !.awaiting = FALSE, !.stopped = stopping]
      [] method = "execute_stream" ->
           [count |-> 0, awaiting |-> FALSE, stopped |-> FALSE]
      [] OTHER -> None

LEMMA HandedFields ==
    ASSUME NEW s, NEW method, NEW run, NEW stopping, NEW new, IsSession(s),
           new = Handed(s, method, run, stopping)
    PROVE  /\ IsSession(new) /\ (new.open <=> s.open) /\ (new.usable <=> s.usable)
           /\ new.deadline = s.deadline /\ new.result = s.result
           /\ new.thread = "write" /\ new.reply = s.reply
           /\ new.stream = HandedStream(s, method, stopping)
           /\ new.call = Request(new.pending, method, run, stopping,
                                 IF method = "decide" THEN s.stream.count ELSE 0)
           /\ method = "decide" => new.pending = s.pending /\ new.next = s.next
           /\ method # "decide" => new.pending = s.next /\ new.next = s.next + 1
<1>1. PICK begun : begun = IF method = "decide" THEN s ELSE BeginRequest(s)
  OBVIOUS
<1>2. PICK stream : stream = HandedStream(s, method, stopping)
  OBVIOUS
<1>3. PICK call : call = Request(begun.pending, method, run, stopping,
                                 IF method = "decide" THEN s.stream.count ELSE 0)
  OBVIOUS
<1>4. new = [begun EXCEPT !.call = call, !.thread = "write", !.stream = stream]
  BY <1>1, <1>2, <1>3 DEF Handed, HandedStream
<1>5. /\ IsSession(begun) /\ begun.open = s.open /\ begun.usable = s.usable
      /\ begun.deadline = s.deadline /\ begun.result = s.result
      /\ begun.reply = s.reply
      /\ method = "decide" => begun.pending = s.pending /\ begun.next = s.next
      /\ method # "decide" => begun.pending = s.next /\ begun.next = s.next + 1
  <2>1. CASE method = "decide"
    <3>1. begun = s
      BY <1>1, <2>1
    <3> QED BY <2>1, <3>1, Zenon
  <2>2. CASE method # "decide"
    <3>1. begun = [s EXCEPT !.pending = s.next, !.next = s.next + 1]
      BY <1>1, <2>2 DEF BeginRequest
    <3>2. /\ IsSession(begun) /\ begun.open = s.open /\ begun.usable = s.usable
          /\ begun.deadline = s.deadline /\ begun.result = s.result
          /\ begun.reply = s.reply
          /\ begun.pending = s.next /\ begun.next = s.next + 1
      BY <3>1, Zenon DEF IsSession
    <3> QED BY <2>2, <3>2, Zenon
  <2> QED BY <2>1, <2>2, Zenon
<1>6. /\ IsSession(new) /\ new.open = begun.open /\ new.usable = begun.usable
      /\ new.deadline = begun.deadline /\ new.result = begun.result
      /\ new.reply = begun.reply
      /\ new.pending = begun.pending /\ new.next = begun.next
      /\ new.thread = "write" /\ new.stream = stream /\ new.call = call
  BY <1>4, <1>5, Zenon DEF IsSession
<1> QED BY <1>2, <1>3, <1>5, <1>6, Zenon

LEMMA AnsweredStream ==
    ASSUME NEW t \in Streams, NEW stopping \in BOOLEAN, NEW u,
           u = [t EXCEPT !.awaiting = FALSE, !.stopped = stopping]
    PROVE  u \in Streams /\ u.count = t.count
<1>1. /\ t = [count |-> t.count, awaiting |-> t.awaiting, stopped |-> t.stopped]
      /\ t.count \in Nat
  BY DEF Streams
<1>2. u = [count |-> t.count, awaiting |-> FALSE, stopped |-> stopping]
  BY <1>1, Zenon
<1> QED BY <1>1, <1>2, Zenon DEF Streams

LEMMA HandedStreamFields ==
    ASSUME NEW s, NEW method, NEW stopping \in BOOLEAN, NEW stream,
           stream = HandedStream(s, method, stopping),
           method = "decide" => s.stream \in Streams
    PROVE  /\ method = "decide" => stream \in Streams /\ stream.count = s.stream.count
           /\ method = "execute_stream" => stream \in Streams /\ stream.count = 0
<1>1. ASSUME method = "decide"
      PROVE  stream \in Streams /\ stream.count = s.stream.count
  <2>1. PICK t : t = s.stream
    OBVIOUS
  <2>2. stream = [t EXCEPT !.awaiting = FALSE, !.stopped = stopping]
    BY <1>1, <2>1 DEF HandedStream
  <2>3. t \in Streams
    BY <1>1, <2>1
  <2> QED BY <2>1, <2>2, <2>3, AnsweredStream, ZenonT(40)
<1>2. ASSUME method = "execute_stream" PROVE stream \in Streams /\ stream.count = 0
  BY <1>2 DEF HandedStream, Streams
<1> QED BY <1>1, <1>2

LEMMA RequestFields ==
    ASSUME NEW id, NEW method, NEW run, NEW stopping, NEW n, NEW q,
           q = Request(id, method, run, stopping, n)
    PROVE  /\ q.id = id /\ q.method = method /\ q.run = run
           /\ q.stopping = stopping /\ q.n = n
           /\ id \in Nat /\ method \in Methods /\ run \in Runs
              /\ stopping \in BOOLEAN /\ n \in Nat => q \in Requests
BY DEF Request, Requests

LEMMA HeldTogether ==
    ASSUME NEW s, NEW w, NEW s2, NEW w2, s2.reply = s.reply,
           w2.outbox = w.outbox, w2.last = w.last
    PROVE  Held(s2, w2) = Held(s, w)
BY DEF Held

LEMMA Asking ==
    ASSUME NEW s, NEW w, NEW new, Session(s, w), s.open, s.call = None,
           NEW method \in Methods, NEW run \in Runs, NEW stopping \in BOOLEAN,
           NEW n \in Nat,
           IsSession(new), new.open, new.usable,
           new.result = None, new.thread = "write", new.reply = s.reply,
           new.call = Request(new.pending, method, run, stopping, n),
           method \in Streamed => new.stream \in Streams /\ new.stream.count = n,
           method = "decide" <=> s.pending # None,
           method = "decide" =>
              new.pending = s.pending /\ new.next = s.next /\ n = s.stream.count,
           method # "decide" =>
              new.pending = s.next /\ new.next = s.next + 1
    PROVE  Session(new, w)
<1>1. Shaped(s, w) /\ Living(s, w) /\ Correlated(s, w)
  BY DEF Session
<1>2. new.pending \in Nat /\ new.next \in Nat /\ new.pending < new.next
  BY <1>1, NoneIsNone DEF Shaped, Living
<1>3. /\ new.call \in Requests /\ new.call # None /\ new.call.id = new.pending
      /\ new.call.method = method /\ new.call.n = n
  BY <1>2, RequestFields, NoneIsNone
<1>4. ASSUME NEW f, f.id \in Nat, f.id < s.next, ~Current(s, f)
      PROVE  f.id < new.next /\ ~Current(new, f)
  <2>1. CASE method = "decide"
    BY <1>3, <1>4, <2>1 DEF Current, Streamed
  <2>2. CASE method # "decide"
    BY <1>1, <1>4, <2>2 DEF Current, Shaped
  <2> QED BY <2>1, <2>2
<1>5. Shaped(new, w)
  BY <1>1, <1>2, <1>3 DEF Shaped
<1>6. Living(new, w)
  <2>1. ASSUME w.inbox # None
        PROVE  /\ w.ahead # FALSE /\ w.inbox \in Requests
               /\ w.inbox.id < new.next /\ ~Current(new, w.inbox)
    <3>1. /\ w.ahead # FALSE /\ w.inbox \in Requests
          /\ w.inbox.id < s.next /\ ~Current(s, w.inbox)
      BY <2>1, NoneUnread
    <3>2. w.inbox.id \in Nat
      BY <3>1 DEF Requests
    <3> QED BY <1>4, <3>1, <3>2
  <2> QED BY <1>1, <1>2, <1>3, <2>1, NoneIsNone DEF Living, Streamed, Results
<1>7. Held(new, w) = Held(s, w)
  BY HeldTogether
<1>8. ASSUME NEW f \in Held(s, w)
      PROVE  (f.run = None => w.ahead = TRUE) /\ Stale(new, f)
  <2>1. f.id \in Nat
    BY <1>1, HeldTyped DEF Frames
  <2>2. /\ f.run = None => w.ahead = TRUE
        /\ f.run # None => f.id < s.next /\ ~Current(s, f)
    BY <1>1 DEF Correlated
  <2> QED BY <1>4, <2>1, <2>2 DEF Stale
<1>9. Correlated(new, w)
  BY <1>7, <1>8, NothingCurrent
<1> QED BY <1>5, <1>6, <1>9 DEF Session

-----------------------------------------------------------------------------
(* The protocol thread and the worker.                                     *)
LEMMA Taken ==
    ASSUME NEW s, NEW w, NEW s2, NEW w2, Session(s, w),
           IsSession(s2), IsWorker(w2), (s2.open <=> s.open), (s2.usable <=> s.usable),
           s2.next = s.next, s2.pending = s.pending, s2.deadline = s.deadline,
           s2.call = s.call, s2.result = s.result, s2.answer = s.answer,
           s2.stream = s.stream, s.open, s.thread # "joined",
           s2.thread \in {"gone", "idle"}, s.call # None,
           w2.inbox = w.inbox, w2.last = w.last, w2.ahead = w.ahead,
           w2.memory = w.memory,
           \/ /\ w.outbox # <<>> /\ s2.reply = Head(w.outbox)
              /\ w2.outbox = Tail(w.outbox)
           \/ /\ s2.reply \in {NoFrame("closed"), NoFrame("error")}
              /\ w2.outbox = w.outbox
    PROVE  Session(s2, w2)
<1>1. Shaped(s, w) /\ Living(s, w) /\ Correlated(s, w)
  BY DEF Session
<1>2. w2.outbox \in Seq(Frames) /\ (s2.reply \in Frames \/ s2.reply \in {NoFrame("closed"), NoFrame("error")})
  <2>1. w.outbox \in Seq(Frames)
    BY <1>1 DEF Shaped
  <2>2. CASE w.outbox # <<>> /\ s2.reply = Head(w.outbox) /\ w2.outbox = Tail(w.outbox)
    BY <2>1, <2>2
  <2>3. CASE w2.outbox = w.outbox /\ s2.reply \in {NoFrame("closed"), NoFrame("error")}
    BY <2>1, <2>3
  <2> QED BY <2>2, <2>3
<1>3. Shaped(s2, w2)
  BY <1>1, <1>2 DEF Shaped
<1>4. Living(s2, w2)
  BY <1>1 DEF Living, Current
<1>5. Held(s2, w2) \subseteq Held(s, w)
  <2>1. CASE w2.outbox = w.outbox /\ s2.reply \in {NoFrame("closed"), NoFrame("error")}
    BY <2>1 DEF Held
  <2>2. CASE w.outbox # <<>> /\ s2.reply = Head(w.outbox) /\ w2.outbox = Tail(w.outbox)
    <3>1. w.outbox \in Seq(Frames)
      BY <1>1 DEF Shaped
    <3>2. 1 \in DOMAIN w.outbox /\ s2.reply = w.outbox[1]
      BY <2>2, <3>1
    <3>3. \A i \in DOMAIN w2.outbox : i + 1 \in DOMAIN w.outbox /\ w2.outbox[i] = w.outbox[i + 1]
      BY <2>2, <3>1
    <3> QED BY <3>2, <3>3 DEF Held
  <2> QED BY <2>1, <2>2
<1>6. Correlated(s2, w2)
  BY <1>1, <1>5, StillCorrelated
<1> QED BY <1>3, <1>4, <1>6 DEF Session

LEMMA Writing ==
    ASSUME NEW s, NEW w, NEW s2, NEW w2, Session(s, w),
           IsSession(s2), IsWorker(w2), (s2.open <=> s.open), (s2.usable <=> s.usable),
           s2.next = s.next, s2.pending = s.pending, s2.deadline = s.deadline,
           s2.call = s.call, s2.result = s.result, s2.answer = s.answer,
           s2.stream = s.stream, s2.reply = s.reply, s.open,
           s.thread = "write", s2.thread = "read",
           s.call # None,
           w2.inbox = s.call, w2.last = w.last, w2.ahead = w.ahead,
           w2.memory = w.memory, w2.outbox = w.outbox
    PROVE  Session(s2, w2)
<1>1. Shaped(s, w) /\ Living(s, w) /\ Correlated(s, w)
  BY DEF Session
<1>2. Shaped(s2, w2)
  BY <1>1 DEF Shaped
<1>3. Living(s2, w2)
  <2>1. s.call \in Requests /\ s.call.id < s2.next
    BY <1>1, NoneIsNone DEF Living, Shaped, Requests
  <2> QED BY <1>1, <2>1 DEF Living
<1>4. Held(s2, w2) = Held(s, w)
  BY HeldTogether
<1>5. \A f \in Held(s, w) : (f.run = None => w2.ahead = TRUE) /\ Stale(s2, f)
  BY <1>1 DEF Correlated, Current, Stale
<1>6. Correlated(s2, w2)
  BY <1>4, <1>5, NothingCurrent
<1> QED BY <1>2, <1>3, <1>6 DEF Session

LEMMA Answering ==
    ASSUME NEW s, NEW w, NEW w2, Session(s, w), s.open,
           NEW q, q = w.inbox, q # None, NEW f \in Frames,
           f.id = q.id, f.n = q.n, f.run = q.run, f.method = q.method,
           IsWorker(w2), w2.inbox = None, w2.outbox = Append(w.outbox, f),
           w2.last = f, w2.ahead = w.ahead,
           q.method = "reset" /\ f.kind = "ok" => w2.memory = {}
    PROVE  Session(s, w2)
<1>1. Shaped(s, w) /\ Living(s, w) /\ Correlated(s, w)
  BY DEF Session
<1>2. /\ q \in Requests /\ q.id < s.next /\ q.run # None
      /\ Current(s, q) => q = s.call /\ s.thread # "write"
  BY <1>1, NoneIsNone DEF Living, Requests
<1>3. w.outbox \in Seq(Frames) /\ w2.outbox \in Seq(Frames)
  BY <1>1 DEF Shaped
<1>4. Shaped(s, w2)
  BY <1>1, <1>3 DEF Shaped
<1>5. Living(s, w2)
  BY <1>1 DEF Living
<1>6. \A g \in Held(s, w2) : g = f \/ g \in Held(s, w)
  <2>1. \A i \in DOMAIN w2.outbox : w2.outbox[i] = f \/ (i \in DOMAIN w.outbox /\ w2.outbox[i] = w.outbox[i])
    BY <1>3
  <2> QED BY <2>1 DEF Held
<1>7. \A g \in Held(s, w) : (g.run = None => w2.ahead = TRUE) /\ Stale(s, g)
  BY <1>1 DEF Correlated, Stale
<1>8. Current(s, f) => Current(s, q)
  BY DEF Current
<1>9. Correlated(s, w2)
  BY <1>2, <1>6, <1>7, <1>8 DEF Correlated, Stale
<1> QED BY <1>4, <1>5, <1>9 DEF Session

LEMMA WritingAhead ==
    ASSUME NEW s, NEW w, NEW w2, Session(s, w), s.open,
           NEW f \in Frames, f.run = None,
           IsWorker(w2), w2.inbox = w.inbox, w2.outbox = Append(w.outbox, f),
           w2.last = f, w2.ahead = TRUE, w2.memory = w.memory
    PROVE  Session(s, w2)
<1>1. Shaped(s, w) /\ Living(s, w) /\ Correlated(s, w)
  BY DEF Session
<1>2. w.outbox \in Seq(Frames) /\ w2.outbox \in Seq(Frames)
  BY <1>1 DEF Shaped
<1>3. Shaped(s, w2)
  BY <1>1, <1>2 DEF Shaped
<1>4. Living(s, w2)
  BY <1>1 DEF Living
<1>5. \A g \in Held(s, w2) : g = f \/ g \in Held(s, w)
  <2>1. \A i \in DOMAIN w2.outbox : w2.outbox[i] = f \/ (i \in DOMAIN w.outbox /\ w2.outbox[i] = w.outbox[i])
    BY <1>2
  <2> QED BY <2>1 DEF Held
<1>6. Correlated(s, w2)
  BY <1>1, <1>5 DEF Correlated
<1> QED BY <1>3, <1>4, <1>6 DEF Session

LEMMA Repeating ==
    ASSUME NEW s, NEW w, NEW w2, Session(s, w), s.open, w.last # None,
           IsWorker(w2), w2.inbox = w.inbox, w2.outbox = Append(w.outbox, w.last),
           w2.last = None, w2.ahead = w.ahead, w2.memory = w.memory
    PROVE  Session(s, w2)
<1>1. Shaped(s, w) /\ Living(s, w) /\ Correlated(s, w)
  BY DEF Session
<1>2. w.outbox \in Seq(Frames) /\ w.last \in Frames /\ w2.outbox \in Seq(Frames)
  BY <1>1 DEF Shaped
<1>3. Shaped(s, w2)
  BY <1>1, <1>2 DEF Shaped
<1>4. Living(s, w2)
  BY <1>1 DEF Living
<1>5. w.last \in Held(s, w)
  <2>1. w.last \notin {NoFrame("closed"), NoFrame("error")}
    BY <1>2 DEF Frames, FrameKinds, NoFrame
  <2> QED BY <2>1 DEF Held
<1>6. Held(s, w2) \subseteq Held(s, w)
  <2>1. \A i \in DOMAIN w2.outbox : w2.outbox[i] = w.last \/ (i \in DOMAIN w.outbox /\ w2.outbox[i] = w.outbox[i])
    BY <1>2
  <2> QED BY <1>5, <2>1 DEF Held
<1>7. Correlated(s, w2)
  BY <1>1, <1>6, StillCorrelated
<1> QED BY <1>3, <1>4, <1>7 DEF Session

LEMMA WorkerAside ==
    ASSUME NEW s, NEW w, NEW w2, Session(s, w), IsWorker(w2), s.open,
           w2.inbox \in {None, w.inbox}, w2.outbox = w.outbox, w2.last = w.last,
           w2.ahead = w.ahead, w2.memory = w.memory
    PROVE  Session(s, w2)
<1>1. Shaped(s, w) /\ Living(s, w) /\ Correlated(s, w)
  BY DEF Session
<1>2. Shaped(s, w2)
  BY <1>1 DEF Shaped
<1>3. Living(s, w2)
  BY <1>1 DEF Living
<1>4. Held(s, w2) = Held(s, w)
  BY HeldTogether
<1>5. Correlated(s, w2)
  BY <1>1, <1>4, StillCorrelated
<1> QED BY <1>2, <1>3, <1>5 DEF Session

-----------------------------------------------------------------------------
(* The end of an exchange: the frame that is taken answers the request.    *)
Answer(s, f) ==
    /\ f = s.reply /\ f # None /\ s.call # None
    /\ f.id = s.pending
    /\ s.call.method \in Streamed => f.n = s.stream.count
    /\ f.kind \in {"ok", "failure", "draft", "checkpoint"}

LEMMA Pending ==
    ASSUME NEW s, NEW w, Session(s, w), s.call # None
    PROVE  /\ s.pending \in Nat /\ s.pending # None /\ s.open /\ s.result = None
           /\ s.call \in Requests
           /\ s.call.method \in Streamed => s.stream \in Streams
<1>1. s.call \in Requests /\ s.pending = s.call.id /\ s.open /\ s.result = None
  BY DEF Session, Shaped, Living
<1>2. s.pending \in Nat /\ s.pending # None
  BY <1>1, NoneIsNone DEF Requests
<1> QED BY <1>1, <1>2 DEF Session, Living

LEMMA TakenAnswers ==
    ASSUME NEW s, NEW w, NEW f, Session(s, w), Answer(s, f)
    PROVE  /\ f \in Frames /\ f \in Held(s, w) /\ Current(s, f)
           /\ f.run = None => w.ahead = TRUE
           /\ f.run # None =>
                 /\ f.run = s.call.run /\ f.method = s.call.method
                 /\ w.inbox = None
                 /\ s.call.method = "reset" /\ f.kind = "ok" => w.memory = {}
<1>1. Shaped(s, w) /\ Living(s, w) /\ Correlated(s, w)
  BY DEF Session
<1>2. f \notin {NoFrame("closed"), NoFrame("error")}
  BY DEF Answer, NoFrame
<1>3. f \in Frames /\ f \in Held(s, w)
  BY <1>1, <1>2 DEF Answer, Shaped, Held
<1>4. Current(s, f)
  <2>1. s.call.method \in Streamed => s.stream \in Streams
    BY Pending DEF Answer
  <2> QED BY <1>3, <2>1 DEF Current, Answer, Frames, Streams
<1> QED BY <1>1, <1>3, <1>4 DEF Correlated

LEMMA Returning ==
    ASSUME NEW s, NEW w, NEW f, NEW s2, NEW res, Session(s, w), Answer(s, f),
           res \in {"ok", "checkpoint", "failure"}, s.thread # "joined",
           res = "checkpoint" => s.call.method \in Streamed,
           IsSession(s2), (s2.open <=> s.open), (s2.usable <=> s.usable),
           s2.next = s.next, s2.call = None, s2.reply = None, s2.result = res,
           s2.answer = [run |-> f.run, method |-> f.method],
           s2.thread = s.thread,
           s2.pending = IF res = "checkpoint" THEN s.pending ELSE None,
           res = "checkpoint" =>
              s2.stream \in Streams /\ s2.stream.count = s.stream.count + 1
    PROVE  Session(s2, w)
<1>1. Shaped(s, w) /\ Living(s, w) /\ Correlated(s, w)
  BY DEF Session
<1>2. w.ahead = FALSE => w.inbox = None
  BY TakenAnswers, ZenonT(40)
<1>3. Shaped(s2, w)
  BY <1>1 DEF Shaped
<1>4. s.open /\ s.call # None /\ s.pending # None
  BY Pending DEF Answer
<1>5. ASSUME NEW g, g.id \in Nat, g.n \in Nat, Current(s, g) => g.n = s.call.n
      PROVE  ~Current(s2, g)
  <2>1. CASE res # "checkpoint"
    BY <1>5, <2>1, NoneIsNone DEF Current
  <2>2. CASE res = "checkpoint"
    <3>1. /\ s.call.method \in Streamed /\ s.stream \in Streams
          /\ s.call.n = s.stream.count
      BY <1>1, <1>4, <2>2, Pending DEF Living
    <3>2. s.stream.count \in Nat /\ s2.pending = s.pending
      BY <2>2, <3>1 DEF Streams
    <3> QED BY <1>5, <2>2, <3>1, <3>2 DEF Current
  <2> QED BY <2>1, <2>2
<1>6. Living(s2, w)
  <2>1. s2.thread \notin {"write", "read"}
    BY <1>1 DEF Living, Answer
  <2>2. ASSUME w.inbox # None
        PROVE  /\ w.ahead # FALSE /\ w.inbox \in Requests
               /\ w.inbox.id < s2.next /\ ~Current(s2, w.inbox)
    <3>1. /\ w.ahead # FALSE /\ w.inbox \in Requests /\ w.inbox.id < s2.next
          /\ Current(s, w.inbox) => w.inbox = s.call
      BY <1>1, <1>2, <2>2 DEF Living
    <3>2. w.inbox.id \in Nat /\ w.inbox.n \in Nat
      BY <3>1 DEF Requests
    <3> QED BY <1>5, <3>1, <3>2
  <2> QED BY <1>1, <1>4, <2>1, <2>2, NoneIsNone DEF Living, Results
<1>7. ASSUME NEW g \in Held(s2, w)
      PROVE  (g.run = None => w.ahead = TRUE) /\ Stale(s2, g)
  <2>1. g \in Held(s, w)
    BY DEF Held
  <2>2. g.id \in Nat /\ g.n \in Nat
    BY <1>1, <2>1, HeldTyped DEF Frames
  <2>3. /\ g.run = None => w.ahead = TRUE
        /\ g.run # None => g.id < s.next /\ (Current(s, g) => g.n = s.call.n)
    BY <1>1, <2>1 DEF Correlated
  <2> QED BY <1>5, <2>2, <2>3 DEF Stale
<1>8. Correlated(s2, w)
  BY <1>7, NothingCurrent
<1> QED BY <1>3, <1>6, <1>8 DEF Session

LEMMA Joining ==
    ASSUME NEW s, NEW w, NEW f, NEW s2, Session(s, w), Answer(s, f),
           s.call.method = "shutdown",
           IsSession(s2), (s2.open <=> s.open), (s2.usable <=> s.usable),
           s2.next = s.next, s2.call = s.call, s2.reply = None,
           s2.result = s.result, s2.stream = s.stream, s2.pending = s.pending,
           s2.answer = [run |-> f.run, method |-> f.method],
           s2.thread = "joined"
    PROVE  Session(s2, w)
<1>1. Shaped(s, w) /\ Living(s, w) /\ Correlated(s, w)
  BY DEF Session
<1>2. Fits(s2.answer, s.call)
  <2>1. s2.answer.run = f.run /\ s2.answer.method = f.method
    OBVIOUS
  <2>2. f.run # None => f.run = s.call.run /\ f.method = s.call.method
    BY TakenAnswers, Zenon
  <2> QED BY <2>1, <2>2 DEF Fits
<1>3. Shaped(s2, w)
  BY <1>1 DEF Shaped
<1>4. s.open /\ s.call # None /\ s.result = None
  BY <1>1 DEF Living, Answer
<1>5. Living(s2, w)
  BY <1>1, <1>2, <1>4, NoneIsNone DEF Living, Results, Current
<1>6. Held(s2, w) \subseteq Held(s, w)
  BY DEF Held
<1>7. Correlated(s2, w)
  BY <1>1, <1>6, StillCorrelated
<1> QED BY <1>3, <1>5, <1>7 DEF Session

LEMMA Consuming ==
    ASSUME NEW s, NEW w, NEW s2, NEW w2, Session(s, w), s.result # None,
           IsSession(s2), (s2.open <=> s.open), (s2.usable <=> s.usable),
           s2.next = s.next, s2.call = s.call, s2.reply = s.reply,
           s2.stream = s.stream, s2.pending = s.pending, s2.thread = s.thread,
           s2.result = None, s2.deadline \in {None, s.deadline},
           IsWorker(w2), w2.inbox = w.inbox, w2.outbox = w.outbox,
           w2.last = w.last, w2.ahead = w.ahead, w2.memory = w.memory,
           w = Dead => w2 = Dead
    PROVE  Session(s2, w2)
<1>1. Shaped(s, w) /\ Living(s, w) /\ Correlated(s, w)
  BY DEF Session
<1>2. Shaped(s2, w2)
  BY <1>1 DEF Shaped
<1>3. s.call = None
  BY <1>1 DEF Living
<1>4. Living(s2, w2)
  BY <1>1, <1>3, NoneIsNone DEF Living, Results, Current
<1>5. Held(s2, w2) = Held(s, w)
  BY HeldTogether
<1>6. Correlated(s2, w2)
  BY <1>1, <1>5, StillCorrelated
<1> QED BY <1>2, <1>4, <1>6 DEF Session

-----------------------------------------------------------------------------
(***************************************************************************)
(* The lane around its sessions.                                           *)
(***************************************************************************)
LEMMA SlotFacts ==
    ASSUME Shape
    PROVE  /\ Terms.mode \in {"one_shot", "buffered", "stream"}
           /\ Terms.warmups \in Nat
           /\ at \in Runs /\ at # None
           /\ [key |-> Key, spec |-> Slot.spec] # None
<1>1. plan \in Plans /\ at[1] \in DOMAIN plan
  BY DEF Shape
<1>2. /\ Key \in DOMAIN Policy
      /\ {at[1]} \X (0..Terms.warmups) \subseteq Runs
      /\ [key |-> Key, spec |-> Slot.spec] # None
  BY <1>1, PlansAssumption DEF Key, Slot, Terms
<1>3. at \in {at[1]} \X (0..Terms.warmups)
  BY DEF Shape
<1>4. at \in Runs /\ at # None
  BY <1>2, <1>3, NoneIsNone
<1> QED BY <1>2, <1>4, PolicyAssumption DEF Terms

LEMMA Who ==
    I \in Roles /\ E \in Roles /\ I # E /\ E = "evaluator"
    /\ (Borrowed => I = "pooled") /\ (~Borrowed => I = "owned")
BY DEF I, E, Roles

LEMMA SameSlot ==
    ASSUME plan' = plan, at'[1] = at[1]
    PROVE  /\ Slot' = Slot /\ Key' = Key /\ Terms' = Terms /\ I' = I
           /\ (Borrowed' <=> Borrowed) /\ ExecuteMethod' = ExecuteMethod
<1>1. Slot' = Slot
  BY DEF Slot
<1>2. Key' = Key /\ Terms' = Terms
  BY <1>1 DEF Key, Terms
<1> QED BY <1>1, <1>2 DEF I, Borrowed, ExecuteMethod

LEMMA SameTurn ==
    ASSUME plan' = plan, at' = at, pc' = pc
    PROVE  /\ \A r : Turn(r)' <=> Turn(r)
           /\ \A m : Asks(m)' <=> Asks(m)
BY SameSlot DEF Turn, Asks, E

-----------------------------------------------------------------------------
(* What happens to an exchange, with the lane looking on.                  *)
SameCall(s, s2) ==
    /\ s2.open => s.open
    /\ s2.call = s.call /\ s2.result = s.result /\ s2.pending = s.pending
    /\ s2.deadline = s.deadline
    /\ s.call = None => s2.answer = s.answer

InTime(r, s) == r \notin late /\ (s.deadline \in passed => s.call.stopping)

\* What a process that never wrote ahead learns, or has forgotten.
Learns(s, w, w2) ==
    w2.ahead = FALSE =>
        /\ w.ahead = FALSE
        /\ s.call = None => w2.memory = w.memory
        /\ \A x \in w2.memory :
              x \in w.memory \/ (s.call.method = "prepare" /\ x = s.call.run)

Forgets(w, w2) ==
    w2.memory = {} \/ (w2.memory = w.memory /\ w2.ahead = w.ahead)

Continues(s, w, s2, w2) ==
    /\ SameCall(s, s2)
    /\ s2.thread = "joined" <=> s.thread = "joined"
    /\ late \subseteq late'
    /\ Learns(s, w, w2)

Joins(r, s, w, s2, w2) ==
    /\ SameCall(s, s2) /\ s.call # None /\ InTime(r, s)
    /\ Forgets(w, w2)

Loses(s, w, s2, w2) ==
    /\ s.call # None /\ s2.call = None /\ s2.result \in Failing
    /\ s2.pending = None /\ s2.deadline = None /\ ~s2.open /\ w2.memory = {}

Returns(r, s, w, s2, w2) ==
    /\ s.call # None /\ s2.call = None
    /\ s2.result \in {"ok", "checkpoint", "failure"}
    /\ Fits(s2.answer, s.call)
    /\ s2.open => s.open
    /\ s2.result = "ok" /\ s.call.method = "shutdown" => ~s2.open
    /\ s2.deadline \in {None, s.deadline}
    /\ Forgets(w, w2)
    /\ s2.result = "checkpoint" => s.call.method \in Streamed
    /\ s2.result # "checkpoint" => s2.pending = None
    /\ s2.result = "ok" /\ s.call.method = "reset" => Remembers(w2, {})
    /\ \/ s2.result = "ok" /\ s.call.method \in Streamed
       \/ s.thread = "joined" /\ s.call.method = "shutdown"
       \/ InTime(r, s)

Exchange(r) ==
    LET s == session[r]   s2 == session'[r]
        w == worker[r]    w2 == worker'[r]
    IN /\ \/ Continues(s, w, s2, w2)
          \/ Joins(r, s, w, s2, w2)
          \/ Loses(s, w, s2, w2)
          \/ Returns(r, s, w, s2, w2)
       /\ Session(s2, w2)
       /\ DOMAIN session' = Roles /\ DOMAIN worker' = Roles
       /\ \A q \in Roles : q # r => session'[q] = session[q] /\ worker'[q] = worker[q]
       /\ late \ {r} \subseteq late' /\ passed' = passed

SameLane ==
    /\ plan' = plan /\ pc' = pc /\ at' = at /\ retained' = retained
    /\ open' = open /\ files' = files /\ history' = history

TreeStep == tree' = tree \/ tree' = [tree EXCEPT !.judged = tree.now]

LEMMA ExchangePlaced ==
    ASSUME IInv, NEW r \in Roles, Exchange(r), SameLane
    PROVE  \A q \in Roles : Placed(q, session[q])'
<1>1. /\ \A q : Turn(q)' <=> Turn(q)
      /\ \A m : Asks(m)' <=> Asks(m)
      /\ I' = I /\ Terms' = Terms
  BY SameTurn, SameSlot DEF SameLane
<1>2. pc' = pc /\ at' = at /\ (open' <=> open)
  BY DEF SameLane
<1>3. SUFFICES ASSUME NEW q \in Roles PROVE Placed(q, session[q])'
  OBVIOUS
<1>4. Placed(q, session[q])
  BY DEF IInv
<1>5. CASE q # r
  <2>1. session'[q] = session[q]
    BY <1>5 DEF Exchange
  <2> QED BY <1>1, <1>2, <1>4, <2>1 DEF Placed
<1>6. CASE q = r
  <2>1. PICK s, s2, w, w2 : s = session[r] /\ s2 = session'[r] /\ w = worker[r] /\ w2 = worker'[r]
    OBVIOUS
  <2>2. Placed(r, s)
    BY <1>4, <1>6, <2>1
  <2>3. CASE SameCall(s, s2)
    <3>1. s.call # None => s.result = None
      BY <2>1, Pending DEF IInv
    <3> QED BY <1>1, <1>2, <1>6, <2>1, <2>2, <2>3, <3>1, NoneIsNone DEF Placed, SameCall, Results
  <2>4. CASE Loses(s, w, s2, w2)
    BY <1>1, <1>2, <1>6, <2>1, <2>2, <2>4, NoneIsNone DEF Placed, Loses, Results, Failing
  <2>5. CASE Returns(r, s, w, s2, w2)
    <3>1. Turn(r) /\ s.call.run = at /\ Asks(s.call.method)
      BY <2>2, <2>5 DEF Placed, Returns
    <3>2. s2.result = "checkpoint" =>
             /\ r = I /\ Terms.mode = "stream" /\ pc \in {"execute", "decide"}
      <4>1. SUFFICES ASSUME s2.result = "checkpoint"
                     PROVE  /\ r = I /\ Terms.mode = "stream"
                            /\ pc \in {"execute", "decide"}
        OBVIOUS
      <4>2. s.call.method \in Streamed
        BY <2>5, <4>1 DEF Returns
      <4>3. \/ pc = "decide"
            \/ pc = "execute" /\ ExecuteMethod \in Streamed
        BY <3>1, <4>2 DEF Asks, Streamed
      <4>4. Terms.mode = "stream"
        BY <4>3 DEF IInv, Shape, ExecuteMethod, Streamed
      <4> QED BY <3>1, <4>3, <4>4 DEF Turn, EvalSteps
    <3>3. /\ s2.call = None
          /\ s2.answer.run # None => s2.answer.run = at /\ Asks(s2.answer.method)
          /\ s2.result = "ok" /\ pc \in {"stop_impl", "stop_eval"} => ~s2.open
      BY <2>5, <3>1 DEF Returns, Fits, Asks
    <3>4. s2.pending # None => s2.result = "checkpoint"
      BY <2>5 DEF Returns
    <3>5. s2.deadline # None => r = I /\ s2.deadline = at /\ open
      BY <2>2, <2>5 DEF Returns, Placed
    <3> QED BY <1>1, <1>2, <1>6, <2>1, <3>1, <3>2, <3>3, <3>4, <3>5 DEF Placed
  <2> QED BY <2>1, <2>3, <2>4, <2>5 DEF Exchange, Continues, Joins
<1> QED BY <1>5, <1>6

LEMMA ExchangeTimed ==
    ASSUME IInv, NEW r \in Roles, Exchange(r), SameLane
    PROVE  Timed'
<1>1. I' = I /\ Terms' = Terms /\ I \in Roles
  BY SameSlot, Who DEF SameLane
<1>2. pc' = pc /\ at' = at /\ (open' <=> open)
  BY DEF SameLane
<1>3. Timed
  BY DEF IInv
<1>4. CASE r # I
  <2>1. session'[I] = session[I]
    BY <1>1, <1>4 DEF Exchange
  <2> QED BY <1>1, <1>2, <1>3, <2>1 DEF Timed
<1>5. CASE r = I
  <2>1. PICK s, s2, w, w2 : s = session[I] /\ s2 = session'[I] /\ w = worker[I] /\ w2 = worker'[I]
    OBVIOUS
  <2>2. /\ s2.call # None => s2.call = s.call /\ s2.deadline = s.deadline
        /\ (s.call # None \/ s.result # None) => (s2.call # None \/ s2.result # None)
    BY <1>5, <2>1, NoneIsNone DEF Exchange, Continues, Joins, Loses, Returns, SameCall, Results, Failing
  <2> QED BY <1>1, <1>2, <1>3, <2>1, <2>2 DEF Timed
<1> QED BY <1>4, <1>5

LEMMA ExchangeRemaining ==
    ASSUME IInv, NEW r \in Roles, Exchange(r), SameLane
    PROVE  Remaining'
<1>1. (Borrowed' <=> Borrowed) /\ Terms' = Terms /\ pc' = pc /\ retained' = retained
  BY SameSlot DEF SameLane
<1>2. \A q \in Roles : session'[q].open => session[q].open
  BY DEF Exchange, Continues, Joins, Loses, Returns, SameCall
<1>3. "owned" \in Roles /\ "pooled" \in Roles /\ E \in Roles /\ E' = E
  BY DEF Roles, E
<1> QED BY <1>1, <1>2, <1>3 DEF IInv, Remaining

LEMMA ExchangeClean ==
    ASSUME IInv, NEW r \in Roles, Exchange(r), SameLane
    PROVE  Clean'
<1>1. I' = I /\ I \in Roles /\ (Borrowed' <=> Borrowed)
  BY SameSlot, Who DEF SameLane
<1>2. pc' = pc /\ at' = at /\ files' = files
  BY DEF SameLane
<1>3. Clean
  BY DEF IInv
<1>4. CASE r # I
  <2>1. session'[I] = session[I] /\ worker'[I] = worker[I]
    BY <1>1, <1>4 DEF Exchange
  <2> QED BY <1>1, <1>2, <1>3, <2>1 DEF Clean
<1>5. CASE r = I
  <2>1. PICK s, s2, w, w2 : s = session[I] /\ s2 = session'[I] /\ w = worker[I] /\ w2 = worker'[I]
    OBVIOUS
  <2>2. s.call # None => s.call.run = at /\ Asks(s.call.method) /\ s.result = None
    BY <1>1, <2>1, Pending DEF IInv, Placed
  <2>3. ASSUME w2.ahead = FALSE, w2.memory # {}
        PROVE  /\ w.ahead = FALSE
               /\ \A x \in w2.memory :
                     x \in w.memory \/ (pc = "prepare" /\ x = at /\ s.call # None)
    <3>1. CASE Continues(s, w, s2, w2)
      BY <2>2, <2>3, <3>1 DEF Continues, Learns, Asks, ExecuteMethod
    <3>2. CASE Forgets(w, w2)
      BY <2>3, <3>2 DEF Forgets
    <3> QED BY <1>5, <2>1, <2>3, <3>1, <3>2 DEF Exchange, Joins, Loses, Returns
  <2>4. pc = "reset" /\ s2.result = "ok" => Remembers(w2, {})
    <3>1. CASE s.call = None
      <4>1. Continues(s, w, s2, w2)
        BY <1>5, <2>1, <3>1 DEF Exchange, Joins, Loses, Returns
      <4> QED BY <1>3, <2>1, <3>1, <4>1 DEF Continues, Learns, SameCall, Clean, Remembers
    <3>2. CASE s.call # None
      <4>1. SUFFICES ASSUME pc = "reset", s2.result = "ok" PROVE Remembers(w2, {})
        OBVIOUS
      <4>2. s.call.method = "reset"
        BY <2>2, <3>2, <4>1 DEF Asks
      <4>3. s.result = None
        BY <2>2, <3>2
      <4> QED BY <1>5, <2>1, <4>1, <4>2, <4>3, NoneIsNone
              DEF Exchange, Continues, Joins, Loses, Returns, SameCall, Results, Failing
    <3> QED BY <3>1, <3>2
  <2>5. pc = "launch" => Remembers(w2, {})
    BY <1>3, <2>1, <2>3 DEF Clean, Remembers
  <2>6. pc \in Working => Remembers(w2, {at})
    BY <1>3, <2>1, <2>3 DEF Clean, Remembers
  <2> QED BY <1>1, <1>2, <1>3, <2>1, <2>4, <2>5, <2>6 DEF Clean
<1> QED BY <1>4, <1>5

LEMMA ExchangeWarm ==
    ASSUME IInv, NEW r \in Roles, Exchange(r), SameLane
    PROVE  Warm'
<1>1. /\ I' = I /\ I \in Roles /\ (Borrowed' <=> Borrowed) /\ Key' = Key
      /\ Slot' = Slot /\ Terms' = Terms
  BY SameSlot, Who DEF SameLane
<1>2. pc' = pc /\ at' = at /\ retained' = retained /\ history' = history
  BY DEF SameLane
<1>3. Measured' <=> Measured
  BY <1>1, <1>2 DEF Measured
<1>4. \A k, sp : WarmFor(k, sp)' <=> WarmFor(k, sp)
  BY <1>2 DEF WarmFor
<1>5. (session'[I].call # None \/ session'[I].result = "ok") =>
         (session[I].call # None \/ session[I].result = "ok")
  BY <1>1, NoneIsNone DEF Exchange, Continues, Joins, Loses, Returns, SameCall, Results
<1>6. Warm
  BY DEF IInv
<1> QED BY <1>1, <1>2, <1>3, <1>4, <1>5, <1>6 DEF Warm

LEMMA TreeFacts ==
    ASSUME NEW t, NEW u, IsTree(t), u = [t EXCEPT !.judged = t.now]
    PROVE  IsTree(u) /\ u.restored = t.restored /\ Marked(u)
<1>1. /\ IsTree(u) /\ u.restored = t.restored
      /\ u.now = t.now /\ u.hashed = t.hashed /\ u.judged = t.now
  BY Zenon DEF IsTree
<1> QED BY <1>1 DEF Marked

LEMMA ExchangeJudged ==
    ASSUME IInv, NEW r \in Roles, Exchange(r), SameLane, TreeStep
    PROVE  Judged'
<1>1. Terms' = Terms /\ pc' = pc /\ E' = E /\ E \in Roles
  BY SameSlot, Who DEF SameLane, E
<1>2. Judged
  BY DEF IInv
<1>3. /\ IsTree(tree') /\ tree'.restored = tree.restored
      /\ (Marked(tree) => Marked(tree'))
  <2>1. IsTree(tree)
    BY <1>2 DEF Judged
  <2>2. CASE tree' = tree
    BY <2>1, <2>2
  <2>3. CASE tree' = [tree EXCEPT !.judged = tree.now]
    BY <2>1, <2>3, TreeFacts
  <2> QED BY <2>2, <2>3 DEF TreeStep
<1>4. (session'[E].call # None \/ session'[E].result # None) =>
         (session[E].call # None \/ session[E].result # None)
  BY <1>1 DEF Exchange, Continues, Joins, Loses, Returns, SameCall
<1> QED BY <1>1, <1>2, <1>3, <1>4 DEF Judged, Marked, IsTree, HashTree

LEMMA ExchangeDoomed ==
    ASSUME IInv, NEW r \in Roles, Exchange(r), SameLane
    PROVE  history'.overrun => Doomed'
<1>1. I' = I /\ Terms' = Terms /\ I \in Roles
  BY SameSlot, Who DEF SameLane
<1>2. pc' = pc /\ at' = at /\ (open' <=> open) /\ history' = history /\ passed' = passed
  BY DEF SameLane, Exchange
<1>3. SUFFICES ASSUME history.overrun PROVE Doomed'
  BY <1>2
<1>4. PICK s, s2, w, w2 : s = session[r] /\ s2 = session'[r] /\ w = worker[r] /\ w2 = worker'[r]
  OBVIOUS
<1>5. s.call # None => Turn(r) /\ Asks(s.call.method) /\ s.result = None
  BY <1>4, Pending DEF IInv, Placed
<1>6. Doomed
  BY <1>3 DEF IInv
<1>7. CASE Loses(s, w, s2, w2)
  BY <1>4, <1>7 DEF Doomed, Loses
<1>8. CASE s.call # None /\ s2.result = "ok" /\ s.call.method \in Streamed /\ s2.call = None
  <2>1. \/ pc = "decide"
        \/ pc = "execute" /\ ExecuteMethod \in Streamed
    BY <1>5, <1>8 DEF Asks, Streamed
  <2>2. Terms.mode = "stream"
    BY <2>1 DEF IInv, Shape, ExecuteMethod, Streamed
  <2>3. r = I
    BY <1>5, <1>8, <2>1 DEF Turn, EvalSteps
  <2> QED BY <1>1, <1>2, <1>4, <1>8, <2>1, <2>2, <2>3 DEF Doomed
<1>9. CASE \/ Continues(s, w, s2, w2)
           \/ Joins(r, s, w, s2, w2)
           \/ /\ Returns(r, s, w, s2, w2)
              /\ ~(s2.result = "ok" /\ s.call.method \in Streamed)
  <2>1. CASE \E q \in Roles : q \in late /\ Waiting(q)
    <3>1. PICK q \in Roles : q \in late /\ Waiting(q)
      BY <2>1
    <3>2. CASE q # r
      <4>1. session'[q] = session[q] /\ q \in late'
        BY <3>1, <3>2 DEF Exchange
      <4> QED BY <3>1, <4>1 DEF Doomed, Waiting
    <3>3. CASE q = r
      <4>1. Continues(s, w, s2, w2)
        BY <1>4, <1>9, <3>1, <3>3 DEF Joins, Returns, InTime, Waiting
      <4>2. q \in late' /\ session'[q].call = session[q].call
            /\ (session'[q].thread = "joined" <=> session[q].thread = "joined")
        BY <1>4, <3>1, <3>3, <4>1 DEF Continues, SameCall
      <4> QED BY <3>1, <4>2 DEF Doomed, Waiting
    <3> QED BY <3>2, <3>3
  <2>2. CASE \E q \in Roles : session[q].result \in Failing
    <3>1. PICK q \in Roles : session[q].result \in Failing
      BY <2>2
    <3>2. session'[q].result = session[q].result
      <4>1. CASE q # r
        BY <4>1 DEF Exchange
      <4>2. CASE q = r
        <5>1. s.call = None
          BY <1>4, <1>5, <3>1, <4>2, NoneIsNone DEF Failing, Results
        <5> QED BY <1>4, <1>9, <4>2, <5>1 DEF Continues, Joins, Returns, SameCall
      <4> QED BY <4>1, <4>2
    <3> QED BY <3>1, <3>2 DEF Doomed
  <2>3. CASE open /\ at \in passed /\ session[I].result # "checkpoint"
    <3>1. session'[I].result # "checkpoint"
      <4>1. CASE r # I
        BY <1>1, <2>3, <4>1 DEF Exchange
      <4>2. CASE r = I
        <5>1. CASE s.call = None
          BY <1>4, <1>9, <2>3, <4>2, <5>1 DEF Continues, Joins, Returns, SameCall
        <5>2. CASE s.call # None
          <6>1. s.deadline = at /\ ~s.call.stopping /\ pc \in {"launch", "prepare", "execute", "decide"}
            BY <1>4, <2>3, <4>2, <5>2 DEF IInv, Timed
          <6>2. ~InTime(r, s)
            BY <2>3, <6>1 DEF InTime
          <6>3. s.call.method # "shutdown"
            BY <1>5, <5>2, <6>1 DEF Asks, ExecuteMethod
          <6> QED BY <1>4, <1>9, <2>3, <4>2, <6>2, <6>3 DEF Continues, Joins, Returns, SameCall
        <5> QED BY <5>1, <5>2
      <4> QED BY <4>1, <4>2
    <3> QED BY <1>1, <1>2, <2>3, <3>1 DEF Doomed
  <2>4. CASE /\ Terms.mode = "stream"
             /\ \/ pc \in {"stop_impl", "stop_eval", "finish"}
                \/ pc \in {"execute", "decide"} /\ session[I].result = "ok"
    <3>1. session[I].result = "ok" => session'[I].result = "ok"
      <4>1. CASE r # I
        BY <1>1, <4>1 DEF Exchange
      <4>2. CASE r = I
        BY <1>4, <1>5, <1>9, <4>2, NoneIsNone DEF Continues, Joins, Returns, SameCall, Results
      <4> QED BY <4>1, <4>2
    <3> QED BY <1>1, <1>2, <2>4, <3>1 DEF Doomed
  <2> QED BY <1>6, <2>1, <2>2, <2>3, <2>4 DEF Doomed
<1> QED BY <1>4, <1>7, <1>8, <1>9 DEF Exchange, Returns

LEMMA ExchangeStep ==
    ASSUME IInv, NEW r \in Roles, Exchange(r), SameLane, TreeStep
    PROVE  IInv'
<1>1. Shape'
  <2>1. Terms' = Terms
    BY SameSlot DEF SameLane
  <2> QED BY <2>1 DEF IInv, Shape, SameLane, Exchange
<1>2. ASSUME NEW q \in Roles PROVE Session(session'[q], worker'[q])
  <2>1. CASE q = r
    BY <2>1 DEF Exchange
  <2>2. CASE q # r
    BY <2>2 DEF Exchange, IInv
  <2> QED BY <2>1, <2>2
<1>3. PublishedAsJudged' /\ NothingLatePublished'
  BY DEF IInv, SameLane, PublishedAsJudged, NothingLatePublished, HashTree
<1>4. \A q \in Roles : Placed(q, session[q])'
  BY ExchangePlaced
<1>5. Timed' /\ Remaining' /\ Clean' /\ Warm' /\ Judged'
  BY ExchangeTimed, ExchangeRemaining, ExchangeClean, ExchangeWarm, ExchangeJudged
<1>6. history'.overrun => Doomed'
  BY ExchangeDoomed
<1> QED BY <1>1, <1>2, <1>3, <1>4, <1>5, <1>6 DEF IInv

-----------------------------------------------------------------------------
(* Each step of a session, as an exchange.                                 *)
LEMMA RoleUpdate ==
    ASSUME NEW f, DOMAIN f = Roles, NEW r \in Roles, NEW x, NEW g,
           g = [f EXCEPT ![r] = x]
    PROVE  /\ DOMAIN g = Roles /\ g[r] = x
           /\ \A q \in Roles : q # r => g[q] = f[q]
OBVIOUS

LEMMA DiscardFacts ==
    ASSUME IInv, NEW r \in Roles, NEW how \in Failing, Discard(r, how)
    PROVE  /\ Session(session'[r], worker'[r])
           /\ session'[r].call = None /\ session'[r].result = how
           /\ session'[r].pending = None /\ session'[r].deadline = None
           /\ ~session'[r].open /\ worker'[r].memory = {}
           /\ DOMAIN session' = Roles /\ DOMAIN worker' = Roles
           /\ \A q \in Roles : q # r => session'[q] = session[q] /\ worker'[q] = worker[q]
           /\ late \ {r} \subseteq late'
<1>1. DOMAIN session = Roles /\ DOMAIN worker = Roles
  BY DEF IInv, Shape
<1>2. PICK new : new = [NoSession EXCEPT !.result = how]
  OBVIOUS
<1>3. session' = [session EXCEPT ![r] = new] /\ worker' = [worker EXCEPT ![r] = Dead]
      /\ late' = late \ {r}
  BY <1>2 DEF Discard, Killed
<1>4. /\ session'[r] = new /\ worker'[r] = Dead
      /\ DOMAIN session' = Roles /\ DOMAIN worker' = Roles
      /\ \A q \in Roles : q # r => session'[q] = session[q] /\ worker'[q] = worker[q]
  BY <1>1, <1>3, RoleUpdate
<1>5. /\ IsSession(new) /\ ~new.open /\ ~new.usable /\ new.next = 0
      /\ new.pending = None /\ new.deadline = None /\ new.call = None
      /\ new.result = how /\ new.thread = "gone" /\ new.reply = None
  BY <1>2, NoSessionFields, ZenonT(40)
<1>6. Session(new, Dead)
  BY <1>5, Closed DEF Failing
<1> QED BY <1>3, <1>4, <1>5, <1>6, DeadFields

LEMMA DiscardExchange ==
    ASSUME IInv, NEW r \in Roles, session[r].call # None, passed' = passed,
           \E how \in Failing : Discard(r, how)
    PROVE  Exchange(r)
<1>1. PICK how \in Failing : Discard(r, how)
  OBVIOUS
<1> QED BY <1>1, DiscardFacts DEF Exchange, Loses

LEMMA OverranFails ==
    ASSUME NEW r
    PROVE  Overran(r) \subseteq Failing
BY DEF Overran, Failing

LEMMA ThreadWriteExchange ==
    ASSUME IInv, NEW r \in Roles, ThreadWrite(r)
    PROVE  Exchange(r)
<1>1. DOMAIN session = Roles /\ DOMAIN worker = Roles
  BY DEF IInv, Shape
<1>2. PICK s, w : s = session[r] /\ w = worker[r]
  OBVIOUS
<1>3. Session(s, w) /\ IsSession(s) /\ IsWorker(w)
  BY <1>2 DEF IInv, Session, Shaped
<1>4. s.thread = "write" /\ s.call # None /\ s.open /\ s.reply = None
      /\ late' = late /\ passed' = passed
  BY <1>2, <1>3 DEF ThreadWrite, Session, Living
<1>5. CASE w.alive
  <2>1. PICK w2 : w2 = [w EXCEPT !.inbox = s.call]
    OBVIOUS
  <2>2. PICK s2 : s2 = [s EXCEPT !.thread = "read"]
    OBVIOUS
  <2>3. worker' = [worker EXCEPT ![r] = w2] /\ session' = [session EXCEPT ![r] = s2]
    BY <1>1, <1>2, <1>5, <2>1, <2>2 DEF ThreadWrite
  <2>4. /\ IsWorker(w2) /\ w2.inbox = s.call /\ w2.outbox = w.outbox
        /\ w2.last = w.last /\ w2.ahead = w.ahead /\ w2.memory = w.memory
    BY <1>3, <2>1, Zenon DEF IsWorker
  <2>5. /\ IsSession(s2) /\ s2.open = s.open /\ s2.usable = s.usable
        /\ s2.next = s.next /\ s2.pending = s.pending /\ s2.deadline = s.deadline
        /\ s2.call = s.call /\ s2.result = s.result /\ s2.answer = s.answer
        /\ s2.stream = s.stream /\ s2.reply = s.reply /\ s2.thread = "read"
    BY <1>3, <2>2, Zenon DEF IsSession
  <2>6. Session(s2, w2)
    BY <1>3, <1>4, <2>4, <2>5, Writing
  <2>7. /\ session'[r] = s2 /\ worker'[r] = w2
        /\ DOMAIN session' = Roles /\ DOMAIN worker' = Roles
        /\ \A q \in Roles : q # r => session'[q] = session[q] /\ worker'[q] = worker[q]
    BY <1>1, <2>3, RoleUpdate
  <2>8. Continues(s, w, s2, w2)
    BY <1>4, <2>4, <2>5 DEF Continues, Learns, SameCall
  <2> QED BY <1>2, <1>4, <2>6, <2>7, <2>8 DEF Exchange
<1>6. CASE ~w.alive
  <2>1. PICK reply : reply = NoFrame("error")
    OBVIOUS
  <2>2. PICK s2 : s2 = [s EXCEPT !.thread = "gone", !.reply = reply]
    OBVIOUS
  <2>3. worker' = worker /\ session' = [session EXCEPT ![r] = s2]
    BY <1>1, <1>2, <1>6, <2>1, <2>2 DEF ThreadWrite
  <2>5. /\ IsSession(s2) /\ s2.open = s.open /\ s2.usable = s.usable
        /\ s2.next = s.next /\ s2.pending = s.pending /\ s2.deadline = s.deadline
        /\ s2.call = s.call /\ s2.result = s.result /\ s2.answer = s.answer
        /\ s2.stream = s.stream /\ s2.reply = reply /\ s2.thread = "gone"
    BY <1>3, <2>2, Zenon DEF IsSession
  <2>6. Session(s2, w)
    BY <1>3, <1>4, <2>1, <2>5, Taken
  <2>7. /\ session'[r] = s2 /\ worker'[r] = w
        /\ DOMAIN session' = Roles /\ DOMAIN worker' = Roles
        /\ \A q \in Roles : q # r => session'[q] = session[q] /\ worker'[q] = worker[q]
    BY <1>1, <1>2, <2>3, RoleUpdate
  <2>8. Continues(s, w, s2, w)
    BY <1>4, <2>5 DEF Continues, Learns, SameCall
  <2> QED BY <1>2, <1>4, <2>6, <2>7, <2>8 DEF Exchange
<1> QED BY <1>5, <1>6

LEMMA ThreadReadExchange ==
    ASSUME IInv, NEW r \in Roles, ThreadRead(r)
    PROVE  Exchange(r)
<1>1. DOMAIN session = Roles /\ DOMAIN worker = Roles
  BY DEF IInv, Shape
<1>2. PICK s, w : s = session[r] /\ w = worker[r]
  OBVIOUS
<1>3. Session(s, w) /\ IsSession(s) /\ IsWorker(w)
  BY <1>2 DEF IInv, Session, Shaped
<1>4. s.thread = "read" /\ s.call # None /\ s.open /\ s.reply = None
      /\ late' = late /\ passed' = passed
  BY <1>2, <1>3 DEF ThreadRead, Session, Living
<1>5. PICK frame : frame = Incoming(w)
  OBVIOUS
<1>6. PICK thread : thread = IF WellFormed(frame) THEN "idle" ELSE "gone"
  OBVIOUS
<1>7. PICK outbox : outbox = IF w.outbox = <<>> THEN w.outbox ELSE Tail(w.outbox)
  OBVIOUS
<1>8. PICK s2 : s2 = [s EXCEPT !.thread = thread, !.reply = frame]
  OBVIOUS
<1>9. PICK w2 : w2 = [w EXCEPT !.outbox = outbox]
  OBVIOUS
<1>10. worker' = [worker EXCEPT ![r] = w2] /\ session' = [session EXCEPT ![r] = s2]
  BY <1>1, <1>2, <1>5, <1>6, <1>7, <1>8, <1>9 DEF ThreadRead
<1>11. /\ IsWorker(w2) /\ w2.inbox = w.inbox /\ w2.outbox = outbox
       /\ w2.last = w.last /\ w2.ahead = w.ahead /\ w2.memory = w.memory
  BY <1>3, <1>9, Zenon DEF IsWorker
<1>12. /\ IsSession(s2) /\ s2.open = s.open /\ s2.usable = s.usable
       /\ s2.next = s.next /\ s2.pending = s.pending /\ s2.deadline = s.deadline
       /\ s2.call = s.call /\ s2.result = s.result /\ s2.answer = s.answer
       /\ s2.stream = s.stream /\ s2.reply = frame /\ s2.thread = thread
  BY <1>3, <1>8, Zenon DEF IsSession
<1>13. Session(s2, w2)
  <2>1. thread \in {"gone", "idle"}
    BY <1>6
  <2>2. CASE w.outbox = <<>>
    BY <1>3, <1>4, <1>5, <1>7, <1>11, <1>12, <2>1, <2>2, Taken DEF Incoming
  <2>3. CASE w.outbox # <<>>
    BY <1>3, <1>4, <1>5, <1>7, <1>11, <1>12, <2>1, <2>3, Taken DEF Incoming
  <2> QED BY <2>2, <2>3
<1>14. /\ session'[r] = s2 /\ worker'[r] = w2
       /\ DOMAIN session' = Roles /\ DOMAIN worker' = Roles
       /\ \A q \in Roles : q # r => session'[q] = session[q] /\ worker'[q] = worker[q]
  BY <1>1, <1>10, RoleUpdate
<1>15. Continues(s, w, s2, w2)
  BY <1>4, <1>6, <1>11, <1>12 DEF Continues, Learns, SameCall
<1> QED BY <1>2, <1>4, <1>13, <1>14, <1>15 DEF Exchange

LEMMA TimesOutExchange ==
    ASSUME IInv, NEW r \in Roles, TimesOut(r)
    PROVE  Exchange(r)
<1>1. session[r].call # None /\ passed' = passed /\ \E how \in Overran(r) : Discard(r, how)
  BY DEF TimesOut, Waiting
<1> QED BY <1>1, OverranFails, DiscardExchange

LEMMA ShutdownLateExchange ==
    ASSUME IInv, NEW r \in Roles, ShutdownLate(r)
    PROVE  Exchange(r)
<1>1. session[r].call # None
  BY DEF IInv, Session, Living, ShutdownLate
<1>2. passed' = passed /\ Discard(r, "lost") /\ "lost" \in Failing
  BY DEF ShutdownLate, Failing
<1> QED BY <1>1, <1>2, DiscardExchange

LEMMA ShutdownExitsExchange ==
    ASSUME IInv, NEW r \in Roles, ShutdownExits(r)
    PROVE  Exchange(r)
<1>1. DOMAIN session = Roles /\ DOMAIN worker = Roles
  BY DEF IInv, Shape
<1>2. PICK s, w : s = session[r] /\ w = worker[r]
  OBVIOUS
<1>3. /\ Session(s, w) /\ s.thread = "joined" /\ s.call # None /\ s.open
      /\ s.call.method = "shutdown"
      /\ Fits(s.answer, s.call)
  BY <1>2 DEF IInv, Session, Living, ShutdownExits
<1>4. PICK status \in {"ok", "lost"} :
         session' = [session EXCEPT ![r] =
            [NoSession EXCEPT !.result = status, !.answer = session[r].answer]]
  BY DEF ShutdownExits
<1>5. PICK none : none = [NoSession EXCEPT !.result = status]
  OBVIOUS
<1>6. PICK s2 : s2 = [none EXCEPT !.answer = s.answer]
  OBVIOUS
<1>7. session' = [session EXCEPT ![r] = s2]
  BY <1>2, <1>4, <1>5, <1>6
<1>8. /\ IsSession(none) /\ ~none.open /\ ~none.usable /\ none.next = 0
      /\ none.pending = None /\ none.deadline = None /\ none.call = None
      /\ none.result = status /\ none.thread = "gone" /\ none.reply = None
  BY <1>5, NoSessionFields, ZenonT(40)
<1>9. /\ IsSession(s2) /\ s2.open = none.open /\ s2.usable = none.usable
      /\ s2.next = none.next /\ s2.pending = none.pending
      /\ s2.deadline = none.deadline /\ s2.call = none.call
      /\ s2.result = none.result /\ s2.thread = none.thread
      /\ s2.reply = none.reply /\ s2.answer = s.answer
  BY <1>6, <1>8, Zenon DEF IsSession
<1>10. /\ IsSession(s2) /\ ~s2.open /\ ~s2.usable /\ s2.next = 0
       /\ s2.pending = None /\ s2.deadline = None /\ s2.call = None
       /\ s2.result = status /\ s2.thread = "gone" /\ s2.reply = None
       /\ s2.answer = s.answer
  BY <1>8, <1>9, Zenon
<1>11. Session(s2, Dead)
  BY <1>10, Closed
<1>12. worker' = [worker EXCEPT ![r] = Dead] /\ late' = late \ {r} /\ passed' = passed
  BY DEF ShutdownExits
<1>13. /\ session'[r] = s2 /\ worker'[r] = Dead
       /\ DOMAIN session' = Roles /\ DOMAIN worker' = Roles
       /\ \A q \in Roles : q # r => session'[q] = session[q] /\ worker'[q] = worker[q]
  BY <1>1, <1>7, <1>12, RoleUpdate
<1>14. CASE status = "ok"
  <2>1. Returns(r, s, w, s2, Dead)
    BY <1>3, <1>10, <1>14, DeadFields DEF Returns, Forgets, Remembers
  <2> QED BY <1>2, <1>11, <1>12, <1>13, <2>1 DEF Exchange
<1>15. CASE status = "lost"
  <2>1. Loses(s, w, s2, Dead)
    BY <1>3, <1>10, <1>15, DeadFields DEF Loses, Failing
  <2> QED BY <1>2, <1>11, <1>12, <1>13, <2>1 DEF Exchange
<1> QED BY <1>14, <1>15

\* The frame that an exchange takes carries the pending request's identifier,
\* and all but the last frame of a stream are taken in time.
LEMMA TakenInTime ==
    ASSUME IInv, NEW r \in Roles, NEW s, NEW f, NEW res, s = session[r], f = s.reply,
           f # None, s.call # None,
           \/ res = "ok" /\ (TakesSuccess(r, f) \/ TakesTerminal(r, f))
           \/ res = "checkpoint" /\ TakesCheckpoint(r, f)
           \/ res = "failure" /\ TakesFailure(r, f)
    PROVE  /\ Answer(s, f)
           /\ res = "checkpoint" => s.call.method \in Streamed
           /\ s.call.method = "reset" /\ res = "ok" => f.kind = "ok"
           /\ InTime(r, s) \/ (res = "ok" /\ s.call.method \in Streamed)
<1>1. ~LimitPassed(r) => InTime(r, s)
  BY DEF LimitPassed, Overran, InTime
<1>2. CASE res = "ok" /\ TakesSuccess(r, f)
  BY <1>1, <1>2 DEF TakesSuccess, Decodes, Finalizes, Draftable, CompleteResponse, Answer
<1>3. CASE res = "ok" /\ TakesTerminal(r, f)
  BY <1>3 DEF TakesTerminal, Decodes, CompleteResponse, Answer, Streamed
<1>4. CASE res = "checkpoint" /\ TakesCheckpoint(r, f)
  BY <1>1, <1>4 DEF TakesCheckpoint, NextCheckpoint, CompleteResponse, Answer
<1>5. CASE res = "failure" /\ TakesFailure(r, f)
  BY <1>1, <1>5 DEF TakesFailure, DecodesFailure, CompleteResponse, Answer
<1> QED BY <1>2, <1>3, <1>4, <1>5

HasReturned(s, f, res, stream, answer, new) ==
    /\ answer = [run |-> f.run, method |-> f.method]
    /\ new = [Returned(s, f, res) EXCEPT !.stream = stream]

LEMMA ReturnedFields ==
    ASSUME NEW s, NEW f, NEW res, NEW stream, NEW answer, NEW new, IsSession(s),
           HasReturned(s, f, res, stream, answer, new)
    PROVE  /\ IsSession(new) /\ (new.open <=> s.open) /\ (new.usable <=> s.usable)
           /\ new.next = s.next /\ new.call = None /\ new.reply = None
           /\ new.result = res /\ new.answer = answer
           /\ new.thread = s.thread /\ new.deadline = s.deadline
           /\ res = "checkpoint" => new.pending = s.pending
           /\ res # "checkpoint" => new.pending = None
           /\ new.stream = stream
<1>1. PICK t : t = Returned(s, f, res)
  OBVIOUS
<1>2. PICK pending : pending = IF res = "checkpoint" THEN s.pending ELSE None
  OBVIOUS
<1>3. t = [s EXCEPT !.call = None, !.reply = None, !.result = res,
                    !.answer = answer, !.pending = pending]
  BY <1>1, <1>2 DEF Returned, HasReturned
<1>4. /\ IsSession(t) /\ t.open = s.open /\ t.usable = s.usable
      /\ t.next = s.next /\ t.call = None /\ t.reply = None
      /\ t.result = res /\ t.answer = answer /\ t.pending = pending
      /\ t.thread = s.thread /\ t.deadline = s.deadline
  BY <1>3, Zenon DEF IsSession
<1>5. /\ IsSession(new) /\ new.open = t.open /\ new.usable = t.usable
      /\ new.next = t.next /\ new.call = t.call /\ new.reply = t.reply
      /\ new.result = t.result /\ new.answer = t.answer
      /\ new.pending = t.pending
      /\ new.thread = t.thread /\ new.deadline = t.deadline /\ new.stream = stream
  <2>1. new = [t EXCEPT !.stream = stream]
    BY <1>1 DEF HasReturned
  <2> QED BY <1>4, <2>1, Zenon DEF IsSession
<1> QED BY <1>2, <1>4, <1>5, Zenon

LEMMA NextOfStream ==
    ASSUME NEW t \in Streams, NEW u, u = [t EXCEPT !.count = t.count + 1, !.awaiting = TRUE]
    PROVE  u \in Streams /\ u.count = t.count + 1
<1>1. /\ t = [count |-> t.count, awaiting |-> t.awaiting, stopped |-> t.stopped]
      /\ t.count \in Nat /\ t.stopped \in BOOLEAN
  BY DEF Streams
<1>2. PICK n : n = t.count + 1
  OBVIOUS
<1>3. u = [count |-> n, awaiting |-> TRUE, stopped |-> t.stopped]
  BY <1>1, <1>2, Zenon
<1>4. n \in Nat
  BY <1>1, <1>2
<1> QED BY <1>1, <1>2, <1>3, <1>4, Zenon DEF Streams

TakenAs(r, frame) ==
    CASE TakesSuccess(r, frame) -> "ok"
      [] TakesTerminal(r, frame) -> "ok"
      [] TakesCheckpoint(r, frame) -> "checkpoint"
      [] TakesFailure(r, frame) -> "failure"
      [] OTHER -> "lost"

LEMMA ReceiveExchange ==
    ASSUME IInv, NEW r \in Roles, Receive(r)
    PROVE  Exchange(r)
<1>1. DOMAIN session = Roles /\ DOMAIN worker = Roles
  BY DEF IInv, Shape
<1>2. PICK s, w, f, taken : s = session[r] /\ w = worker[r] /\ f = s.reply
                            /\ taken = TakenAs(r, f)
  OBVIOUS
<1>3. Session(s, w) /\ IsSession(s) /\ IsWorker(w)
  BY <1>2 DEF IInv, Session, Shaped
<1>4. s.call # None /\ s.thread # "joined" /\ f # None /\ passed' = passed
  BY <1>2 DEF Receive, Waiting
<1>5. CASE \E how \in Reported(r, f) : Discard(r, how)
  <2>1. Reported(r, f) \subseteq Failing
    BY OverranFails DEF Reported, Failing
  <2> QED BY <1>2, <1>4, <1>5, <2>1, DiscardExchange
<1>6. CASE ~\E how \in Reported(r, f) : Discard(r, how)
  <2>1. /\ taken # "lost" /\ worker' = worker /\ late \ {r} \subseteq late'
    BY <1>2, <1>6 DEF Receive, TakenAs
  <2>2. \/ taken = "ok" /\ (TakesSuccess(r, f) \/ TakesTerminal(r, f))
        \/ taken = "checkpoint" /\ TakesCheckpoint(r, f)
        \/ taken = "failure" /\ TakesFailure(r, f)
    BY <1>2, <2>1 DEF TakenAs
  <2>3. /\ Answer(s, f)
        /\ taken = "checkpoint" => s.call.method \in Streamed
        /\ s.call.method = "reset" /\ taken = "ok" => f.kind = "ok"
        /\ InTime(r, s) \/ (taken = "ok" /\ s.call.method \in Streamed)
    BY <1>2, <1>4, <2>2, TakenInTime
  <2>4. /\ f.run # None => f.run = s.call.run /\ f.method = s.call.method
        /\ s.call.method = "reset" /\ f.kind = "ok" => Remembers(w, {})
    <3>1. /\ f.run = None => w.ahead = TRUE
          /\ f.run # None =>
                /\ f.run = s.call.run /\ f.method = s.call.method
                /\ s.call.method = "reset" /\ f.kind = "ok" => w.memory = {}
      BY <1>3, <2>3, TakenAnswers, ZenonT(40)
    <3> QED BY <3>1 DEF Remembers
  <2>5. PICK answer : answer = [run |-> f.run, method |-> f.method]
    OBVIOUS
  <2>6. CASE s.call.method = "shutdown" /\ taken = "ok"
    <3>1. PICK s2 : s2 = [s EXCEPT !.reply = None, !.thread = "joined", !.answer = answer]
      OBVIOUS
    <3>2. session' = [session EXCEPT ![r] = s2]
      BY <1>2, <1>6, <2>5, <2>6, <3>1 DEF Receive, TakenAs
    <3>3. /\ IsSession(s2) /\ s2.open = s.open /\ s2.usable = s.usable
          /\ s2.next = s.next /\ s2.pending = s.pending /\ s2.deadline = s.deadline
          /\ s2.call = s.call /\ s2.result = s.result /\ s2.answer = answer
          /\ s2.stream = s.stream /\ s2.reply = None /\ s2.thread = "joined"
      BY <1>3, <3>1, Zenon DEF IsSession
    <3>4. Session(s2, w)
      BY <1>3, <2>3, <2>5, <2>6, <3>3, Joining
    <3>5. Joins(r, s, w, s2, w)
      <4>1. InTime(r, s)
        BY <2>3, <2>6 DEF Streamed
      <4> QED BY <1>4, <3>3, <4>1 DEF Joins, SameCall, Forgets
    <3>6. /\ session'[r] = s2 /\ DOMAIN session' = Roles
          /\ \A q \in Roles : q # r => session'[q] = session[q]
      BY <1>1, <3>2, RoleUpdate
    <3> QED BY <1>1, <1>2, <1>4, <2>1, <3>4, <3>5, <3>6 DEF Exchange
  <2>7. CASE ~(s.call.method = "shutdown" /\ taken = "ok")
    <3>2. PICK more : more = [s.stream EXCEPT !.count = s.stream.count + 1, !.awaiting = TRUE]
      OBVIOUS
    <3>3. PICK stream : stream = IF taken = "checkpoint" THEN more ELSE None
      OBVIOUS
    <3>4. PICK s2 : s2 = [Returned(s, f, taken) EXCEPT !.stream = stream]
      OBVIOUS
    <3>5. session' = [session EXCEPT ![r] = s2]
      BY <1>2, <1>6, <2>7, <3>2, <3>3, <3>4 DEF Receive, TakenAs
    <3>6. /\ IsSession(s2) /\ (s2.open <=> s.open) /\ (s2.usable <=> s.usable)
          /\ s2.next = s.next /\ s2.call = None /\ s2.reply = None
          /\ s2.result = taken /\ s2.answer = answer
          /\ s2.thread = s.thread /\ s2.deadline = s.deadline
          /\ taken = "checkpoint" => s2.pending = s.pending
          /\ taken # "checkpoint" => s2.pending = None
          /\ s2.stream = stream
      <4>1. HasReturned(s, f, taken, stream, answer, s2)
        BY <2>5, <3>4, Zenon DEF HasReturned
      <4> QED BY <1>3, <4>1, ReturnedFields
    <3>7. taken = "checkpoint" => stream \in Streams /\ stream.count = s.stream.count + 1
      <4>1. SUFFICES ASSUME taken = "checkpoint"
                     PROVE  more \in Streams /\ more.count = s.stream.count + 1
        BY <3>3
      <4>2. s.stream \in Streams
        BY <1>3, <1>4, <2>3, <4>1, Pending
      <4> QED BY <3>2, <4>2, NextOfStream
    <3>8. taken \in {"ok", "checkpoint", "failure"}
      BY <2>2
    <3>9. Session(s2, w)
      BY <1>3, <1>4, <2>3, <2>5, <2>7, <3>6, <3>7, <3>8, Returning
    <3>10. Returns(r, s, w, s2, w)
      <4>1. Fits(answer, s.call)
        BY <2>4, <2>5 DEF Fits
      <4> QED BY <1>4, <2>3, <2>4, <2>7, <3>6, <3>8, <4>1 DEF Returns, Forgets
    <3>11. /\ session'[r] = s2 /\ DOMAIN session' = Roles
           /\ \A q \in Roles : q # r => session'[q] = session[q]
      BY <1>1, <3>5, RoleUpdate
    <3> QED BY <1>1, <1>2, <1>4, <2>1, <3>9, <3>10, <3>11 DEF Exchange
  <2> QED BY <2>6, <2>7
<1> QED BY <1>5, <1>6

-----------------------------------------------------------------------------
(* Each step of a worker, as an exchange.                                  *)
LEMMA WorkerExchange ==
    ASSUME IInv, NEW r \in Roles, NEW w2,
           worker' = [worker EXCEPT ![r] = w2],
           session' = session, late' = late, passed' = passed,
           Session(session[r], w2),
           Learns(session[r], worker[r], w2)
    PROVE  Exchange(r)
<1>1. DOMAIN session = Roles /\ DOMAIN worker = Roles
  BY DEF IInv, Shape
<1>2. /\ worker'[r] = w2 /\ DOMAIN worker' = Roles
      /\ \A q \in Roles : q # r => worker'[q] = worker[q]
  BY <1>1, RoleUpdate
<1>3. Continues(session[r], worker[r], session'[r], worker'[r])
  BY <1>2 DEF Continues, SameCall
<1> QED BY <1>1, <1>2, <1>3 DEF Exchange

LEMMA WorkerOpen ==
    ASSUME IInv, NEW r \in Roles, worker[r].alive
    PROVE  /\ session[r].open /\ IsWorker(worker[r])
           /\ Session(session[r], worker[r])
           /\ DOMAIN session = Roles /\ DOMAIN worker = Roles
BY DeadFields DEF IInv, Session, Living, Shaped, Shape

LEMMA WorkerRepeatsExchange ==
    ASSUME IInv, NEW r \in Roles, WorkerRepeats(r)
    PROVE  Exchange(r)
<1>1. PICK w : w = worker[r]
  OBVIOUS
<1>2. w.alive /\ w.last # None
  BY <1>1 DEF WorkerRepeats
<1>3. session[r].open /\ IsWorker(w) /\ Session(session[r], w)
  BY <1>1, <1>2, WorkerOpen
<1>4. PICK outbox : outbox = Append(w.outbox, w.last)
  OBVIOUS
<1>5. PICK w1 : w1 = [w EXCEPT !.outbox = outbox, !.last = w.last]
  OBVIOUS
<1>6. PICK w2 : w2 = [w1 EXCEPT !.last = None]
  OBVIOUS
<1>7. worker' = [worker EXCEPT ![r] = w2] /\ session' = session /\ late' = late /\ passed' = passed
  BY <1>1, <1>4, <1>5, <1>6 DEF WorkerRepeats, Write
<1>8. /\ IsWorker(w1) /\ w1.inbox = w.inbox /\ w1.outbox = outbox
      /\ w1.ahead = w.ahead /\ w1.memory = w.memory
  BY <1>3, <1>5, Zenon DEF IsWorker
<1>9. /\ IsWorker(w2) /\ w2.inbox = w1.inbox /\ w2.outbox = w1.outbox
      /\ w2.last = None /\ w2.ahead = w1.ahead /\ w2.memory = w1.memory
  BY <1>6, <1>8, Zenon DEF IsWorker
<1>10. Session(session[r], w2)
  BY <1>2, <1>3, <1>4, <1>8, <1>9, Repeating
<1>11. Learns(session[r], w, w2)
  BY <1>8, <1>9 DEF Learns
<1> QED BY <1>1, <1>7, <1>10, <1>11, WorkerExchange

LEMMA WorkerWritesAheadExchange ==
    ASSUME IInv, NEW r \in Roles, WorkerWritesAhead(r)
    PROVE  Exchange(r)
<1>1. PICK s, w : s = session[r] /\ w = worker[r]
  OBVIOUS
<1>2. w.alive /\ session' = session /\ late' = late /\ passed' = passed
  BY <1>1 DEF WorkerWritesAhead
<1>3. s.open /\ IsWorker(w) /\ Session(s, w)
  BY <1>1, <1>2, WorkerOpen
<1>4. PICK u \in Unasked :
         /\ u.ahead = 0 => s.pending # None
         /\ worker' = [worker EXCEPT ![r] =
              [Write(w, [id |-> Guess(s, u.ahead), kind |-> u.kind,
                         n |-> u.n, run |-> None, method |-> None])
               EXCEPT !.ahead = TRUE]]
  BY <1>1 DEF WorkerWritesAhead
<1>5. PICK f : f = [id |-> Guess(s, u.ahead), kind |-> u.kind,
                    n |-> u.n, run |-> None, method |-> None]
  OBVIOUS
<1>6. f \in Frames /\ f.run = None
  <2>1. u.ahead \in Nat /\ u.kind \in FrameKinds /\ u.n \in Nat
    BY SessionAssumption
  <2>2. s.next \in Nat /\ (s.pending # None => s.pending \in Nat)
    BY <1>3 DEF Session, Shaped, Living
  <2>3. Guess(s, u.ahead) \in Nat
    BY <1>4, <2>1, <2>2 DEF Guess
  <2> QED BY <1>5, <2>1, <2>3 DEF Frames
<1>7. PICK outbox : outbox = Append(w.outbox, f)
  OBVIOUS
<1>8. PICK w1 : w1 = [w EXCEPT !.outbox = outbox, !.last = f]
  OBVIOUS
<1>9. PICK w2 : w2 = [w1 EXCEPT !.ahead = TRUE]
  OBVIOUS
<1>10. worker' = [worker EXCEPT ![r] = w2]
  <2>1. Write(w, f) = w1
    BY <1>7, <1>8, Zenon DEF Write
  <2> QED BY <1>4, <1>5, <1>9, <2>1, Zenon
<1>11. /\ IsWorker(w1) /\ w1.inbox = w.inbox /\ w1.outbox = outbox
       /\ w1.last = f /\ w1.memory = w.memory
  BY <1>3, <1>8, Zenon DEF IsWorker
<1>12. /\ IsWorker(w2) /\ w2.inbox = w1.inbox /\ w2.outbox = w1.outbox
       /\ w2.last = w1.last /\ w2.ahead = TRUE /\ w2.memory = w1.memory
  BY <1>9, <1>11, Zenon DEF IsWorker
<1>13. Session(s, w2)
  BY <1>3, <1>6, <1>7, <1>11, <1>12, WritingAhead
<1>14. Learns(s, w, w2)
  BY <1>12 DEF Learns
<1> QED BY <1>1, <1>2, <1>10, <1>13, <1>14, WorkerExchange

LEMMA WorkerExitsExchange ==
    ASSUME IInv, NEW r \in Roles, WorkerExits(r)
    PROVE  Exchange(r)
<1>1. PICK w : w = worker[r]
  OBVIOUS
<1>2. w.alive
  BY <1>1 DEF WorkerExits
<1>3. session[r].open /\ IsWorker(w) /\ Session(session[r], w) /\ DOMAIN worker = Roles
  BY <1>1, <1>2, WorkerOpen
<1>4. PICK w2 : w2 = [w EXCEPT !.alive = FALSE, !.inbox = None]
  OBVIOUS
<1>5. worker' = [worker EXCEPT ![r] = w2] /\ session' = session /\ late' = late /\ passed' = passed
  BY <1>1, <1>3, <1>4 DEF WorkerExits
<1>6. /\ IsWorker(w2) /\ w2.inbox = None /\ w2.outbox = w.outbox
      /\ w2.last = w.last /\ w2.ahead = w.ahead /\ w2.memory = w.memory
  BY <1>3, <1>4, Zenon DEF IsWorker
<1>7. Session(session[r], w2)
  BY <1>3, <1>6, WorkerAside
<1>8. Learns(session[r], w, w2)
  BY <1>6 DEF Learns
<1> QED BY <1>1, <1>5, <1>7, <1>8, WorkerExchange

LEMMA WorkerLoosensExchange ==
    ASSUME IInv, NEW r \in Roles, WorkerLoosens(r)
    PROVE  Exchange(r)
<1>1. PICK w : w = worker[r]
  OBVIOUS
<1>2. w.alive
  BY <1>1 DEF WorkerLoosens
<1>3. session[r].open /\ IsWorker(w) /\ Session(session[r], w) /\ DOMAIN worker = Roles
  BY <1>1, <1>2, WorkerOpen
<1>4. PICK w2 : w2 = [w EXCEPT !.private = FALSE]
  OBVIOUS
<1>5. worker' = [worker EXCEPT ![r] = w2] /\ session' = session /\ late' = late /\ passed' = passed
  BY <1>1, <1>3, <1>4 DEF WorkerLoosens
<1>6. /\ IsWorker(w2) /\ w2.inbox = w.inbox /\ w2.outbox = w.outbox
      /\ w2.last = w.last /\ w2.ahead = w.ahead /\ w2.memory = w.memory
  BY <1>3, <1>4, Zenon DEF IsWorker
<1>7. Session(session[r], w2)
  BY <1>3, <1>6, WorkerAside
<1>8. Learns(session[r], w, w2)
  BY <1>6 DEF Learns
<1> QED BY <1>1, <1>5, <1>7, <1>8, WorkerExchange

LEMMA WorkerAnswersExchange ==
    ASSUME IInv, NEW r \in Roles, WorkerAnswers(r)
    PROVE  Exchange(r)
<1>1. PICK w, q : w = worker[r] /\ q = w.inbox
  OBVIOUS
<1>2. w.alive /\ q # None /\ session' = session /\ late' = late /\ passed' = passed
  BY <1>1 DEF WorkerAnswers
<1>3. session[r].open /\ IsWorker(w) /\ Session(session[r], w)
  BY <1>1, <1>2, WorkerOpen
<1>4. q \in Requests /\ (w.ahead = FALSE => q = session[r].call)
  BY <1>1, <1>2, <1>3 DEF Session, Living
<1>5. PICK kind \in Kinds(worker[r].inbox.method) :
         worker' = [worker EXCEPT ![r] =
           [Write(worker[r], [id |-> worker[r].inbox.id, kind |-> kind,
                              n |-> worker[r].inbox.n,
                              run |-> worker[r].inbox.run,
                              method |-> worker[r].inbox.method])
            EXCEPT
              !.inbox = None,
              !.memory = CASE worker[r].inbox.method = "prepare" ->
                                worker[r].memory \cup {worker[r].inbox.run}
                           [] worker[r].inbox.method = "reset" /\ kind = "ok" -> {}
                           [] OTHER -> worker[r].memory]]
  BY DEF WorkerAnswers
<1>6. PICK f : f = [id |-> worker[r].inbox.id, kind |-> kind,
                    n |-> worker[r].inbox.n,
                    run |-> worker[r].inbox.run, method |-> worker[r].inbox.method]
  OBVIOUS
<1>7. PICK memory : memory = CASE worker[r].inbox.method = "prepare" ->
                                    worker[r].memory \cup {worker[r].inbox.run}
                               [] worker[r].inbox.method = "reset" /\ kind = "ok" -> {}
                               [] OTHER -> worker[r].memory
  OBVIOUS
<1>8. PICK outbox : outbox = Append(w.outbox, f)
  OBVIOUS
<1>9. PICK w1 : w1 = [w EXCEPT !.outbox = outbox, !.last = f]
  OBVIOUS
<1>10. PICK w2 : w2 = [w1 EXCEPT !.inbox = None, !.memory = memory]
  OBVIOUS
<1>11. worker' = [worker EXCEPT ![r] = w2]
  <2>1. worker' = [worker EXCEPT ![r] =
              [Write(worker[r], f) EXCEPT !.inbox = None, !.memory = memory]]
    BY <1>5, <1>6, <1>7, Zenon
  <2>2. Write(worker[r], f) = w1
    BY <1>1, <1>8, <1>9, Zenon DEF Write
  <2> QED BY <2>1, <2>2, <1>10, Zenon
<1>12. /\ IsWorker(w1) /\ w1.outbox = outbox /\ w1.last = f /\ w1.ahead = w.ahead
  BY <1>3, <1>9, Zenon DEF IsWorker
<1>13. /\ IsWorker(w2) /\ w2.inbox = None /\ w2.outbox = w1.outbox
       /\ w2.last = w1.last /\ w2.ahead = w1.ahead /\ w2.memory = memory
  BY <1>10, <1>12, Zenon DEF IsWorker
<1>14. /\ f.id = q.id /\ f.n = q.n /\ f.run = q.run /\ f.method = q.method
       /\ f.kind = kind
       /\ f = [id |-> q.id, kind |-> kind, n |-> q.n,
               run |-> q.run, method |-> q.method]
  BY <1>1, <1>6
<1>15. f \in Frames
  <2>1. kind \in FrameKinds
    BY DEF Kinds, FrameKinds
  <2> QED BY <1>4, <1>14, <2>1 DEF Frames, Requests
<1>16. q.method = "reset" /\ f.kind = "ok" => memory = {}
  BY <1>1, <1>7, <1>14
<1>17. Session(session[r], w2)
  BY <1>1, <1>2, <1>3, <1>8, <1>12, <1>13, <1>14, <1>15, <1>16, Answering
<1>18. \A x \in memory : x \in w.memory \/ (q.method = "prepare" /\ x = q.run)
  BY <1>1, <1>7
<1>19. Learns(session[r], w, w2)
  BY <1>2, <1>4, <1>12, <1>13, <1>18 DEF Learns
<1> QED BY <1>1, <1>2, <1>11, <1>17, <1>19, WorkerExchange

-----------------------------------------------------------------------------
(* The steps outside the lane.                                             *)
LEMMA ProtocolStep ==
    ASSUME IInv, NEW r \in Roles, Protocol(r)
    PROVE  IInv'
<1>1. SameLane /\ TreeStep
  BY DEF Protocol, slotVars, SameLane, TreeStep
<1>2. Exchange(r)
  BY ThreadWriteExchange, ThreadReadExchange, TimesOutExchange, ReceiveExchange,
     ShutdownExitsExchange, ShutdownLateExchange
  DEF Protocol, SessionStep
<1> QED BY <1>1, <1>2, ExchangeStep

LEMMA AnswersStep ==
    ASSUME IInv, NEW r \in Roles, Answers(r)
    PROVE  IInv'
<1>1. SameLane /\ TreeStep
  BY DEF Answers, given, SameLane, TreeStep
<1>2. Exchange(r)
  BY WorkerAnswersExchange DEF Answers
<1> QED BY <1>1, <1>2, ExchangeStep

LEMMA QuitsStep ==
    ASSUME IInv, NEW r \in Roles, Quits(r)
    PROVE  IInv'
<1>1. SameLane /\ TreeStep
  BY DEF Quits, slotVars, SameLane, TreeStep
<1>2. Exchange(r)
  BY WorkerExitsExchange DEF Quits
<1> QED BY <1>1, <1>2, ExchangeStep

LEMMA MisbehavesStep ==
    ASSUME IInv, NEW r \in Roles, Misbehaves(r)
    PROVE  IInv'
<1>1. SameLane /\ TreeStep
  BY DEF Misbehaves, SameLane, TreeStep
<1>2. Exchange(r)
  BY WorkerRepeatsExchange, WorkerExitsExchange, WorkerLoosensExchange DEF Misbehaves
<1> QED BY <1>1, <1>2, ExchangeStep

LEMMA WritesAheadStep ==
    ASSUME IInv, NEW r \in Roles, WritesAhead(r)
    PROVE  IInv'
<1>1. SameLane /\ TreeStep
  BY DEF WritesAhead, SameLane, TreeStep
<1>2. Exchange(r)
  BY WorkerWritesAheadExchange DEF WritesAhead
<1> QED BY <1>1, <1>2, ExchangeStep

IsHistory(h) ==
    h = [key |-> h.key, spec |-> h.spec, warmed |-> h.warmed,
         overrun |-> h.overrun, published |-> h.published]

\* Nothing moves but a clock, the contents of a tree, or the record of both.
LEMMA LookingOn ==
    ASSUME IInv, session' = session, worker' = worker, plan' = plan, pc' = pc,
           at' = at, retained' = retained, open' = open, files' = files,
           NEW lateness \in BOOLEAN,
           history' = [history EXCEPT !.overrun = lateness],
           Judged', lateness => Doomed'
    PROVE  IInv'
<1>1. PICK h, g : h = history /\ g = history'
  OBVIOUS
<1>2. IsHistory(h)
  BY <1>1 DEF IInv, Shape, IsHistory
<1>3. /\ IsHistory(g) /\ g.key = h.key /\ g.spec = h.spec
      /\ g.warmed = h.warmed /\ g.overrun = lateness /\ g.published = h.published
  <2>1. g = [h EXCEPT !.overrun = lateness]
    BY <1>1
  <2> QED BY <1>2, <2>1, Zenon DEF IsHistory
<1>4. /\ Slot' = Slot /\ Key' = Key /\ Terms' = Terms /\ I' = I
      /\ (Borrowed' <=> Borrowed) /\ ExecuteMethod' = ExecuteMethod
  BY SameSlot
<1>5. Shape'
  <2>1. g.overrun \in BOOLEAN
    BY <1>3
  <2> QED BY <1>1, <1>3, <1>4, <2>1 DEF IInv, Shape, IsHistory
<1>6. \A r \in Roles : Session(session[r], worker[r])'
  BY DEF IInv, Session, Shaped, Living, Correlated, Held, Current, Fits
<1>7. \A r \in Roles : Placed(r, session[r])'
  <2>1. \A q \in Roles : Placed(q, session[q])
    BY DEF IInv
  <2> QED BY <1>4, <2>1, SameTurn DEF Placed
<1>8. Timed' /\ Remaining' /\ Clean'
  BY <1>4 DEF IInv, Timed, Remaining, Clean, Remembers, E
<1>9. Warm'
  <2>1. Measured' <=> Measured
    BY <1>4 DEF Measured
  <2>2. Warm
    BY DEF IInv
  <2> QED BY <1>1, <1>3, <1>4, <2>1, <2>2 DEF Warm, WarmFor
<1>10. PublishedAsJudged' /\ NothingLatePublished'
  <2>1. history'.published = history.published
    BY <1>1, <1>3
  <2> QED BY <2>1 DEF IInv, PublishedAsJudged, NothingLatePublished, HashTree
<1>11. history'.overrun => Doomed'
  BY <1>1, <1>3
<1> QED BY <1>5, <1>6, <1>7, <1>8, <1>9, <1>10, <1>11 DEF IInv

LEMMA ElapsesStep ==
    ASSUME IInv, NEW r \in Roles, Elapses(r)
    PROVE  IInv'
<1>1. PICK lateness : lateness = (history.overrun \/ session[r].thread # "joined")
  OBVIOUS
<1>2. history' = [history EXCEPT !.overrun = lateness]
  BY <1>1 DEF Elapses
<1>3. /\ session' = session /\ worker' = worker /\ plan' = plan /\ pc' = pc
      /\ at' = at /\ retained' = retained /\ open' = open /\ files' = files
      /\ tree' = tree /\ passed' = passed /\ late' = late \cup {r}
      /\ session[r].call # None
  BY DEF Elapses, LimitElapses, given
<1>4. lateness \in BOOLEAN /\ (lateness => history.overrun \/ session[r].thread # "joined")
  BY <1>1
<1>5. Terms' = Terms /\ I' = I
  BY <1>3, SameSlot
<1>6. Judged'
  BY <1>3, <1>5 DEF IInv, Judged, IsTree, Marked, HashTree, E
<1>7. lateness => Doomed'
  <2>1. CASE history.overrun
    <3>1. Doomed
      BY <2>1 DEF IInv
    <3> QED BY <1>3, <1>5, <3>1 DEF Doomed, Waiting
  <2>2. CASE session[r].thread # "joined"
    BY <1>3, <2>2 DEF Doomed, Waiting
  <2> QED BY <1>4, <2>1, <2>2
<1> QED BY <1>2, <1>3, <1>4, <1>6, <1>7, LookingOn

LEMMA PassesStep ==
    ASSUME IInv, Passes
    PROVE  IInv'
<1>1. PICK lateness : lateness = (history.overrun \/ session[I].result # "checkpoint")
  OBVIOUS
<1>2. history' = [history EXCEPT !.overrun = lateness]
  BY <1>1 DEF Passes
<1>3. /\ session' = session /\ worker' = worker /\ plan' = plan /\ pc' = pc
      /\ at' = at /\ retained' = retained /\ open' = open /\ files' = files
      /\ tree' = tree /\ late' = late /\ passed \subseteq passed'
  BY DEF Passes, DeadlinePasses, given
<1>4. lateness \in BOOLEAN
      /\ (lateness => history.overrun \/ session[I].result # "checkpoint")
  BY <1>1
<1>5. Terms' = Terms /\ I' = I
  BY <1>3, SameSlot
<1>6. Judged'
  BY <1>3, <1>5 DEF IInv, Judged, IsTree, Marked, HashTree, E
<1>7. open /\ at \in passed'
  <2>1. PICK run \in Runs :
           /\ (open /\ run = at) \/ \E r \in Roles : session[r].deadline = run
           /\ passed' = passed \cup {run}
    BY DEF Passes, DeadlinePasses
  <2>2. run # None
    BY NoneIsNone
  <2>3. ASSUME NEW r \in Roles, session[r].deadline = run PROVE open /\ run = at
    BY <2>2, <2>3 DEF IInv, Placed
  <2> QED BY <2>1, <2>3
<1>8. lateness => Doomed'
  <2>1. CASE history.overrun
    <3>1. Doomed
      BY <2>1 DEF IInv
    <3> QED BY <1>3, <1>5, <3>1 DEF Doomed, Waiting
  <2>2. CASE session[I].result # "checkpoint"
    BY <1>3, <1>5, <1>7, <2>2 DEF Doomed
  <2> QED BY <1>4, <2>1, <2>2
<1> QED BY <1>2, <1>3, <1>4, <1>6, <1>8, LookingOn

\* The lane and its sessions stand still.
LEMMA StandingStill ==
    ASSUME IInv, session' = session, worker' = worker, late' = late,
           passed' = passed, plan' = plan, pc' = pc,
           at' = at, retained' = retained, open' = open, files' = files,
           history' = history, Judged'
    PROVE  IInv'
<1>1. PICK lateness : lateness = history.overrun
  OBVIOUS
<1>2. history' = [history EXCEPT !.overrun = lateness] /\ lateness \in BOOLEAN
  BY <1>1 DEF IInv, Shape
<1>3. Terms' = Terms /\ I' = I
  BY SameSlot
<1>4. lateness => Doomed'
  <2>1. lateness => Doomed
    BY <1>1 DEF IInv
  <2> QED BY <1>3, <2>1 DEF Doomed, Waiting
<1> QED BY <1>2, <1>4, LookingOn

LEMMA SameTree ==
    ASSUME IInv, session' = session, plan' = plan, pc' = pc, at' = at, tree' = tree
    PROVE  Judged'
<1>1. Terms' = Terms
  BY SameSlot
<1> QED BY <1>1 DEF IInv, Judged, IsTree, Marked, HashTree, E

LEMMA ChangesViewStep ==
    ASSUME IInv, NEW r \in Roles, ChangesView(r)
    PROVE  IInv'
BY SameTree, StandingStill DEF ChangesView, sessionVars

LEMMA FinishedStep ==
    ASSUME IInv, Finished \/ UNCHANGED vars
    PROVE  IInv'
BY SameTree, StandingStill DEF Finished, vars, sessionVars, slotVars

LEMMA ChangesTreeStep ==
    ASSUME IInv, NEW r \in Roles, ChangesTree(r)
    PROVE  IInv'
<1>1. /\ session' = session /\ worker' = worker /\ plan' = plan /\ pc' = pc
      /\ at' = at /\ retained' = retained /\ open' = open /\ files' = files
      /\ late' = late /\ passed' = passed /\ history' = history
  BY DEF ChangesTree, sessionVars
<1>2. PICK t, u : t = tree /\ u = tree'
  OBVIOUS
<1>3. IsTree(t) /\ t.restored \in BOOLEAN
  BY <1>2 DEF IInv, Judged
<1>4. PICK now, restored : /\ now = 1 - t.now
                           /\ restored = (t.restored \/ HashTree(now) = t.hashed)
  OBVIOUS
<1>5. u = [t EXCEPT !.now = now, !.restored = restored]
  BY <1>2, <1>4, Zenon DEF ChangesTree
<1>6. /\ IsTree(u) /\ u.restored \in BOOLEAN /\ (Marked(t) => Marked(u))
  <2>1. /\ IsTree(u) /\ u.now = now /\ u.hashed = t.hashed
        /\ u.judged = t.judged /\ u.restored = restored
    BY <1>3, <1>5, Zenon DEF IsTree
  <2>2. restored \in BOOLEAN /\ (restored = FALSE => HashTree(now) # t.hashed)
    BY <1>4, Zenon
  <2> QED BY <2>1, <2>2, Zenon DEF Marked
<1>7. Terms' = Terms
  BY <1>1, SameSlot
<1>8. Judged'
  <2>1. IsTree(tree)' /\ tree'.restored \in BOOLEAN
    BY <1>2, <1>6 DEF IsTree
  <2>2. Marked(tree) => Marked(tree)'
    BY <1>2, <1>6 DEF Marked, HashTree
  <2> QED BY <1>1, <1>7, <2>1, <2>2 DEF IInv, Judged, E
<1> QED BY <1>1, <1>8, StandingStill

-----------------------------------------------------------------------------
(* Between executions.                                                     *)
Quiet(s) == s.call = None /\ s.result = None /\ s.pending = None /\ s.deadline = None

LEMMA QuietNow ==
    ASSUME IInv, pc \in {"start", "finish"}
    PROVE  /\ ~open /\ \A q \in Roles : Quiet(session[q])
           /\ ~session["owned"].open /\ ~session[E].open
           /\ history.overrun => Terms.mode = "stream" /\ pc = "finish"
<1>1. ~open
  BY DEF IInv, Timed
<1>2. ASSUME NEW q \in Roles PROVE Quiet(session[q])
  <2>1. Placed(q, session[q])
    BY DEF IInv
  <2>2. ~Turn(q)
    BY DEF Turn, ImplSteps, EvalSteps
  <2>3. session[q].call = None /\ session[q].result = None
    BY <2>1, <2>2 DEF Placed
  <2> QED BY <1>1, <2>1, <2>3 DEF Placed, Quiet
<1>3. ~session["owned"].open /\ ~session[E].open
  BY DEF IInv, Remaining
<1>4. history.overrun => Terms.mode = "stream" /\ pc = "finish"
  <2>1. SUFFICES ASSUME Doomed PROVE Terms.mode = "stream" /\ pc = "finish"
    BY DEF IInv
  <2>2. \A q \in Roles : ~Waiting(q) /\ session[q].result \notin Failing
    BY <1>2, NoneIsNone DEF Quiet, Waiting, Failing, Results
  <2> QED BY <1>1, <2>1, <2>2 DEF Doomed
<1> QED BY <1>1, <1>2, <1>3, <1>4

LEMMA Settled ==
    ASSUME Shape', \A q \in Roles : Session(session'[q], worker'[q]) /\ Quiet(session'[q]),
           ~open', pc' \in {"start", "done", "launch", "reset"}, tree' = Untouched,
           Remaining', Clean', Warm', ~history'.overrun,
           PublishedAsJudged', NothingLatePublished'
    PROVE  IInv'
<1>1. ASSUME NEW q \in Roles PROVE Placed(q, session[q])'
  <2>1. Quiet(session'[q])
    OBVIOUS
  <2> QED BY <2>1, NoneIsNone DEF Quiet, Placed, Results
<1>2. Timed'
  BY DEF Timed
<1>3. Judged'
  <2>1. IsTree(tree)' /\ tree'.restored \in BOOLEAN
    BY DEF IsTree, Untouched
  <2>2. session'[E].call = None /\ session'[E].result = None
    BY Who DEF Quiet
  <2> QED BY <2>1, <2>2 DEF Judged, E
<1> QED BY <1>1, <1>2, <1>3 DEF IInv

LEMMA NextSlotShape ==
    ASSUME IInv, NextSlot, plan' = plan, DOMAIN session' = Roles,
           DOMAIN worker' = Roles, IsHistory(history'), history'.overrun \in BOOLEAN
    PROVE  /\ Shape' /\ ~open' /\ tree' = Untouched /\ pc' \in {"start", "done"}
           /\ Clean'
<1>1. plan \in Plans /\ at = <<at[1], at[2]>> /\ at[1] \in DOMAIN plan
      /\ at[2] \in 0..Terms.warmups
  BY DEF IInv, Shape
<1>2. Len(plan) \in Nat \ {0} /\ DOMAIN plan = 1..Len(plan)
  BY <1>1, PlansAssumption
<1>3. ~open' /\ tree' = Untouched /\ pc' \in {"start", "done"}
  BY DEF NextSlot
<1>4. at' = <<at'[1], at'[2]>> /\ at'[1] \in DOMAIN plan /\ at'[2] \in 0..Terms'.warmups
  <2>1. CASE at[1] = Len(plan)
    <3>1. at' = at
      BY <2>1 DEF NextSlot
    <3>2. Terms' = Terms
      BY <3>1, SameSlot
    <3> QED BY <1>1, <3>1, <3>2
  <2>2. CASE at[1] # Len(plan)
    <3>1. at' = <<at[1] + 1, 0>>
      BY <2>2 DEF NextSlot
    <3>2. at'[1] = at[1] + 1 /\ at'[2] = 0 /\ at[1] + 1 \in DOMAIN plan
      BY <1>1, <1>2, <2>2, <3>1
    <3>3. plan[at[1] + 1].key \in DOMAIN Policy
      BY <1>1, <3>2, PlansAssumption
    <3>4. Terms'.warmups \in Nat
      BY <3>2, <3>3, PolicyAssumption DEF Terms, Key, Slot
    <3> QED BY <3>1, <3>2, <3>4
  <2> QED BY <2>1, <2>2
<1>5. Shape'
  <2>1. open' \in BOOLEAN
    BY DEF NextSlot
  <2> QED BY <1>1, <1>3, <1>4, <2>1 DEF Shape, PCs, IsHistory
<1>6. Clean'
  BY <1>3 DEF Clean, Working
<1> QED BY <1>3, <1>5, <1>6

LEMMA NoSessionIsQuiet ==
    /\ Session(NoSession, Dead) /\ Quiet(NoSession) /\ ~NoSession.open
<1>1. /\ IsSession(NoSession) /\ ~NoSession.open /\ ~NoSession.usable
      /\ NoSession.next = 0 /\ NoSession.pending = None /\ NoSession.deadline = None
      /\ NoSession.call = None /\ NoSession.result = None
      /\ NoSession.thread = "gone" /\ NoSession.reply = None
  BY DEF NoSession, IsSession
<1>2. None # "checkpoint"
  BY NoneIsNone DEF Results
<1> QED BY <1>1, <1>2, Closed DEF Quiet

LEMMA EndWithoutStep ==
    ASSUME IInv, NEW status, EndWithout(status)
    PROVE  IInv'
<1>1. /\ DropAll /\ NextSlot /\ plan' = plan
      /\ history' = [history EXCEPT !.overrun = FALSE, !.published = None]
  BY DEF EndWithout, given
<1>2. PICK h, g : h = history /\ g = history'
  OBVIOUS
<1>3. IsHistory(h) /\ g = [h EXCEPT !.overrun = FALSE, !.published = None]
  BY <1>1, <1>2 DEF IInv, Shape, IsHistory
<1>4. IsHistory(g) /\ g.overrun = FALSE /\ g.published = None
  BY <1>3, Zenon DEF IsHistory
<1>5. /\ DOMAIN session' = Roles /\ DOMAIN worker' = Roles /\ retained' = None
      /\ \A q \in Roles : session'[q] = NoSession /\ worker'[q] = Dead
  BY <1>1 DEF DropAll
<1>6. /\ Shape' /\ ~open' /\ tree' = Untouched /\ pc' \in {"start", "done"} /\ Clean'
  BY <1>1, <1>2, <1>4, <1>5, NextSlotShape
<1>7. \A q \in Roles : /\ Session(session'[q], worker'[q]) /\ Quiet(session'[q])
                       /\ ~session'[q].open
  BY <1>5, NoSessionIsQuiet
<1>8. Remaining'
  BY <1>7 DEF Remaining, Roles, E
<1>9. Warm'
  BY <1>5, <1>6 DEF Warm
<1>10. ~history'.overrun /\ PublishedAsJudged' /\ NothingLatePublished'
  BY <1>2, <1>4 DEF PublishedAsJudged, NothingLatePublished
<1> QED BY <1>6, <1>7, <1>8, <1>9, <1>10, Settled

LEMMA ViewFailsStep ==
    ASSUME IInv, ViewFails
    PROVE  IInv'
<1>1. /\ NextSlot /\ plan' = plan /\ session' = session /\ worker' = worker
      /\ retained' = retained /\ history' = history /\ pc = "start"
  BY DEF ViewFails, given
<1>2. /\ \A q \in Roles : Quiet(session[q])
      /\ ~session["owned"].open /\ ~session[E].open /\ ~history.overrun
  BY <1>1, QuietNow
<1>3. DOMAIN session = Roles /\ DOMAIN worker = Roles /\ IsHistory(history)
      /\ history.overrun \in BOOLEAN /\ \A q \in Roles : Session(session[q], worker[q])
  BY DEF IInv, Shape, IsHistory
<1>4. /\ Shape' /\ ~open' /\ tree' = Untouched /\ pc' \in {"start", "done"} /\ Clean'
  BY <1>1, <1>3, NextSlotShape
<1>5. Remaining'
  BY <1>1, <1>2 DEF IInv, Remaining, E
<1>6. Warm'
  <2>1. retained # None => WarmFor(retained.key, retained.spec)
    BY <1>1 DEF IInv, Warm
  <2> QED BY <1>1, <1>4, <2>1 DEF Warm, WarmFor
<1>7. PublishedAsJudged' /\ NothingLatePublished'
  BY <1>1 DEF IInv, PublishedAsJudged, NothingLatePublished, HashTree
<1> QED BY <1>1, <1>2, <1>3, <1>4, <1>5, <1>6, <1>7, Settled

\* What was judged is what was hashed, if it hashes to the same once more
\* and was not put back meanwhile.
LEMMA PublicationHolds ==
    ASSUME Judged, Marked(tree), TreeUnchanged, view, ~history.overrun,
           history'.published = Publication
    PROVE  PublishedAsJudged' /\ NothingLatePublished'
<1>1. /\ HashTree(tree.now) = tree.hashed
      /\ HashTree(tree.judged) = tree.hashed \/ tree.restored
  BY DEF Judged, Marked, TreeUnchanged
<1>2. /\ history'.published.tree = tree /\ history'.published.view
      /\ ~history'.published.overrun
  BY DEF Publication
<1> QED BY <1>1, <1>2 DEF PublishedAsJudged, NothingLatePublished, HashTree

LEMMA AcceptStep ==
    ASSUME IInv, Accept
    PROVE  IInv'
<1>1. /\ pc = "finish" /\ Measured /\ view /\ NextSlot /\ plan' = plan
      /\ session' = session /\ worker' = worker /\ retained' = Retained
      /\ Terms.mode = "one_shot" => TreeUnchanged
  BY DEF Accept, FinalChecks, given
<1>2. PICK h, g, published :
         /\ h = history /\ g = history'
         /\ published = IF Terms.mode = "one_shot" THEN Publication ELSE h.published
  OBVIOUS
<1>3. /\ IsHistory(h) /\ g = [h EXCEPT !.published = published, !.overrun = FALSE]
  BY <1>1, <1>2 DEF IInv, Shape, IsHistory, Accept
<1>4. /\ IsHistory(g) /\ g.overrun = FALSE /\ g.published = published
      /\ g.key = h.key /\ g.spec = h.spec /\ g.warmed = h.warmed
  BY <1>3, Zenon DEF IsHistory
<1>5. /\ \A q \in Roles : Quiet(session[q])
      /\ ~session["owned"].open /\ ~session[E].open
      /\ history.overrun => Terms.mode = "stream"
  BY <1>1, QuietNow
<1>6. /\ DOMAIN session = Roles /\ DOMAIN worker = Roles
      /\ \A q \in Roles : Session(session[q], worker[q])
  BY DEF IInv, Shape
<1>7. /\ Shape' /\ ~open' /\ tree' = Untouched /\ pc' \in {"start", "done"} /\ Clean'
  BY <1>1, <1>2, <1>4, <1>6, NextSlotShape
<1>8. session[I].usable <=> session[I].open
  BY <1>6, Who DEF Session, Shaped
<1>9. [key |-> Key, spec |-> Slot.spec] # None
  BY SlotFacts DEF IInv
<1>10. Remaining'
  <2>1. session["pooled"].open => Retained # None
    <3>1. CASE Borrowed
      BY <1>8, <1>9, <3>1, Who DEF Retained, Borrowed
    <3>2. CASE ~Borrowed
      BY <3>2 DEF IInv, Remaining, Retained, Borrowed
    <3> QED BY <3>1, <3>2
  <2> QED BY <1>1, <1>5, <2>1 DEF Remaining, E
<1>11. Warm'
  <2>1. SUFFICES ASSUME Retained # None
                 PROVE  WarmFor(Retained.key, Retained.spec)
    BY <1>1, <1>2, <1>4, <1>7 DEF Warm, WarmFor
  <2>2. CASE Borrowed
    <3>1. WarmFor(Key, Slot.spec)
      BY <1>1, <2>2 DEF IInv, Warm
    <3>2. Retained = [key |-> Key, spec |-> Slot.spec]
      BY <2>1, <2>2 DEF Retained, Borrowed
    <3>3. Retained.key = Key /\ Retained.spec = Slot.spec
      BY <3>2
    <3> QED BY <3>1, <3>3
  <2>3. CASE ~Borrowed
    <3>1. Retained = retained
      BY <2>3 DEF Retained, Borrowed
    <3> QED BY <2>1, <2>3, <3>1 DEF IInv, Warm
  <2> QED BY <2>2, <2>3
<1>12. PublishedAsJudged' /\ NothingLatePublished'
  <2>1. CASE Terms.mode = "one_shot"
    <3>1. history'.published = Publication
      BY <1>2, <1>4, <2>1
    <3>2. Judged /\ Marked(tree) /\ ~history.overrun
      BY <1>1, <1>5, <2>1 DEF IInv, Judged
    <3> QED BY <1>1, <2>1, <3>1, <3>2, PublicationHolds
  <2>2. CASE Terms.mode # "one_shot"
    <3>1. history'.published = history.published
      BY <1>2, <1>4, <2>2
    <3> QED BY <3>1 DEF IInv, PublishedAsJudged, NothingLatePublished, HashTree
  <2> QED BY <2>1, <2>2
<1>13. ~history'.overrun
  BY <1>2, <1>4
<1> QED BY <1>1, <1>5, <1>6, <1>7, <1>10, <1>11, <1>12, <1>13, Settled

\* Another execution of the same slot.
LEMMA ExecutingShape ==
    ASSUME IInv, NEW first \in 0..Terms.warmups, NEW step \in {"launch", "reset"},
           step = "launch" => first = 0,
           Executing(first, step), plan' = plan, DOMAIN session' = Roles,
           DOMAIN worker' = Roles, IsHistory(history'), history'.overrun \in BOOLEAN
    PROVE  /\ Shape' /\ ~open' /\ tree' = Untouched /\ pc' = step
           /\ at'[2] = first
           /\ Slot' = Slot /\ Key' = Key /\ Terms' = Terms /\ I' = I
           /\ (Borrowed' <=> Borrowed)
<1>1. /\ at' = <<at[1], first>> /\ ~open' /\ open' \in BOOLEAN
      /\ tree' = Untouched /\ pc' = step
  BY DEF Executing
<1>2. at'[1] = at[1] /\ at'[2] = first
  BY <1>1
<1>3. /\ Slot' = Slot /\ Key' = Key /\ Terms' = Terms /\ I' = I
      /\ (Borrowed' <=> Borrowed)
  BY <1>2, SameSlot
<1>4. Shape'
  <2>1. plan \in Plans /\ at[1] \in DOMAIN plan
    BY DEF IInv, Shape
  <2>2. at' = <<at'[1], at'[2]>>
    BY <1>1, <1>2
  <2> QED BY <1>1, <1>2, <1>3, <2>1, <2>2 DEF Shape, PCs, IsHistory, ImplSteps
<1> QED BY <1>1, <1>2, <1>3, <1>4

LEMMA StartReuseStep ==
    ASSUME IInv, StartReuse
    PROVE  IInv'
<1>1. /\ pc = "start" /\ Eligible /\ Executing(FirstOn(NeedsWarmups), "reset")
      /\ plan' = plan /\ session' = session /\ worker' = worker
      /\ retained' = retained
      /\ history' = [history EXCEPT !.published = None]
  BY DEF StartReuse, given, sessionVars
<1>2. PICK h, g : h = history /\ g = history'
  OBVIOUS
<1>3. /\ IsHistory(h) /\ g = [h EXCEPT !.published = None]
  BY <1>1, <1>2 DEF IInv, Shape, IsHistory
<1>4. /\ IsHistory(g) /\ g.overrun = h.overrun /\ g.published = None
      /\ g.key = h.key /\ g.spec = h.spec /\ g.warmed = h.warmed
  BY <1>3, Zenon DEF IsHistory
<1>5. /\ \A q \in Roles : Quiet(session[q])
      /\ ~session["owned"].open /\ ~session[E].open /\ ~history.overrun
  BY <1>1, QuietNow
<1>6. /\ DOMAIN session = Roles /\ DOMAIN worker = Roles
      /\ history.overrun \in BOOLEAN
      /\ \A q \in Roles : Session(session[q], worker[q])
  BY DEF IInv, Shape
<1>7. PICK first : first = FirstOn(NeedsWarmups)
  OBVIOUS
<1>8. Terms.warmups \in Nat
  BY SlotFacts DEF IInv
<1>9. first \in 0..Terms.warmups
  BY <1>7, <1>8 DEF FirstOn
<1>10. /\ Shape' /\ ~open' /\ tree' = Untouched /\ pc' = "reset"
       /\ at'[2] = first
       /\ Slot' = Slot /\ Key' = Key /\ Terms' = Terms /\ I' = I
       /\ (Borrowed' <=> Borrowed)
  <2>1. IsHistory(history') /\ history'.overrun \in BOOLEAN
    BY <1>2, <1>4, <1>6
  <2> QED BY <1>1, <1>6, <1>7, <1>9, <2>1, ExecutingShape
<1>11. Borrowed /\ retained # None /\ retained.key = Key
  BY <1>1 DEF Eligible, Borrowed
<1>12. Remaining'
  BY <1>1, <1>5, <1>10, <1>11 DEF Remaining, E
<1>13. Clean'
  <2>1. session[I].result = None
    BY <1>5, Who DEF Quiet
  <2> QED BY <1>1, <1>10, <2>1, NoneIsNone DEF Clean, Working, Results
<1>14. Warm'
  <2>1. WarmFor(Key, retained.spec)
    BY <1>1, <1>11 DEF IInv, Warm
  <2>2. Measured' => Terms.warmups = 0 \/ retained.spec = Slot.spec
    BY <1>7, <1>8, <1>10 DEF Measured, FirstOn, NeedsWarmups
  <2>3. history'.key = history.key /\ history'.spec = history.spec
        /\ history'.warmed = history.warmed
    BY <1>2, <1>4
  <2>4. history'.key = Key
    BY <2>1, <2>3 DEF WarmFor
  <2>5. Measured' => WarmFor(Key, Slot.spec)'
    BY <1>8, <1>10, <2>1, <2>2, <2>3 DEF WarmFor, Terms
  <2> QED BY <1>10, <1>11, <2>4, <2>5 DEF Warm
<1>15. ~history'.overrun /\ PublishedAsJudged' /\ NothingLatePublished'
  BY <1>2, <1>4, <1>5 DEF PublishedAsJudged, NothingLatePublished
<1> QED BY <1>1, <1>5, <1>6, <1>10, <1>12, <1>13, <1>14, <1>15, Settled

LEMMA StartNewStep ==
    ASSUME IInv, StartNew
    PROVE  IInv'
<1>1. /\ pc = "start" /\ Executing(0, "launch") /\ plan' = plan
      /\ session' = [session EXCEPT ![I] = NoSession]
      /\ worker' = [worker EXCEPT ![I] = Dead]
      /\ Borrowed => retained' = None /\ files' = {}
      /\ ~Borrowed => retained' = retained
      /\ history' = [history EXCEPT !.published = None]
  BY DEF StartNew, given
<1>2. PICK h, g : h = history /\ g = history'
  OBVIOUS
<1>3. /\ IsHistory(h) /\ g = [h EXCEPT !.published = None]
  BY <1>1, <1>2 DEF IInv, Shape, IsHistory
<1>4. /\ IsHistory(g) /\ g.overrun = h.overrun /\ g.published = None
      /\ g.key = h.key /\ g.spec = h.spec /\ g.warmed = h.warmed
  BY <1>3, Zenon DEF IsHistory
<1>5. /\ \A q \in Roles : Quiet(session[q])
      /\ ~session["owned"].open /\ ~session[E].open /\ ~history.overrun
  BY <1>1, QuietNow
<1>6. /\ DOMAIN session = Roles /\ DOMAIN worker = Roles
      /\ history.overrun \in BOOLEAN
      /\ \A q \in Roles : Session(session[q], worker[q])
  BY DEF IInv, Shape
<1>7. /\ DOMAIN session' = Roles /\ DOMAIN worker' = Roles
      /\ session'[I] = NoSession /\ worker'[I] = Dead
      /\ \A q \in Roles : q # I => session'[q] = session[q] /\ worker'[q] = worker[q]
  BY <1>1, <1>6, Who
<1>8. /\ Shape' /\ ~open' /\ tree' = Untouched /\ pc' = "launch"
      /\ Slot' = Slot /\ Key' = Key /\ Terms' = Terms /\ I' = I
      /\ (Borrowed' <=> Borrowed)
  <2>1. IsHistory(history') /\ history'.overrun \in BOOLEAN
    BY <1>2, <1>4, <1>6
  <2>2. 0 \in 0..Terms.warmups
    BY SlotFacts DEF IInv
  <2> QED BY <1>1, <1>7, <2>1, <2>2, ExecutingShape
<1>9. \A q \in Roles : Session(session'[q], worker'[q]) /\ Quiet(session'[q])
  BY <1>5, <1>6, <1>7, NoSessionIsQuiet
<1>10. Remaining'
  <2>1. ~session'["owned"].open /\ ~session'[E].open
    BY <1>5, <1>7, NoSessionIsQuiet DEF Roles, E
  <2>2. session'["pooled"].open => retained' # None
    <3>1. CASE Borrowed
      BY <1>7, <3>1, NoSessionIsQuiet, Who
    <3>2. CASE ~Borrowed
      BY <1>1, <1>7, <3>2, Who DEF IInv, Remaining, Roles
    <3> QED BY <3>1, <3>2
  <2> QED BY <2>1, <2>2 DEF Remaining, E
<1>11. Clean'
  BY <1>1, <1>7, <1>8, DeadFields DEF Clean, Working, Remembers
<1>12. Warm'
  <2>1. session'[I].call = None /\ session'[I].result = None
    BY <1>9, Who DEF Quiet
  <2>2. history'.key = history.key /\ history'.spec = history.spec
        /\ history'.warmed = history.warmed
    BY <1>2, <1>4
  <2>3. retained # None => WarmFor(retained.key, retained.spec)
    BY <1>1 DEF IInv, Warm
  <2> QED BY <1>1, <1>8, <2>1, <2>2, <2>3, NoneIsNone DEF Warm, WarmFor, Results
<1>13. ~history'.overrun /\ PublishedAsJudged' /\ NothingLatePublished'
  BY <1>2, <1>4, <1>5 DEF PublishedAsJudged, NothingLatePublished
<1> QED BY <1>8, <1>9, <1>10, <1>11, <1>12, <1>13, Settled

LEMMA WarmupDoneStep ==
    ASSUME IInv, WarmupDone
    PROVE  IInv'
<1>1. /\ pc = "finish" /\ ~Measured /\ Executing(at[2] + 1, "reset")
      /\ plan' = plan /\ session' = session /\ worker' = worker
      /\ retained' = retained
      /\ history' = [history EXCEPT !.spec = Slot.spec, !.warmed = at[2] + 1,
                                    !.overrun = FALSE]
  BY DEF WarmupDone, given, sessionVars
<1>2. PICK h, g, spec, first :
         h = history /\ g = history' /\ spec = Slot.spec /\ first = at[2] + 1
  OBVIOUS
<1>3. /\ IsHistory(h)
      /\ g = [h EXCEPT !.spec = spec, !.warmed = first, !.overrun = FALSE]
  BY <1>1, <1>2 DEF IInv, Shape, IsHistory
<1>4. /\ IsHistory(g) /\ g.overrun = FALSE /\ g.published = h.published
      /\ g.key = h.key /\ g.spec = spec /\ g.warmed = first
  BY <1>3, Zenon DEF IsHistory
<1>5. /\ \A q \in Roles : Quiet(session[q])
      /\ ~session["owned"].open /\ ~session[E].open
  BY <1>1, QuietNow
<1>6. /\ DOMAIN session = Roles /\ DOMAIN worker = Roles
      /\ \A q \in Roles : Session(session[q], worker[q])
      /\ at[2] \in 0..Terms.warmups
  BY DEF IInv, Shape
<1>7. Terms.warmups \in Nat
  BY SlotFacts DEF IInv
<1>8. first \in 0..Terms.warmups /\ Terms.warmups > 0
  BY <1>1, <1>2, <1>6, <1>7 DEF Measured
<1>9. /\ Shape' /\ ~open' /\ tree' = Untouched /\ pc' = "reset"
      /\ at'[2] = first
      /\ Slot' = Slot /\ Key' = Key /\ Terms' = Terms /\ I' = I
      /\ (Borrowed' <=> Borrowed)
  <2>1. IsHistory(history') /\ history'.overrun \in BOOLEAN
    BY <1>2, <1>4
  <2> QED BY <1>1, <1>2, <1>6, <1>8, <2>1, ExecutingShape
<1>10. Borrowed
  <2>1. plan \in Plans /\ at[1] \in DOMAIN plan
    BY DEF IInv, Shape
  <2>2. Key \in DOMAIN Policy
    BY <2>1, PlansAssumption DEF Key, Slot
  <2> QED BY <1>8, <2>2, PolicyAssumption DEF Borrowed, Terms
<1>11. Remaining'
  BY <1>1, <1>5, <1>9, <1>10 DEF Remaining, E
<1>12. Clean'
  <2>1. session[I].result = None
    BY <1>5, Who DEF Quiet
  <2> QED BY <1>1, <1>9, <2>1, NoneIsNone DEF Clean, Working, Results
<1>13. Warm'
  <2>1. history'.key = Key /\ history'.spec = Slot.spec /\ history'.warmed = first
    BY <1>1, <1>2, <1>4, <1>10 DEF IInv, Warm
  <2>2. Measured' => first = Terms.warmups
    BY <1>9 DEF Measured
  <2>3. Measured' => WarmFor(Key, Slot.spec)'
    BY <1>9, <2>1, <2>2 DEF WarmFor, Terms
  <2> QED BY <1>9, <1>10, <2>1, <2>3 DEF Warm
<1>14. ~history'.overrun
  BY <1>2, <1>4
<1>15. PublishedAsJudged' /\ NothingLatePublished'
  <2>1. history'.published = history.published
    BY <1>2, <1>4
  <2> QED BY <2>1 DEF IInv, PublishedAsJudged, NothingLatePublished, HashTree
<1> QED BY <1>1, <1>5, <1>6, <1>9, <1>11, <1>12, <1>13, <1>14, <1>15, Settled

-----------------------------------------------------------------------------
(* The lane begins an exchange, which may be refused on the spot.          *)
Asked(s, method, stopping, deadline) ==
    /\ s.call # None /\ s.call.run = at /\ s.call.method = method
    /\ s.call.stopping <=> stopping
    /\ s.result = None /\ s.deadline = deadline

Refused(s) ==
    /\ s.call = None /\ s.result \in Failing /\ s.pending = None
    /\ s.deadline = None /\ ~s.open

Begins(r, method, stopping, deadline) ==
    /\ DOMAIN session' = Roles /\ DOMAIN worker' = Roles
    /\ \A q \in Roles : q # r => session'[q] = session[q] /\ worker'[q] = worker[q]
    /\ Session(session'[r], worker'[r])
    /\ Asked(session'[r], method, stopping, deadline) \/ Refused(session'[r])
    /\ Forgets(worker[r], worker'[r])
    /\ session'[r].open => session[r].open \/ method = "hello"
    /\ passed' = passed

LEMMA Calling ==
    ASSUME IInv, NEW r \in Roles, NEW method \in Methods, NEW stopping \in BOOLEAN,
           NEW deadline, Call(r, method, at, stopping, deadline)
    PROVE  Begins(r, method, stopping, deadline)
<1>1. PICK s, w, base, new, n :
         /\ s = session[r] /\ w = worker[r] /\ base = Limited(s, deadline)
         /\ new = Handed(base, method, at, stopping)
         /\ n = IF method = "decide" THEN base.stream.count ELSE 0
  OBVIOUS
<1>2. /\ base.usable /\ base.call = None
      /\ method = "decide" <=> base.pending # None
      /\ passed' = passed
      /\ \/ \E how \in Failing : Discard(r, how)
         \/ session' = [session EXCEPT ![r] = new] /\ worker' = worker /\ late' = late
  BY <1>1 DEF Call, Failing
<1>3. Session(s, w) /\ IsSession(s)
  BY <1>1 DEF IInv, Session, Shaped
<1>4. /\ IsSession(base) /\ (base.open <=> s.open) /\ (base.usable <=> s.usable)
      /\ base.next = s.next /\ base.pending = s.pending
      /\ base.deadline = deadline /\ base.result = None
      /\ base.call = s.call /\ base.stream = s.stream /\ base.reply = s.reply
  BY <1>1, <1>3, LimitedFields
<1>5. s.open /\ s.call = None /\ (method = "decide" <=> s.pending # None)
  BY <1>2, <1>3, <1>4 DEF Session, Shaped
<1>6. CASE \E how \in Failing : Discard(r, how)
  <2>1. PICK how \in Failing : Discard(r, how)
    BY <1>6
  <2> QED BY <1>2, <2>1, DiscardFacts DEF Begins, Refused, Forgets
<1>7. CASE session' = [session EXCEPT ![r] = new] /\ worker' = worker
  <2>1. /\ DOMAIN session' = Roles /\ DOMAIN worker' = Roles /\ session'[r] = new
        /\ worker'[r] = w
        /\ \A q \in Roles : q # r => session'[q] = session[q] /\ worker'[q] = worker[q]
    BY <1>1, <1>7 DEF IInv, Shape
  <2>2. /\ IsSession(new) /\ (new.open <=> base.open) /\ (new.usable <=> base.usable)
        /\ new.deadline = base.deadline /\ new.result = base.result
        /\ new.thread = "write" /\ new.reply = base.reply
        /\ new.stream = HandedStream(base, method, stopping)
        /\ new.call = Request(new.pending, method, at, stopping, n)
        /\ method = "decide" => new.pending = base.pending /\ new.next = base.next
        /\ method # "decide" => new.pending = base.next /\ new.next = base.next + 1
    BY <1>1, <1>4, HandedFields
  <2>3. method = "decide" => base.stream \in Streams
    BY <1>3, <1>4, <1>5 DEF Session, Living
  <2>4. /\ method = "decide" => new.stream \in Streams /\ new.stream.count = base.stream.count
        /\ method = "execute_stream" => new.stream \in Streams /\ new.stream.count = 0
    BY <2>2, <2>3, HandedStreamFields
  <2>9. /\ n \in Nat /\ (method = "decide" => n = s.stream.count)
        /\ method \in Streamed => new.stream \in Streams /\ new.stream.count = n
    <3>1. method = "decide" => base.stream.count \in Nat
      BY <2>3 DEF Streams
    <3> QED BY <1>1, <1>4, <2>4, <3>1 DEF Streamed
  <2>5. at \in Runs
    BY SlotFacts DEF IInv
  <2>6. Session(new, w)
    <3>1. PICK run \in Runs : run = at
      BY <2>5
    <3>2. /\ IsSession(new) /\ new.open /\ new.usable /\ new.result = None
          /\ new.thread = "write" /\ new.reply = s.reply
          /\ new.call = Request(new.pending, method, run, stopping, n)
      BY <1>2, <1>4, <1>5, <2>2, <3>1
    <3>3. /\ method = "decide" =>
                new.pending = s.pending /\ new.next = s.next /\ n = s.stream.count
          /\ method # "decide" => new.pending = s.next /\ new.next = s.next + 1
      BY <1>4, <2>2, <2>9
    <3> QED BY <1>3, <1>5, <2>9, <3>2, <3>3, Asking
  <2>7. /\ new.call.method = method /\ new.call.run = at
        /\ (new.call.stopping <=> stopping) /\ new.pending \in Nat
    BY <1>3, <1>4, <1>5, <2>2, RequestFields, NoneIsNone DEF Session, Shaped, Living
  <2>8. new.call # None
    BY <2>2, <2>5, <2>7, <2>9, RequestFields, NoneIsNone
  <2> QED BY <1>2, <1>4, <1>5, <2>1, <2>2, <2>6, <2>7, <2>8, <1>1
       DEF Begins, Asked, Forgets
<1> QED BY <1>2, <1>6, <1>7

LEMMA Connects ==
    ASSUME IInv, NEW r \in Roles, NEW deadline,
           Connect(r, at, deadline) \/ LaunchFails(r)
    PROVE  Begins(r, "hello", FALSE, deadline)
<1>1. DOMAIN session = Roles /\ DOMAIN worker = Roles /\ at \in Runs
      /\ Session(session[r], worker[r])
  BY SlotFacts DEF IInv, Shape
<1>2. CASE Connect(r, at, deadline)
  <2>1. PICK new : new = Greeting(at, deadline)
    OBVIOUS
  <2>2. /\ session' = [session EXCEPT ![r] = new]
        /\ worker' = [worker EXCEPT ![r] = Launched] /\ passed' = passed
    BY <1>2, <2>1 DEF Connect, Greeting
  <2>3. /\ session'[r] = new /\ worker'[r] = Launched
        /\ DOMAIN session' = Roles /\ DOMAIN worker' = Roles
        /\ \A q \in Roles : q # r => session'[q] = session[q] /\ worker'[q] = worker[q]
    BY <1>1, <2>2, RoleUpdate
  <2>4. /\ IsSession(new) /\ new.open /\ new.usable /\ new.next = 1
        /\ new.pending = 0 /\ new.deadline = deadline /\ new.result = None
        /\ new.thread = "write" /\ new.reply = None
        /\ new.call \in Requests /\ new.call # None /\ new.call.id = 0
        /\ new.call.method = "hello" /\ new.call.run = at /\ ~new.call.stopping
    BY <1>1, <2>1, ConnectedFields
  <2>5. Session(new, Launched)
    BY <2>4, Connecting
  <2> QED BY <2>2, <2>3, <2>4, <2>5, LaunchedFields DEF Begins, Asked, Forgets
<1>3. CASE LaunchFails(r)
  <2>1. PICK new : new = [NoSession EXCEPT !.result = "lost"]
    OBVIOUS
  <2>2. /\ session' = [session EXCEPT ![r] = new]
        /\ worker' = worker /\ passed' = passed /\ ~session[r].open
    BY <1>3, <2>1 DEF LaunchFails
  <2>3. /\ session'[r] = new /\ worker'[r] = worker[r]
        /\ DOMAIN session' = Roles /\ DOMAIN worker' = Roles
        /\ \A q \in Roles : q # r => session'[q] = session[q] /\ worker'[q] = worker[q]
    BY <1>1, <2>2, RoleUpdate
  <2>4. /\ IsSession(new) /\ ~new.open /\ ~new.usable /\ new.next = 0
        /\ new.pending = None /\ new.deadline = None /\ new.call = None
        /\ new.result = "lost" /\ new.thread = "gone" /\ new.reply = None
    BY <2>1, NoSessionFields, ZenonT(40)
  <2>5. worker[r] = Dead
    BY <1>1, <2>2 DEF Session, Living
  <2>6. Session(new, worker[r])
    BY <2>4, <2>5, Closed
  <2> QED BY <2>2, <2>3, <2>4, <2>6 DEF Begins, Refused, Failing, Forgets
<1> QED BY <1>2, <1>3

LEMMA OneTurn ==
    ASSUME IInv, NEW r \in Roles, Turn(r), NEW q \in Roles, q # r
    PROVE  session[q].call = None /\ session[q].result = None
<1>1. ~Turn(q)
  BY Who DEF Turn, ImplSteps, EvalSteps
<1> QED BY <1>1 DEF IInv, Placed

LEMMA AskStep ==
    ASSUME IInv, NEW r \in Roles, NEW method, NEW stopping, NEW deadline,
           Turn(r), Asks(method), Idle(r),
           Begins(r, method, stopping, deadline),
           plan' = plan, pc' = pc, at' = at, retained' = retained,
           open' \in BOOLEAN,
           deadline # None => r = I /\ deadline = at /\ open',
           open' => /\ r = I /\ deadline = at /\ ~stopping
                    /\ pc \in {"launch", "prepare", "execute", "decide"}
                    /\ pc = "launch" => Terms.scope = "cold_end_to_end"
                    /\ pc = "prepare" =>
                         Terms.scope \in {"cold_end_to_end", "prepare_and_execute"},
           open => open' \/ pc = "decide",
           files' = files \/ (pc = "prepare" /\ files' = files \cup {at}),
           IsHistory(history'), history'.overrun = history.overrun,
           history'.published = history.published,
           Warm', Judged'
    PROVE  IInv'
<1>1. /\ Slot' = Slot /\ Key' = Key /\ Terms' = Terms /\ I' = I
      /\ (Borrowed' <=> Borrowed) /\ ExecuteMethod' = ExecuteMethod
  BY SameSlot
<1>2. \A q \in Roles : session[q].call = None /\ session[q].result = None
  BY OneTurn DEF Idle
<1>3. PICK s2, w2 : s2 = session'[r] /\ w2 = worker'[r]
  OBVIOUS
<1>4. /\ Asked(s2, method, stopping, deadline) \/ Refused(s2)
      /\ Forgets(worker[r], w2)
      /\ s2.open => session[r].open \/ method = "hello"
      /\ \A q \in Roles : q # r => session'[q] = session[q] /\ worker'[q] = worker[q]
      /\ Session(s2, w2) /\ passed' = passed
      /\ DOMAIN session' = Roles /\ DOMAIN worker' = Roles
  BY <1>3 DEF Begins
<1>5. Shape'
  BY <1>1, <1>4 DEF IInv, Shape, IsHistory
<1>6. \A q \in Roles : Session(session'[q], worker'[q])
  BY <1>3, <1>4 DEF IInv
<1>7. /\ (\A q : Turn(q)' <=> Turn(q)) /\ (\A m : Asks(m)' <=> Asks(m))
  BY SameTurn
<1>8. /\ s2.result \notin {"ok", "checkpoint", "failure"}
      /\ s2.call # None \/ s2.result # None
      /\ s2.call # None => /\ s2.call.run = at /\ s2.call.method = method
                           /\ s2.call.stopping <=> stopping
                           /\ s2.deadline = deadline
      /\ s2.call = None => s2.pending = None /\ s2.deadline = None
  BY <1>4, NoneIsNone DEF Asked, Refused, Failing, Results
<1>9. ASSUME NEW q \in Roles PROVE Placed(q, session[q])'
  <2>1. CASE q = r
    BY <1>1, <1>3, <1>7, <1>8, <2>1 DEF Placed
  <2>2. CASE q # r
    <3>1. Placed(q, session[q]) /\ session'[q] = session[q]
      BY <1>4, <2>2 DEF IInv
    <3>2. session[q].deadline = None
      <4>1. SUFFICES ASSUME session[q].deadline # None PROVE FALSE
        OBVIOUS
      <4>2. q = I /\ open
        BY <3>1, <4>1 DEF Placed
      <4>3. pc \in EvalSteps
        BY <2>2, <4>2 DEF Turn
      <4> QED BY <4>2, <4>3 DEF IInv, Timed, EvalSteps
    <3> QED BY <1>1, <1>2, <1>7, <3>1, <3>2, NoneIsNone DEF Placed, Results
  <2> QED BY <2>1, <2>2
<1>10. Timed'
  BY <1>1, <1>3, <1>8 DEF Timed
<1>11. Remaining'
  <2>1. method = "hello" => pc \in {"launch", "eval_launch"}
    BY DEF Asks, ExecuteMethod
  <2>2. r = E \/ (r = "owned" /\ ~Borrowed) \/ (r = "pooled" /\ Borrowed)
    BY Who DEF Turn
  <2>3. Remaining
    BY DEF IInv
  <2>4. /\ r = E => pc \in EvalSteps
        /\ r # E => pc \in ImplSteps
    BY Who DEF Turn
  <2>5. session'["owned"].open =>
           session["owned"].open \/ (~Borrowed /\ pc = "launch")
    BY <1>3, <1>4, <2>1, <2>2, <2>4 DEF Roles, ImplSteps, E
  <2>6. session'[E].open => session[E].open \/ pc = "eval_launch"
    BY <1>3, <1>4, <2>1, <2>4, Who DEF Roles, EvalSteps
  <2>7. session'["pooled"].open =>
           session["pooled"].open \/ (Borrowed /\ pc = "launch")
    BY <1>3, <1>4, <2>1, <2>2, <2>4 DEF Roles, ImplSteps, E
  <2> QED BY <1>1, <2>3, <2>5, <2>6, <2>7 DEF Remaining, E
<1>12. Clean'
  <2>1. \A set : Remembers(worker[I], set) => Remembers(worker'[I], set)
    BY <1>3, <1>4, Who DEF Remembers, Forgets
  <2>2. pc = "reset" => session'[I].result # "ok"
    BY <1>2, <1>3, <1>4, <1>8, NoneIsNone, Who DEF Results
  <2>3. Clean
    BY DEF IInv
  <2> QED BY <1>1, <2>1, <2>2, <2>3 DEF Clean, Working
<1>13. PublishedAsJudged' /\ NothingLatePublished'
  BY DEF IInv, PublishedAsJudged, NothingLatePublished, HashTree
<1>14. history'.overrun => Doomed'
  <2>1. SUFFICES ASSUME Doomed PROVE Doomed'
    BY DEF IInv
  <2>2. \A q \in Roles : ~Waiting(q) /\ session[q].result \notin Failing \cup {"ok", "checkpoint"}
    BY <1>2, NoneIsNone DEF Waiting, Failing, Results
  <2>3. ~(open /\ pc = "decide")
    BY <1>2, Who DEF IInv, Timed
  <2>4. \/ open' /\ at \in passed
        \/ Terms.mode = "stream" /\ pc \in {"stop_impl", "stop_eval", "finish"}
    BY <2>1, <2>2, <2>3, Who DEF Doomed
  <2>5. session'[I].result # "checkpoint"
    BY <1>2, <1>3, <1>4, <1>8, Who, NoneIsNone DEF Results
  <2> QED BY <1>1, <1>4, <2>4, <2>5 DEF Doomed
<1> QED BY <1>5, <1>6, <1>9, <1>10, <1>11, <1>12, <1>13, <1>14 DEF IInv

\* Most of them change nothing else.
LEMMA OnlyAsks ==
    ASSUME IInv, NEW r \in Roles, NEW method, NEW stopping, NEW deadline,
           Turn(r), Begins(r, method, stopping, deadline),
           plan' = plan, pc' = pc, at' = at, retained' = retained, history' = history
    PROVE  /\ IsHistory(history') /\ history'.overrun = history.overrun
           /\ history'.published = history.published
           /\ pc # "launch" => Warm'
           /\ tree' = tree /\ pc # "evaluate" => Judged'
<1>1. /\ Slot' = Slot /\ Key' = Key /\ Terms' = Terms /\ I' = I
      /\ (Borrowed' <=> Borrowed)
  BY SameSlot
<1>2. IsHistory(history)
  BY DEF IInv, Shape, IsHistory
<1>3. ASSUME pc # "launch" PROVE Warm'
  <2>1. Measured' <=> Measured
    BY <1>1 DEF Measured
  <2> QED BY <1>1, <1>3, <2>1 DEF IInv, Warm, WarmFor
<1>4. ASSUME tree' = tree, pc # "evaluate" PROVE Judged'
  BY <1>1, <1>4 DEF IInv, Judged, Marked, HashTree, IsTree
<1> QED BY <1>2, <1>3, <1>4

\* Outside its scope an execution has no deadline.
LEMMA NoDeadline ==
    ASSUME IInv, NEW r \in Roles, pc \notin {"launch", "prepare", "execute", "decide"}
    PROVE  ~open /\ session[r].deadline = None
BY DEF IInv, Timed, Placed

LEMMA ResetStep ==
    ASSUME IInv, Reset
    PROVE  IInv'
<1>1. /\ pc = "reset" /\ Idle(I) /\ Call(I, "reset", at, FALSE, None)
      /\ plan' = plan /\ pc' = pc /\ at' = at /\ retained' = retained
      /\ open' = open /\ files' = files /\ history' = history /\ tree' = tree
  BY DEF Reset, slotVars
<1>2. I \in Roles /\ Turn(I) /\ Asks("reset") /\ ~open /\ open \in BOOLEAN
  BY <1>1, Who, NoDeadline DEF Turn, Asks, ImplSteps, IInv, Shape
<1>3. Begins(I, "reset", FALSE, None)
  BY <1>1, <1>2, Calling DEF Methods
<1> QED BY <1>1, <1>2, <1>3, OnlyAsks, AskStep

LEMMA PrepareStep ==
    ASSUME IInv, Prepare
    PROVE  IInv'
<1>1. PICK opened, deadline :
         opened = (open \/ Opens("prepare")) /\ deadline = Deadline(opened)
  OBVIOUS
<1>2. /\ pc = "prepare" /\ Idle(I) /\ Call(I, "prepare", at, FALSE, deadline)
      /\ plan' = plan /\ pc' = pc /\ at' = at /\ retained' = retained
      /\ open' = opened /\ history' = history /\ tree' = tree
      /\ files' = files \/ files' = files \cup {at}
  BY <1>1 DEF Prepare, given
<1>3. I \in Roles /\ Turn(I) /\ Asks("prepare")
  BY <1>2, Who DEF Turn, Asks, ImplSteps
<1>4. Begins(I, "prepare", FALSE, deadline)
  BY <1>2, <1>3, Calling DEF Methods
<1>5. /\ opened \in BOOLEAN /\ (open => opened)
      /\ opened => Terms.scope \in {"cold_end_to_end", "prepare_and_execute"}
  BY <1>1, <1>2 DEF Opens, IInv, Timed
<1>6. at # None /\ (opened => deadline = at) /\ (~opened => deadline = None)
  BY <1>1, <1>5, SlotFacts DEF Deadline, IInv
<1> QED BY <1>2, <1>3, <1>4, <1>5, <1>6, OnlyAsks, AskStep

LEMMA ExecuteStep ==
    ASSUME IInv, Execute
    PROVE  IInv'
<1>1. PICK opened, deadline, method :
         /\ opened = (open \/ Opens(ExecuteMethod)) /\ deadline = Deadline(opened)
         /\ method = ExecuteMethod
  OBVIOUS
<1>2. /\ pc = "execute" /\ Idle(I) /\ Call(I, method, at, FALSE, deadline)
      /\ plan' = plan /\ pc' = pc /\ at' = at /\ retained' = retained
      /\ open' = opened /\ history' = history /\ tree' = tree /\ files' = files
  BY <1>1 DEF Execute, given
<1>3. I \in Roles /\ Turn(I) /\ Asks(method) /\ method \in Methods
  BY <1>1, <1>2, Who DEF Turn, Asks, ImplSteps, ExecuteMethod, Methods
<1>4. Begins(I, method, FALSE, deadline)
  BY <1>2, <1>3, Calling
<1>5. opened \in BOOLEAN /\ (open => opened)
  BY <1>1
<1>6. at # None /\ (opened => deadline = at) /\ (~opened => deadline = None)
  BY <1>1, <1>5, SlotFacts DEF Deadline, IInv
<1> QED BY <1>2, <1>3, <1>4, <1>5, <1>6, OnlyAsks, AskStep

LEMMA DecideStep ==
    ASSUME IInv, Decide
    PROVE  IInv'
<1>1. PICK stop \in BOOLEAN : Call(I, "decide", at, stop, Deadline(~stop)) /\ open' = ~stop
  BY DEF Decide
<1>2. PICK deadline : deadline = Deadline(~stop)
  OBVIOUS
<1>3. /\ pc = "decide" /\ Idle(I) /\ Call(I, "decide", at, stop, deadline)
      /\ plan' = plan /\ pc' = pc /\ at' = at /\ retained' = retained
      /\ history' = history /\ tree' = tree /\ files' = files
  BY <1>1, <1>2 DEF Decide, given, Idle
<1>4. I \in Roles /\ Turn(I) /\ Asks("decide")
  BY <1>3, Who DEF Turn, Asks, ImplSteps
<1>5. Begins(I, "decide", stop, deadline)
  BY <1>3, <1>4, Calling DEF Methods
<1>6. at # None /\ (~stop => deadline = at) /\ (stop => deadline = None)
  BY <1>2, SlotFacts DEF Deadline, IInv
<1>7. open' \in BOOLEAN /\ (open' <=> ~stop)
  BY <1>1
<1> QED BY <1>3, <1>4, <1>5, <1>6, <1>7, OnlyAsks, AskStep

LEMMA StopStep ==
    ASSUME IInv, NEW r \in Roles, NEW step,
           (r = I /\ step = "stop_impl") \/ (r = E /\ step = "stop_eval"),
           Stop(r, step)
    PROVE  IInv'
<1>1. /\ pc = step /\ Idle(r) /\ Call(r, "shutdown", at, FALSE, session[r].deadline)
      /\ plan' = plan /\ pc' = pc /\ at' = at /\ retained' = retained
      /\ open' = open /\ files' = files /\ history' = history /\ tree' = tree
  BY DEF Stop, slotVars
<1>2. /\ Turn(r) /\ Asks("shutdown") /\ ~open /\ open \in BOOLEAN
      /\ session[r].deadline = None
  BY <1>1, NoDeadline DEF Turn, Asks, ImplSteps, EvalSteps, IInv, Shape
<1>3. Begins(r, "shutdown", FALSE, None)
  BY <1>1, <1>2, Calling DEF Methods
<1> QED BY <1>1, <1>2, <1>3, OnlyAsks, AskStep

LEMMA EvaluateStep ==
    ASSUME IInv, Evaluate
    PROVE  IInv'
<1>1. PICK now : now = IF Terms.mode = "one_shot" THEN tree.now ELSE 0
  OBVIOUS
<1>2. /\ pc = "evaluate" /\ Idle(E) /\ Call(E, "evaluate", at, FALSE, session[E].deadline)
      /\ plan' = plan /\ pc' = pc /\ at' = at /\ retained' = retained
      /\ open' = open /\ files' = files /\ history' = history
      /\ tree' = [now |-> now, hashed |-> HashTree(now), judged |-> now,
                   restored |-> FALSE]
  BY <1>1 DEF Evaluate, given
<1>3. /\ E \in Roles /\ Turn(E) /\ Asks("evaluate") /\ ~open /\ open \in BOOLEAN
      /\ session[E].deadline = None
  BY <1>2, Who, NoDeadline DEF Turn, Asks, EvalSteps, IInv, Shape
<1>4. Begins(E, "evaluate", FALSE, None)
  BY <1>2, <1>3, Calling DEF Methods
<1>5. Judged'
  <2>1. PICK t : t = tree'
    OBVIOUS
  <2>2. t = [now |-> now, hashed |-> HashTree(now), judged |-> now, restored |-> FALSE]
    BY <1>2, <2>1
  <2>3. /\ t.now = now /\ t.hashed = HashTree(now) /\ t.judged = now
        /\ t.restored = FALSE /\ IsTree(t)
    BY <2>2, Zenon DEF IsTree
  <2>4. Marked(tree)'
    BY <2>1, <2>3 DEF Marked, HashTree
  <2>5. IsTree(tree)' /\ tree'.restored \in BOOLEAN
    BY <2>1, <2>3 DEF IsTree
  <2> QED BY <2>4, <2>5 DEF Judged
<1> QED BY <1>2, <1>3, <1>4, <1>5, OnlyAsks, AskStep

LEMMA EvaluatorLaunchStep ==
    ASSUME IInv, EvaluatorLaunch
    PROVE  IInv'
<1>1. /\ pc = "eval_launch" /\ Idle(E) /\ (Connect(E, at, None) \/ LaunchFails(E))
      /\ plan' = plan /\ pc' = pc /\ at' = at /\ retained' = retained
      /\ open' = open /\ files' = files /\ history' = history /\ tree' = tree
  BY DEF EvaluatorLaunch, slotVars
<1>2. E \in Roles /\ Turn(E) /\ Asks("hello") /\ ~open /\ open \in BOOLEAN
  BY <1>1, Who, NoDeadline DEF Turn, Asks, EvalSteps, IInv, Shape
<1>3. Begins(E, "hello", FALSE, None)
  BY <1>1, <1>2, Connects
<1> QED BY <1>1, <1>2, <1>3, OnlyAsks, AskStep

LEMMA LaunchStep ==
    ASSUME IInv, Launch
    PROVE  IInv'
<1>1. PICK opened, deadline :
         opened = Opens("hello") /\ deadline = Deadline(opened)
  OBVIOUS
<1>2. /\ pc = "launch" /\ Idle(I) /\ (Connect(I, at, deadline) \/ LaunchFails(I))
      /\ plan' = plan /\ pc' = pc /\ at' = at /\ retained' = retained
      /\ open' = opened /\ files' = files /\ tree' = tree
  BY <1>1 DEF Launch, given
<1>3. I \in Roles /\ Turn(I) /\ Asks("hello")
  BY <1>2, Who DEF Turn, Asks, ImplSteps
<1>4. Begins(I, "hello", FALSE, deadline)
  BY <1>2, <1>3, Connects
<1>5. /\ opened \in BOOLEAN /\ (opened <=> Terms.scope = "cold_end_to_end")
      /\ open => opened
  BY <1>1, <1>2 DEF Opens, IInv, Timed
<1>6. at # None /\ (opened => deadline = at) /\ (~opened => deadline = None)
  BY <1>1, <1>5, SlotFacts DEF Deadline, IInv
<1>7. PICK h, g, key, spec : h = history /\ g = history' /\ key = Key /\ spec = Slot.spec
  OBVIOUS
<1>8. IsHistory(h)
  BY <1>7 DEF IInv, Shape, IsHistory
<1>9. /\ Borrowed => g = [h EXCEPT !.key = key, !.spec = spec, !.warmed = 0]
      /\ ~Borrowed => g = h
  BY <1>7 DEF Launch
<1>10. /\ IsHistory(g) /\ g.overrun = h.overrun /\ g.published = h.published
       /\ Borrowed => g.key = key
  <2>1. CASE Borrowed
    <3>1. g = [h EXCEPT !.key = key, !.spec = spec, !.warmed = 0]
      BY <1>9, <2>1
    <3> QED BY <1>8, <3>1, Zenon DEF IsHistory
  <2>2. CASE ~Borrowed
    BY <1>8, <1>9, <2>2
  <2> QED BY <2>1, <2>2
<1>11. Judged'
  <2>1. Terms' = Terms
    BY <1>2, SameSlot
  <2> QED BY <1>2, <2>1 DEF IInv, Judged, Marked, HashTree
<1>12. Warm'
  <2>1. /\ Key' = Key /\ (Borrowed' <=> Borrowed)
    BY <1>2, SameSlot
  <2>2. CASE Borrowed
    <3>1. history'.key = Key
      BY <1>7, <1>10, <2>2
    <3> QED BY <1>2, <2>1, <2>2, <3>1 DEF Warm
  <2>3. CASE ~Borrowed
    <3>1. history' = history
      BY <1>7, <1>9, <2>3
    <3> QED BY <1>2, <2>1, <2>3, <3>1 DEF IInv, Warm, WarmFor
  <2> QED BY <2>2, <2>3
<1>13. /\ IsHistory(history') /\ history'.overrun = history.overrun
       /\ history'.published = history.published
  BY <1>7, <1>10
<1> QED BY <1>2, <1>3, <1>4, <1>5, <1>6, <1>11, <1>12, <1>13, AskStep

-----------------------------------------------------------------------------
(* The lane acts on an answer: no exchange is under way afterwards.        *)
Consumes(r) ==
    /\ DOMAIN session' = Roles /\ DOMAIN worker' = Roles
    /\ \A q \in Roles :
         /\ session[q].call = None
         /\ q # r => session[q].result = None
         /\ Session(session'[q], worker'[q])
         /\ session'[q].call = None /\ session'[q].result = None
         /\ session'[q].open <=> session[q].open
         /\ session'[q].pending = session[q].pending
         /\ session'[q].deadline \in {None, session[q].deadline}
         /\ worker'[q].memory = worker[q].memory
         /\ worker'[q].ahead = worker[q].ahead

LEMMA HasTurn ==
    ASSUME IInv, NEW r \in Roles, session[r].result # None
    PROVE  /\ Turn(r)
           /\ \A q \in Roles : session[q].call = None /\ (q # r => session[q].result = None)
<1>1. Turn(r)
  BY DEF IInv, Placed
<1>2. session[r].call = None
  BY DEF IInv, Session, Living
<1> QED BY <1>1, <1>2, OneTurn

TakesOff(s, s2) == s2 = [s EXCEPT !.result = None, !.answer = None]
LiftsLimit(s, s2) == s2 = [s EXCEPT !.deadline = None]

LEMMA ConsumedFields ==
    ASSUME NEW s, IsSession(s), NEW s2, TakesOff(s, s2)
    PROVE  /\ IsSession(s2) /\ (s2.open <=> s.open) /\ (s2.usable <=> s.usable)
           /\ s2.next = s.next /\ s2.call = s.call /\ s2.reply = s.reply
           /\ s2.stream = s.stream /\ s2.pending = s.pending /\ s2.thread = s.thread
           /\ s2.result = None /\ s2.deadline = s.deadline
BY Zenon DEF IsSession, TakesOff

LEMMA UntimedFields ==
    ASSUME NEW s, IsSession(s), NEW s2, LiftsLimit(s, s2)
    PROVE  /\ IsSession(s2) /\ (s2.open <=> s.open) /\ (s2.usable <=> s.usable)
           /\ s2.next = s.next /\ s2.call = s.call /\ s2.reply = s.reply
           /\ s2.stream = s.stream /\ s2.pending = s.pending /\ s2.thread = s.thread
           /\ s2.result = s.result /\ s2.deadline = None
BY Zenon DEF IsSession, LiftsLimit

LEMMA PrivateFields ==
    ASSUME NEW w, IsWorker(w), NEW w2, w2 = [w EXCEPT !.private = TRUE]
    PROVE  /\ IsWorker(w2) /\ w2.inbox = w.inbox /\ w2.outbox = w.outbox
           /\ w2.last = w.last /\ w2.ahead = w.ahead /\ w2.memory = w.memory
           /\ w = Dead => w2 = Dead
<1>1. /\ IsWorker(w2) /\ w2.inbox = w.inbox /\ w2.outbox = w.outbox
      /\ w2.last = w.last /\ w2.ahead = w.ahead /\ w2.memory = w.memory
  BY Zenon DEF IsWorker
<1>2. ASSUME w = Dead PROVE w2 = Dead
  BY <1>2 DEF Dead
<1> QED BY <1>1, <1>2

LEMMA Consumption ==
    ASSUME IInv, NEW r \in Roles, session[r].result \in {"ok", "checkpoint"},
           NEW s2, NEW w2, session' = [session EXCEPT ![r] = s2],
           DOMAIN worker' = Roles, worker'[r] = w2,
           \A q \in Roles : q # r => worker'[q] = worker[q],
           \/ TakesOff(session[r], s2)
           \/ \E s1 : TakesOff(session[r], s1) /\ LiftsLimit(s1, s2),
           w2 = worker[r] \/ w2 = [worker[r] EXCEPT !.private = TRUE]
    PROVE  Consumes(r)
<1>1. PICK s, w : s = session[r] /\ w = worker[r]
  OBVIOUS
<1>2. Session(s, w) /\ IsSession(s) /\ IsWorker(w) /\ s.result \in {"ok", "checkpoint"}
  BY <1>1 DEF IInv, Session, Shaped
<1>3. DOMAIN session = Roles /\ DOMAIN worker = Roles
  BY DEF IInv, Shape
<1>4. s.result # None
  BY <1>2, NoneIsNone DEF Results
<1>5. \A q \in Roles : session[q].call = None /\ (q # r => session[q].result = None)
  BY <1>1, <1>4, HasTurn
<1>6. /\ IsSession(s2) /\ (s2.open <=> s.open) /\ (s2.usable <=> s.usable)
      /\ s2.next = s.next /\ s2.call = s.call /\ s2.reply = s.reply
      /\ s2.stream = s.stream /\ s2.pending = s.pending /\ s2.thread = s.thread
      /\ s2.result = None /\ s2.deadline \in {None, s.deadline}
  <2>1. CASE TakesOff(session[r], s2)
    BY <1>1, <1>2, <2>1, ConsumedFields
  <2>2. CASE \E s1 : TakesOff(session[r], s1) /\ LiftsLimit(s1, s2)
    <3>1. PICK s1 : TakesOff(session[r], s1) /\ LiftsLimit(s1, s2)
      BY <2>2
    <3>2. /\ IsSession(s1) /\ (s1.open <=> s.open) /\ (s1.usable <=> s.usable)
          /\ s1.next = s.next /\ s1.call = s.call /\ s1.reply = s.reply
          /\ s1.stream = s.stream /\ s1.pending = s.pending /\ s1.thread = s.thread
          /\ s1.result = None
      BY <1>1, <1>2, <3>1, ConsumedFields
    <3>3. /\ IsSession(s2) /\ (s2.open <=> s1.open) /\ (s2.usable <=> s1.usable)
          /\ s2.next = s1.next /\ s2.call = s1.call /\ s2.reply = s1.reply
          /\ s2.stream = s1.stream /\ s2.pending = s1.pending /\ s2.thread = s1.thread
          /\ s2.result = s1.result /\ s2.deadline = None
      BY <3>1, <3>2, UntimedFields
    <3> QED BY <3>2, <3>3
  <2> QED BY <2>1, <2>2
<1>7. /\ IsWorker(w2) /\ w2.inbox = w.inbox /\ w2.outbox = w.outbox
      /\ w2.last = w.last /\ w2.ahead = w.ahead /\ w2.memory = w.memory
      /\ w = Dead => w2 = Dead
  BY <1>1, <1>2, PrivateFields
<1>8. Session(s2, w2)
  BY <1>2, <1>4, <1>6, <1>7, Consuming
<1>9. /\ session'[r] = s2 /\ worker'[r] = w2
      /\ DOMAIN session' = Roles /\ DOMAIN worker' = Roles
      /\ \A q \in Roles : q # r => session'[q] = session[q] /\ worker'[q] = worker[q]
  BY <1>3, RoleUpdate
<1>10. ASSUME NEW q \in Roles
       PROVE  /\ Session(session'[q], worker'[q])
              /\ session'[q].call = None /\ session'[q].result = None
              /\ session'[q].open <=> session[q].open
              /\ session'[q].pending = session[q].pending
              /\ session'[q].deadline \in {None, session[q].deadline}
              /\ worker'[q].memory = worker[q].memory
              /\ worker'[q].ahead = worker[q].ahead
  <2>1. CASE q = r
    BY <1>1, <1>5, <1>6, <1>7, <1>8, <1>9, <2>1
  <2>2. CASE q # r
    BY <1>5, <1>9, <2>2 DEF IInv
  <2> QED BY <2>1, <2>2
<1> QED BY <1>5, <1>9, <1>10 DEF Consumes

LEMMA ConsumedConsumes ==
    ASSUME IInv, NEW r \in Roles, session[r].result \in {"ok", "checkpoint"},
           session' = Consumed(r), worker' = worker
    PROVE  Consumes(r)
<1>1. DOMAIN session = Roles /\ DOMAIN worker = Roles
  BY DEF IInv, Shape
<1>2. PICK s2 : s2 = [session[r] EXCEPT !.result = None, !.answer = None]
  OBVIOUS
<1>3. session' = [session EXCEPT ![r] = s2]
  BY <1>1, <1>2 DEF Consumed
<1>4. TakesOff(session[r], s2)
  BY <1>2 DEF TakesOff
<1> QED BY <1>1, <1>3, <1>4, Consumption

LEMMA UntimedConsumes ==
    ASSUME IInv, session[I].result \in {"ok", "checkpoint"},
           session' = Untimed, worker' = worker
    PROVE  Consumes(I) /\ session'[I].deadline = None
<1>1. DOMAIN session = Roles /\ DOMAIN worker = Roles /\ I \in Roles
  BY Who DEF IInv, Shape
<1>2. PICK r : r = I
  OBVIOUS
<1>3. PICK c : c = Consumed(r)
  OBVIOUS
<1>4. PICK s1 : s1 = [session[r] EXCEPT !.result = None, !.answer = None]
  OBVIOUS
<1>5. c = [session EXCEPT ![r] = s1]
  BY <1>1, <1>2, <1>3, <1>4 DEF Consumed
<1>6. PICK s2 : s2 = [s1 EXCEPT !.deadline = None]
  OBVIOUS
<1>7. session' = [c EXCEPT ![r].deadline = None]
  BY <1>2, <1>3 DEF Untimed
<1>8. c[r] = s1 /\ DOMAIN c = Roles /\ \A q \in Roles : q # r => c[q] = session[q]
  BY <1>1, <1>2, <1>5
<1>9. session' = [c EXCEPT ![r] = s2]
  BY <1>6, <1>7, <1>8
<1>10. session' = [session EXCEPT ![r] = s2]
  BY <1>1, <1>2, <1>5, <1>9
<1>11. TakesOff(session[r], s1) /\ LiftsLimit(s1, s2)
  BY <1>4, <1>6 DEF TakesOff, LiftsLimit
<1>13. Consumes(r)
  BY <1>1, <1>2, <1>10, <1>11, Consumption
<1>14. IsSession(s1)
  <2>1. IsSession(session[r])
    BY <1>1, <1>2 DEF IInv, Session, Shaped
  <2> QED BY <1>11, <2>1, ConsumedFields
<1>15. s2.deadline = None
  BY <1>11, <1>14, UntimedFields
<1> QED BY <1>1, <1>2, <1>10, <1>13, <1>15

LEMMA AnswerFacts ==
    ASSUME IInv, NEW r \in Roles, session[r].result \in {"ok", "checkpoint"}
    PROVE  /\ Turn(r)
           /\ session[I].pending # None =>
                 /\ Terms.mode = "stream"
                 /\ pc \in {"execute", "decide", "eval_launch", "evaluate"}
                 /\ session[I].result \in {None, "checkpoint"}
           /\ session[r].result = "checkpoint" =>
                 r = I /\ Terms.mode = "stream" /\ session[r].pending # None
           /\ history.overrun =>
                 \/ open /\ at \in passed /\ session[I].result # "checkpoint"
                 \/ /\ Terms.mode = "stream"
                    /\ \/ pc \in {"stop_impl", "stop_eval", "finish"}
                       \/ pc \in {"execute", "decide"} /\ session[I].result = "ok"
<1>1. session[r].result # None
  BY NoneIsNone DEF Results
<1>2. Turn(r) /\ \A q \in Roles : session[q].call = None /\ (q # r => session[q].result = None)
  BY <1>1, HasTurn
<1>3. \A q \in Roles : session[q].pending # None =>
         /\ q = I /\ Terms.mode = "stream"
         /\ pc \in {"execute", "decide", "eval_launch", "evaluate"}
         /\ session[q].result \in {None, "checkpoint"}
  BY <1>2 DEF IInv, Placed, Session, Living
<1>4. session[r].result = "checkpoint" => session[r].pending # None
  BY DEF IInv, Session, Living
<1>5. \A q \in Roles : ~Waiting(q) /\ session[q].result \notin Failing
  BY <1>2, NoneIsNone DEF Waiting, Failing, Results
<1>6. history.overrun => Doomed
  BY DEF IInv
<1> QED BY <1>2, <1>3, <1>4, <1>5, <1>6, Who DEF Doomed

LEMMA ConsumeStep ==
    ASSUME IInv, NEW r \in Roles, session[r].result \in {"ok", "checkpoint"},
           Consumes(r), plan' = plan, at' = at, retained' = retained,
           open' \in BOOLEAN,
           pc' \in Working \cup {"stop_impl", "stop_eval", "finish"},
           pc' = "decide" => Terms.mode = "stream",
           session[I].pending # None => pc' \in {"decide", "eval_launch", "evaluate"},
           open => open' \/ session'[I].deadline = None,
           open' => /\ open /\ pc' \in {"prepare", "execute"}
                    /\ pc' = "prepare" =>
                         Terms.scope \in {"cold_end_to_end", "prepare_and_execute"},
           IsHistory(history'), history'.overrun = history.overrun,
           history'.key = history.key, history'.spec = history.spec,
           history'.warmed = history.warmed,
           Remaining', Clean', Judged', history.overrun => Doomed',
           PublishedAsJudged', NothingLatePublished'
    PROVE  IInv'
<1>1. /\ Slot' = Slot /\ Key' = Key /\ Terms' = Terms /\ I' = I
      /\ (Borrowed' <=> Borrowed) /\ ExecuteMethod' = ExecuteMethod
  BY SameSlot
<1>2. /\ DOMAIN session' = Roles /\ DOMAIN worker' = Roles
      /\ \A q \in Roles :
           /\ session[q].call = None
           /\ Session(session'[q], worker'[q])
           /\ session'[q].call = None /\ session'[q].result = None
           /\ session'[q].pending = session[q].pending
           /\ session'[q].deadline \in {None, session[q].deadline}
  BY DEF Consumes
<1>3. Shape'
  <2>1. /\ plan \in Plans /\ at = <<at[1], at[2]>> /\ at[1] \in DOMAIN plan
        /\ at[2] \in 0..Terms.warmups /\ history.overrun \in BOOLEAN
    BY DEF IInv, Shape
  <2> QED BY <1>1, <1>2, <2>1 DEF Shape, Working, PCs, ImplSteps, EvalSteps, IsHistory
<1>4. ASSUME NEW q \in Roles PROVE Placed(q, session[q])'
  <2>1. Placed(q, session[q])
    BY DEF IInv
  <2>2. session'[q].deadline # None => q = I /\ session'[q].deadline = at /\ open'
    BY <1>2, <2>1 DEF Placed
  <2>3. session'[q].pending # None =>
           q = I /\ Terms.mode = "stream" /\ pc' \in {"decide", "eval_launch", "evaluate"}
    BY <1>2, <2>1 DEF Placed
  <2> QED BY <1>1, <1>2, <2>2, <2>3, NoneIsNone DEF Placed, Results
<1>5. Timed'
  BY <1>1, <1>2, Who DEF Timed
<1>6. Warm'
  <2>1. Turn(r) /\ (session[r].result = "checkpoint" => session[r].pending # None /\ r = I)
    BY AnswerFacts
  <2>2. Measured' <=> Measured
    BY <1>1 DEF Measured
  <2>3. pc \notin {"start", "done"} /\ (pc = "launch" => r = I)
    BY <2>1 DEF Turn, ImplSteps, EvalSteps
  <2>4. pc' \notin {"start", "launch", "done"}
    BY DEF Working
  <2>5. CASE pc # "launch"
    BY <1>1, <2>2, <2>3, <2>4, <2>5 DEF IInv, Warm, WarmFor
  <2>6. CASE pc = "launch"
    <3>1. session[I].result = "ok"
      BY <2>1, <2>3, <2>6, AnswerFacts
    <3>2. Borrowed => history.key = Key
      BY <2>6, <3>1 DEF IInv, Warm
    <3>3. Measured => Terms.warmups = 0
      BY <2>6 DEF IInv, Shape, Measured
    <3>4. Measured' => Policy[Key].warmups = 0
      BY <2>2, <3>3 DEF Terms
    <3> QED BY <1>1, <2>4, <2>6, <3>2, <3>4 DEF IInv, Warm, WarmFor
  <2> QED BY <2>5, <2>6
<1> QED BY <1>2, <1>3, <1>4, <1>5, <1>6 DEF IInv

LEMMA SameHistory ==
    ASSUME IInv, history' = history
    PROVE  /\ IsHistory(history') /\ history'.overrun = history.overrun
           /\ history'.key = history.key /\ history'.spec = history.spec
           /\ history'.warmed = history.warmed
           /\ PublishedAsJudged' /\ NothingLatePublished'
BY DEF IInv, Shape, IsHistory, PublishedAsJudged, NothingLatePublished, HashTree

\* The result tree, in the steps that judge nothing.
LEMMA KeepsJudged ==
    ASSUME IInv, plan' = plan, at' = at, tree' = tree,
           session'[E].call = None, session'[E].result = None,
           pc' \in {"stop_impl", "stop_eval", "finish"} /\ Terms.mode = "one_shot" =>
              Marked(tree)
    PROVE  Judged'
<1>1. Terms' = Terms
  BY SameSlot
<1>2. Marked(tree) => Marked(tree)'
  BY DEF Marked, HashTree
<1> QED BY <1>1, <1>2 DEF IInv, Judged, E

\* From one step on the way to a result to another.
LEMMA KeepsClean ==
    ASSUME IInv, NEW r \in Roles, Consumes(r), plan' = plan, at' = at, files' = files,
           pc \in Working, pc' \notin {"launch", "reset"}
    PROVE  Clean'
<1>1. I' = I /\ (Borrowed' <=> Borrowed)
  BY SameSlot
<1>2. worker'[I].memory = worker[I].memory /\ worker'[I].ahead = worker[I].ahead
  BY Who DEF Consumes
<1> QED BY <1>1, <1>2 DEF IInv, Clean, Remembers

LEMMA HelloAcceptedStep ==
    ASSUME IInv, HelloAccepted
    PROVE  IInv'
<1>1. /\ pc = "launch" /\ session[I].result = "ok" /\ session' = Consumed(I)
      /\ pc' = "prepare" /\ worker' = worker /\ passed' = passed /\ plan' = plan
      /\ at' = at /\ retained' = retained /\ open' = open /\ tree' = tree
      /\ files' = files /\ history' = history
  BY DEF HelloAccepted, given
<1>2. Consumes(I) /\ I \in Roles
  BY <1>1, Who, ConsumedConsumes
<1>3. /\ Terms' = Terms /\ I' = I /\ (Borrowed' <=> Borrowed)
  BY <1>1, SameSlot
<1>4. /\ session[I].pending = None
      /\ history.overrun => open /\ at \in passed
  BY <1>1, <1>2, AnswerFacts
<1>5. \A q \in Roles : /\ session'[q].open <=> session[q].open
                       /\ worker'[q].memory = worker[q].memory
                       /\ worker'[q].ahead = worker[q].ahead
                       /\ session'[q].call = None /\ session'[q].result = None
  BY <1>2 DEF Consumes
<1>6. Remaining'
  BY <1>1, <1>3, <1>5 DEF IInv, Remaining, E, Roles
<1>7. Clean'
  BY <1>1, <1>2, <1>3, <1>5 DEF IInv, Clean, Working, Remembers
<1>8. Judged'
  BY <1>1, <1>5, Who, KeepsJudged
<1>9. history.overrun => Doomed'
  BY <1>1, <1>2, <1>3, <1>4, <1>5, NoneIsNone DEF Doomed, Results
<1>10. /\ open \in BOOLEAN
       /\ open => Terms.scope \in {"cold_end_to_end", "prepare_and_execute"}
  BY <1>1 DEF IInv, Shape, Timed
<1>11. pc' \in Working \cup {"stop_impl", "stop_eval", "finish"}
  BY <1>1 DEF Working
<1> QED BY <1>1, <1>2, <1>4, <1>6, <1>7, <1>8, <1>9, <1>10, <1>11, SameHistory, ConsumeStep

LEMMA ResetDoneStep ==
    ASSUME IInv, ResetDone
    PROVE  IInv'
<1>1. /\ pc = "reset" /\ session[I].result = "ok" /\ session' = Consumed(I)
      /\ pc' = "prepare" /\ passed' = passed /\ plan' = plan
      /\ at' = at /\ retained' = retained /\ open' = open /\ tree' = tree
      /\ files' = {} /\ history' = history
      /\ worker' = [worker EXCEPT ![I].private = TRUE]
  BY DEF ResetDone, given, Cleared
<1>2. Consumes(I) /\ I \in Roles
  <2>1. DOMAIN session = Roles /\ DOMAIN worker = Roles /\ I \in Roles
    BY Who DEF IInv, Shape
  <2>2. PICK r : r = I
    OBVIOUS
  <2>3. PICK s2 : s2 = [session[r] EXCEPT !.result = None, !.answer = None]
    OBVIOUS
  <2>4. session' = [session EXCEPT ![r] = s2]
    BY <1>1, <2>1, <2>2, <2>3 DEF Consumed
  <2>5. TakesOff(session[r], s2)
    BY <2>3 DEF TakesOff
  <2>6. PICK w2 : w2 = [worker[r] EXCEPT !.private = TRUE]
    OBVIOUS
  <2>7. /\ DOMAIN worker' = Roles /\ worker'[r] = w2
        /\ \A q \in Roles : q # r => worker'[q] = worker[q]
    BY <1>1, <2>1, <2>2, <2>6
  <2>8. r \in Roles /\ session[r].result \in {"ok", "checkpoint"}
    BY <1>1, <2>1, <2>2
  <2>9. Consumes(r)
    BY <2>4, <2>5, <2>6, <2>7, <2>8, Consumption
  <2> QED BY <2>1, <2>2, <2>9
<1>3. /\ Terms' = Terms /\ I' = I /\ (Borrowed' <=> Borrowed)
  BY <1>1, SameSlot
<1>4. /\ session[I].pending = None /\ ~open /\ open \in BOOLEAN /\ ~history.overrun
  BY <1>1, <1>2, AnswerFacts, NoDeadline DEF IInv, Shape
<1>5. \A q \in Roles : /\ session'[q].open <=> session[q].open
                       /\ worker'[q].memory = worker[q].memory
                       /\ worker'[q].ahead = worker[q].ahead
                       /\ session'[q].call = None /\ session'[q].result = None
  BY <1>2 DEF Consumes
<1>6. Remaining'
  BY <1>1, <1>3, <1>5 DEF IInv, Remaining, E, Roles
<1>7. Clean'
  BY <1>1, <1>2, <1>3, <1>5 DEF IInv, Clean, Working, Remembers
<1>8. Judged'
  BY <1>1, <1>5, Who, KeepsJudged
<1>9. pc' \in Working \cup {"stop_impl", "stop_eval", "finish"}
  BY <1>1 DEF Working
<1> QED BY <1>1, <1>2, <1>4, <1>6, <1>7, <1>8, <1>9, SameHistory, ConsumeStep

LEMMA PreparedStep ==
    ASSUME IInv, Prepared
    PROVE  IInv'
<1>1. /\ pc = "prepare" /\ session[I].result = "ok" /\ session' = Consumed(I)
      /\ pc' = "execute" /\ worker' = worker /\ passed' = passed /\ plan' = plan
      /\ at' = at /\ retained' = retained /\ open' = open /\ tree' = tree
      /\ files' = files /\ history' = history
  BY DEF Prepared, given
<1>2. Consumes(I) /\ I \in Roles
  BY <1>1, Who, ConsumedConsumes
<1>3. /\ Terms' = Terms /\ I' = I /\ (Borrowed' <=> Borrowed)
  BY <1>1, SameSlot
<1>4. /\ session[I].pending = None /\ open \in BOOLEAN
      /\ history.overrun => open /\ at \in passed
  BY <1>1, <1>2, AnswerFacts DEF IInv, Shape
<1>5. \A q \in Roles : /\ session'[q].open <=> session[q].open
                       /\ session'[q].call = None /\ session'[q].result = None
  BY <1>2 DEF Consumes
<1>6. Remaining'
  BY <1>1, <1>3, <1>5 DEF IInv, Remaining, E, Roles
<1>7. Clean'
  BY <1>1, <1>2, KeepsClean DEF Working
<1>8. Judged'
  BY <1>1, <1>5, Who, KeepsJudged
<1>9. history.overrun => Doomed'
  BY <1>1, <1>2, <1>3, <1>4, <1>5, NoneIsNone DEF Doomed, Results
<1>10. pc' \in Working \cup {"stop_impl", "stop_eval", "finish"}
  BY <1>1 DEF Working
<1> QED BY <1>1, <1>2, <1>4, <1>6, <1>7, <1>8, <1>9, <1>10, SameHistory, ConsumeStep

LEMMA ExecutedStep ==
    ASSUME IInv, Executed
    PROVE  IInv'
<1>1. /\ pc = "execute" /\ session[I].result = "ok" /\ session' = Untimed
      /\ Terms.mode # "stream" /\ at \notin passed
      /\ pc' = "eval_launch" /\ worker' = worker /\ passed' = passed /\ plan' = plan
      /\ at' = at /\ retained' = retained /\ open' = FALSE /\ tree' = tree
      /\ files' = files /\ history' = history
  BY DEF Executed, given
<1>2. Consumes(I) /\ I \in Roles /\ session'[I].deadline = None
  BY <1>1, Who, UntimedConsumes
<1>3. /\ Terms' = Terms /\ I' = I /\ (Borrowed' <=> Borrowed)
  BY <1>1, SameSlot
<1>4. session[I].pending = None /\ ~history.overrun
  BY <1>1, <1>2, AnswerFacts
<1>5. \A q \in Roles : /\ session'[q].open <=> session[q].open
                       /\ session'[q].call = None /\ session'[q].result = None
  BY <1>2 DEF Consumes
<1>6. Remaining'
  BY <1>1, <1>3, <1>5 DEF IInv, Remaining, E, Roles
<1>7. Clean'
  BY <1>1, <1>2, KeepsClean DEF Working
<1>8. Judged'
  BY <1>1, <1>5, Who, KeepsJudged
<1>9. pc' \in Working \cup {"stop_impl", "stop_eval", "finish"}
  BY <1>1 DEF Working
<1>10. open' \in BOOLEAN /\ ~open'
  BY <1>1
<1> QED BY <1>1, <1>2, <1>4, <1>6, <1>7, <1>8, <1>9, <1>10, SameHistory, ConsumeStep

LEMMA CheckpointedStep ==
    ASSUME IInv, Checkpointed
    PROVE  IInv'
<1>1. /\ pc \in {"execute", "decide"} /\ session[I].result = "checkpoint"
      /\ session' = Untimed /\ pc' \in {"evaluate", "eval_launch"}
      /\ worker' = worker /\ passed' = passed /\ plan' = plan
      /\ at' = at /\ retained' = retained /\ open' = FALSE /\ tree' = tree
      /\ files' = files /\ history' = history
  BY DEF Checkpointed, given
<1>2. Consumes(I) /\ I \in Roles /\ session'[I].deadline = None
  BY <1>1, Who, UntimedConsumes
<1>3. /\ Terms' = Terms /\ I' = I /\ (Borrowed' <=> Borrowed)
  BY <1>1, SameSlot
<1>4. ~history.overrun
  BY <1>1, <1>2, AnswerFacts
<1>5. \A q \in Roles : /\ session'[q].open <=> session[q].open
                       /\ session'[q].call = None /\ session'[q].result = None
  BY <1>2 DEF Consumes
<1>6. Remaining'
  BY <1>1, <1>3, <1>5 DEF IInv, Remaining, E, Roles
<1>7. Clean'
  BY <1>1, <1>2, KeepsClean DEF Working
<1>8. Judged'
  BY <1>1, <1>5, Who, KeepsJudged
<1>9. pc' \in Working \cup {"stop_impl", "stop_eval", "finish"}
  BY <1>1 DEF Working
<1>10. open' \in BOOLEAN /\ ~open'
  BY <1>1
<1> QED BY <1>1, <1>2, <1>4, <1>6, <1>7, <1>8, <1>9, <1>10, SameHistory, ConsumeStep

LEMMA StreamFinishedStep ==
    ASSUME IInv, StreamFinished
    PROVE  IInv'
<1>1. /\ pc \in {"execute", "decide"} /\ session[I].result = "ok"
      /\ Terms.mode = "stream" /\ session' = Untimed
      /\ \/ ~Borrowed /\ pc' = "stop_impl"
         \/ Borrowed /\ session[E].open /\ pc' = "stop_eval"
         \/ Borrowed /\ ~session[E].open /\ pc' = "finish"
      /\ worker' = worker /\ passed' = passed /\ plan' = plan
      /\ at' = at /\ retained' = retained /\ open' = FALSE /\ tree' = tree
      /\ files' = files /\ history' = history
  BY DEF StreamFinished, given
<1>2. Consumes(I) /\ I \in Roles /\ session'[I].deadline = None
  BY <1>1, Who, UntimedConsumes
<1>3. /\ Terms' = Terms /\ I' = I /\ (Borrowed' <=> Borrowed)
  BY <1>1, SameSlot
<1>4. session[I].pending = None
  BY <1>1, <1>2, AnswerFacts, NoneIsNone DEF Results
<1>5. \A q \in Roles : /\ session'[q].open <=> session[q].open
                       /\ session'[q].call = None /\ session'[q].result = None
  BY <1>2 DEF Consumes
<1>6. Remaining'
  BY <1>1, <1>3, <1>5 DEF IInv, Remaining, E, Roles
<1>7. Clean'
  BY <1>1, <1>2, KeepsClean DEF Working
<1>8. Judged'
  BY <1>1, <1>5, Who, KeepsJudged
<1>9. Doomed'
  BY <1>1, <1>3 DEF Doomed
<1>10. open' \in BOOLEAN /\ ~open'
  BY <1>1
<1> QED BY <1>1, <1>2, <1>4, <1>6, <1>7, <1>8, <1>9, <1>10, SameHistory, ConsumeStep

LEMMA EvaluatorLaunchedStep ==
    ASSUME IInv, EvaluatorLaunched
    PROVE  IInv'
<1>1. /\ pc = "eval_launch" /\ session[E].result = "ok" /\ session' = Consumed(E)
      /\ pc' = IF Terms.mode = "one_shot" THEN "validate" ELSE "evaluate"
      /\ worker' = worker /\ passed' = passed /\ plan' = plan
      /\ at' = at /\ retained' = retained /\ open' = open /\ tree' = tree
      /\ files' = files /\ history' = history
  BY DEF EvaluatorLaunched, given
<1>2. Consumes(E) /\ E \in Roles
  BY <1>1, Who, ConsumedConsumes
<1>3. /\ Terms' = Terms /\ I' = I /\ (Borrowed' <=> Borrowed)
  BY <1>1, SameSlot
<1>4. /\ session[I].pending # None => Terms.mode = "stream"
      /\ ~open /\ open \in BOOLEAN /\ ~history.overrun
  BY <1>1, <1>2, AnswerFacts, NoDeadline DEF IInv, Shape
<1>5. \A q \in Roles : /\ session'[q].open <=> session[q].open
                       /\ session'[q].call = None /\ session'[q].result = None
  BY <1>2 DEF Consumes
<1>6. Remaining'
  BY <1>1, <1>3, <1>5 DEF IInv, Remaining, E, Roles
<1>7. Clean'
  BY <1>1, <1>2, KeepsClean DEF Working
<1>8. Judged'
  BY <1>1, <1>5, Who, KeepsJudged
<1>9. pc' \in Working \cup {"stop_impl", "stop_eval", "finish"}
  BY <1>1 DEF Working
<1> QED BY <1>1, <1>2, <1>4, <1>6, <1>7, <1>8, <1>9, SameHistory, ConsumeStep

LEMMA EvaluatedStep ==
    ASSUME IInv, Evaluated
    PROVE  IInv'
<1>1. /\ pc = "evaluate" /\ session[E].result = "ok" /\ session' = Consumed(E)
      /\ TreeUnchanged /\ Verified("evaluate")
      /\ worker' = worker /\ passed' = passed /\ plan' = plan
      /\ at' = at /\ retained' = retained /\ open' = open /\ tree' = tree
      /\ files' = files
      /\ \/ history' = history
         \/ history' = [history EXCEPT !.published = Publication]
  BY DEF Evaluated, given
<1>2. Consumes(E) /\ E \in Roles
  BY <1>1, Who, ConsumedConsumes
<1>3. /\ Terms' = Terms /\ I' = I /\ (Borrowed' <=> Borrowed)
      /\ Terms.mode \in {"one_shot", "buffered", "stream"}
  BY <1>1, SameSlot, SlotFacts DEF IInv
<1>4. \/ Terms.mode = "one_shot" /\ ~Borrowed /\ pc' = "stop_impl"
      \/ Terms.mode = "one_shot" /\ Borrowed /\ pc' = "stop_eval"
      \/ Terms.mode = "buffered" /\ pc' \in {"evaluate", "stop_eval"}
      \/ Terms.mode = "stream" /\ pc' = "decide"
  BY <1>3 DEF Evaluated
<1>5. /\ session[I].pending # None => Terms.mode = "stream"
      /\ ~open /\ open \in BOOLEAN /\ ~history.overrun
  BY <1>1, <1>2, AnswerFacts, NoDeadline DEF IInv, Shape
<1>6. \A q \in Roles : /\ session'[q].open <=> session[q].open
                       /\ session'[q].call = None /\ session'[q].result = None
  BY <1>2 DEF Consumes
<1>7. Remaining'
  BY <1>1, <1>3, <1>4, <1>6 DEF IInv, Remaining, E, Roles
<1>8. Clean'
  BY <1>1, <1>2, <1>4, KeepsClean DEF Working
<1>9. Judged /\ Marked(tree)
  BY <1>1, NoneIsNone DEF IInv, Judged, Results
<1>10. Judged'
  BY <1>1, <1>2, <1>6, <1>9, KeepsJudged
<1>11. pc' \in Working \cup {"stop_impl", "stop_eval", "finish"}
  BY <1>4 DEF Working
<1>12. /\ IsHistory(history') /\ history'.overrun = history.overrun
       /\ history'.key = history.key /\ history'.spec = history.spec
       /\ history'.warmed = history.warmed
       /\ PublishedAsJudged' /\ NothingLatePublished'
  <2>1. CASE history' = history
    BY <2>1, SameHistory
  <2>2. CASE history' = [history EXCEPT !.published = Publication]
    <3>1. PICK h, g, published : h = history /\ g = history' /\ published = Publication
      OBVIOUS
    <3>2. IsHistory(h) /\ g = [h EXCEPT !.published = published]
      BY <2>2, <3>1 DEF IInv, Shape, IsHistory
    <3>3. /\ IsHistory(g) /\ g.overrun = h.overrun /\ g.published = published
          /\ g.key = h.key /\ g.spec = h.spec /\ g.warmed = h.warmed
      BY <3>2, Zenon DEF IsHistory
    <3>4. view
      BY <1>1 DEF Verified, Wrapped, Streamed
    <3>5. history'.published = Publication
      BY <3>1, <3>3
    <3>6. PublishedAsJudged' /\ NothingLatePublished'
      BY <1>1, <1>5, <1>9, <3>4, <3>5, PublicationHolds
    <3> QED BY <3>1, <3>3, <3>6
  <2> QED BY <1>1, <2>1, <2>2
<1> QED BY <1>1, <1>2, <1>4, <1>5, <1>7, <1>8, <1>10, <1>11, <1>12, ConsumeStep

LEMMA StoppedStep ==
    ASSUME IInv, NEW r \in Roles, NEW step,
           (r = I /\ step = "stop_impl") \/ (r = E /\ step = "stop_eval"),
           Stopped(r, step)
    PROVE  IInv'
<1>1. /\ pc = step /\ session[r].result = "ok" /\ session' = Consumed(r)
      /\ worker' = worker /\ passed' = passed /\ plan' = plan
      /\ at' = at /\ retained' = retained /\ open' = open /\ tree' = tree
      /\ files' = files /\ history' = history
  BY DEF Stopped, given
<1>2. Consumes(r)
  BY <1>1, ConsumedConsumes
<1>3. /\ Terms' = Terms /\ I' = I /\ (Borrowed' <=> Borrowed)
  BY <1>1, SameSlot
<1>4. \/ r = I /\ session[E].open /\ pc' = "stop_eval"
      \/ r = I /\ ~session[E].open /\ pc' = "finish"
      \/ r = E /\ Terms.mode = "buffered" /\ ~Borrowed /\ pc' = "stop_impl"
      \/ r = E /\ ~(Terms.mode = "buffered" /\ ~Borrowed) /\ pc' = "finish"
  BY Who DEF Stopped
<1>5. /\ session[I].pending = None /\ ~open /\ open \in BOOLEAN
      /\ history.overrun => Terms.mode = "stream"
  BY <1>1, AnswerFacts, NoDeadline DEF IInv, Shape
<1>6. \A q \in Roles : /\ session'[q].open <=> session[q].open
                       /\ session'[q].call = None /\ session'[q].result = None
  BY <1>2 DEF Consumes
<1>7. ~session[r].open
  BY <1>1 DEF IInv, Placed
<1>8. Remaining'
  <2>1. Remaining
    BY DEF IInv
  <2>2. r = I => ~session["owned"].open
    BY <1>7, <2>1, Who DEF Remaining
  <2>3. pc \in {"stop_impl", "stop_eval"} /\ pc' \in {"stop_impl", "stop_eval", "finish"}
    BY <1>1, <1>4
  <2>4. session'["owned"].open =>
          /\ ~Borrowed /\ r = E /\ pc' = "stop_impl"
    BY <1>1, <1>4, <1>6, <2>1, <2>2, Who DEF Remaining, Roles
  <2>5. session'[E].open => r = I /\ pc' = "stop_eval"
    BY <1>4, <1>6, <1>7, Who
  <2>6. session'["pooled"].open => retained # None \/ Borrowed
    BY <1>6, <2>1 DEF Remaining, Roles
  <2> QED BY <1>1, <1>3, <2>3, <2>4, <2>5, <2>6 DEF Remaining, E
<1>9. Clean'
  BY <1>4 DEF Clean, Working
<1>10. Judged'
  <2>1. Terms.mode = "one_shot" => Marked(tree)
    BY <1>1 DEF IInv, Judged
  <2> QED BY <1>1, <1>6, <2>1, Who, KeepsJudged
<1>11. history.overrun => Doomed'
  BY <1>3, <1>4, <1>5 DEF Doomed
<1>12. pc' \in Working \cup {"stop_impl", "stop_eval", "finish"} /\ pc' # "decide"
  BY <1>4
<1> QED BY <1>1, <1>2, <1>5, <1>8, <1>9, <1>10, <1>11, <1>12, SameHistory, ConsumeStep

LEMMA ResultValidatedStep ==
    ASSUME IInv, ResultValidated
    PROVE  IInv'
<1>1. /\ pc = "validate" /\ pc' = "evaluate" /\ session' = session /\ worker' = worker
      /\ late' = late /\ passed' = passed /\ plan' = plan /\ at' = at
      /\ retained' = retained /\ open' = open /\ tree' = tree /\ files' = files
      /\ history' = history
  BY DEF ResultValidated, given, sessionVars
<1>2. /\ Slot' = Slot /\ Key' = Key /\ Terms' = Terms /\ I' = I
      /\ (Borrowed' <=> Borrowed)
  BY <1>1, SameSlot
<1>3. ASSUME NEW q \in Roles
      PROVE  session[q].call = None /\ session[q].result = None
             /\ session[q].pending = None /\ session[q].deadline = None
  <2>1. ~Turn(q)
    BY <1>1 DEF Turn, ImplSteps, EvalSteps
  <2>2. Placed(q, session[q])
    BY DEF IInv
  <2> QED BY <1>1, <2>1, <2>2, NoDeadline DEF Placed
<1>4. ~open
  BY <1>1, Who, NoDeadline
<1>5. Shape'
  BY <1>1, <1>2 DEF IInv, Shape, PCs, EvalSteps
<1>6. \A q \in Roles : Session(session'[q], worker'[q]) /\ Placed(q, session[q])'
  BY <1>1, <1>3, NoneIsNone DEF IInv, Placed, Results
<1>7. Timed' /\ Remaining' /\ Clean'
  BY <1>1, <1>2, <1>4 DEF IInv, Timed, Remaining, Clean, Working, E
<1>8. Warm'
  <2>1. Measured' <=> Measured
    BY <1>1, <1>2 DEF Measured
  <2> QED BY <1>1, <1>2, <2>1 DEF IInv, Warm, WarmFor
<1>9. Judged'
  BY <1>1, <1>3, Who, KeepsJudged
<1>10. ~history.overrun
  BY <1>1, <1>3, <1>4, NoneIsNone DEF IInv, Doomed, Waiting, Failing, Results
<1> QED BY <1>1, <1>5, <1>6, <1>7, <1>8, <1>9, <1>10, SameHistory DEF IInv

-----------------------------------------------------------------------------
(***************************************************************************)
(* The invariant.                                                          *)
(***************************************************************************)
LEMMA Initially ==
    ASSUME Init
    PROVE  IInv
<1>1. /\ session = [r \in Roles |-> NoSession] /\ worker = [r \in Roles |-> Dead]
      /\ plan \in Plans /\ pc = "start" /\ at = <<1, 0>> /\ retained = None
      /\ open = FALSE /\ tree = Untouched
      /\ history = [key |-> None, spec |-> None, warmed |-> 0,
                    overrun |-> FALSE, published |-> None]
  BY DEF Init, SessionInit
<1>2. /\ DOMAIN session = Roles /\ DOMAIN worker = Roles
      /\ \A q \in Roles : session[q] = NoSession /\ worker[q] = Dead
  BY <1>1
<1>3. \A q \in Roles : /\ Session(session[q], worker[q]) /\ Quiet(session[q])
                       /\ ~session[q].open
  BY <1>2, NoSessionIsQuiet
<1>4. /\ IsHistory(history) /\ history.overrun = FALSE /\ history.published = None
  BY <1>1 DEF IsHistory
<1>5. Shape
  <2>1. /\ at = <<at[1], at[2]>> /\ at[1] = 1 /\ at[2] = 0
    BY <1>1
  <2>2. Len(plan) \in Nat \ {0} /\ DOMAIN plan = 1..Len(plan)
    BY <1>1, PlansAssumption
  <2>3. 1 \in DOMAIN plan
    BY <2>2
  <2>4. plan[1].key \in DOMAIN Policy
    BY <1>1, <2>3, PlansAssumption
  <2>5. Terms.warmups \in Nat
    BY <2>1, <2>4, PolicyAssumption DEF Terms, Key, Slot
  <2>6. history.overrun \in BOOLEAN /\ open \in BOOLEAN
    BY <1>1, <1>4
  <2> QED BY <1>1, <1>2, <1>4, <2>1, <2>3, <2>5, <2>6 DEF Shape, PCs, IsHistory
<1>6. ASSUME NEW q \in Roles PROVE Placed(q, session[q])
  <2>1. Quiet(session[q])
    BY <1>3
  <2> QED BY <2>1, NoneIsNone DEF Quiet, Placed, Results
<1>7. Timed /\ Clean /\ Warm
  BY <1>1 DEF Timed, Clean, Working, Warm
<1>8. Remaining
  BY <1>3 DEF Remaining, Roles, E
<1>9. Judged
  <2>1. IsTree(tree) /\ tree.restored \in BOOLEAN
    BY <1>1 DEF IsTree, Untouched
  <2> QED BY <1>1, <2>1 DEF Judged
<1>10. PublishedAsJudged /\ NothingLatePublished
  BY <1>4 DEF PublishedAsJudged, NothingLatePublished
<1> QED BY <1>3, <1>4, <1>5, <1>6, <1>7, <1>8, <1>9, <1>10 DEF IInv

LEMMA LaneStep ==
    ASSUME IInv, Lane
    PROVE  IInv'
<1>1. CASE \E status : EndWithout(status)
  BY <1>1, EndWithoutStep
<1>2. CASE ViewFails \/ Accept \/ StartReuse \/ StartNew \/ WarmupDone
  BY <1>2, ViewFailsStep, AcceptStep, StartReuseStep, StartNewStep, WarmupDoneStep
<1>3. CASE \/ Reset \/ Prepare \/ Execute \/ Decide \/ Evaluate \/ Launch
           \/ EvaluatorLaunch
  BY <1>3, ResetStep, PrepareStep, ExecuteStep, DecideStep, EvaluateStep,
     LaunchStep, EvaluatorLaunchStep
<1>4. CASE \/ HelloAccepted \/ ResetDone \/ Prepared \/ Executed \/ Checkpointed
           \/ StreamFinished \/ EvaluatorLaunched \/ Evaluated \/ ResultValidated
  BY <1>4, HelloAcceptedStep, ResetDoneStep, PreparedStep, ExecutedStep,
     CheckpointedStep, StreamFinishedStep, EvaluatorLaunchedStep, EvaluatedStep,
     ResultValidatedStep
<1>5. CASE Stop(I, "stop_impl") \/ Stop(E, "stop_eval")
  BY <1>5, Who, StopStep
<1>6. CASE Stopped(I, "stop_impl") \/ Stopped(E, "stop_eval")
  BY <1>6, Who, StoppedStep
<1>7. CASE \/ InputsChanged \/ ProfileRefused \/ CleanupFails \/ EnvelopeOverrun
           \/ BufferRefused \/ CheckpointRefused \/ ResultRefused
           \/ MetricsRefused \/ AgreementRefused \/ FinishRefused \/ CallFailed
           \/ ActiveTimeLimit \/ MutationFound
  <2>1. \E status : EndWithout(status)
    BY <1>7 DEF InputsChanged, ProfileRefused, CleanupFails, EnvelopeOverrun,
       BufferRefused, CheckpointRefused, ResultRefused, MetricsRefused,
       AgreementRefused, FinishRefused, CallFailed, ActiveTimeLimit,
       MutationFound, Fail
  <2> QED BY <1>1, <2>1
<1> QED BY <1>2, <1>3, <1>4, <1>5, <1>6, <1>7 DEF Lane

LEMMA Inductive ==
    ASSUME IInv, [Next]_vars
    PROVE  IInv'
<1>1. CASE Lane
  BY <1>1, LaneStep
<1>2. CASE Passes
  BY <1>2, PassesStep
<1>3. ASSUME NEW r \in Roles,
             \/ Protocol(r) \/ Elapses(r) \/ Answers(r) \/ Quits(r)
             \/ Misbehaves(r) \/ WritesAhead(r)
             \/ ChangesView(r) \/ ChangesTree(r)
      PROVE  IInv'
  BY <1>3, ProtocolStep, ElapsesStep, AnswersStep, QuitsStep, MisbehavesStep,
     WritesAheadStep, ChangesViewStep, ChangesTreeStep
<1>4. CASE Finished \/ UNCHANGED vars
  BY <1>4, FinishedStep
<1> QED BY <1>1, <1>2, <1>3, <1>4 DEF Next

LEMMA Invariant == Spec => []IInv
<1>1. Init => IInv
  BY Initially
<1>2. IInv /\ [Next]_vars => IInv'
  BY Inductive
<1> QED BY <1>1, <1>2, PTL DEF Spec

-----------------------------------------------------------------------------
(* Whatever the workers write, repeat, write ahead, leave in their pipes   *)
(* or withhold, an answer the host acts on that was written for a request  *)
(* was written for the one the host was waiting for, in the execution it   *)
(* is in (RequestTracker and the typed exchange).  The only others are     *)
(* those a worker made up before it was asked.                             *)
THEOREM AnswersAreCorrelated == Spec => []AnswersTheRequest
<1>1. IInv => AnswersTheRequest
  <2>1. SUFFICES ASSUME IInv, NEW r \in Roles,
                        session[r].result \in {"ok", "checkpoint", "failure"},
                        session[r].answer.run # None
                 PROVE  session[r].answer.run = at /\ Asks(session[r].answer.method)
    BY DEF AnswersTheRequest, Asks
  <2> QED BY <2>1 DEF IInv, Placed
<1> QED BY <1>1, Invariant, PTL

(* For every plan and policy, an execution runs in a process in which      *)
(* nothing of another execution is left, unless that process has answered  *)
(* what it was not asked, and a measured one on a reused process follows   *)
(* all of its own specification's warm-ups there (reset_and_clear and      *)
(* run_slot_scoped).                                                       *)
THEOREM WorkersAreClean == Spec => []CleanWorker
<1>1. IInv => CleanWorker
  <2>1. SUFFICES ASSUME IInv PROVE CleanWorker
    OBVIOUS
  <2>2. pc \in {"execute", "decide"} => /\ Remembers(worker[I], {at})
                                        /\ Borrowed => files \subseteq {at}
    BY <2>1 DEF IInv, Clean, Working
  <2>4. ~worker[I].ahead => worker[I].ahead = FALSE
    BY <2>1, Who DEF IInv, Session, Shaped
  <2>3. Borrowed /\ Measured /\ pc \in {"prepare", "execute"} =>
           history.key = Key /\ WarmFor(Key, Slot.spec)
    BY <2>1 DEF IInv, Warm
  <2> QED BY <2>2, <2>3, <2>4 DEF CleanWorker, WarmFor, Terms, Remembers
<1> QED BY <1>1, Invariant, PTL

(* Between slots, and once the plan is done, no process is alive but the   *)
(* retained one, however the slot ended (discard, and the sessions dropped *)
(* on every early return).                                                 *)
THEOREM NoProcessIsLeftBehind == Spec => []NothingLeftBehind
<1>1. IInv => NothingLeftBehind
  <2>1. SUFFICES ASSUME IInv, pc \in {"start", "done"}, NEW r \in Roles,
                        worker[r].alive \/ session[r].open
                 PROVE  r = "pooled" /\ retained # None
    BY DEF NothingLeftBehind
  <2>2. session[r].open
    BY <2>1, DeadFields DEF IInv, Session, Living
  <2> QED BY <2>1, <2>2 DEF IInv, Remaining, Roles, E
<1> QED BY <1>1, Invariant, PTL

(* The scientific deadline limits the calls of its own execution's timed   *)
(* scope and no other call (set_scientific_deadline, TimingEnvelope).      *)
THEOREM DeadlinesStayInScope == Spec => []DeadlineInScope
<1>1. IInv => DeadlineInScope
  <2>1. SUFFICES ASSUME IInv, NEW r \in Roles, session[r].call # None,
                        session[r].deadline # None
                 PROVE  /\ r = I /\ session[r].deadline = at
                        /\ session[r].call.method \in TimedCalls
    BY DEF DeadlineInScope
  <2>2. Placed(r, session[r]) /\ Timed
    BY <2>1 DEF IInv
  <2>3. /\ r = I /\ session[r].deadline = at /\ open
        /\ Asks(session[r].call.method)
    BY <2>1, <2>2 DEF Placed
  <2> QED BY <2>2, <2>3 DEF Timed, Asks, TimedCalls
<1> QED BY <1>1, Invariant, PTL

(* What is published has the content that was hashed, on an intact dataset *)
(* view, although live workers may change both between any two steps of    *)
(* the host, and the evaluator read that content, unless the tree was      *)
(* changed and restored in between, which verify_result_tree cannot see.   *)
THEOREM PublicationsAreJudged == Spec => []PublishedAsJudged
<1>1. IInv => PublishedAsJudged
  BY DEF IInv
<1> QED BY <1>1, Invariant, PTL

(* Nothing is published from an execution in which an exchange overran its *)
(* limit or the timed scope its deadline, whatever arrived late.           *)
THEOREM NothingLateIsPublished == Spec => []NothingLatePublished
<1>1. IInv => NothingLatePublished
  BY DEF IInv
<1> QED BY <1>1, Invariant, PTL
=============================================================================
