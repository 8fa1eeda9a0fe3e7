--------------------------- MODULE MCWorkerSlots ---------------------------
(* Two one-shot slots of different specifications on a warmed worker; a    *)
(* retained worker that outlives a cold streamed slot of another key; a    *)
(* buffered slot on a reused worker.                                       *)
EXTENDS WorkerSlots

MCPolicy ==
    [warm |-> [reuse |-> TRUE, warmups |-> 1,
               scope |-> "prepare_and_execute", mode |-> "one_shot"],
     cold |-> [reuse |-> FALSE, warmups |-> 0,
               scope |-> "cold_end_to_end", mode |-> "stream"],
     plain |-> [reuse |-> TRUE, warmups |-> 0,
                scope |-> "execute_only", mode |-> "buffered"]]

At(key, spec) == [key |-> key, spec |-> spec]

MCPlans ==
    {<<At("warm", "a"), At("warm", "b")>>,
     <<At("plain", "a"), At("cold", "c"), At("plain", "b")>>}

(* What a check may report: scheduled or not, level by level, in time or   *)
(* late, with a small or a large iterate.                                  *)
Inputs(indices, values) ==
    {call \in [index : indices, work : 0..1, value : values, entered : 0..2,
               elapsed : 0..2, size : {1}, data : 1..2] :
        /\ call.entered <= call.elapsed
        /\ call.work = 0 => call.index < 2}

Explicit == [kind |-> "explicit", indices |-> <<0, 2>>]
Periodic == [kind |-> "periodic", every |-> 2, start |-> 1]

Buffered(levels, observations, bytes, reserve, checks) ==
    [levels |-> levels, maxObservations |-> observations, maxPoints |-> 3,
     maxBytes |-> bytes, reserve |-> reserve, limit |-> 2, checks |-> checks,
     inputs |-> Inputs(0..5, IF levels = <<>> THEN {0} ELSE 0..2)]

(* Room enough; a tight buffer; a fixed count; a reserve that is too small.*)
MCProfiles ==
    {Buffered(<<1, 2>>, 3, 20, 6, Periodic),
     Buffered(<<1, 2>>, 2, 13, 6, Periodic),
     Buffered(<<>>, 2, 12, 4, Explicit),
     Buffered(<<1, 2>>, 2, 8, 2, Explicit)}

(* An acknowledgement or a checkpoint of the pending request, the latter   *)
(* also one number too far; an acknowledgement or a failure of the next    *)
(* request, or the first checkpoint of its stream.                         *)
MCUnasked ==
    {[ahead |-> 0, kind |-> "ok", n |-> 0]}
      \cup {[ahead |-> 0, kind |-> "checkpoint", n |-> n] : n \in 0..1}
      \cup {[ahead |-> 1, kind |-> kind, n |-> 0] :
        kind \in {"ok", "checkpoint", "failure"}}

MCRuns == (1..3) \X (0..1)
=============================================================================
