--------------------------- MODULE BufferedTrace ---------------------------
(***************************************************************************)
(* The buffer of an instrumented profile: the collector a worker records   *)
(* its checks with, which must end with a terminal check and stay within   *)
(* its limits, and the host's validation of the buffer it is handed.  The  *)
(* two were written separately, and a buffer that is refused costs the     *)
(* whole execution.                                                        *)
(*                                                                         *)
(* A metric is a number and reaching a level is >= (the other direction    *)
(* mirrors it), `work' is one counter, files and rows are their sizes.     *)
(*                                                                         *)
(* Source: src/runtime/buffered.rs, core/profile.rs.                       *)
(***************************************************************************)
EXTENDS Integers, FiniteSets, SequencesExt

CONSTANTS
    Profiles,  \* SelectedBufferedProfiles, with the inputs of their checks
    Absent     \* no index, reason, snapshot or total

(* ProfilePolicy: the levels end at the target; none for a fixed count.    *)
Thresholds(p) == ToSet(p.levels)
HasTarget(p) == p.levels # <<>>
Reaches(p, value, level) == HasTarget(p) /\ value >= level
ReachesTarget(p, value) == HasTarget(p) /\ Reaches(p, value, Last(p.levels))

(* ProfilePolicy.validate and validate_buffered.                           *)
ValidPolicy(p) ==
    /\ p.maxObservations \in Nat \ {0} /\ p.maxPoints \in Nat \ {0}
    /\ p.reserve \in 1..p.maxBytes /\ p.limit \in Nat \ {0}
    /\ IF HasTarget(p)
       THEN /\ Len(p.levels) <= p.maxObservations
            /\ \A i \in 1..(Len(p.levels) - 1) :
                 p.levels[i] < p.levels[i + 1]
       ELSE p.maxPoints >= p.maxObservations

(* CheckSchedule.validate.                                                 *)
ValidSchedule(s) ==
    IF s.kind = "periodic" THEN s.every > 0
    ELSE /\ s.indices # <<>>
         /\ \A i \in 1..(Len(s.indices) - 1) : s.indices[i] < s.indices[i + 1]

ASSUME ProfilesAssumption ==
    \A p \in Profiles : ValidPolicy(p) /\ ValidSchedule(p.checks)

(* CheckSchedule.next_after.                                               *)
NextAfter(s, previous) ==
    IF s.kind = "periodic"
    THEN IF previous = Absent \/ previous < s.start THEN s.start
         ELSE ((previous - s.start) \div s.every + 1) * s.every + s.start
    ELSE LET later == {i \in ToSet(s.indices) :
                         previous = Absent \/ previous < i}
         IN IF later = {} THEN Absent ELSE Min(later)

(***************************************************************************)
(* The collector.                                                          *)
(***************************************************************************)
NewTrace ==
    [points |-> <<>>, snapshots |-> <<>>, reached |-> {},
     stopped |-> Absent, total |-> Absent]

LastIndex(points) == IF points = <<>> THEN Absent ELSE Last(points).index

(* Canonical encodings: true is a byte shorter than false.  A manifest     *)
(* grows with its snapshots, their files and their levels; it is measured  *)
(* with the longest total and stop reason.                                 *)
PointBytes(point) == point.size + (IF point.terminal THEN 0 ELSE 1)
ManifestBytes(snapshots) ==
    FoldLeft(LAMBDA sum, s : sum + 1 + Cardinality(s.levels), 1, snapshots)
BufferBytes(points, snapshots) ==
    FoldLeft(LAMBDA sum, x : sum + PointBytes(x), 0, points)
        + FoldLeft(LAMBDA sum, s : sum + s.size, 0, snapshots)
        + ManifestBytes(snapshots)

Snapshot(points, levels, call) ==
    [point |-> Len(points), levels |-> levels, size |-> call.data]

(* estimated_bytes: a further snapshot is measured with every level.       *)
EstimatedBytes(p, points, snapshots, extra) ==
    BufferBytes(points, IF extra = Absent THEN snapshots ELSE
        Append(snapshots, [extra EXCEPT !.levels = Thresholds(p)]))

RegularLimit(p) == p.maxBytes - p.reserve

(* Recording after a stop, progress that does not advance, and a scheduled *)
(* check left out are errors.                                              *)
Refuses(p, t, call) ==
    LET expected == NextAfter(p.checks, LastIndex(t.points)) IN
    \/ t.stopped # Absent
    \/ t.points # <<>> /\ (\/ call.index <= Last(t.points).index
                           \/ call.work < Last(t.points).work)
    \/ expected # Absent /\ call.index > expected

(* A check is recorded when it is scheduled, terminal or overdue.          *)
Recorded(p, t, call, terminal) ==
    \/ terminal
    \/ call.entered >= p.limit
    \/ NextAfter(p.checks, LastIndex(t.points)) = call.index

Crossed_Again(p, t, call) ==
    {level \in Thresholds(p) : Reaches(p, call.value, level)}

Crossed(p, t, call) ==
    {level \in Thresholds(p) :
        level \notin t.reached /\ Reaches(p, call.value, level)}

Point(call, terminal) ==
    [index |-> call.index, work |-> call.work, value |-> call.value,
     time |-> call.elapsed, size |-> call.size, terminal |-> terminal]

(* The reason to stop at this check, in the order of precedence.           *)
ReasonToStop(p, t, call, terminal) ==
    LET points == Append(t.points, Point(call, FALSE))
        crossed == Crossed(p, t, call)
        capture == ~HasTarget(p) \/ crossed # {}
        extra == IF capture THEN Snapshot(points, crossed, call) ELSE Absent
        full == Len(t.snapshots) + 1 >= p.maxObservations
        over(snapshot) ==
            EstimatedBytes(p, points, t.snapshots, snapshot) > RegularLimit(p)
    IN IF ReachesTarget(p, call.value) THEN "target_reached"
       ELSE IF terminal THEN "implementation_stopped"
       ELSE IF call.elapsed >= p.limit THEN "active_time_limit"
       ELSE IF Len(points) >= p.maxPoints THEN "trace_limit"
       ELSE IF capture /\ full
            THEN IF HasTarget(p) THEN "observation_limit" ELSE "fixed_count"
       ELSE IF over(Absent) \/ over(extra) THEN "byte_limit"
       ELSE Absent

(* check, for a call that is not refused and is recorded.                  *)
Check(p, t, call, terminal) ==
    LET reason == ReasonToStop(p, t, call, terminal)
        points == Append(t.points, Point(call, reason # Absent))
        crossed == Crossed(p, t, call)
        captured == ~HasTarget(p) \/ crossed # {} \/ reason # Absent
        snapshot == Snapshot(points, crossed, call)
        extra == IF captured THEN snapshot ELSE Absent
    IN IF EstimatedBytes(p, points, t.snapshots, extra) > p.maxBytes
       THEN [t EXCEPT !.stopped = "exceeded"]
       ELSE [t EXCEPT
               !.points = points,
               !.snapshots = IF captured THEN Append(@, snapshot) ELSE @,
               !.reached = @ \cup crossed,
               !.stopped = reason]

(* finish on the check recorded last: its iterate is saved if it was not.  *)
FinishLast(p, t, call) ==
    LET points == [t.points EXCEPT ![Len(t.points)].terminal = TRUE]
        snapshot == Snapshot(t.points, {}, call)
        saved == t.snapshots # <<>>
                   /\ Last(t.snapshots).point = Len(t.points)
        exceeds ==
            \/ EstimatedBytes(p, t.points, t.snapshots, snapshot) > p.maxBytes
            \/ Len(t.snapshots) >= p.maxObservations
    IN IF saved THEN [t EXCEPT !.points = points]
       ELSE IF exceeds THEN [t EXCEPT !.stopped = "exceeded"]
       ELSE [t EXCEPT !.points = points,
                      !.snapshots = Append(@, snapshot)]

(* finish: an iterate that was recorded, or a terminal check of its own.   *)
MayFinish(p, t, call) ==
    IF LastIndex(t.points) = call.index
    THEN Last(t.points).work = call.work
    ELSE ~Refuses(p, t, call)

Finish(p, t, call) ==
    LET ended == IF LastIndex(t.points) = call.index
                 THEN FinishLast(p, t, call)
                 ELSE Check(p, t, call, TRUE)
    IN [ended EXCEPT
          !.stopped = IF @ = Absent THEN "implementation_stopped" ELSE @,
          !.total = call.elapsed]

(***************************************************************************)
(* Everything a worker can record: checks at the points of an execution,   *)
(* scheduled or not, in the time and with the results the inputs allow.    *)
(***************************************************************************)
Calls(p, t) ==
    {call \in p.inputs :
        t.points # <<>> => call.entered >= Last(t.points).time}

Traces(p) ==
    LET traces[n \in 0..p.maxPoints] ==
          IF n = 0 THEN {NewTrace}
          ELSE LET before == traces[n - 1] IN
               before \cup
               UNION {{Check(p, t, call, FALSE) :
                          call \in {c \in Calls(p, t) :
                                      /\ ~Refuses(p, t, c)
                                      /\ Recorded(p, t, c, FALSE)}} :
                      t \in {x \in before : Len(x.points) = n - 1}}
    IN traces[p.maxPoints]

Recordings(p) ==
    UNION {{Finish(p, t, call) :
               call \in {c \in Calls(p, t) : MayFinish(p, t, c)}} :
           t \in {x \in Traces(p) : x.stopped # "exceeded"}}

(***************************************************************************)
(* validate_buffer, part by part.                                          *)
(***************************************************************************)
ValidSize(p, b) == BufferBytes(b.points, b.snapshots) <= p.maxBytes

OneTerminalCheck(p, b) ==
    /\ Len(b.points) \in 1..p.maxPoints
    /\ \A i \in DOMAIN b.points : b.points[i].terminal <=> i = Len(b.points)

ValidPoint(p, b, i) ==
    LET x == b.points[i]
        previous == IF i = 1 THEN Absent ELSE b.points[i - 1].index
        expected == NextAfter(p.checks, previous)
    IN /\ x.time <= b.total
       /\ ~x.terminal => x.index = expected
       /\ x.terminal /\ expected # Absent => x.index <= expected
       /\ i > 1 => /\ x.index > b.points[i - 1].index
                   /\ x.time >= b.points[i - 1].time
                   /\ x.work >= b.points[i - 1].work
       /\ ~x.terminal => x.time < p.limit /\ ~ReachesTarget(p, x.value)

ValidSnapshots(p, b) ==
    /\ Len(b.snapshots) \in 1..p.maxObservations
    /\ ~HasTarget(p) => Len(b.snapshots) = Len(b.points)
    /\ \A i \in DOMAIN b.snapshots :
         /\ b.snapshots[i].point \in DOMAIN b.points
         /\ i > 1 => b.snapshots[i].point > b.snapshots[i - 1].point
    /\ Last(b.snapshots).point = Len(b.points)

(* Each level is claimed by the snapshot of the first check that reaches   *)
(* it, once, and every level that was reached is claimed.                  *)
ValidThresholds(p, b) ==
    \A level \in Thresholds(p) :
        LET reaching == {i \in DOMAIN b.points :
                           Reaches(p, b.points[i].value, level)}
            claiming == {i \in DOMAIN b.snapshots :
                           level \in b.snapshots[i].levels}
        IN IF reaching = {} THEN claiming = {}
           ELSE {b.snapshots[i].point : i \in claiming} = {Min(reaching)}

ValidReason(p, b) ==
    CASE b.stopped = "target_reached" ->
           ReachesTarget(p, Last(b.points).value)
      [] b.stopped = "fixed_count" ->
           ~HasTarget(p) /\ Len(b.snapshots) = p.maxObservations
      [] b.stopped = "trace_limit" -> Len(b.points) = p.maxPoints
      [] b.stopped = "observation_limit" ->
           Len(b.snapshots) = p.maxObservations
      [] b.stopped = "active_time_limit" -> Last(b.points).time >= p.limit
      [] OTHER -> TRUE

(* Regular collection has left the terminal reserve alone.                 *)
ReserveKept(p, b) ==
    \A i \in 1..(Len(b.points) - 1) :
        BufferBytes(SubSeq(b.points, 1, i),
                    SelectSeq(b.snapshots, LAMBDA s : s.point <= i))
            <= RegularLimit(p)

ValidateBuffer(p, b) ==
    /\ ValidSize(p, b)
    /\ OneTerminalCheck(p, b)
    /\ \A i \in DOMAIN b.points : ValidPoint(p, b, i)
    /\ ValidSnapshots(p, b)
    /\ ValidThresholds(p, b)
    /\ ValidReason(p, b)
    /\ ReserveKept(p, b)

(* write, then validate_buffer: the buffers the host goes on with.         *)
Written(p) == {b \in Recordings(p) : b.stopped # "exceeded"}

(***************************************************************************)
(* Reference definitions of the property in WorkerSlots.                   *)
(***************************************************************************)
(* The largest terminal part the inputs of a profile can produce, and the  *)
(* profiles whose reserve holds it beside an empty manifest.               *)
TerminalBytes(p) ==
    Max({c.size + c.data : c \in p.inputs}) + 1 + Len(p.levels)
Provided(p) ==
    /\ p.reserve >= TerminalBytes(p)
    /\ RegularLimit(p) >= ManifestBytes(<<>>)

(* Every recording is written and accepted, or did not get its reserve.    *)
AcceptsRecordings ==
    \A p \in Profiles :
        LET recordings == Recordings(p) IN
        \A b \in recordings :
            IF b.stopped = "exceeded" THEN ~Provided(p)
            ELSE ValidateBuffer(p, b)
=============================================================================
