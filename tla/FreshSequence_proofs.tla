------------------------ MODULE FreshSequence_proofs ------------------------
(***************************************************************************)
(* Proofs about FreshSequence and FreshReport, for every set of repetitions *)
(* and processes, every schedule, budget, selection and number of lanes,    *)
(* retries and crashes: a repetition has one owner at a time, nobody works  *)
(* on, or ever accepts, a point that was disposed of, a repetition never    *)
(* uses more than its time, a censored attempt has decided its point, a     *)
(* reported decision is final, and the readers of FreshReport agree with    *)
(* the store.                                                               *)
(*                                                                          *)
(* The first part needs to know that a terminal transaction is only run for *)
(* an unfinished attempt.  An owner's is fenced; a recovery pass took its   *)
(* attempt two transactions ago, and may rely on it because passes exclude  *)
(* each other and the owner of an expired attempt is fenced off: IInv.      *)
(*                                                                          *)
(* Ledger adds what an account says: nothing is held for an attempt that    *)
(* was not reserved, no charge exceeds its reservation, an owner that found *)
(* the budget used up stays right about it, and a budget that is used up    *)
(* leaves no point open.  The last one needs that all points of a           *)
(* repetition were registered before time is spent on any of them, and that *)
(* rests on how an invocation walks through its schedule: Walks.            *)
(***************************************************************************)
EXTENDS FreshReport, FiniteSetTheorems, TLAPS

States == Unfinished \cup Terminal \cup {"none"}
Outcomes == Terminal \cup {"timeout", "none"}
ExecType == [pc : ExecPCs, plan : Outcomes, completion : Completions \cup {"none"}]

\* The tables and records that the argument reads.
Shape ==
    /\ row \in [Attempts -> States]
    /\ disposition \in [Slots -> Effects]
    /\ exec \in [Attempts -> ExecType]
    /\ DOMAIN doc = Attempts
    /\ DOMAIN run = Procs
    /\ \A p \in Procs : {"pc", "held"} \subseteq DOMAIN run[p]

\* An execution that has ended has a plan, one that publishes has an outcome.
PlansMade ==
    \A a \in Attempts :
        /\ exec[a].pc = "ran" => exec[a].plan # "none"
        /\ exec[a].pc \in {"observe", "decided", "published"} => exec[a].plan \in Terminal

\* Published documents name outcomes.
DocumentsTerminal == \A a \in Attempts : doc[a] # None => doc[a].state \in Terminal

\* Recovery passes exclude each other.
OnePass ==
    \A p, q \in Procs : run[p].pc = "recover" /\ run[q].pc = "recover" => p = q

\* What a recovery pass has taken stays unfinished, and its owner fenced off.
HeldUnfinished ==
    \A p \in Procs : run[p].held # None =>
        /\ run[p].pc = "recover"
        /\ run[p].held \in expired
        /\ run[p].held \in Attempts
        /\ row[run[p].held] \in Unfinished

\* OneOwner and DecidedPointsRest, attempt by attempt.
OwnerAlone ==
    \A a, b \in Attempts :
        /\ Rep(Slot(a)) = Rep(Slot(b))
        /\ row[a] \in Unfinished /\ row[b] \in Unfinished
        => a = b

DecidedAtRest ==
    \A a \in Attempts : disposition[Slot(a)] # "none" => row[a] \notin Unfinished \cup {"accepted"}

IInv ==
    /\ Shape /\ PlansMade /\ DocumentsTerminal
    /\ OnePass /\ HeldUnfinished /\ OwnerAlone /\ DecidedAtRest
-----------------------------------------------------------------------------
(***************************************************************************)
(* The operators.                                                           *)
(***************************************************************************)
LEMMA SlotType == \A a \in Attempts : Slot(a) \in Slots
BY DEF Attempts, Slot

LEMMA EffectType == \A a, o : Effect(a, o) \in Effects
BY DEF Effect, Effects

LEMMA FinishType ==
    ASSUME disposition \in [Slots -> Effects], NEW a, NEW o
    PROVE  Finish(a, o) \in [Slots -> Effects]
BY EffectType DEF Finish

\* finish spares points that are accepted, and points of other repetitions.
LEMMA FinishSpares ==
    ASSUME NEW a, NEW o, NEW s \in Slots, disposition[s] = "none",
           Finish(a, o)[s] # "none"
    PROVE  /\ Rep(s) = Rep(Slot(a))
           /\ ~Satisfied(s)
           /\ s # Slot(a) \/ o # "accepted"
BY DEF Finish, MembersOf

\* check_reservation admits only points of repetitions at rest.
LEMMA ReservedAtRest ==
    ASSUME NEW s, NEW retry, Reservation(s, retry) = "reserved"
    PROVE  ~SequenceBusy(s) /\ disposition[s] = "none"
BY DEF Reservation

\* A terminal transaction of an unfinished attempt.
LEMMA CommitKeeps ==
    ASSUME IInv, NEW a \in Attempts, row[a] \in Unfinished, NEW o \in Terminal,
           CommitTerminal(a, o)
    PROVE  /\ row' \in [Attempts -> States] /\ disposition' \in [Slots -> Effects]
           /\ DOMAIN doc' = Attempts /\ DocumentsTerminal'
           /\ OwnerAlone' /\ DecidedAtRest'
           /\ row' = [row EXCEPT ![a] = o] /\ expired' = expired \ {a}
<1>1. /\ row' = [row EXCEPT ![a] = o] /\ disposition' = Finish(a, o)
      /\ expired' = expired \ {a} /\ doc' = [doc EXCEPT ![a] = None]
  BY DEF CommitTerminal
<1>2. row' \in [Attempts -> States]
  BY <1>1 DEF IInv, Shape, States
<1>3. disposition' \in [Slots -> Effects]
  BY <1>1, FinishType DEF IInv, Shape
<1>4. DOMAIN doc' = Attempts /\ DocumentsTerminal'
  BY <1>1 DEF IInv, Shape, DocumentsTerminal
<1>5. o \notin Unfinished
  BY DEF Terminal, Unfinished
<1>6. OwnerAlone'
  BY <1>1, <1>5 DEF IInv, Shape, OwnerAlone
<1>7. DecidedAtRest'
  <2> SUFFICES ASSUME NEW b \in Attempts, disposition'[Slot(b)] # "none"
               PROVE  row'[b] \notin Unfinished \cup {"accepted"}
    BY DEF DecidedAtRest
  <2>1. Slot(b) \in Slots
    BY SlotType
  <2>2. CASE disposition[Slot(b)] # "none"
    <3>1. row[b] \notin Unfinished \cup {"accepted"}
      BY <2>2 DEF IInv, DecidedAtRest
    <3>2. b # a
      BY <3>1
    <3> QED BY <1>1, <3>1, <3>2 DEF IInv, Shape
  <2>3. CASE disposition[Slot(b)] = "none"
    <3>1. /\ Rep(Slot(b)) = Rep(Slot(a)) /\ ~Satisfied(Slot(b))
          /\ Slot(b) # Slot(a) \/ o # "accepted"
      BY <1>1, <2>1, <2>3, FinishSpares
    <3>2. CASE b = a
      BY <1>1, <1>5, <3>1, <3>2 DEF IInv, Shape
    <3>3. CASE b # a
      <4>1. row'[b] = row[b]
        BY <1>1, <3>3 DEF IInv, Shape
      <4>2. row[b] \notin Unfinished
        BY <3>1, <3>3 DEF IInv, OwnerAlone
      <4>3. row[b] # "accepted"
        BY <3>1 DEF Satisfied, AttemptsOf
      <4> QED BY <4>1, <4>2, <4>3
    <3> QED BY <3>2, <3>3
  <2>4. disposition[Slot(b)] \in Effects
    BY <2>1 DEF IInv, Shape
  <2> QED BY <2>2, <2>3
<1> QED BY <1>1, <1>2, <1>3, <1>4, <1>6, <1>7
-----------------------------------------------------------------------------
(***************************************************************************)
(* Steps of an invocation.                                                  *)
(***************************************************************************)
\* A step of an invocation that holds no attempt and enters a pass alone.
LEMMA RunStep ==
    ASSUME IInv, NEW p \in Procs,
           UNCHANGED <<row, expired, disposition, doc, exec>>,
           DOMAIN run' = Procs,
           \A q \in Procs \ {p} : run'[q] = run[q],
           {"pc", "held"} \subseteq DOMAIN run'[p],
           run'[p].held = None,
           run'[p].pc = "recover" => run[p].pc = "recover" \/ ~Recovering
    PROVE  IInv'
<1>1. Shape'
  <2>1. \A q \in Procs : {"pc", "held"} \subseteq DOMAIN run'[q]
    BY DEF IInv, Shape
  <2> QED BY <2>1 DEF IInv, Shape
<1>2. PlansMade' /\ DocumentsTerminal' /\ OwnerAlone' /\ DecidedAtRest'
  BY DEF IInv, PlansMade, DocumentsTerminal, OwnerAlone, DecidedAtRest
<1>3. OnePass'
  BY DEF IInv, OnePass, Recovering
<1>4. HeldUnfinished'
  BY DEF IInv, HeldUnfinished
<1> QED BY <1>1, <1>2, <1>3, <1>4 DEF IInv

LEMMA HoldsNothing ==
    ASSUME IInv, NEW p \in Procs, run[p].pc # "recover"
    PROVE  run[p].held = None
BY DEF IInv, HeldUnfinished

LEMMA StartKeeps ==
    ASSUME IInv, NEW p \in Procs, Start(p)
    PROVE  IInv'
<1>0. PICK retry \in Retries, select \in Selections, bound \in Dispatches :
        run' = [run EXCEPT ![p] = [Idle EXCEPT !.pc = "recover", !.retry = retry,
                                               !.select = select, !.left = bound]]
  BY DEF Start
<1> DEFINE new == [Idle EXCEPT !.pc = "recover", !.retry = retry,
                               !.select = select, !.left = bound]
<1>1. /\ run' = [run EXCEPT ![p] = new]
      /\ {"pc", "held"} \subseteq DOMAIN new /\ new.held = None
  BY <1>0 DEF Idle
<1> HIDE DEF new
<1>2. ~Recovering /\ UNCHANGED <<row, expired, disposition, doc, exec>>
  BY DEF Start, db
<1>3. /\ DOMAIN run' = Procs /\ run'[p] = new
      /\ \A q \in Procs \ {p} : run'[q] = run[q]
  BY <1>1 DEF IInv, Shape
<1> QED BY <1>1, <1>2, <1>3, RunStep

LEMMA RecoverEndKeeps ==
    ASSUME IInv, NEW p \in Procs, RecoverEnd(p)
    PROVE  IInv'
<1>1. UNCHANGED <<row, expired, disposition, doc, exec>>
  BY DEF RecoverEnd, db
<1>2. /\ DOMAIN run' = Procs /\ \A q \in Procs \ {p} : run'[q] = run[q]
      /\ {"pc", "held"} \subseteq DOMAIN run'[p]
      /\ run'[p].held = None
  BY DEF RecoverEnd, IInv, Shape
<1>3. run[p].pc = "recover"
  BY DEF RecoverEnd
<1> QED BY <1>1, <1>2, <1>3, RunStep

\* RegisterFresh, FilterSlot, NextBatch, FinishRun and Join move an invocation
\* that is past its recovery pass.
LEMMA RegisterKeeps ==
    ASSUME IInv, NEW p \in Procs, RegisterFresh(p)
    PROVE  IInv'
<1>1. UNCHANGED <<row, expired, disposition, doc, exec>>
  BY DEF RegisterFresh
<1>2. run[p].held = None /\ run[p].pc = "register"
  BY HoldsNothing DEF RegisterFresh
<1>3. /\ DOMAIN run' = Procs /\ \A q \in Procs \ {p} : run'[q] = run[q]
      /\ {"pc", "held"} \subseteq DOMAIN run'[p]
      /\ run'[p].held = None /\ run'[p].pc # "recover"
  BY <1>2 DEF RegisterFresh, IInv, Shape
<1> QED BY <1>1, <1>3, RunStep

LEMMA FilterKeeps ==
    ASSUME IInv, NEW p \in Procs, FilterSlot(p)
    PROVE  IInv'
<1>1. UNCHANGED <<row, expired, disposition, doc, exec>>
  BY DEF FilterSlot, db
<1>2. run[p].held = None /\ run[p].pc = "filter"
  BY HoldsNothing DEF FilterSlot
<1>3. /\ DOMAIN run' = Procs /\ \A q \in Procs \ {p} : run'[q] = run[q]
      /\ {"pc", "held"} \subseteq DOMAIN run'[p]
      /\ run'[p].held = None /\ run'[p].pc # "recover"
  BY <1>2 DEF FilterSlot, IInv, Shape
<1> QED BY <1>1, <1>3, RunStep

LEMMA NextBatchKeeps ==
    ASSUME IInv, NEW p \in Procs, NextBatch(p)
    PROVE  IInv'
<1>1. UNCHANGED <<row, expired, disposition, doc, exec>>
  BY DEF NextBatch, db
<1>2. run[p].held = None
  BY HoldsNothing DEF NextBatch
<1>3. /\ DOMAIN run' = Procs /\ \A q \in Procs \ {p} : run'[q] = run[q]
      /\ {"pc", "held"} \subseteq DOMAIN run'[p]
      /\ run'[p].held = None /\ run'[p].pc # "recover"
  BY <1>2 DEF NextBatch, IInv, Shape
<1> QED BY <1>1, <1>3, RunStep

LEMMA FinishRunKeeps ==
    ASSUME IInv, NEW p \in Procs, FinishRun(p)
    PROVE  IInv'
<1>1. UNCHANGED <<row, expired, disposition, doc, exec>>
  BY DEF FinishRun, db
<1>2. /\ DOMAIN run' = Procs /\ \A q \in Procs \ {p} : run'[q] = run[q]
      /\ {"pc", "held"} \subseteq DOMAIN run'[p]
      /\ run'[p].held = None /\ run'[p].pc # "recover"
  BY DEF FinishRun, Idle, IInv, Shape
<1> QED BY <1>1, <1>2, RunStep

LEMMA JoinKeeps ==
    ASSUME IInv, NEW p \in Procs, Join(p)
    PROVE  IInv'
<1>1. UNCHANGED <<row, expired, disposition, doc, exec>>
  BY DEF Join, db
<1>2. run[p].held = None
  BY HoldsNothing DEF Join
<1> DEFINE next == [run[p] EXCEPT !.pc = "batch", !.input = <<>>, !.running = {}]
           new == IF \E a \in run[p].running : exec[a].pc = "dead" THEN Idle ELSE next
<1>3. /\ run' = [run EXCEPT ![p] = new]
      /\ {"pc", "held"} \subseteq DOMAIN new
      /\ new.held = None /\ new.pc # "recover"
  <2>1. run' = [run EXCEPT ![p] = new]
    BY DEF Join
  <2>2. /\ {"pc", "held"} \subseteq DOMAIN next /\ next.held = None /\ next.pc # "recover"
    BY <1>2 DEF IInv, Shape
  <2>3. /\ {"pc", "held"} \subseteq DOMAIN Idle /\ Idle.held = None /\ Idle.pc # "recover"
    BY DEF Idle
  <2> HIDE DEF next
  <2> QED BY <2>1, <2>2, <2>3
<1> HIDE DEF new
<1>4. /\ DOMAIN run' = Procs /\ run'[p] = new
      /\ \A q \in Procs \ {p} : run'[q] = run[q]
  BY <1>3 DEF IInv, Shape
<1> QED BY <1>1, <1>3, <1>4, RunStep
LEMMA RecoverTakeKeeps ==
    ASSUME IInv, NEW p \in Procs, NEW a \in Attempts, RecoverTake(p, a)
    PROVE  IInv'
<1>1. /\ row' = [row EXCEPT ![a] = "finalizing"]
      /\ UNCHANGED <<expired, disposition, doc, exec>>
      /\ run[p].pc = "recover" /\ row[a] \in Unfinished /\ a \in expired
  BY DEF RecoverTake, Recoverable
<1>2. /\ DOMAIN run' = Procs /\ \A q \in Procs \ {p} : run'[q] = run[q]
      /\ \A q \in Procs : {"pc", "held"} \subseteq DOMAIN run'[q]
      /\ run'[p].held = a /\ run'[p].pc = "recover"
  BY <1>1 DEF RecoverTake, IInv, Shape
<1>3. \A b \in Attempts : row[b] \in Unfinished <=> row'[b] \in Unfinished
  BY <1>1 DEF IInv, Shape, Unfinished
<1>4. \A b \in Attempts : row'[b] = "accepted" => row[b] = "accepted"
  BY <1>1 DEF IInv, Shape
<1>5. Shape'
  BY <1>1, <1>2 DEF IInv, Shape, States, Unfinished
<1>6. PlansMade' /\ DocumentsTerminal'
  BY <1>1 DEF IInv, PlansMade, DocumentsTerminal
<1>7. OwnerAlone' /\ DecidedAtRest'
  BY <1>1, <1>3, <1>4 DEF IInv, OwnerAlone, DecidedAtRest
<1>8. OnePass'
  BY <1>1, <1>2 DEF IInv, OnePass
<1>9. HeldUnfinished'
  BY <1>1, <1>2, <1>3 DEF IInv, HeldUnfinished
<1> QED BY <1>5, <1>6, <1>7, <1>8, <1>9 DEF IInv

\* The pass commits what it took: by HeldUnfinished the attempt is unfinished.
LEMMA RecoverResolveKeeps ==
    ASSUME IInv, NEW p \in Procs, RecoverResolve(p)
    PROVE  IInv'
<1> DEFINE a == run[p].held
           o == IF ValidDocument(a) THEN doc[a].state ELSE "failed"
<1>1. /\ run[p].pc = "recover" /\ a # None /\ CommitTerminal(a, o)
      /\ run' = [run EXCEPT ![p].held = None] /\ exec' = exec
  BY DEF RecoverResolve
<1>2. a \in Attempts /\ row[a] \in Unfinished /\ a \in expired
  BY <1>1 DEF IInv, HeldUnfinished
<1>3. o \in Terminal
  BY <1>2 DEF ValidDocument, IInv, DocumentsTerminal, Terminal
<1>4. /\ DOMAIN run' = Procs /\ \A q \in Procs \ {p} : run'[q] = run[q]
      /\ \A q \in Procs : {"pc", "held"} \subseteq DOMAIN run'[q]
      /\ run'[p].held = None /\ run'[p].pc = "recover"
  BY <1>1 DEF IInv, Shape
<1> HIDE DEF a, o
<1>5. /\ row' \in [Attempts -> States] /\ disposition' \in [Slots -> Effects]
      /\ DOMAIN doc' = Attempts /\ DocumentsTerminal'
      /\ OwnerAlone' /\ DecidedAtRest'
  BY <1>1, <1>2, <1>3, CommitKeeps
<1>6. Shape'
  BY <1>1, <1>4, <1>5 DEF IInv, Shape
<1>7. PlansMade'
  BY <1>1 DEF IInv, PlansMade
<1>8. OnePass'
  BY <1>1, <1>4 DEF IInv, OnePass
<1>9. HeldUnfinished'
  BY <1>1, <1>4 DEF IInv, HeldUnfinished, OnePass
<1> QED BY <1>5, <1>6, <1>7, <1>8, <1>9 DEF IInv

LEMMA CrashKeeps ==
    ASSUME IInv, NEW p \in Procs, Crash(p)
    PROVE  IInv'
<1>1. /\ UNCHANGED <<row, expired, disposition, doc>>
      /\ exec' = [a \in Attempts |-> IF a \in run[p].running /\ Live(a) THEN Ended("dead")
                                     ELSE exec[a]]
      /\ run' = [run EXCEPT ![p] = Idle]
  BY DEF Crash, db
<1>2. /\ DOMAIN run' = Procs /\ \A q \in Procs \ {p} : run'[q] = run[q]
      /\ \A q \in Procs : {"pc", "held"} \subseteq DOMAIN run'[q]
      /\ run'[p].held = None /\ run'[p].pc = "idle"
  BY <1>1 DEF IInv, Shape, Idle
<1>3. \A a \in Attempts : exec'[a] = exec[a] \/ exec'[a] = Ended("dead")
  BY <1>1
<1>4. /\ Ended("dead") \in ExecType
      /\ Ended("dead").pc = "dead"
  BY DEF Ended, NoExec, ExecPCs, Outcomes, ExecType
<1>5. Shape'
  <2>1. exec' \in [Attempts -> ExecType]
    BY <1>1, <1>4 DEF IInv, Shape
  <2> QED BY <1>1, <1>2, <2>1 DEF IInv, Shape
<1>6. PlansMade'
  BY <1>3, <1>4 DEF IInv, PlansMade
<1>7. DocumentsTerminal' /\ OwnerAlone' /\ DecidedAtRest'
  BY <1>1 DEF IInv, DocumentsTerminal, OwnerAlone, DecidedAtRest
<1>8. OnePass' /\ HeldUnfinished'
  BY <1>1, <1>2 DEF IInv, OnePass, HeldUnfinished
<1> QED BY <1>5, <1>6, <1>7, <1>8 DEF IInv

\* Reservation is the one step that adds an unfinished attempt.
LEMMA ReserveKeeps ==
    ASSUME IInv, NEW p \in Procs, Reserve(p)
    PROVE  IInv'
<1> DEFINE s == Head(run[p].input)
           a == <<s, Retry(s)>>
           rest == [run[p] EXCEPT !.input = Tail(@)]
<1>1. /\ run[p].pc = "reserve" /\ UNCHANGED <<expired, disposition, doc>>
  BY DEF Reserve
<1>2. run[p].held = None
  BY <1>1, HoldsNothing
<1>3. {"pc", "held"} \subseteq DOMAIN rest /\ rest.pc = "reserve" /\ rest.held = None
  BY <1>1, <1>2 DEF IInv, Shape
<1>4. /\ DOMAIN run' = Procs /\ \A q \in Procs \ {p} : run'[q] = run[q]
      /\ {"pc", "held"} \subseteq DOMAIN run'[p]
      /\ run'[p].held = None /\ run'[p].pc # "recover"
  <2>1. \/ run' = [run EXCEPT ![p] = rest]
        \/ run' = [run EXCEPT ![p] = [rest EXCEPT !.busy = @ \cup {Rep(s)}]]
        \/ run' = [run EXCEPT ![p] = [rest EXCEPT !.running = @ \cup {a},
                         !.left = IF @ = None THEN None ELSE @ - 1]]
    BY DEF Reserve
  <2> HIDE DEF rest, a, s
  <2> QED BY <1>3, <2>1 DEF IInv, Shape
<1>5. CASE row' = row /\ exec' = exec
  BY <1>1, <1>4, <1>5, RunStep
<1>6. CASE /\ Reservation(s, run[p].retry) = "reserved"
           /\ row' = [row EXCEPT ![a] = "active"]
           /\ exec' = [exec EXCEPT ![a].pc = "reserved"]
  <2>1. ~SequenceBusy(s) /\ disposition[s] = "none"
    BY <1>6, ReservedAtRest
  <2>2. CASE a \notin Attempts
    <3>1. row' = row /\ exec' = exec
      BY <1>6, <2>2 DEF IInv, Shape
    <3> QED BY <3>1, <1>5
  <2>3. CASE a \in Attempts
    <3>0. Slot(a) = s
      BY DEF Slot
    <3> HIDE DEF a, s, rest
    <3>1. \A b \in Attempts : Rep(Slot(b)) = Rep(s) => row[b] \notin Unfinished
      BY <2>1 DEF SequenceBusy, InRep
    <3>2. row' \in [Attempts -> States]
      BY <1>6 DEF IInv, Shape, States, Unfinished
    <3>3. /\ row'[a] = "active"
          /\ \A b \in Attempts \ {a} : row'[b] = row[b]
      BY <1>6, <2>3 DEF IInv, Shape
    <3>4. exec' \in [Attempts -> ExecType]
      BY <1>6 DEF IInv, Shape, ExecPCs, ExecType
    <3>5. /\ exec'[a].pc = "reserved"
          /\ \A b \in Attempts \ {a} : exec'[b] = exec[b]
      BY <1>6, <2>3 DEF IInv, Shape
    <3>6. Shape'
      BY <1>1, <1>4, <3>2, <3>4 DEF IInv, Shape
    <3>7. PlansMade'
      BY <3>5 DEF IInv, PlansMade
    <3>8. DocumentsTerminal'
      BY <1>1 DEF IInv, DocumentsTerminal
    <3>9. OwnerAlone'
      BY <3>0, <3>1, <3>3 DEF IInv, OwnerAlone
    <3>10. DecidedAtRest'
      BY <1>1, <2>1, <3>0, <3>3 DEF IInv, DecidedAtRest
    <3>11. OnePass'
      BY <1>4 DEF IInv, OnePass
    <3>12. HeldUnfinished'
      BY <1>1, <1>4, <3>3 DEF IInv, HeldUnfinished, Unfinished
    <3> QED BY <3>6, <3>7, <3>8, <3>9, <3>10, <3>11, <3>12 DEF IInv
  <2> QED BY <2>2, <2>3
<1>7. \/ row' = row /\ exec' = exec
      \/ /\ Reservation(s, run[p].retry) = "reserved"
         /\ row' = [row EXCEPT ![a] = "active"]
         /\ exec' = [exec EXCEPT ![a].pc = "reserved"]
  BY DEF Reserve
<1> QED BY <1>5, <1>6, <1>7
-----------------------------------------------------------------------------
(***************************************************************************)
(* Steps of an execution.                                                   *)
(***************************************************************************)
\* A step that changes nothing but the execution of one attempt.
LEMMA ExecStep ==
    ASSUME IInv, NEW a \in Attempts, NEW new \in ExecType,
           exec' = [exec EXCEPT ![a] = new],
           UNCHANGED <<row, expired, disposition, doc, run>>,
           new.pc = "ran" => new.plan # "none",
           new.pc \in {"observe", "decided", "published"} => new.plan \in Terminal
    PROVE  IInv'
<1>1. exec' \in [Attempts -> ExecType]
  BY DEF IInv, Shape, ExecType
<1>2. exec'[a] = new /\ \A b \in Attempts \ {a} : exec'[b] = exec[b]
  BY DEF IInv, Shape
<1>3. Shape'
  BY <1>1 DEF IInv, Shape, ExecType
<1>4. PlansMade'
  BY <1>2 DEF IInv, PlansMade
<1>5. DocumentsTerminal' /\ OnePass' /\ HeldUnfinished' /\ OwnerAlone' /\ DecidedAtRest'
  BY DEF IInv, DocumentsTerminal, OnePass, HeldUnfinished, OwnerAlone, DecidedAtRest
<1> QED BY <1>3, <1>4, <1>5 DEF IInv

\* The forms an execution's record is updated in.
LEMMA ExecMoves ==
    ASSUME NEW e \in ExecType, NEW c \in ExecPCs, NEW o \in Outcomes
    PROVE  /\ [e EXCEPT !.pc = c] \in ExecType
           /\ [e EXCEPT !.plan = o] \in ExecType
           /\ [e EXCEPT !.pc = c, !.plan = o] \in ExecType
           /\ [e EXCEPT !.pc = c, !.completion = "none"] \in ExecType
           /\ Ended(c) \in ExecType
BY DEF ExecType, Ended, NoExec, Outcomes

LEMMA ExecFields ==
    ASSUME IInv, NEW a \in Attempts
    PROVE  exec[a] \in ExecType
BY DEF IInv, Shape, ExecType

LEMMA FailEarlyKeeps ==
    ASSUME IInv, NEW a \in Attempts, FailEarly(a)
    PROVE  IInv'
<1> DEFINE new == [exec[a] EXCEPT !.pc = "ran", !.plan = "failed"]
<1>1. "ran" \in ExecPCs /\ "failed" \in Outcomes
  BY DEF ExecPCs, Outcomes, Terminal
<1>2. exec' = [exec EXCEPT ![a] = new]
  BY DEF FailEarly, IInv, Shape
<1>3. new \in ExecType
  BY <1>1, ExecFields, ExecMoves
<1>4. new.pc = "ran" /\ new.plan = "failed"
  BY ExecFields DEF ExecType
<1>5. UNCHANGED <<row, expired, disposition, doc, run>>
  BY DEF FailEarly, db
<1> HIDE DEF new
<1> QED BY <1>2, <1>3, <1>4, <1>5, ExecStep

LEMMA ReserveTimeKeeps ==
    ASSUME IInv, NEW a \in Attempts, ReserveFreshTime(a)
    PROVE  IInv'
<1> DEFINE none == [exec[a] EXCEPT !.pc = "ran", !.plan = "failed"]
           some == [exec[a] EXCEPT !.pc = "timed"]
           new == IF Granted(Rep(Slot(a))) = 0 THEN none ELSE some
<1>1. {"ran", "timed"} \subseteq ExecPCs /\ "failed" \in Outcomes
  BY DEF ExecPCs, Outcomes, Terminal
<1>2. exec' = [exec EXCEPT ![a] = new]
  BY DEF ReserveFreshTime
<1>3. none \in ExecType /\ some \in ExecType
  BY <1>1, ExecFields, ExecMoves
<1>4. none.pc = "ran" /\ none.plan = "failed" /\ some.pc = "timed"
  BY ExecFields DEF ExecType
<1>5. UNCHANGED <<row, expired, disposition, doc, run>>
  BY DEF ReserveFreshTime
<1> HIDE DEF none, some
<1>6. /\ new \in ExecType
      /\ new.pc = "ran" => new.plan # "none"
      /\ new.pc \notin {"observe", "decided", "published"}
  BY <1>3, <1>4
<1> HIDE DEF new
<1> QED BY <1>2, <1>5, <1>6, ExecStep

LEMMA RecordTimeKeeps ==
    ASSUME IInv, NEW a \in Attempts, RecordFreshTime(a)
    PROVE  IInv'
<1>1. PICK plan \in Plans, completion \in Completions \cup {"none"} :
        exec' = [exec EXCEPT ![a] = [pc |-> "ran", plan |-> plan, completion |-> completion]]
  BY DEF RecordFreshTime
<1> DEFINE new == [pc |-> "ran", plan |-> plan, completion |-> completion]
<1>2. plan \in Outcomes /\ plan # "none"
  BY SequenceAssumption DEF Outcomes, Terminal
<1>3. new \in ExecType
  BY <1>2 DEF ExecType, ExecPCs
<1>4. UNCHANGED <<row, expired, disposition, doc, run>>
  BY DEF RecordFreshTime
<1>5. exec' = [exec EXCEPT ![a] = new] /\ new.pc = "ran" /\ new.plan # "none"
  BY <1>1, <1>2
<1> HIDE DEF new
<1> QED BY <1>3, <1>4, <1>5, ExecStep

LEMMA ClassifyKeeps ==
    ASSUME IInv, NEW a \in Attempts, ClassifyTimeout(a)
    PROVE  IInv'
<1> DEFINE o == IF Exhausted(a) THEN "censored" ELSE "failed"
           new == [exec[a] EXCEPT !.plan = o]
<1>1. o \in Outcomes /\ o # "none"
  BY DEF Outcomes, Terminal
<1>2. exec' = [exec EXCEPT ![a] = new] /\ exec[a].pc = "ran"
  BY DEF ClassifyTimeout, At, IInv, Shape
<1> HIDE DEF o
<1>3. new \in ExecType /\ new.pc = "ran" /\ new.plan = o
  BY <1>1, <1>2, ExecFields DEF ExecType
<1>4. UNCHANGED <<row, expired, disposition, doc, run>>
  BY DEF ClassifyTimeout, db
<1> HIDE DEF new
<1> QED BY <1>1, <1>2, <1>3, <1>4, ExecStep

LEMMA RegisterObservationKeeps ==
    ASSUME IInv, NEW a \in Attempts, RegisterObservation(a)
    PROVE  IInv'
<1> DEFINE new == [exec[a] EXCEPT !.pc = "decided", !.completion = "none"]
<1>1. exec' = [exec EXCEPT ![a] = new] /\ exec[a].pc = "observe"
  BY DEF RegisterObservation, At, IInv, Shape
<1>2. "decided" \in ExecPCs
  BY DEF ExecPCs
<1>3. new \in ExecType /\ new.pc = "decided" /\ new.plan = exec[a].plan
  BY <1>2, ExecFields DEF ExecType
<1>4. exec[a].plan \in Terminal
  BY <1>1 DEF IInv, PlansMade
<1>5. UNCHANGED <<row, expired, disposition, doc, run>>
  BY DEF RegisterObservation
<1> HIDE DEF new
<1> QED BY <1>1, <1>3, <1>4, <1>5, ExecStep

LEMMA AbortKeeps ==
    ASSUME IInv, NEW a \in Attempts, Abort(a)
    PROVE  IInv'
<1>1. exec' = [exec EXCEPT ![a] = Ended("dead")]
  BY DEF Abort
<1>2. Ended("dead") \in ExecType /\ Ended("dead").pc = "dead"
  BY DEF Ended, NoExec, ExecType, ExecPCs, Outcomes
<1>3. UNCHANGED <<row, expired, disposition, doc, run>>
  BY DEF Abort, db
<1> QED BY <1>1, <1>2, <1>3, ExecStep
LEMMA BeginFinalizationKeeps ==
    ASSUME IInv, NEW a \in Attempts, BeginFinalization(a)
    PROVE  IInv'
<1>1. /\ row' = [row EXCEPT ![a] = "finalizing"] /\ row[a] \in Unfinished
      /\ UNCHANGED <<expired, disposition, doc, run>>
      /\ exec[a].pc = "ran" /\ exec[a].plan # "timeout"
  BY DEF BeginFinalization, At, Fence
<1>2. PICK c \in {"observe", "decided"}, o \in {exec[a].plan, "superseded"} :
        exec' = [exec EXCEPT ![a].pc = c, ![a].plan = o]
  <2> DEFINE claims == exec[a].plan = "accepted"
             competing == claim[Slot(a)] # None \/ Satisfied(Slot(a))
             c == IF claims THEN "observe" ELSE "decided"
             o == IF claims /\ competing THEN "superseded" ELSE exec[a].plan
  <2>1. exec' = [exec EXCEPT ![a].pc = c, ![a].plan = o]
    BY DEF BeginFinalization, IInv, Shape
  <2>2. c \in {"observe", "decided"} /\ o \in {exec[a].plan, "superseded"}
    OBVIOUS
  <2> HIDE DEF c, o
  <2> QED BY <2>1, <2>2
<1>3. exec[a].plan \in Terminal
  BY <1>1 DEF IInv, Shape, PlansMade, Outcomes, ExecType
<1>4. o \in Terminal /\ c \in ExecPCs
  BY <1>2, <1>3 DEF Terminal, ExecPCs
<1>5. exec' \in [Attempts -> ExecType]
  BY ZenonT(40), <1>2, <1>4 DEF IInv, Shape, ExecType, Outcomes
<1>6. exec'[a].pc = c /\ exec'[a].plan = o /\ \A b \in Attempts \ {a} : exec'[b] = exec[b]
  BY <1>2 DEF IInv, Shape
<1>7. Shape'
  BY <1>1, <1>5 DEF IInv, Shape, ExecType, States, Unfinished
<1>8. PlansMade'
  BY <1>2, <1>4, <1>6 DEF IInv, PlansMade
<1>9. DocumentsTerminal' /\ OnePass'
  BY <1>1 DEF IInv, DocumentsTerminal, OnePass
<1>10. \A b \in Attempts : row[b] \in Unfinished <=> row'[b] \in Unfinished
  BY <1>1 DEF IInv, Shape, Unfinished
<1>11. \A b \in Attempts : row'[b] = "accepted" => row[b] = "accepted"
  BY <1>1 DEF IInv, Shape
<1>12. OwnerAlone' /\ DecidedAtRest' /\ HeldUnfinished'
  BY <1>1, <1>10, <1>11 DEF IInv, OwnerAlone, DecidedAtRest, HeldUnfinished
<1> QED BY <1>7, <1>8, <1>9, <1>12 DEF IInv

LEMMA PublishOutcomeKeeps ==
    ASSUME IInv, NEW a \in Attempts, PublishOutcome(a)
    PROVE  IInv'
<1> DEFINE d == [state |-> exec[a].plan, budget |-> budget[a],
                 effect |-> Effect(a, exec[a].plan)]
<1>1. /\ doc' = [doc EXCEPT ![a] = d] /\ exec' = [exec EXCEPT ![a].pc = "published"]
      /\ UNCHANGED <<row, expired, disposition, run>> /\ exec[a].pc = "decided"
  BY DEF PublishOutcome, At, db
<1>2. exec[a].plan \in Terminal
  BY <1>1 DEF IInv, PlansMade
<1>3. d.state \in Terminal
  BY <1>2
<1> HIDE DEF d
<1>4. exec' \in [Attempts -> ExecType]
  BY <1>1 DEF IInv, Shape, ExecType, ExecPCs
<1>5. exec'[a].plan = exec[a].plan /\ \A b \in Attempts \ {a} : exec'[b] = exec[b]
  BY <1>1 DEF IInv, Shape
<1>6. Shape'
  BY <1>1, <1>4 DEF IInv, Shape, ExecType
<1>7. PlansMade'
  BY <1>1, <1>2, <1>5 DEF IInv, PlansMade, Shape
<1>8. DocumentsTerminal'
  BY <1>1, <1>3 DEF IInv, Shape, DocumentsTerminal
<1>9. OnePass' /\ HeldUnfinished' /\ OwnerAlone' /\ DecidedAtRest'
  BY <1>1 DEF IInv, OnePass, HeldUnfinished, OwnerAlone, DecidedAtRest
<1> QED BY <1>6, <1>7, <1>8, <1>9 DEF IInv

\* The fence makes the attempt unfinished, and no pass can hold it.
LEMMA CommitFinalizationKeeps ==
    ASSUME IInv, NEW a \in Attempts, CommitFinalization(a)
    PROVE  IInv'
<1> DEFINE o == exec[a].plan
<1>1. /\ exec[a].pc = "published" /\ row[a] \in Unfinished /\ a \notin expired
      /\ CommitTerminal(a, o) /\ exec' = [exec EXCEPT ![a] = Ended("done")] /\ run' = run
  BY DEF CommitFinalization, At, Fence
<1>2. o \in Terminal
  BY <1>1 DEF IInv, PlansMade
<1> HIDE DEF o
<1>3. /\ row' \in [Attempts -> States] /\ disposition' \in [Slots -> Effects]
      /\ DOMAIN doc' = Attempts /\ DocumentsTerminal'
      /\ OwnerAlone' /\ DecidedAtRest'
      /\ row' = [row EXCEPT ![a] = o] /\ expired' = expired \ {a}
  BY <1>1, <1>2, CommitKeeps
<1>4. Ended("done") \in ExecType /\ Ended("done").pc = "done"
  BY DEF Ended, NoExec, ExecType, ExecPCs, Outcomes
<1>5. exec' \in [Attempts -> ExecType]
  BY <1>1, <1>4 DEF IInv, Shape, ExecType
<1>6. exec'[a].pc = "done" /\ \A b \in Attempts \ {a} : exec'[b] = exec[b]
  BY <1>1, <1>4 DEF IInv, Shape
<1>7. Shape'
  BY <1>1, <1>3, <1>5 DEF IInv, Shape, ExecType
<1>8. PlansMade'
  BY <1>6 DEF IInv, PlansMade
<1>9. OnePass'
  BY <1>1 DEF IInv, OnePass
<1>10. HeldUnfinished'
  BY <1>1, <1>3 DEF IInv, HeldUnfinished, Shape
<1> QED BY <1>3, <1>7, <1>8, <1>9, <1>10 DEF IInv

LEMMA ExpireKeeps ==
    ASSUME IInv, NEW a \in Attempts, Expire(a)
    PROVE  IInv'
<1>1. /\ UNCHANGED <<row, disposition, doc, exec, run>> /\ expired' = expired \cup {a}
  BY DEF Expire, db
<1> QED BY <1>1 DEF IInv, Shape, PlansMade, DocumentsTerminal, OnePass, HeldUnfinished,
                    OwnerAlone, DecidedAtRest

-----------------------------------------------------------------------------
(***************************************************************************)
(* The theorems.                                                            *)
(***************************************************************************)
LEMMA InitHolds == Init => IInv
<1> SUFFICES ASSUME Init PROVE IInv
  OBVIOUS
<1>1. NoExec \in ExecType /\ NoExec.pc = "none"
  BY DEF NoExec, ExecType, ExecPCs, Outcomes
<1>2. {"pc", "held"} \subseteq DOMAIN Idle /\ Idle.held = None /\ Idle.pc = "idle"
  BY DEF Idle
<1>3. exec \in [Attempts -> ExecType] /\ \A a \in Attempts : exec[a].pc = "none"
  BY <1>1 DEF Init
<1>4. Shape
  BY <1>2, <1>3 DEF Init, Shape, ExecType, States, Effects
<1>5. PlansMade
  BY <1>3 DEF PlansMade
<1>6. DocumentsTerminal
  BY DEF Init, DocumentsTerminal
<1>7. OnePass /\ HeldUnfinished
  BY <1>2 DEF Init, OnePass, HeldUnfinished
<1>8. OwnerAlone /\ DecidedAtRest
  BY DEF Init, OwnerAlone, DecidedAtRest, Unfinished
<1> QED BY <1>4, <1>5, <1>6, <1>7, <1>8 DEF IInv

LEMMA NextKeeps == IInv /\ [Next]_vars => IInv'
<1> SUFFICES ASSUME IInv, [Next]_vars PROVE IInv'
  OBVIOUS
<1>1. ASSUME NEW p \in Procs, Start(p) \/ Invoke(p) \/ Crash(p) PROVE IInv'
  BY <1>1, StartKeeps, CrashKeeps, RecoverTakeKeeps, RecoverResolveKeeps, RecoverEndKeeps,
     RegisterKeeps, FilterKeeps, NextBatchKeeps, ReserveKeeps, JoinKeeps, FinishRunKeeps
     DEF Invoke
<1>2. ASSUME NEW a \in Attempts, Execute(a) \/ Expire(a) PROVE IInv'
  BY <1>2, ExpireKeeps, FailEarlyKeeps, ReserveTimeKeeps, RecordTimeKeeps, ClassifyKeeps,
     BeginFinalizationKeeps, RegisterObservationKeeps, PublishOutcomeKeeps,
     CommitFinalizationKeeps, AbortKeeps DEF Execute
<1>3. CASE UNCHANGED vars
  BY <1>3 DEF vars, IInv, Shape, PlansMade, DocumentsTerminal, OnePass, HeldUnfinished,
              OwnerAlone, DecidedAtRest
<1> QED BY <1>1, <1>2, <1>3 DEF Next

LEMMA Inductive == Spec => []IInv
BY InitHolds, NextKeeps, PTL DEF Spec

\* check_reservation: however many invocations, lanes, retries, crashes and
\* recovery passes there are, a repetition never has two unfinished attempts.
THEOREM SequenceHasOneOwner == Spec => []OneOwner
<1>1. IInv => OneOwner
  BY DEF IInv, OwnerAlone, OneOwner, InRep
<1> QED BY <1>1, Inductive, PTL

\* finish and check_reservation: a point that was disposed of is never accepted,
\* and nobody works on it again.
THEOREM DecidedPointsAreAtRest == Spec => []DecidedPointsRest
<1>1. IInv => DecidedPointsRest
  BY DEF IInv, DecidedAtRest, DecidedPointsRest, AttemptsOf
<1> QED BY <1>1, Inductive, PTL

-----------------------------------------------------------------------------
(* The account and the decisions *)

\* The budget row of an attempt that has none.
Blank == [reserved |-> 0, charged |-> None]
BudgetType == [reserved : 0..Limit, charged : Nat \cup {None}]

\* The tables the argument reads besides those of Shape.
Books ==
    /\ members \subseteq Slots
    /\ budget \in [Attempts -> BudgetType]
    /\ observed \in [Attempts -> Completions \cup {"none"}]
    /\ \A a \in Attempts :
          budget[a].charged # None => budget[a].charged <= budget[a].reserved

\* Nothing is held for an attempt before its time is reserved, and nothing is
\* decided of it before its time is recorded.
Untouched ==
    \A a \in Attempts :
        /\ row[a] = "none" => budget[a] = Blank /\ exec[a] = NoExec
        /\ exec[a].pc = "reserved" => budget[a].reserved = 0
        /\ exec[a].pc \in {"reserved", "timed"} => exec[a].plan = "none"

\* The attempts of a point are numbered without gaps, so that their number is
\* the index of the next one.
Consecutive ==
    \A s \in Slots : \A i \in 0..MaxRetry :
        row[<<s, i>>] # "none" => \A j \in 0..i : row[<<s, j>>] # "none"

\* A repetition is registered as a whole before any of its points is tried.
WholeSequences ==
    \A a \in Attempts : row[a] # "none" =>
        \A s \in Slots : Rep(s) = Rep(Slot(a)) => s \in members

\* An owner that has found its budget used up stays right about it.
CensoredInTruth ==
    \A a \in Attempts :
        exec[a].plan = "censored" /\ row[a] \in Unfinished => Exhausted(a)

\* A document that says censored decides by the time limit.
DocumentsDecide ==
    \A a \in Attempts :
        doc[a] # None => (doc[a].state = "censored" => doc[a].effect = "active_time_limit")

\* Nobody works on a satisfied point.
Unsatisfied ==
    \A a, b \in Attempts :
        row[a] \in Unfinished /\ Slot(b) = Slot(a) => row[b] # "accepted"

\* A point is accepted once.
AcceptedOnce ==
    \A a, b \in Attempts :
        row[a] = "accepted" /\ row[b] = "accepted" /\ Slot(b) = Slot(a) => a = b

\* A budget that is used up leaves no point open.
UsedUpDecided ==
    \A s \in members :
        /\ \A a \in InRep(Rep(s)) : row[a] \notin Unfinished
        /\ Used(Rep(s)) >= Limit
        => Satisfied(s) \/ disposition[s] # "none"

\* The account of every repetition.
Ledger ==
    /\ Books /\ Untouched /\ Consecutive /\ WholeSequences /\ BudgetHeld
    /\ CensoredInTruth /\ DocumentsDecide /\ Unsatisfied /\ AcceptedOnce
    /\ CensoredDecides /\ UsedUpDecided

Occurs(s, q) == \E i \in 1..Len(q) : q[i] = s
AllIn(q, S) == \A i \in 1..Len(q) : q[i] \in S

\* An invocation has registered what it selected, up to what it has yet to visit.
Walk(p) ==
    /\ {"select", "input", "todo"} \subseteq DOMAIN run[p]
    /\ run[p].select \subseteq Slots
    /\ run[p].pc # "idle" => run[p].select # {}
    /\ run[p].input \in Seq(Slots) /\ run[p].todo \in Seq(Slots)
    /\ AllIn(run[p].todo, run[p].select)
    /\ run[p].pc \in {"register", "filter"} => run[p].input # <<>>
    /\ run[p].pc = "register" =>
         \A s \in Slots : Registers(p, s) => s \in members \/ Occurs(s, run[p].input)
    /\ run[p].pc \in {"filter", "batch", "reserve"} =>
         \A s \in Slots : Registers(p, s) => s \in members
    /\ run[p].pc = "reserve" => AllIn(run[p].input, run[p].select)

Walks == \A p \in Procs : Walk(p)

DInv == IInv /\ Ledger /\ Walks
-----------------------------------------------------------------------------
(***************************************************************************)
(* Counting units of time.                                                  *)
(***************************************************************************)
Tally(f) == UNION {{b} \X (1..f[b]) : b \in DOMAIN f}

LEMMA TallyFinite ==
    ASSUME NEW S, IsFiniteSet(S), NEW n \in Nat, NEW f \in [S -> 0..n]
    PROVE  IsFiniteSet(Tally(f)) /\ Cardinality(Tally(f)) \in Nat
<1>1. IsFiniteSet(1..n)
  BY FS_Interval
<1>2. IsFiniteSet(S \X (1..n))
  BY <1>1, FS_Product
<1>3. Tally(f) \in SUBSET (S \X (1..n))
  BY DEF Tally
<1>4. IsFiniteSet(Tally(f))
  BY <1>2, <1>3, FS_Subset
<1> QED BY <1>4, FS_CardinalityType

LEMMA ColumnSize ==
    ASSUME NEW a, NEW T, IsFiniteSet(T)
    PROVE  IsFiniteSet({a} \X T) /\ Cardinality({a} \X T) = Cardinality(T)
<1>1. IsFiniteSet({a}) /\ Cardinality({a}) = 1
  BY FS_Singleton
<1>2. IsFiniteSet({a} \X T) /\ Cardinality({a} \X T) = Cardinality({a}) * Cardinality(T)
  BY <1>1, FS_Product
<1>3. Cardinality(T) \in Nat
  BY FS_CardinalityType
<1> QED BY <1>1, <1>2, <1>3

\* One attempt's units, and the attempts of a point up to an index.
LEMMA ColumnCount ==
    ASSUME NEW a, NEW n \in Nat
    PROVE  IsFiniteSet({a} \X (1..n)) /\ Cardinality({a} \X (1..n)) = n
<1>1. IsFiniteSet(1..n) /\ Cardinality(1..n) = n
  BY FS_Interval
<1> QED BY <1>1, ColumnSize

LEMMA IndexCount ==
    ASSUME NEW a, NEW n \in Int, 0 <= n + 1
    PROVE  IsFiniteSet({a} \X (0..n)) /\ Cardinality({a} \X (0..n)) = n + 1
<1>1. 0 \in Int
  OBVIOUS
<1>2. IsFiniteSet(0..n) /\ Cardinality(0..n) = IF 0 > n THEN 0 ELSE n - 0 + 1
  BY <1>1, FS_Interval
<1>3. Cardinality(0..n) = n + 1
  BY <1>2
<1> QED BY <1>2, <1>3, ColumnSize

\* The units of one attempt and those of the others.
LEMMA TallySplit ==
    ASSUME NEW S, IsFiniteSet(S), NEW n \in Nat, NEW f \in [S -> 0..n], NEW a \in S,
           NEW rest, rest = UNION {{b} \X (1..f[b]) : b \in S \ {a}}
    PROVE  /\ IsFiniteSet(rest) /\ Cardinality(rest) \in Nat
           /\ Cardinality(Tally(f)) = Cardinality(rest) + f[a]
<1>1. IsFiniteSet(Tally(f)) /\ Cardinality(Tally(f)) \in Nat
  BY TallyFinite
<1>2. Tally(f) = rest \cup ({a} \X (1..f[a]))
  BY DEF Tally
<1>3. rest \cap ({a} \X (1..f[a])) = {}
  OBVIOUS
<1>4. rest \in SUBSET Tally(f)
  BY <1>2
<1>5. IsFiniteSet(rest) /\ Cardinality(rest) \in Nat
  BY <1>1, <1>4, FS_Subset, FS_CardinalityType
<1>6. f[a] \in Nat
  OBVIOUS
<1>7. IsFiniteSet({a} \X (1..f[a])) /\ Cardinality({a} \X (1..f[a])) = f[a]
  BY <1>6, ColumnCount
<1>8. Cardinality(rest \cup ({a} \X (1..f[a]))) = Cardinality(rest)
        + Cardinality({a} \X (1..f[a])) - Cardinality(rest \cap ({a} \X (1..f[a])))
  BY <1>5, <1>7, FS_Union
<1>9. Cardinality(rest \cap ({a} \X (1..f[a]))) = 0
  BY <1>3, FS_EmptySet
<1> QED BY <1>2, <1>5, <1>6, <1>7, <1>8, <1>9

\* What changes when one attempt's units do.
LEMMA TallyStep ==
    ASSUME NEW S, IsFiniteSet(S), NEW n \in Nat, NEW f \in [S -> 0..n],
           NEW g \in [S -> 0..n], NEW a \in S, \A b \in S \ {a} : f[b] = g[b]
    PROVE  Cardinality(Tally(g)) = Cardinality(Tally(f)) - f[a] + g[a]
<1>1. PICK rest : rest = UNION {{b} \X (1..f[b]) : b \in S \ {a}}
  OBVIOUS
<1>2. rest = UNION {{b} \X (1..g[b]) : b \in S \ {a}}
  BY <1>1
<1>3. Cardinality(rest) \in Nat /\ Cardinality(Tally(f)) = Cardinality(rest) + f[a]
  BY <1>1, TallySplit
<1>4. Cardinality(Tally(g)) = Cardinality(rest) + g[a]
  BY <1>2, TallySplit
<1> QED BY <1>3, <1>4

LEMMA MinOfTwo ==
    ASSUME NEW x \in Nat, NEW y \in Nat
    PROVE  Min({x, y}) \in {x, y} /\ Min({x, y}) <= x /\ Min({x, y}) <= y
<1>1. \E m \in {x, y} : \A z \in {x, y} : m <= z
  OBVIOUS
<1> QED BY <1>1 DEF Min

LEMMA InRepFinite ==
    ASSUME NEW r
    PROVE  IsFiniteSet(InRep(r))
<1>0. Points \in Int /\ MaxRetry \in Int /\ 0 \in Int /\ 1 \in Int
  BY SequenceAssumption
<1>1. IsFiniteSet(1..Points) /\ IsFiniteSet(0..MaxRetry) /\ IsFiniteSet({r})
  BY <1>0, FS_Interval, FS_Singleton
<1>2. IsFiniteSet({r} \X (1..Points))
  BY <1>1, FS_Product
<1>3. IsFiniteSet(({r} \X (1..Points)) \X (0..MaxRetry))
  BY <1>1, <1>2, FS_Product
<1>4. InRep(r) \in SUBSET (({r} \X (1..Points)) \X (0..MaxRetry))
  BY DEF InRep, Attempts, Slots, Rep, Slot
<1> QED BY <1>3, <1>4, FS_Subset

Costs(r) == [a \in InRep(r) |-> Cost(a)]

LEMMA UsedTally == \A r : Used(r) = Cardinality(Tally(Costs(r)))
BY DEF Used, Units, Tally, Costs

LEMMA CostBound ==
    ASSUME Books, NEW a \in Attempts
    PROVE  Cost(a) \in 0..Limit /\ Charge(a) \in 0..Limit /\ Charge(a) <= budget[a].reserved
<1>1. budget[a].reserved \in 0..Limit /\ budget[a].charged \in Nat \cup {None}
  BY DEF Books, BudgetType
<1>2. budget[a].charged # None => budget[a].charged <= budget[a].reserved
  BY DEF Books
<1> QED BY <1>1, <1>2, SequenceAssumption DEF Cost, Charge

LEMMA CostsType ==
    ASSUME Books, NEW r
    PROVE  Costs(r) \in [InRep(r) -> 0..Limit] /\ Used(r) \in Nat
<1>1. Costs(r) \in [InRep(r) -> 0..Limit]
  BY CostBound DEF Costs, InRep
<1> QED BY <1>1, TallyFinite, InRepFinite, UsedTally, SequenceAssumption

LEMMA UsedSame ==
    ASSUME NEW r, \A a \in InRep(r) : Cost(a)' = Cost(a)
    PROVE  Used(r)' = Used(r)
<1>1. Units(r)' = Units(r)
  BY DEF Units, InRep
<1> QED BY <1>1 DEF Used

LEMMA NextCosts ==
    ASSUME Books', NEW r
    PROVE  Costs(r)' \in [InRep(r) -> 0..Limit]
<1> SUFFICES ASSUME NEW a \in InRep(r) PROVE Cost(a)' \in 0..Limit
  BY DEF Costs, InRep
<1>1. budget'[a].reserved \in 0..Limit /\ budget'[a].charged \in Nat \cup {None}
  BY DEF Books, BudgetType, InRep
<1>2. budget'[a].charged # None => budget'[a].charged <= budget'[a].reserved
  BY DEF Books, InRep
<1> QED BY <1>1, <1>2, SequenceAssumption DEF Cost, Charge

\* Only one attempt's share of the account changes.
LEMMA UsedStep ==
    ASSUME Books, Books', NEW r, NEW a \in InRep(r),
           \A b \in InRep(r) \ {a} : Cost(b)' = Cost(b)
    PROVE  Used(r)' = Used(r) - Cost(a) + Cost(a)'
<1>1. Costs(r) \in [InRep(r) -> 0..Limit] /\ Costs(r)' \in [InRep(r) -> 0..Limit]
  BY CostsType, NextCosts
<1>2. /\ Costs(r)[a] = Cost(a) /\ Costs(r)'[a] = Cost(a)'
      /\ \A b \in InRep(r) \ {a} : Costs(r)[b] = Costs(r)'[b]
  BY DEF Costs, InRep
<1>3. IsFiniteSet(InRep(r)) /\ Limit \in Nat
  BY InRepFinite, SequenceAssumption
<1>4. PICK f, g : f = Costs(r) /\ g = Costs(r)'
  OBVIOUS
<1>5. Cardinality(Tally(g)) = Cardinality(Tally(f)) - f[a] + g[a]
  BY <1>1, <1>2, <1>3, <1>4, TallyStep
<1>6. Used(r) = Cardinality(Tally(f))
  BY <1>4, UsedTally
<1>7. Used(r)' = Cardinality(Tally(g))
  BY <1>4 DEF Used, Units, Tally, Costs, InRep
<1> QED BY <1>2, <1>4, <1>5, <1>6, <1>7

\* Whoever uses time has been reserved.
LEMMA UsedTouched ==
    ASSUME Books, Untouched, NEW r, Used(r) > 0
    PROVE  \E a \in InRep(r) : row[a] # "none"
<1> SUFFICES ASSUME \A a \in InRep(r) : row[a] = "none" PROVE FALSE
  OBVIOUS
<1>1. \A a \in InRep(r) : Cost(a) = 0
  BY DEF Untouched, Cost, Charge, Blank, InRep, Unfinished
<1>2. Units(r) = {}
  BY <1>1 DEF Units
<1> QED BY <1>2, FS_EmptySet DEF Used

\* The number of attempts of a point is the index of the next one.
LEMMA NextIndex ==
    ASSUME Consecutive, NEW s \in Slots, Retry(s) <= MaxRetry
    PROVE  /\ Retry(s) \in 0..MaxRetry
           /\ row[<<s, Retry(s)>>] = "none"
           /\ \A j \in 0..MaxRetry : j < Retry(s) => row[<<s, j>>] # "none"
<1>0. MaxRetry \in Nat
  BY SequenceAssumption
<1>1. IsFiniteSet({s} \X (0..MaxRetry))
  <2>1. MaxRetry \in Int /\ 0 <= MaxRetry + 1
    BY <1>0
  <2> QED BY <2>1, IndexCount
<1>2. AttemptsOf(s) \in SUBSET ({s} \X (0..MaxRetry))
  BY DEF AttemptsOf, Attempts, Slot
<1>3. IsFiniteSet(AttemptsOf(s)) /\ Retry(s) \in Nat
  BY <1>1, <1>2, FS_Subset, FS_CardinalityType DEF Retry
<1>4. PICK n \in Nat : n = Retry(s)
  BY <1>3
<1>5. n \in 0..MaxRetry
  BY <1>0, <1>4
<1>6. \A j \in 0..MaxRetry : <<s, j>> \in AttemptsOf(s) <=> row[<<s, j>>] # "none"
  BY DEF AttemptsOf, Attempts, Slot
<1>7. row[<<s, n>>] = "none"
  <2> SUFFICES ASSUME row[<<s, n>>] # "none" PROVE FALSE
    OBVIOUS
  <2>1. \A j \in 0..n : row[<<s, j>>] # "none"
    BY <1>5 DEF Consecutive
  <2>2. {s} \X (0..n) \in SUBSET AttemptsOf(s)
    BY <1>0, <1>5, <1>6, <2>1
  <2>3. n \in Int /\ 0 <= n + 1
    OBVIOUS
  <2>4. Cardinality({s} \X (0..n)) = n + 1
    BY <2>3, IndexCount
  <2>5. Cardinality({s} \X (0..n)) <= n
    BY <1>3, <1>4, <2>2, FS_Subset DEF Retry
  <2> QED BY <2>4, <2>5
<1>8. ASSUME NEW j \in 0..MaxRetry, j < n, row[<<s, j>>] = "none" PROVE FALSE
  <2>1. \A i \in 0..MaxRetry : j <= i => row[<<s, i>>] = "none"
    BY <1>8 DEF Consecutive
  <2>2. AttemptsOf(s) \in SUBSET ({s} \X (0..(j - 1)))
    BY <1>2, <1>6, <1>8, <2>1
  <2>3. PICK k \in Int : k = j - 1 /\ 0 <= k + 1 /\ k + 1 = j
    BY <1>0
  <2>4. Cardinality({s} \X (0..(j - 1))) = j /\ IsFiniteSet({s} \X (0..(j - 1)))
    <3>1. Cardinality({s} \X (0..k)) = k + 1 /\ IsFiniteSet({s} \X (0..k))
      BY <2>3, IndexCount
    <3> QED BY <2>3, <3>1
  <2>5. n <= j
    BY <1>4, <2>2, <2>4, FS_Subset DEF Retry
  <2> QED BY <1>8, <2>5
<1> QED BY <1>4, <1>5, <1>7, <1>8
-----------------------------------------------------------------------------
(***************************************************************************)
(* Steps that leave the account as it is.                                   *)
(***************************************************************************)
\* What such a step may do to an attempt.
Works(b) ==
    /\ row'[b] = row[b] \/ (row[b] \in Unfinished /\ row'[b] \in Unfinished)
    /\ Cost(b)' = Cost(b)
    /\ row[b] = "none" => exec'[b] = exec[b] /\ budget'[b] = budget[b]
    /\ exec'[b].pc = "reserved" => exec'[b] = exec[b] /\ budget'[b] = budget[b]
    /\ exec'[b].pc = "timed" => exec'[b].plan = "none"
    /\ exec'[b].plan = "censored" =>
         budget'[b] = budget[b] /\ (exec[b].plan = "censored" \/ Exhausted(b))
    /\ doc'[b] # None =>
         (doc'[b].state = "censored" => doc'[b].effect = "active_time_limit")

LEMMA WorkKeeps ==
    ASSUME IInv, Ledger, Books', \A b \in Attempts : Works(b),
           UNCHANGED <<members, disposition>>
    PROVE  Ledger'
<1>1. \A b \in Attempts :
         /\ row'[b] = "none" <=> row[b] = "none"
         /\ row'[b] = "accepted" <=> row[b] = "accepted"
         /\ row'[b] = "censored" <=> row[b] = "censored"
         /\ row'[b] \in Unfinished <=> row[b] \in Unfinished
  BY DEF Works, Unfinished
<1>2. \A r : Used(r)' = Used(r)
  BY UsedSame DEF Works, InRep
<1>3. Untouched'
  BY <1>1 DEF Ledger, Untouched, Works
<1>4. Consecutive'
  <2>1. \A s \in Slots : \A i \in 0..MaxRetry : <<s, i>> \in Attempts
    BY DEF Attempts
  <2>2. \A i \in 0..MaxRetry : \A j \in 0..i : j \in 0..MaxRetry
    BY SequenceAssumption
  <2> QED BY <1>1, <2>1, <2>2 DEF Ledger, Consecutive
<1>5. WholeSequences'
  BY <1>1 DEF Ledger, WholeSequences
<1>6. BudgetHeld'
  BY <1>2 DEF Ledger, BudgetHeld
<1>7. CensoredInTruth'
  <2> SUFFICES ASSUME NEW a \in Attempts, exec'[a].plan = "censored", row'[a] \in Unfinished
               PROVE  Exhausted(a)'
    BY DEF CensoredInTruth
  <2>1. budget'[a] = budget[a] /\ Exhausted(a)
    BY <1>1 DEF Works, Ledger, CensoredInTruth
  <2> QED BY <1>2, <2>1 DEF Exhausted, Refund, Charge
<1>8. DocumentsDecide'
  BY DEF Works, DocumentsDecide
<1>9. Unsatisfied' /\ AcceptedOnce'
  BY <1>1 DEF Ledger, Unsatisfied, AcceptedOnce
<1>10. CensoredDecides'
  BY <1>1 DEF Ledger, CensoredDecides
<1>11. UsedUpDecided'
  <2>1. \A s : Satisfied(s)' <=> Satisfied(s)
    BY <1>1 DEF Satisfied, AttemptsOf
  <2> QED BY <1>1, <1>2, <2>1 DEF Ledger, UsedUpDecided, InRep
<1> QED BY <1>3, <1>4, <1>5, <1>6, <1>7, <1>8, <1>9, <1>10, <1>11 DEF Ledger

\* An attempt that a step does not touch.
LEMMA WorksNot ==
    ASSUME Ledger, NEW b \in Attempts, row'[b] = row[b], budget'[b] = budget[b],
           exec'[b] = exec[b], doc'[b] = doc[b]
    PROVE  Works(b)
BY DEF Works, Cost, Charge, Ledger, Untouched, DocumentsDecide

LEMMA BooksKept ==
    ASSUME Books, UNCHANGED <<members, budget, observed>>
    PROVE  Books'
BY DEF Books

\* Steps of invocations and of time that touch no table but members.
LEMMA RunKeepsLedger ==
    ASSUME IInv, Ledger, UNCHANGED <<db, doc, exec>>
    PROVE  Ledger'
<1>1. UNCHANGED <<members, row, budget, observed, disposition, doc, exec>>
  BY DEF db
<1>2. Books'
  BY <1>1, BooksKept DEF Ledger
<1> QED BY <1>1, <1>2, WorksNot, WorkKeeps

LEMMA CrashLedger ==
    ASSUME IInv, Ledger, NEW p \in Procs, Crash(p)
    PROVE  Ledger'
<1>1. /\ UNCHANGED <<members, row, budget, observed, disposition, doc>>
      /\ exec' = [a \in Attempts |-> IF a \in run[p].running /\ Live(a) THEN Ended("dead")
                                     ELSE exec[a]]
  BY DEF Crash, db
<1>2. Books'
  BY <1>1, BooksKept DEF Ledger
<1>3. Ended("dead").pc = "dead" /\ Ended("dead").plan = "none" /\ NoExec.pc = "none"
  BY DEF Ended, NoExec
<1>4. ASSUME NEW b \in Attempts PROVE Works(b)
  <2>1. CASE exec'[b] = exec[b]
    BY <1>1, <2>1, WorksNot
  <2>2. CASE exec'[b] # exec[b]
    <3>1. exec'[b] = Ended("dead") /\ Live(b)
      BY <1>1, <2>2
    <3>2. row[b] # "none"
      BY <1>3, <3>1 DEF Ledger, Untouched, Live
    <3> QED BY <1>1, <1>3, <3>1, <3>2 DEF Works, Cost, Charge, Ledger, DocumentsDecide
  <2> QED BY <2>1, <2>2
<1> QED BY <1>1, <1>2, <1>4, WorkKeeps

LEMMA TakeLedger ==
    ASSUME IInv, Ledger, NEW p \in Procs, NEW a \in Attempts, RecoverTake(p, a)
    PROVE  Ledger'
<1>1. /\ row' = [row EXCEPT ![a] = "finalizing"] /\ row[a] \in Unfinished
      /\ UNCHANGED <<members, budget, observed, disposition, doc, exec>>
  BY DEF RecoverTake, Recoverable
<1>2. Books'
  BY <1>1, BooksKept DEF Ledger
<1>3. row'[a] = "finalizing" /\ \A b \in Attempts \ {a} : row'[b] = row[b]
  BY <1>1 DEF IInv, Shape
<1>4. Works(a)
  BY <1>1, <1>3 DEF Works, Cost, Charge, Ledger, Untouched, DocumentsDecide, Unfinished
<1>5. \A b \in Attempts \ {a} : Works(b)
  BY <1>1, <1>3, WorksNot
<1> QED BY <1>1, <1>2, <1>4, <1>5, WorkKeeps
-----------------------------------------------------------------------------
(***************************************************************************)
(* Steps of an execution.                                                   *)
(***************************************************************************)
\* The step of one execution that moves its own record and perhaps its row.
LEMMA OwnWork ==
    ASSUME IInv, Ledger, Books', NEW a \in Attempts, Works(a),
           UNCHANGED <<members, disposition>>,
           \A b \in Attempts \ {a} :
              /\ row'[b] = row[b] /\ budget'[b] = budget[b]
              /\ exec'[b] = exec[b] /\ doc'[b] = doc[b]
    PROVE  Ledger'
<1>1. \A b \in Attempts \ {a} : Works(b)
  BY WorksNot
<1> QED BY <1>1, WorkKeeps

\* An attempt with a live execution has a row.
LEMMA LiveTouched ==
    ASSUME Ledger, NEW a \in Attempts, exec[a].pc # "none"
    PROVE  row[a] # "none"
BY DEF Ledger, Untouched, NoExec

LEMMA FailEarlyLedger ==
    ASSUME IInv, Ledger, NEW a \in Attempts, FailEarly(a)
    PROVE  Ledger'
<1>1. /\ UNCHANGED <<members, row, budget, observed, disposition, doc>>
      /\ exec' = [exec EXCEPT ![a].pc = "ran", ![a].plan = "failed"]
      /\ exec[a].pc = "reserved"
  BY DEF FailEarly, At, db
<1>2. /\ exec'[a].pc = "ran" /\ exec'[a].plan = "failed"
      /\ \A b \in Attempts \ {a} : exec'[b] = exec[b]
  BY <1>1 DEF IInv, Shape, ExecType
<1>3. Books' /\ row[a] # "none"
  BY <1>1, BooksKept, LiveTouched DEF Ledger
<1>4. Works(a)
  BY <1>1, <1>2, <1>3 DEF Works, Cost, Charge, Ledger, DocumentsDecide
<1> QED BY <1>1, <1>2, <1>3, <1>4, OwnWork

LEMMA ClassifyLedger ==
    ASSUME IInv, Ledger, NEW a \in Attempts, ClassifyTimeout(a)
    PROVE  Ledger'
<1>1. /\ UNCHANGED <<members, row, budget, observed, disposition, doc>>
      /\ exec' = [exec EXCEPT ![a].plan = IF Exhausted(a) THEN "censored" ELSE "failed"]
      /\ exec[a].pc = "ran"
  BY DEF ClassifyTimeout, At, db
<1>2. PICK o : o = IF Exhausted(a) THEN "censored" ELSE "failed"
  OBVIOUS
<1>3. /\ exec'[a].pc = "ran" /\ exec'[a].plan = o
      /\ \A b \in Attempts \ {a} : exec'[b] = exec[b]
  BY <1>1, <1>2 DEF IInv, Shape, ExecType
<1>4. Books' /\ row[a] # "none"
  BY <1>1, BooksKept, LiveTouched DEF Ledger
<1>5. Works(a)
  BY <1>1, <1>2, <1>3, <1>4 DEF Works, Cost, Charge, Ledger, DocumentsDecide
<1> QED BY <1>1, <1>3, <1>4, <1>5, OwnWork

LEMMA AbortLedger ==
    ASSUME IInv, Ledger, NEW a \in Attempts, Abort(a)
    PROVE  Ledger'
<1>1. /\ UNCHANGED <<members, row, budget, observed, disposition, doc>>
      /\ exec' = [exec EXCEPT ![a] = Ended("dead")] /\ Live(a)
  BY DEF Abort, db
<1>2. Ended("dead").pc = "dead" /\ Ended("dead").plan = "none"
  BY DEF Ended, NoExec
<1>3. exec'[a] = Ended("dead") /\ \A b \in Attempts \ {a} : exec'[b] = exec[b]
  BY <1>1 DEF IInv, Shape
<1>4. Books' /\ row[a] # "none"
  BY <1>1, BooksKept, LiveTouched DEF Ledger, Live
<1>5. Works(a)
  BY <1>1, <1>2, <1>3, <1>4 DEF Works, Cost, Charge, Ledger, DocumentsDecide
<1> QED BY <1>1, <1>3, <1>4, <1>5, OwnWork

LEMMA BeginLedger ==
    ASSUME IInv, Ledger, NEW a \in Attempts, BeginFinalization(a)
    PROVE  Ledger'
<1>1. /\ row' = [row EXCEPT ![a] = "finalizing"] /\ row[a] \in Unfinished
      /\ UNCHANGED <<members, budget, observed, disposition, doc>>
  BY DEF BeginFinalization, Fence
<1>2. PICK c \in {"observe", "decided"}, o \in {exec[a].plan, "superseded"} :
        exec' = [exec EXCEPT ![a].pc = c, ![a].plan = o]
  <2> DEFINE claims == exec[a].plan = "accepted"
             competing == claim[Slot(a)] # None \/ Satisfied(Slot(a))
             c == IF claims THEN "observe" ELSE "decided"
             o == IF claims /\ competing THEN "superseded" ELSE exec[a].plan
  <2>1. exec' = [exec EXCEPT ![a].pc = c, ![a].plan = o]
    BY DEF BeginFinalization, IInv, Shape
  <2>2. c \in {"observe", "decided"} /\ o \in {exec[a].plan, "superseded"}
    OBVIOUS
  <2> HIDE DEF c, o
  <2> QED BY <2>1, <2>2
<1>3. exec'[a].pc = c /\ exec'[a].plan = o /\ \A b \in Attempts \ {a} : exec'[b] = exec[b]
  BY <1>2 DEF IInv, Shape, ExecType
<1>4. row'[a] = "finalizing" /\ \A b \in Attempts \ {a} : row'[b] = row[b]
  BY <1>1 DEF IInv, Shape
<1>5. Books'
  BY <1>1, BooksKept DEF Ledger
<1>6. Works(a)
  BY <1>1, <1>2, <1>3, <1>4 DEF Works, Cost, Charge, Ledger, DocumentsDecide, Unfinished
<1> QED BY <1>1, <1>3, <1>4, <1>5, <1>6, OwnWork

LEMMA RecordLedger ==
    ASSUME IInv, Ledger, NEW a \in Attempts, RecordFreshTime(a)
    PROVE  Ledger'
<1>1. PICK measured \in Measured, plan \in Plans,
             completion \in Completions \cup {"none"} :
        /\ budget' = [budget EXCEPT ![a].charged = Charged(a, measured)]
        /\ exec' = [exec EXCEPT ![a] = [pc |-> "ran", plan |-> plan, completion |-> completion]]
  BY DEF RecordFreshTime
<1>2. /\ UNCHANGED <<members, row, observed, disposition, doc>>
      /\ row[a] \in Unfinished
  BY DEF RecordFreshTime, Fence
<1>3. plan # "censored" /\ measured \in Nat \cup {None} /\ None \notin Nat
  BY SequenceAssumption
<1>4. budget[a].reserved \in 0..Limit /\ Limit \in Nat
  BY SequenceAssumption DEF Ledger, Books, BudgetType
<1>5. PICK c : c = Charged(a, measured)
  OBVIOUS
<1>6. c \in Nat \cup {None} /\ (c # None => c <= budget[a].reserved)
  <2>1. CASE measured = None
    BY <1>5, <2>1 DEF Charged
  <2>2. CASE measured # None
    <3>1. c = Min({measured, budget[a].reserved}) /\ measured \in Nat
      BY <1>3, <1>5, <2>2 DEF Charged
    <3>2. budget[a].reserved \in Nat
      BY <1>4
    <3> QED BY <3>1, <3>2, MinOfTwo
  <2> QED BY <2>1, <2>2
<1>7. /\ budget' = [budget EXCEPT ![a].charged = c]
      /\ budget'[a].reserved = budget[a].reserved /\ budget'[a].charged = c
      /\ budget' \in [Attempts -> BudgetType]
      /\ \A b \in Attempts \ {a} : budget'[b] = budget[b]
  BY <1>1, <1>5, <1>6 DEF Ledger, Books, BudgetType
<1>8. Books'
  BY <1>2, <1>6, <1>7 DEF Ledger, Books
<1>9. /\ exec'[a].pc = "ran" /\ exec'[a].plan = plan
      /\ \A b \in Attempts \ {a} : exec'[b] = exec[b]
  BY <1>1 DEF IInv, Shape
<1>10. Works(a)
  BY <1>2, <1>3, <1>7, <1>9 DEF Works, Cost, Ledger, DocumentsDecide, Unfinished
<1> QED BY <1>2, <1>7, <1>8, <1>9, <1>10, OwnWork

LEMMA ObservationLedger ==
    ASSUME IInv, Ledger, NEW a \in Attempts, RegisterObservation(a)
    PROVE  Ledger'
<1>1. /\ UNCHANGED <<members, row, budget, disposition, doc>>
      /\ observed' = [observed EXCEPT ![a] = exec[a].completion]
      /\ exec' = [exec EXCEPT ![a].pc = "decided", ![a].completion = "none"]
      /\ row[a] \in Unfinished
  BY DEF RegisterObservation, Fence
<1>2. exec[a].completion \in Completions \cup {"none"}
  BY DEF IInv, Shape, ExecType
<1>3. Books'
  BY <1>1, <1>2 DEF Ledger, Books
<1>4. /\ exec'[a].pc = "decided" /\ exec'[a].plan = exec[a].plan
      /\ \A b \in Attempts \ {a} : exec'[b] = exec[b]
  BY <1>1 DEF IInv, Shape, ExecType
<1>5. Works(a)
  BY <1>1, <1>4 DEF Works, Cost, Charge, Ledger, DocumentsDecide, Unfinished
<1> QED BY <1>1, <1>3, <1>4, <1>5, OwnWork

\* The outcome is written by an owner that is still right about its budget.
LEMMA PublishLedger ==
    ASSUME IInv, Ledger, NEW a \in Attempts, PublishOutcome(a)
    PROVE  Ledger'
<1>1. /\ UNCHANGED <<members, row, budget, observed, disposition>>
      /\ exec' = [exec EXCEPT ![a].pc = "published"]
      /\ doc' = [doc EXCEPT ![a] = [state |-> exec[a].plan, budget |-> budget[a],
                                    effect |-> Effect(a, exec[a].plan)]]
      /\ row[a] \in Unfinished
  BY DEF PublishOutcome, Fence, db
<1>2. exec[a].plan = "censored" => Effect(a, exec[a].plan) = "active_time_limit"
  BY <1>1 DEF Ledger, CensoredInTruth, Effect
<1>3. PICK e : e = Effect(a, exec[a].plan)
  OBVIOUS
<1>4. /\ doc'[a].state = exec[a].plan /\ doc'[a].effect = e
      /\ \A b \in Attempts \ {a} : doc'[b] = doc[b]
  BY <1>1, <1>3 DEF IInv, Shape
<1>5. /\ exec'[a].pc = "published" /\ exec'[a].plan = exec[a].plan
      /\ \A b \in Attempts \ {a} : exec'[b] = exec[b]
  BY <1>1 DEF IInv, Shape, ExecType
<1>6. Books'
  BY <1>1, BooksKept DEF Ledger
<1>7. Works(a)
  BY <1>1, <1>2, <1>3, <1>4, <1>5 DEF Works, Cost, Charge, Unfinished
<1> QED BY <1>1, <1>4, <1>5, <1>6, <1>7, OwnWork

-----------------------------------------------------------------------------
(***************************************************************************)
(* Steps that change the account.                                           *)
(***************************************************************************)
\* reserve_fresh_time: what is granted still fits.
LEMMA ReserveTimeLedger ==
    ASSUME IInv, Ledger, NEW a \in Attempts, ReserveFreshTime(a)
    PROVE  Ledger'
<1> DEFINE r == Rep(Slot(a))
<1>1. PICK g : g = Granted(r)
  OBVIOUS
<1>2. /\ budget' = [budget EXCEPT ![a].reserved = g]
      /\ row[a] \in Unfinished /\ exec[a].pc = "reserved"
      /\ UNCHANGED <<members, row, observed, disposition, doc>>
  BY <1>1 DEF ReserveFreshTime, At, Fence
<1>3. /\ exec'[a].pc \in {"ran", "timed"}
      /\ exec'[a].pc = "timed" => exec'[a].plan = "none"
      /\ exec'[a].plan # "censored"
      /\ \A b \in Attempts \ {a} : exec'[b] = exec[b]
  <2> DEFINE none == [exec[a] EXCEPT !.pc = "ran", !.plan = "failed"]
             some == [exec[a] EXCEPT !.pc = "timed"]
  <2>1. exec[a].plan = "none" /\ exec[a] \in ExecType
    BY <1>2, ExecFields DEF Ledger, Untouched
  <2>2. exec' = [exec EXCEPT ![a] = none] \/ exec' = [exec EXCEPT ![a] = some]
    BY DEF ReserveFreshTime
  <2>3. /\ none.pc = "ran" /\ none.plan = "failed"
        /\ some.pc = "timed" /\ some.plan = "none"
    BY <2>1 DEF ExecType
  <2> HIDE DEF none, some
  <2> QED BY <2>2, <2>3 DEF IInv, Shape
<1>4. a \in InRep(r) /\ r \in Repetitions
  BY DEF InRep, Attempts, Slots, Slot, Rep
<1> HIDE DEF r
<1>5. Limit \in Nat /\ PointLimit \in Nat /\ Used(r) \in Nat /\ Used(r) <= Limit
  BY <1>4, CostsType, SequenceAssumption DEF Ledger, BudgetHeld
<1>6. g \in 0..Limit /\ g <= Limit - Used(r)
  <2>1. PICK rem \in Nat : rem = Limit - Used(r)
    BY <1>5
  <2>2. g = Min({rem, PointLimit})
    BY <1>1, <1>5, <2>1 DEF Granted
  <2>3. g \in {rem, PointLimit} /\ g <= rem
    BY <1>5, <2>2, MinOfTwo
  <2> QED BY <1>5, <2>1, <2>3
<1>7. /\ budget'[a].reserved = g /\ budget'[a].charged = budget[a].charged
      /\ budget' \in [Attempts -> BudgetType]
      /\ \A b \in Attempts \ {a} : budget'[b] = budget[b]
  BY <1>2, <1>6 DEF Ledger, Books, BudgetType
<1>8. budget[a].reserved = 0 /\ budget[a].charged \in Nat \cup {None}
  BY <1>2 DEF Ledger, Untouched, Books, BudgetType
<1>9. Books'
  <2>1. budget'[a].charged # None => budget'[a].charged <= budget'[a].reserved
    BY <1>6, <1>7, <1>8, SequenceAssumption DEF Ledger, Books
  <2> QED BY <1>2, <1>7, <2>1 DEF Ledger, Books
<1>10. Cost(a) = 0 /\ Cost(a)' = g
  BY <1>2, <1>7, <1>8 DEF Cost
<1>11. \A b \in Attempts \ {a} : Cost(b)' = Cost(b)
  BY <1>2, <1>7 DEF Cost, Charge
<1>12. Used(r)' = Used(r) + g
  <2>1. \A b \in InRep(r) \ {a} : Cost(b)' = Cost(b)
    BY <1>11 DEF InRep
  <2>2. Used(r)' = Used(r) - Cost(a) + Cost(a)'
    BY <1>4, <1>9, <2>1, UsedStep DEF Ledger
  <2> QED BY <1>5, <1>6, <1>10, <2>2
<1>13. \A q \in Repetitions \ {r} : Used(q)' = Used(q)
  <2>1. \A q \in Repetitions \ {r} : \A b \in InRep(q) : Cost(b)' = Cost(b)
    BY <1>4, <1>11 DEF InRep
  <2> QED BY <2>1, UsedSame
<1>14. \A b \in Attempts : row[b] \in Unfinished /\ b # a => Rep(Slot(b)) \in Repetitions \ {r}
  BY <1>2, <1>4 DEF IInv, OwnerAlone, InRep, Attempts, Slots, Slot, Rep
<1>15. Untouched'
  BY <1>2, <1>3, <1>7 DEF Ledger, Untouched, Unfinished
<1>16. /\ Consecutive' /\ WholeSequences' /\ DocumentsDecide' /\ Unsatisfied'
       /\ AcceptedOnce' /\ CensoredDecides'
  BY <1>2 DEF Ledger, Consecutive, WholeSequences, DocumentsDecide, Unsatisfied,
              AcceptedOnce, CensoredDecides
<1>17. BudgetHeld'
  <2>1. \A q \in Repetitions : Used(q) \in Nat /\ Used(q) <= Limit
    BY CostsType DEF Ledger, BudgetHeld
  <2> QED BY <1>5, <1>6, <1>12, <1>13, <2>1 DEF BudgetHeld
<1>18. CensoredInTruth'
  <2> SUFFICES ASSUME NEW b \in Attempts, exec'[b].plan = "censored", row'[b] \in Unfinished
               PROVE  Exhausted(b)'
    BY DEF CensoredInTruth
  <2>1. b # a /\ exec[b].plan = "censored" /\ row[b] \in Unfinished
    BY <1>2, <1>3
  <2>2. Exhausted(b) /\ Used(Rep(Slot(b)))' = Used(Rep(Slot(b))) /\ budget'[b] = budget[b]
    BY <1>7, <1>13, <1>14, <2>1 DEF Ledger, CensoredInTruth
  <2> QED BY <2>2 DEF Exhausted, Refund, Charge
<1>19. UsedUpDecided'
  <2> SUFFICES ASSUME NEW t \in members, Used(Rep(t))' >= Limit,
                      \A b \in InRep(Rep(t)) : row[b] \notin Unfinished
               PROVE  Satisfied(t) \/ disposition[t] # "none"
    BY <1>2 DEF UsedUpDecided, Satisfied, AttemptsOf, InRep
  <2>1. Rep(t) \in Repetitions \ {r}
    BY <1>2, <1>4 DEF Ledger, Books, Slots, Rep
  <2> QED BY <1>13, <2>1 DEF Ledger, UsedUpDecided
<1> QED BY <1>9, <1>15, <1>16, <1>17, <1>18, <1>19 DEF Ledger

\* A terminal transaction: what is charged, the decision that follows from it
\* and the points it disposes of.
LEMMA CommitLedger ==
    ASSUME IInv, Ledger, NEW a \in Attempts, row[a] \in Unfinished, NEW o \in Terminal,
           CommitTerminal(a, o), UNCHANGED <<members, budget, observed>>,
           o = "censored" => Effect(a, o) = "active_time_limit",
           \A b \in Attempts : exec'[b] = exec[b] \/ exec'[b] = Ended("done"),
           \A b \in Attempts \ {a} : exec'[b] = exec[b]
    PROVE  Ledger'
<1> DEFINE r == Rep(Slot(a))
<1>1. /\ row' = [row EXCEPT ![a] = o] /\ disposition' = Finish(a, o)
      /\ doc' = [doc EXCEPT ![a] = None]
  BY DEF CommitTerminal
<1>2. row'[a] = o /\ \A b \in Attempts \ {a} : row'[b] = row[b]
  BY <1>1 DEF IInv, Shape
<1>3. o \notin Unfinished /\ o # "none" /\ row[a] \notin Terminal /\ row[a] # "none"
  BY DEF Terminal, Unfinished
<1>4. a \in InRep(r) /\ r \in Repetitions /\ Slot(a) \in Slots
  BY DEF InRep, Attempts, Slots, Slot, Rep
<1> HIDE DEF r
<1>5. Books'
  BY BooksKept DEF Ledger
<1>6. Cost(a) = budget[a].reserved /\ Cost(a)' = Charge(a) /\ Charge(a)' = Charge(a)
  BY <1>2, <1>3 DEF Cost, Charge
<1>7. \A b \in Attempts \ {a} : Cost(b)' = Cost(b)
  BY <1>2 DEF Cost, Charge
<1>8. Used(r)' = Used(r) - Refund(a) /\ Used(r)' <= Used(r) /\ Used(r)' \in Int
  <2>1. \A b \in InRep(r) \ {a} : Cost(b)' = Cost(b)
    BY <1>7 DEF InRep
  <2>2. Used(r)' = Used(r) - Cost(a) + Cost(a)'
    BY <1>4, <1>5, <2>1, UsedStep DEF Ledger
  <2>3. Used(r) \in Nat /\ Charge(a) \in 0..Limit /\ budget[a].reserved \in 0..Limit
    BY CostsType, CostBound DEF Ledger, Books, BudgetType
  <2>4. Charge(a) <= budget[a].reserved /\ Limit \in Nat
    BY CostBound, SequenceAssumption DEF Ledger
  <2> QED BY <1>6, <2>2, <2>3, <2>4 DEF Refund
<1>9. \A q \in Repetitions \ {r} : Used(q)' = Used(q)
  <2>1. \A q \in Repetitions \ {r} : \A b \in InRep(q) : Cost(b)' = Cost(b)
    BY <1>4, <1>7 DEF InRep
  <2> QED BY <2>1, UsedSame
<1>10. \A b \in Attempts : row'[b] \in Unfinished =>
          b # a /\ row[b] \in Unfinished /\ Rep(Slot(b)) \in Repetitions \ {r}
  BY <1>2, <1>3, <1>4 DEF IInv, OwnerAlone, InRep, Attempts, Slots, Slot, Rep
<1>11. Untouched'
  <2>1. Ended("done").pc = "done" /\ Ended("done").plan = "none"
    BY DEF Ended, NoExec
  <2> QED BY <1>2, <1>3, <2>1 DEF Ledger, Untouched
<1>12. Consecutive' /\ WholeSequences'
  <2>1. \A b \in Attempts : row'[b] = "none" <=> row[b] = "none"
    BY <1>2, <1>3
  <2>2. \A s \in Slots : \A i \in 0..MaxRetry : <<s, i>> \in Attempts
    BY DEF Attempts
  <2>3. \A i \in 0..MaxRetry : \A j \in 0..i : j \in 0..MaxRetry
    BY SequenceAssumption
  <2>4. Consecutive'
    BY <2>1, <2>2, <2>3 DEF Ledger, Consecutive
  <2> QED BY <2>1, <2>4 DEF Ledger, WholeSequences
<1>13. BudgetHeld'
  <2>1. \A q \in Repetitions : Used(q) \in Nat /\ Used(q) <= Limit
    BY CostsType DEF Ledger, BudgetHeld
  <2>2. Limit \in Nat
    BY SequenceAssumption
  <2> QED BY <1>4, <1>8, <1>9, <2>1, <2>2 DEF BudgetHeld
<1>14. CensoredInTruth'
  <2> SUFFICES ASSUME NEW b \in Attempts, exec'[b].plan = "censored", row'[b] \in Unfinished
               PROVE  Exhausted(b)'
    BY DEF CensoredInTruth
  <2>1. b # a /\ exec[b].plan = "censored" /\ row[b] \in Unfinished
    BY <1>10
  <2>2. Exhausted(b) /\ Used(Rep(Slot(b)))' = Used(Rep(Slot(b))) /\ budget'[b] = budget[b]
    BY <1>9, <1>10, <2>1 DEF Ledger, CensoredInTruth
  <2> QED BY <2>2 DEF Exhausted, Refund, Charge
<1>15. DocumentsDecide'
  BY <1>1 DEF IInv, Shape, Ledger, DocumentsDecide
<1>16. Unsatisfied'
  <2> SUFFICES ASSUME NEW b \in Attempts, NEW c \in Attempts, row'[b] \in Unfinished,
                      Slot(c) = Slot(b)
               PROVE  row'[c] # "accepted"
    BY DEF Unsatisfied
  <2>1. c # a /\ row[b] \in Unfinished
    BY <1>4, <1>10 DEF InRep
  <2> QED BY <1>2, <2>1 DEF Ledger, Unsatisfied
<1>17. \A s \in Slots : disposition[s] # "none" => disposition'[s] = disposition[s]
  BY <1>1 DEF Finish
<1>18. /\ disposition[Slot(a)] = "none" /\ ~Satisfied(Slot(a))
       /\ Slot(a) \in MembersOf(r)
  <2>1. disposition[Slot(a)] = "none"
    BY DEF IInv, DecidedAtRest
  <2>2. ~Satisfied(Slot(a))
    BY DEF Satisfied, AttemptsOf, Ledger, Unsatisfied
  <2>3. Slot(a) \in members /\ Rep(Slot(a)) = r
    BY <1>3, <1>4 DEF Ledger, WholeSequences, InRep
  <2> QED BY <2>1, <2>2, <2>3 DEF MembersOf
<1>19. CensoredDecides'
  <2> SUFFICES ASSUME NEW b \in Attempts, row'[b] = "censored"
               PROVE  disposition'[Slot(b)] = "active_time_limit"
    BY DEF CensoredDecides
  <2>1. CASE b # a
    <3>1. disposition[Slot(b)] = "active_time_limit" /\ Slot(b) \in Slots
      BY <1>2, <2>1, SlotType DEF Ledger, CensoredDecides
    <3> QED BY <1>17, <3>1
  <2>2. CASE b = a
    <3>1. o = "censored" /\ Effect(a, o) = "active_time_limit"
      BY <1>2, <2>2
    <3> QED BY <1>1, <1>4, <1>18, <2>2, <3>1 DEF Finish, r
  <2> QED BY <2>1, <2>2
<1>20. UsedUpDecided'
  <2> SUFFICES ASSUME NEW t \in members, Used(Rep(t))' >= Limit,
                      \A b \in InRep(Rep(t)) : row'[b] \notin Unfinished
               PROVE  Satisfied(t)' \/ disposition'[t] # "none"
    BY DEF UsedUpDecided, InRep
  <2>1. t \in Slots /\ Rep(t) \in Repetitions
    BY DEF Ledger, Books, Slots, Rep
  <2>2. Satisfied(t) => Satisfied(t)'
    BY <1>2, <1>3 DEF Satisfied, AttemptsOf, Terminal
  <2>3. CASE Rep(t) # r
    <3>1. \A b \in InRep(Rep(t)) : row[b] \notin Unfinished
      BY <1>2, <1>4, <2>3 DEF InRep
    <3>2. Satisfied(t) \/ disposition[t] # "none"
      BY <1>9, <2>1, <2>3, <3>1 DEF Ledger, UsedUpDecided
    <3> QED BY <1>17, <2>1, <2>2, <3>2
  <2>4. CASE Rep(t) = r
    <3>1. Effect(a, o) # "none"
      BY <1>8, <2>4 DEF Effect, Exhausted, r
    <3>2. CASE Satisfied(t) \/ disposition[t] # "none"
      BY <1>17, <2>1, <2>2, <3>2
    <3>3. CASE t = Slot(a) /\ o = "accepted"
      BY <1>2, <3>3 DEF Satisfied, AttemptsOf
    <3>4. CASE /\ ~Satisfied(t) /\ disposition[t] = "none"
               /\ t # Slot(a) \/ o # "accepted"
      BY <1>1, <2>1, <2>4, <3>1, <3>4 DEF Finish, MembersOf, r
    <3> QED BY <3>2, <3>3, <3>4
  <2> QED BY <2>3, <2>4
<1>21. AcceptedOnce'
  <2>1. \A b \in Attempts : Slot(b) = Slot(a) => row[b] # "accepted"
    BY DEF Ledger, Unsatisfied
  <2> QED BY <1>2, <2>1 DEF Ledger, AcceptedOnce
<1> QED BY <1>5, <1>11, <1>12, <1>13, <1>14, <1>15, <1>16, <1>19, <1>20, <1>21 DEF Ledger

LEMMA CommitFinalizationLedger ==
    ASSUME IInv, Ledger, NEW a \in Attempts, CommitFinalization(a)
    PROVE  Ledger'
<1>1. PICK o : o = exec[a].plan
  OBVIOUS
<1>2. /\ exec[a].pc = "published" /\ row[a] \in Unfinished /\ CommitTerminal(a, o)
      /\ exec' = [exec EXCEPT ![a] = Ended("done")]
      /\ UNCHANGED <<members, budget, observed>>
  BY <1>1 DEF CommitFinalization, At, Fence
<1>3. o \in Terminal
  BY <1>1, <1>2 DEF IInv, PlansMade
<1>4. o = "censored" => Effect(a, o) = "active_time_limit"
  BY <1>1, <1>2 DEF Ledger, CensoredInTruth, Effect
<1>5. PICK e : e = Ended("done")
  OBVIOUS
<1>6. exec'[a] = e /\ \A b \in Attempts \ {a} : exec'[b] = exec[b]
  BY <1>2, <1>5 DEF IInv, Shape
<1> QED BY <1>2, <1>3, <1>4, <1>5, <1>6, CommitLedger

LEMMA RecoverResolveLedger ==
    ASSUME IInv, Ledger, NEW p \in Procs, RecoverResolve(p)
    PROVE  Ledger'
<1>1. PICK a, o : a = run[p].held /\ o = IF ValidDocument(a) THEN doc[a].state ELSE "failed"
  OBVIOUS
<1>2. /\ a # None /\ CommitTerminal(a, o) /\ exec' = exec
      /\ UNCHANGED <<members, budget, observed>>
  BY <1>1 DEF RecoverResolve
<1>3. a \in Attempts /\ row[a] \in Unfinished
  BY <1>1, <1>2 DEF IInv, HeldUnfinished
<1>4. o \in Terminal
  BY <1>1, <1>3 DEF ValidDocument, IInv, DocumentsTerminal, Terminal
<1>5. o = "censored" => Effect(a, o) = "active_time_limit"
  BY <1>1, <1>3 DEF ValidDocument, Ledger, DocumentsDecide
<1> QED BY <1>2, <1>3, <1>4, <1>5, CommitLedger

LEMMA RetryCount ==
    ASSUME NEW s \in Slots
    PROVE  Retry(s) \in Nat /\ (Retry(s) = 0 <=> AttemptsOf(s) = {})
<1>1. MaxRetry \in Int /\ 0 <= MaxRetry + 1
  BY SequenceAssumption
<1>2. IsFiniteSet({s} \X (0..MaxRetry))
  BY <1>1, IndexCount
<1>3. AttemptsOf(s) \in SUBSET ({s} \X (0..MaxRetry))
  BY DEF AttemptsOf, Attempts, Slot
<1>4. IsFiniteSet(AttemptsOf(s))
  BY <1>2, <1>3, FS_Subset
<1> QED BY <1>4, FS_CardinalityType, FS_EmptySet DEF Retry

\* A reservation is refused, or it opens the next attempt of a selected point
\* whose repetition is at rest and has time left.
Opens(a, p) ==
    /\ a \in Attempts /\ a = <<Slot(a), Retry(Slot(a))>>
    /\ row[a] = "none"
    /\ \A j \in 0..MaxRetry : j < Retry(Slot(a)) => row[<<Slot(a), j>>] # "none"
    /\ Slot(a) \in run[p].select
    /\ ~Satisfied(Slot(a)) /\ disposition[Slot(a)] = "none"
    /\ ~SequenceBusy(Slot(a)) /\ Used(Rep(Slot(a))) < Limit
    /\ row' = [row EXCEPT ![a] = "active"]
    /\ exec' = [exec EXCEPT ![a].pc = "reserved"]

LEMMA ReserveOpens ==
    ASSUME IInv, Ledger, NEW p \in Procs, Walk(p), Reserve(p)
    PROVE  \/ row' = row /\ exec' = exec
           \/ \E a \in Attempts : Opens(a, p)
<1> SUFFICES ASSUME ~(row' = row /\ exec' = exec)
             PROVE  \E a \in Attempts : Opens(a, p)
  OBVIOUS
<1>1. PICK s, n : s = Head(run[p].input) /\ n = Retry(s)
  OBVIOUS
<1>2. /\ Reservation(s, run[p].retry) = "reserved"
      /\ row' = [row EXCEPT ![<<s, n>>] = "active"]
      /\ exec' = [exec EXCEPT ![<<s, n>>].pc = "reserved"]
      /\ run[p].pc = "reserve" /\ run[p].input # <<>>
  BY <1>1 DEF Reserve, Filled
<1>3. s \in Slots /\ s \in run[p].select
  <2>1. run[p].input \in Seq(Slots) /\ AllIn(run[p].input, run[p].select)
    BY <1>2 DEF Walk
  <2>2. 1 \in 1..Len(run[p].input) /\ s = run[p].input[1]
    BY <1>1, <1>2, <2>1
  <2> QED BY <2>1, <2>2 DEF AllIn
<1>4. /\ ~Satisfied(s) /\ disposition[s] = "none" /\ ~SequenceBusy(s)
      /\ ~(Used(Rep(s)) >= Limit) /\ ~(n > 0 /\ n > MaxRetry)
  BY <1>1, <1>2 DEF Reservation
<1>5. Used(Rep(s)) \in Nat /\ n \in Nat /\ Limit \in Nat /\ MaxRetry \in Nat
  BY <1>1, <1>3, RetryCount, CostsType, SequenceAssumption DEF Ledger
<1>6. Used(Rep(s)) < Limit /\ n <= MaxRetry
  BY <1>4, <1>5
<1>7. /\ n \in 0..MaxRetry /\ row[<<s, n>>] = "none"
      /\ \A j \in 0..MaxRetry : j < n => row[<<s, j>>] # "none"
  BY <1>1, <1>3, <1>6, NextIndex DEF Ledger
<1>8. <<s, n>> \in Attempts /\ Slot(<<s, n>>) = s
  BY <1>3, <1>7 DEF Attempts, Slot
<1>9. Opens(<<s, n>>, p)
  BY <1>1, <1>2, <1>3, <1>4, <1>6, <1>7, <1>8 DEF Opens
<1> QED BY <1>8, <1>9

LEMMA ReserveLedger ==
    ASSUME IInv, Ledger, NEW p \in Procs, Walk(p), Reserve(p)
    PROVE  Ledger'
<1>1. UNCHANGED <<members, budget, observed, claim, disposition, doc>> /\ run[p].pc = "reserve"
  BY DEF Reserve
<1>2. CASE row' = row /\ exec' = exec
  BY <1>1, <1>2, RunKeepsLedger DEF db
<1>3. CASE \E a \in Attempts : Opens(a, p)
  <2>1. PICK a \in Attempts : Opens(a, p)
    BY <1>3
  <2>2. PICK s, n : s = Slot(a) /\ n = Retry(s)
    OBVIOUS
  <2>3. /\ a = <<s, n>> /\ s \in Slots /\ n \in 0..MaxRetry /\ row[a] = "none"
        /\ \A j \in 0..MaxRetry : j < n => row[<<s, j>>] # "none"
        /\ s \in run[p].select /\ ~Satisfied(s) /\ disposition[s] = "none"
        /\ ~SequenceBusy(s)
    BY <2>1, <2>2 DEF Opens, Attempts, Slot
  <2>4. budget[a] = Blank /\ exec[a] = NoExec
    BY <2>3 DEF Ledger, Untouched
  <2>5. row'[a] = "active" /\ \A b \in Attempts \ {a} : row'[b] = row[b]
    BY <2>1 DEF Opens, IInv, Shape
  <2>6. /\ exec'[a].pc = "reserved" /\ exec'[a].plan = "none"
        /\ \A b \in Attempts \ {a} : exec'[b] = exec[b]
    <3>1. exec[a].plan = "none"
      BY <2>4 DEF NoExec
    <3> QED BY <2>1, <3>1 DEF Opens, IInv, Shape, ExecType
  <2>7. Books'
    BY <1>1, BooksKept DEF Ledger
  <2>8. \A b \in Attempts : Cost(b)' = Cost(b)
    <3>1. budget[a].reserved = 0 /\ budget[a].charged = None
      BY <2>4 DEF Blank
    <3>2. Cost(a) = 0 /\ Cost(a)' = 0
      BY <1>1, <2>3, <2>5, <3>1 DEF Cost, Charge, Unfinished
    <3> QED BY <1>1, <2>5, <3>2 DEF Cost, Charge
  <2>9. \A r : Used(r)' = Used(r)
    BY <2>8, UsedSame DEF InRep
  <2>10. Untouched'
    BY <1>1, <2>4, <2>5, <2>6 DEF Ledger, Untouched, Blank
  <2>11. Consecutive'
    <3> SUFFICES ASSUME NEW t \in Slots, NEW i \in 0..MaxRetry, row'[<<t, i>>] # "none",
                        NEW j \in 0..i
                 PROVE  row'[<<t, j>>] # "none"
      BY DEF Consecutive
    <3>0. MaxRetry \in Nat
      BY SequenceAssumption
    <3>1. /\ j \in 0..MaxRetry /\ j <= i
          /\ <<t, i>> \in Attempts /\ <<t, j>> \in Attempts
      BY <3>0 DEF Attempts
    <3>2. CASE <<t, i>> # a
      <4>1. row[<<t, j>>] # "none"
        BY <2>5, <3>1, <3>2 DEF Ledger, Consecutive
      <4> QED BY <2>5, <3>1, <4>1
    <3>3. CASE <<t, i>> = a
      <4>1. t = s /\ i = n
        BY <2>3, <3>3
      <4>2. CASE j = i
        BY <2>5, <3>3, <4>2
      <4>3. CASE j # i
        <5>1. j < n
          BY <3>1, <4>1, <4>3
        <5>2. row[<<t, j>>] # "none"
          BY <2>3, <3>1, <4>1, <5>1
        <5> QED BY <2>5, <3>1, <5>2
      <4> QED BY <4>2, <4>3
    <3> QED BY <3>2, <3>3
  <2>12. WholeSequences'
    <3>1. \A t \in Slots : Rep(t) = Rep(s) => t \in members
      BY <1>1, <2>3 DEF Walk, Registers
    <3> QED BY <1>1, <2>2, <2>5, <3>1 DEF Ledger, WholeSequences
  <2>13. BudgetHeld'
    BY <2>9 DEF Ledger, BudgetHeld
  <2>14. CensoredInTruth'
    <3> SUFFICES ASSUME NEW b \in Attempts, exec'[b].plan = "censored", row'[b] \in Unfinished
                 PROVE  Exhausted(b)'
      BY DEF CensoredInTruth
    <3>1. Exhausted(b) /\ budget'[b] = budget[b]
      BY <1>1, <2>5, <2>6 DEF Ledger, CensoredInTruth
    <3> QED BY <2>9, <3>1 DEF Exhausted, Refund, Charge
  <2>15. DocumentsDecide' /\ CensoredDecides' /\ AcceptedOnce'
    BY <1>1, <2>5 DEF Ledger, DocumentsDecide, CensoredDecides, AcceptedOnce
  <2>16. Unsatisfied'
    <3> SUFFICES ASSUME NEW b \in Attempts, NEW c \in Attempts, row'[b] \in Unfinished,
                        Slot(c) = Slot(b)
                 PROVE  row'[c] # "accepted"
      BY DEF Unsatisfied
    <3>1. CASE b = a
      BY <2>2, <2>3, <2>5, <3>1 DEF Satisfied, AttemptsOf
    <3>2. CASE b # a
      BY <2>5, <3>2 DEF Ledger, Unsatisfied
    <3> QED BY <3>1, <3>2
  <2>17. UsedUpDecided'
    <3> SUFFICES ASSUME NEW t \in members, Used(Rep(t))' >= Limit,
                        \A b \in InRep(Rep(t)) : row'[b] \notin Unfinished
                 PROVE  Satisfied(t)' \/ disposition[t] # "none"
      BY <1>1 DEF UsedUpDecided, InRep
    <3>1. \A b \in InRep(Rep(t)) : row[b] \notin Unfinished
      BY <2>3, <2>5 DEF InRep, Unfinished
    <3>2. Satisfied(t) \/ disposition[t] # "none"
      BY <2>9, <3>1 DEF Ledger, UsedUpDecided
    <3>3. Satisfied(t) => Satisfied(t)'
      BY <2>3, <2>5 DEF Satisfied, AttemptsOf
    <3> QED BY <3>2, <3>3
  <2> QED BY <2>7, <2>10, <2>11, <2>12, <2>13, <2>14, <2>15, <2>16, <2>17 DEF Ledger
<1> QED BY <1>2, <1>3, ReserveOpens

\* Points are registered before time is spent on their repetition.
LEMMA RegisterLedger ==
    ASSUME IInv, Ledger, NEW p \in Procs, Walk(p), RegisterFresh(p)
    PROVE  Ledger'
<1>1. /\ UNCHANGED <<row, budget, observed, disposition, doc, exec>>
      /\ run[p].pc = "register"
  BY DEF RegisterFresh
<1>2. Head(run[p].input) \in Slots
  <2>1. run[p].input \in Seq(Slots) /\ run[p].input # <<>>
    BY <1>1 DEF Walk
  <2> QED BY <2>1
<1>3. members \subseteq members' /\ members' \subseteq Slots
  BY <1>2 DEF RegisterFresh, Ledger, Books
<1>4. Books'
  BY <1>1, <1>3 DEF Ledger, Books
<1>5. \A r : Used(r)' = Used(r)
  BY <1>1, UsedSame DEF Cost, Charge
<1>6. /\ Untouched' /\ Consecutive' /\ WholeSequences' /\ DocumentsDecide' /\ Unsatisfied'
      /\ AcceptedOnce' /\ CensoredDecides'
  BY <1>1, <1>3 DEF Ledger, Untouched, Consecutive, WholeSequences, DocumentsDecide,
                    Unsatisfied, AcceptedOnce, CensoredDecides
<1>7. BudgetHeld' /\ CensoredInTruth'
  BY <1>1, <1>5 DEF Ledger, BudgetHeld, CensoredInTruth, Exhausted, Refund, Charge
<1>8. UsedUpDecided'
  <2> SUFFICES ASSUME NEW t \in members', Used(Rep(t)) >= Limit,
                      \A b \in InRep(Rep(t)) : row[b] \notin Unfinished
               PROVE  Satisfied(t) \/ disposition[t] # "none"
    BY <1>1, <1>5 DEF UsedUpDecided, Satisfied, AttemptsOf, InRep
  <2>1. Used(Rep(t)) > 0
    BY CostsType, SequenceAssumption DEF Ledger
  <2>2. PICK b \in InRep(Rep(t)) : row[b] # "none"
    BY <2>1, UsedTouched DEF Ledger
  <2>3. t \in members
    BY <1>3, <2>2 DEF Ledger, WholeSequences, InRep
  <2> QED BY <2>3 DEF Ledger, UsedUpDecided
<1> QED BY <1>4, <1>6, <1>7, <1>8 DEF Ledger
-----------------------------------------------------------------------------
(***************************************************************************)
(* What an invocation has registered and has yet to visit.                  *)
(***************************************************************************)
\* The first point of a list and the others.
LEMMA FirstAndRest ==
    ASSUME NEW S, NEW q \in Seq(S), q # <<>>
    PROVE  /\ Head(q) \in S /\ Tail(q) \in Seq(S)
           /\ \A s : Occurs(s, q) => s = Head(q) \/ Occurs(s, Tail(q))
           /\ \A T : AllIn(q, T) => AllIn(Tail(q), T)
           /\ Len(q) > 1 => Tail(q) # <<>>
<1>1. Len(q) \in Nat /\ Len(q) >= 1 /\ Head(q) = q[1] /\ q[1] \in S
  OBVIOUS
<1>2. /\ Tail(q) \in Seq(S) /\ Len(Tail(q)) = Len(q) - 1
      /\ \A i \in 1..(Len(q) - 1) : Tail(q)[i] = q[i + 1]
  OBVIOUS
<1>3. ASSUME NEW s, Occurs(s, q), s # Head(q) PROVE Occurs(s, Tail(q))
  <2>1. PICK i \in 1..Len(q) : q[i] = s
    BY <1>3 DEF Occurs
  <2>2. PICK k \in 1..(Len(q) - 1) : k + 1 = i
    <3>1. i # 1 /\ i \in Nat
      BY <1>1, <1>3, <2>1
    <3>2. i - 1 \in 1..(Len(q) - 1) /\ (i - 1) + 1 = i
      BY <1>1, <2>1, <3>1
    <3> QED BY <3>2
  <2> QED BY <1>2, <2>1, <2>2 DEF Occurs
<1>4. ASSUME NEW T, AllIn(q, T), NEW k \in 1..Len(Tail(q)) PROVE Tail(q)[k] \in T
  <2>1. k \in 1..(Len(q) - 1) /\ k + 1 \in 1..Len(q)
    BY <1>1, <1>2
  <2> QED BY <1>2, <1>4, <2>1 DEF AllIn
<1>5. Len(q) > 1 => Tail(q) # <<>>
  BY <1>1, <1>2
<1> QED BY <1>1, <1>2, <1>3, <1>4, <1>5 DEF AllIn

\* The schedule has every point, so it is empty only if there are none.
LEMMA ScheduleWhole ==
    ASSUME NEW s \in Slots
    PROVE  Schedule # <<>> /\ Schedule \in Seq(Slots) /\ \A t \in Slots : Occurs(t, Schedule)
<1>1. Schedule \in Seq(Slots) /\ \A t \in Slots : Occurs(t, Schedule)
  BY SequenceAssumption DEF Occurs
<1>2. PICK i \in 1..Len(Schedule) : Schedule[i] = s
  BY <1>1 DEF Occurs
<1>3. Len(Schedule) >= 1
  BY <1>1, <1>2
<1> QED BY <1>1, <1>3

LEMMA WalkStays ==
    ASSUME NEW p, Walk(p), run'[p] = run[p], members \subseteq members'
    PROVE  Walk(p)'
BY DEF Walk, Registers

\* A step of one invocation.
LEMMA WalkStep ==
    ASSUME Walks, NEW p \in Procs, members \subseteq members',
           \A q \in Procs \ {p} : run'[q] = run[q], Walk(p)'
    PROVE  Walks'
<1>1. \A q \in Procs \ {p} : Walk(q)'
  BY WalkStays DEF Walks
<1> QED BY <1>1 DEF Walks

LEMMA EmptyWalk ==
    ASSUME NEW p, run'[p] = Idle
    PROVE  Walk(p)'
<1>1. /\ {"select", "input", "todo"} \subseteq DOMAIN Idle /\ Idle.select = {}
      /\ Idle.pc = "idle" /\ Idle.input = <<>> /\ Idle.todo = <<>>
  BY DEF Idle
<1>2. <<>> \in Seq(Slots) /\ AllIn(<<>>, {})
  BY DEF AllIn
<1> QED BY <1>1, <1>2 DEF Walk

LEMMA StartWalks ==
    ASSUME IInv, Walks, NEW p \in Procs, Start(p)
    PROVE  Walks'
<1>1. PICK retry \in Retries, select \in Selections, bound \in Dispatches :
        run' = [run EXCEPT ![p] = [Idle EXCEPT !.pc = "recover", !.retry = retry,
                                               !.select = select, !.left = bound]]
  BY DEF Start
<1> DEFINE new == [Idle EXCEPT !.pc = "recover", !.retry = retry,
                               !.select = select, !.left = bound]
<1>2. /\ {"select", "input", "todo"} \subseteq DOMAIN new /\ new.select = select
      /\ new.pc = "recover" /\ new.input = <<>> /\ new.todo = <<>>
  BY DEF Idle
<1>3. run' = [run EXCEPT ![p] = new]
  BY <1>1
<1> HIDE DEF new
<1>4. run'[p] = new /\ \A q \in Procs \ {p} : run'[q] = run[q]
  BY <1>3 DEF IInv, Shape
<1>5. <<>> \in Seq(Slots) /\ AllIn(<<>>, select) /\ select \subseteq Slots /\ select # {}
  BY SequenceAssumption DEF AllIn
<1>6. Walk(p)'
  BY <1>2, <1>4, <1>5 DEF Walk
<1>7. members' = members
  BY DEF Start, db
<1> QED BY <1>4, <1>6, <1>7, WalkStep

\* RecoverTake and RecoverResolve.
LEMMA PassWalks ==
    ASSUME IInv, Walks, NEW p \in Procs, run[p].pc = "recover", NEW h,
           run' = [run EXCEPT ![p].held = h], members' = members
    PROVE  Walks'
<1>1. /\ run'[p].select = run[p].select /\ run'[p].pc = run[p].pc
      /\ run'[p].input = run[p].input /\ run'[p].todo = run[p].todo
      /\ DOMAIN run'[p] = DOMAIN run[p]
      /\ \A q \in Procs \ {p} : run'[q] = run[q]
  BY DEF IInv, Shape
<1>2. Walk(p)'
  BY <1>1 DEF Walks, Walk
<1> QED BY <1>1, <1>2, WalkStep

LEMMA RecoverEndWalks ==
    ASSUME IInv, Walks, NEW p \in Procs, RecoverEnd(p)
    PROVE  Walks'
<1>1. run' = [run EXCEPT ![p].pc = "register", ![p].input = Schedule] /\ members' = members
  BY DEF RecoverEnd, db
<1>2. Walk(p) /\ run[p].pc = "recover"
  BY DEF RecoverEnd, Walks
<1>3. /\ run'[p].select = run[p].select /\ run'[p].pc = "register"
      /\ run'[p].input = Schedule /\ run'[p].todo = run[p].todo
      /\ DOMAIN run'[p] = DOMAIN run[p]
      /\ \A q \in Procs \ {p} : run'[q] = run[q]
  BY <1>1, <1>2 DEF IInv, Shape, Walk
<1>4. PICK s \in Slots : s \in run[p].select
  BY <1>2 DEF Walk
<1>5. Schedule # <<>> /\ Schedule \in Seq(Slots) /\ \A t \in Slots : Occurs(t, Schedule)
  BY ScheduleWhole
<1>6. Walk(p)'
  BY <1>2, <1>3, <1>5 DEF Walk
<1> QED BY <1>1, <1>3, <1>6, WalkStep

LEMMA RegisterWalks ==
    ASSUME IInv, Walks, NEW p \in Procs, RegisterFresh(p)
    PROVE  Walks'
<1>1. PICK s, rest : s = Head(run[p].input) /\ rest = Tail(run[p].input)
  OBVIOUS
<1>2. /\ members' = members \cup (IF Registers(p, s) THEN {s} ELSE {})
      /\ run' = [run EXCEPT ![p].pc = IF rest = <<>> THEN "filter" ELSE "register",
                            ![p].input = IF rest = <<>> THEN Schedule ELSE rest]
      /\ run[p].pc = "register"
  BY <1>1 DEF RegisterFresh, IInv, Shape
<1>3. Walk(p)
  BY DEF Walks
<1>4. PICK c, q : /\ c = IF rest = <<>> THEN "filter" ELSE "register"
                  /\ q = IF rest = <<>> THEN Schedule ELSE rest
  OBVIOUS
<1>5. /\ run'[p].select = run[p].select /\ run'[p].pc = c
      /\ run'[p].input = q /\ run'[p].todo = run[p].todo
      /\ DOMAIN run'[p] = DOMAIN run[p]
      /\ \A o \in Procs \ {p} : run'[o] = run[o]
  BY <1>2, <1>3, <1>4 DEF IInv, Shape, Walk
<1>6. run[p].input \in Seq(Slots) /\ run[p].input # <<>>
  BY <1>2, <1>3 DEF Walk
<1>7. /\ s \in Slots /\ rest \in Seq(Slots)
      /\ \A t : Occurs(t, run[p].input) => t = s \/ Occurs(t, rest)
  BY <1>1, <1>6, FirstAndRest
<1>8. Schedule # <<>> /\ Schedule \in Seq(Slots)
  BY <1>7, ScheduleWhole
<1>9. \A t \in Slots : Registers(p, t)' <=> Registers(p, t)
  BY <1>5 DEF Registers
<1>10. \A t \in Slots : Registers(p, t) => t \in members' \/ Occurs(t, rest)
  BY <1>2, <1>3, <1>7 DEF Walk
<1>11. rest = <<>> => \A t : ~Occurs(t, rest)
  BY DEF Occurs
<1>12. Walk(p)'
  BY <1>2, <1>3, <1>4, <1>5, <1>7, <1>8, <1>9, <1>10, <1>11 DEF Walk
<1>13. members \subseteq members'
  BY <1>2
<1> QED BY <1>5, <1>12, <1>13, WalkStep

LEMMA FilterWalks ==
    ASSUME IInv, Walks, NEW p \in Procs, FilterSlot(p)
    PROVE  Walks'
<1>1. PICK s, todo, c : /\ s = Head(run[p].input)
                        /\ todo = IF Wanted(p, s) THEN Append(run[p].todo, s) ELSE run[p].todo
                        /\ c = IF Len(run[p].input) > 1 THEN "filter" ELSE "batch"
  OBVIOUS
<1>2. Walk(p) /\ run[p].pc = "filter" /\ members' = members
  BY DEF Walks, FilterSlot, db
<1>3. run' = [run EXCEPT ![p].input = Tail(run[p].input), ![p].todo = todo, ![p].pc = c]
  BY <1>1, <1>2 DEF FilterSlot, IInv, Shape
<1>4. /\ run'[p].select = run[p].select /\ run'[p].pc = c
      /\ run'[p].input = Tail(run[p].input) /\ run'[p].todo = todo
      /\ DOMAIN run'[p] = DOMAIN run[p]
      /\ \A q \in Procs \ {p} : run'[q] = run[q]
  BY <1>2, <1>3 DEF IInv, Shape, Walk
<1>5. run[p].input \in Seq(Slots) /\ run[p].input # <<>> /\ run[p].todo \in Seq(Slots)
  BY <1>2 DEF Walk
<1>6. /\ s \in Slots /\ Tail(run[p].input) \in Seq(Slots)
      /\ Len(run[p].input) > 1 => Tail(run[p].input) # <<>>
  BY <1>1, <1>5, FirstAndRest
<1>7. todo \in Seq(Slots) /\ AllIn(todo, run[p].select)
  <2>1. CASE Wanted(p, s)
    <3>1. todo = Append(run[p].todo, s) /\ s \in run[p].select
      BY <1>1, <2>1 DEF Wanted
    <3>2. AllIn(run[p].todo, run[p].select)
      BY <1>2 DEF Walk
    <3>3. PICK q : q = run[p].todo
      OBVIOUS
    <3>4. /\ Append(q, s) \in Seq(Slots) /\ Len(Append(q, s)) = Len(q) + 1
          /\ \A i \in 1..Len(q) : Append(q, s)[i] = q[i]
          /\ Append(q, s)[Len(q) + 1] = s /\ Len(q) \in Nat
      BY <1>5, <1>6, <3>3
    <3>5. \A i \in 1..Len(Append(q, s)) : i \in 1..Len(q) \/ i = Len(q) + 1
      BY <3>4
    <3>6. \A i \in 1..Len(Append(q, s)) : Append(q, s)[i] \in run[p].select
      BY <3>1, <3>2, <3>3, <3>4, <3>5 DEF AllIn
    <3> QED BY <3>1, <3>3, <3>4, <3>6 DEF AllIn
  <2>2. CASE ~Wanted(p, s)
    BY <1>1, <1>2, <2>2 DEF Walk
  <2> QED BY <2>1, <2>2
<1>8. Walk(p)'
  BY <1>1, <1>2, <1>4, <1>6, <1>7 DEF Walk, Registers
<1> QED BY <1>2, <1>4, <1>8, WalkStep

LEMMA NextBatchWalks ==
    ASSUME IInv, Walks, NEW p \in Procs, NextBatch(p)
    PROVE  Walks'
<1>1. PICK n \in 1..Len(run[p].todo) :
        run' = [run EXCEPT ![p].pc = "reserve",
                           ![p].input = SubSeq(run[p].todo, 1, n),
                           ![p].todo = SubSeq(@, n + 1, Len(@))]
  BY DEF NextBatch
<1>2. Walk(p) /\ run[p].pc = "batch" /\ members' = members
  BY DEF Walks, NextBatch, db
<1>3. PICK q : q = run[p].todo
  OBVIOUS
<1>4. q \in Seq(Slots) /\ AllIn(q, run[p].select) /\ n \in 1..Len(q)
  BY <1>1, <1>2, <1>3 DEF Walk
<1>5. PICK x, y : x = SubSeq(q, 1, n) /\ y = SubSeq(q, n + 1, Len(q))
  OBVIOUS
<1>6. /\ run'[p].select = run[p].select /\ run'[p].pc = "reserve"
      /\ run'[p].input = x /\ run'[p].todo = y
      /\ DOMAIN run'[p] = DOMAIN run[p]
      /\ \A o \in Procs \ {p} : run'[o] = run[o]
  BY <1>1, <1>2, <1>3, <1>5 DEF IInv, Shape, Walk
<1>7. /\ x \in Seq(Slots) /\ Len(x) = n /\ \A i \in 1..n : x[i] = q[i]
  BY <1>4, <1>5
<1>8. /\ y \in Seq(Slots) /\ Len(y) = Len(q) - n
      /\ \A i \in 1..(Len(q) - n) : y[i] = q[n + i]
  BY <1>4, <1>5
<1>9. AllIn(x, run[p].select)
  BY <1>4, <1>7 DEF AllIn
<1>10. AllIn(y, run[p].select)
  <2> SUFFICES ASSUME NEW i \in 1..Len(y) PROVE y[i] \in run[p].select
    BY DEF AllIn
  <2>1. i \in 1..(Len(q) - n) /\ n + i \in 1..Len(q)
    BY <1>4, <1>8
  <2> QED BY <1>4, <1>8, <2>1 DEF AllIn
<1>11. Walk(p)'
  BY <1>2, <1>6, <1>7, <1>8, <1>9, <1>10 DEF Walk, Registers
<1> QED BY <1>2, <1>6, <1>11, WalkStep

LEMMA ReserveWalks ==
    ASSUME IInv, Walks, NEW p \in Procs, Reserve(p)
    PROVE  Walks'
<1> DEFINE s == Head(run[p].input)
           a == <<s, Retry(s)>>
           rest == [run[p] EXCEPT !.input = Tail(@)]
<1>1. Walk(p) /\ run[p].pc = "reserve" /\ run[p].input # <<>> /\ members' = members
  BY DEF Walks, Reserve, Filled
<1>2. \/ run' = [run EXCEPT ![p] = rest]
      \/ run' = [run EXCEPT ![p] = [rest EXCEPT !.busy = @ \cup {Rep(s)}]]
      \/ run' = [run EXCEPT ![p] = [rest EXCEPT !.running = @ \cup {a},
                       !.left = IF @ = None THEN None ELSE @ - 1]]
  BY DEF Reserve
<1>3. /\ DOMAIN rest = DOMAIN run[p] /\ rest.pc = "reserve" /\ rest.select = run[p].select
      /\ rest.input = Tail(run[p].input) /\ rest.todo = run[p].todo
  BY <1>1 DEF IInv, Shape, Walk
<1> HIDE DEF rest, a, s
<1>4. /\ run'[p].select = run[p].select /\ run'[p].pc = "reserve"
      /\ run'[p].input = Tail(run[p].input) /\ run'[p].todo = run[p].todo
      /\ DOMAIN run'[p] = DOMAIN run[p]
      /\ \A q \in Procs \ {p} : run'[q] = run[q]
  BY <1>1, <1>2, <1>3 DEF IInv, Shape, Walk
<1>5. /\ Tail(run[p].input) \in Seq(Slots)
      /\ AllIn(run[p].input, run[p].select) => AllIn(Tail(run[p].input), run[p].select)
  BY <1>1, FirstAndRest DEF Walk
<1>6. Walk(p)'
  BY <1>1, <1>4, <1>5 DEF Walk, Registers
<1> QED BY <1>1, <1>4, <1>6, WalkStep

LEMMA JoinWalks ==
    ASSUME IInv, Walks, NEW p \in Procs, Join(p)
    PROVE  Walks'
<1> DEFINE on == [run[p] EXCEPT !.pc = "batch", !.input = <<>>, !.running = {}]
<1>1. Walk(p) /\ run[p].pc = "reserve" /\ members' = members
  BY DEF Walks, Join, db
<1>2. run' = [run EXCEPT ![p] = Idle] \/ run' = [run EXCEPT ![p] = on]
  BY DEF Join
<1>3. /\ DOMAIN on = DOMAIN run[p] /\ on.pc = "batch" /\ on.select = run[p].select
      /\ on.input = <<>> /\ on.todo = run[p].todo
  BY <1>1 DEF IInv, Shape, Walk
<1> HIDE DEF on
<1>4. run'[p] \in {Idle, on} /\ \A q \in Procs \ {p} : run'[q] = run[q]
  BY <1>2 DEF IInv, Shape
<1>5. CASE run'[p] = Idle
  BY <1>1, <1>4, <1>5, EmptyWalk, WalkStep
<1>6. CASE run'[p] = on
  <2>1. <<>> \in Seq(Slots)
    OBVIOUS
  <2>2. Walk(p)'
    BY <1>1, <1>3, <1>6, <2>1 DEF Walk, Registers
  <2> QED BY <1>1, <1>4, <2>2, WalkStep
<1> QED BY <1>4, <1>5, <1>6

\* FinishRun and Crash.
LEMMA EndWalks ==
    ASSUME IInv, Walks, NEW p \in Procs, run' = [run EXCEPT ![p] = Idle], members' = members
    PROVE  Walks'
<1>1. run'[p] = Idle /\ \A q \in Procs \ {p} : run'[q] = run[q]
  BY DEF IInv, Shape
<1> QED BY <1>1, EmptyWalk, WalkStep

\* Steps of executions and of time.
LEMMA SameWalks ==
    ASSUME Walks, run' = run, members' = members
    PROVE  Walks'
BY WalkStays DEF Walks
-----------------------------------------------------------------------------
(***************************************************************************)
(* The invariant.                                                           *)
(***************************************************************************)
LEMMA DecisionsInit == Init => DInv
<1> SUFFICES ASSUME Init PROVE DInv
  OBVIOUS
<1>1. IInv
  BY InitHolds
<1>2. Limit \in Nat /\ None \notin Nat
  BY SequenceAssumption
<1>3. \A a \in Attempts : row[a] = "none" /\ budget[a] = Blank /\ exec[a] = NoExec /\ doc[a] = None
  BY DEF Init, Blank
<1>4. /\ Blank \in BudgetType /\ Blank.reserved = 0 /\ Blank.charged = None
      /\ NoExec.pc = "none" /\ NoExec.plan = "none"
  BY <1>2 DEF Blank, BudgetType, NoExec
<1>5. budget \in [Attempts -> BudgetType]
  <2>1. budget = [a \in Attempts |-> Blank]
    BY DEF Init, Blank
  <2> QED BY <1>4, <2>1
<1>6. Books
  BY <1>3, <1>4, <1>5 DEF Books, Init
<1>7. Untouched
  BY <1>3, <1>4 DEF Untouched
<1>8. Consecutive
  BY <1>3 DEF Consecutive, Attempts
<1>9. WholeSequences /\ DocumentsDecide /\ Unsatisfied /\ AcceptedOnce /\ CensoredDecides
  BY <1>3 DEF WholeSequences, DocumentsDecide, Unsatisfied, AcceptedOnce, Unfinished,
              CensoredDecides
<1>10. CensoredInTruth
  BY <1>3, <1>4 DEF CensoredInTruth
<1>11. BudgetHeld
  <2> SUFFICES ASSUME NEW r \in Repetitions PROVE Used(r) <= Limit
    BY DEF BudgetHeld
  <2>1. ~(Used(r) > 0)
    BY <1>3, <1>6, <1>7, UsedTouched DEF InRep
  <2>2. Used(r) \in Nat
    BY <1>6, CostsType
  <2> QED BY <1>2, <2>1, <2>2
<1>12. UsedUpDecided
  BY DEF Init, UsedUpDecided
<1>13. Ledger
  BY <1>6, <1>7, <1>8, <1>9, <1>10, <1>11, <1>12 DEF Ledger
<1>14. Walks
  <2>1. /\ {"select", "input", "todo"} \subseteq DOMAIN Idle /\ Idle.select = {}
        /\ Idle.pc = "idle" /\ Idle.input = <<>> /\ Idle.todo = <<>>
    BY DEF Idle
  <2>2. <<>> \in Seq(Slots) /\ AllIn(<<>>, {})
    BY DEF AllIn
  <2>3. \A p \in Procs : run[p] = Idle
    BY DEF Init
  <2> QED BY <2>1, <2>2, <2>3 DEF Walks, Walk
<1> QED BY <1>1, <1>13, <1>14 DEF DInv

\* A step of an invocation keeps the account.
LEMMA InvokeLedger ==
    ASSUME DInv, NEW p \in Procs, Start(p) \/ Invoke(p) \/ Crash(p)
    PROVE  Ledger'
<1>1. IInv /\ Ledger /\ Walk(p)
  BY DEF DInv, Walks
<1>2. CASE \/ Start(p) \/ RecoverEnd(p) \/ FilterSlot(p) \/ NextBatch(p) \/ Join(p)
           \/ FinishRun(p)
  <2>1. UNCHANGED <<db, doc, exec>>
    BY <1>2 DEF Start, RecoverEnd, FilterSlot, NextBatch, Join, FinishRun
  <2> QED BY <1>1, <2>1, RunKeepsLedger
<1>3. CASE \E a \in Attempts : RecoverTake(p, a)
  BY <1>1, <1>3, TakeLedger
<1>4. CASE RecoverResolve(p)
  BY <1>1, <1>4, RecoverResolveLedger
<1>5. CASE RegisterFresh(p)
  BY <1>1, <1>5, RegisterLedger
<1>6. CASE Reserve(p)
  BY <1>1, <1>6, ReserveLedger
<1>7. CASE Crash(p)
  BY <1>1, <1>7, CrashLedger
<1> QED BY <1>2, <1>3, <1>4, <1>5, <1>6, <1>7 DEF Invoke

LEMMA InvokeWalks ==
    ASSUME DInv, NEW p \in Procs, Start(p) \/ Invoke(p) \/ Crash(p)
    PROVE  Walks'
<1>1. IInv /\ Walks
  BY DEF DInv
<1>2. ASSUME NEW a \in Attempts, RecoverTake(p, a) PROVE Walks'
  <2>1. /\ run[p].pc = "recover" /\ run' = [run EXCEPT ![p].held = a] /\ members' = members
    BY <1>2 DEF RecoverTake
  <2> QED BY <1>1, <2>1, PassWalks
<1>3. CASE RecoverResolve(p)
  <2>1. /\ run[p].pc = "recover" /\ run' = [run EXCEPT ![p].held = None] /\ members' = members
    BY <1>3 DEF RecoverResolve
  <2> QED BY <1>1, <2>1, PassWalks
<1>4. CASE FinishRun(p) \/ Crash(p)
  <2>1. run' = [run EXCEPT ![p] = Idle] /\ members' = members
    BY <1>4 DEF FinishRun, Crash, db
  <2> QED BY <1>1, <2>1, EndWalks
<1> QED BY <1>1, <1>2, <1>3, <1>4, StartWalks, RecoverEndWalks, RegisterWalks, FilterWalks,
           NextBatchWalks, ReserveWalks, JoinWalks DEF Invoke

\* So does a step of an execution, and the end of a lease.
LEMMA ExecuteKeeps ==
    ASSUME DInv, NEW a \in Attempts, Execute(a) \/ Expire(a)
    PROVE  Ledger' /\ Walks'
<1>1. IInv /\ Ledger /\ Walks
  BY DEF DInv
<1>2. Ledger'
  <2>1. CASE Expire(a)
    BY <1>1, <2>1, RunKeepsLedger DEF Expire
  <2>2. CASE Execute(a)
    BY <1>1, <2>2, FailEarlyLedger, ReserveTimeLedger, RecordLedger, ClassifyLedger,
       BeginLedger, ObservationLedger, PublishLedger, CommitFinalizationLedger, AbortLedger
       DEF Execute
  <2> QED BY <2>1, <2>2
<1>3. run' = run /\ members' = members
  BY DEF Execute, Expire, FailEarly, ReserveFreshTime, RecordFreshTime, ClassifyTimeout,
         BeginFinalization, RegisterObservation, PublishOutcome, CommitFinalization, Abort, db
<1> QED BY <1>1, <1>2, <1>3, SameWalks

LEMMA DecisionsNext == DInv /\ [Next]_vars => DInv'
<1> SUFFICES ASSUME DInv, [Next]_vars PROVE DInv'
  OBVIOUS
<1>1. IInv'
  BY NextKeeps DEF DInv
<1>2. ASSUME NEW p \in Procs, Start(p) \/ Invoke(p) \/ Crash(p) PROVE Ledger' /\ Walks'
  BY <1>2, InvokeLedger, InvokeWalks
<1>3. ASSUME NEW a \in Attempts, Execute(a) \/ Expire(a) PROVE Ledger' /\ Walks'
  BY <1>3, ExecuteKeeps
<1>4. CASE UNCHANGED vars
  <2>1. UNCHANGED <<db, doc, exec>> /\ run' = run /\ members' = members
    BY <1>4 DEF vars, db
  <2>2. IInv /\ Ledger /\ Walks
    BY DEF DInv
  <2>3. Ledger'
    BY <2>1, <2>2, RunKeepsLedger
  <2>4. Walks'
    BY <2>1, <2>2, SameWalks
  <2> QED BY <1>1, <2>3, <2>4 DEF DInv
<1>5. CASE Next
  <2>1. Ledger' /\ Walks'
    BY <1>2, <1>3, <1>5 DEF Next
  <2> QED BY <1>1, <2>1 DEF DInv
<1> QED BY <1>4, <1>5

LEMMA DecisionsInductive == Spec => []DInv
BY DecisionsInit, DecisionsNext, PTL DEF Spec
-----------------------------------------------------------------------------
(***************************************************************************)
(* The theorems.                                                            *)
(***************************************************************************)
\* reserve_fresh_time, record_fresh_time: however often the points of a
\* repetition are retried, its workers overrun and its owners die, what is held
\* and what is spent stays within max-active-time.
THEOREM BudgetIsHeld == Spec => []BudgetHeld
<1>1. DInv => BudgetHeld
  BY DEF DInv, Ledger
<1> QED BY <1>1, DecisionsInductive, PTL

\* failed_attempt, commit_terminal: an attempt that is reported as censored by
\* the time limit has disposed of its point for that reason, whether its owner
\* or a recovery pass committed it.
THEOREM CensoringDecides == Spec => []CensoredDecides
<1>1. DInv => CensoredDecides
  BY DEF DInv, Ledger
<1> QED BY <1>1, DecisionsInductive, PTL

\* inspection and check_reservation: in a settled store, the state that is
\* reported of a point is what the next invocation makes of it; in particular a
\* budget that is used up leaves no point pending.
THEOREM StatusesPredictResumes == Spec => []StatusPredictsResume
<1>1. DInv => StatusPredictsResume
  <2> SUFFICES ASSUME DInv, Settled, NEW s \in members
               PROVE  /\ SlotState(s) = "pending" => Reservation(s, FALSE) = "reserved"
                      /\ SlotState(s) = "retry_required" =>
                           /\ Reservation(s, FALSE) = "none"
                           /\ Retry(s) <= MaxRetry => Reservation(s, TRUE) = "reserved"
                      /\ SlotState(s) \in {"satisfied", "skipped", "censored"} =>
                           Reservation(s, TRUE) = "none"
    BY DEF StatusPredictsResume
  <2>1. s \in Slots /\ disposition[s] \in Effects
    BY DEF DInv, Ledger, Books, IInv, Shape
  <2>2. ~SequenceBusy(s) /\ \A a \in InRep(Rep(s)) : row[a] \notin Unfinished
    BY DEF Settled, SequenceBusy, InRep
  <2>3. Used(Rep(s)) >= Limit => Satisfied(s) \/ disposition[s] # "none"
    BY <2>2 DEF DInv, Ledger, UsedUpDecided
  <2>4. Retry(s) \in Nat /\ (Retry(s) = 0 <=> AttemptsOf(s) = {}) /\ MaxRetry \in Nat
    BY <2>1, RetryCount, SequenceAssumption
  <2>5. \A a \in AttemptsOf(s) : row[a] \notin Unfinished
    BY DEF Settled, AttemptsOf
  <2>6. CASE Satisfied(s)
    BY <2>6 DEF SlotState, Reservation
  <2>7. CASE ~Satisfied(s) /\ disposition[s] # "none"
    BY <2>1, <2>5, <2>7 DEF SlotState, Reservation, Effects
  <2>8. CASE ~Satisfied(s) /\ disposition[s] = "none" /\ AttemptsOf(s) = {}
    BY <2>2, <2>3, <2>4, <2>5, <2>8 DEF SlotState, Reservation
  <2>9. CASE ~Satisfied(s) /\ disposition[s] = "none" /\ AttemptsOf(s) # {}
    BY <2>2, <2>3, <2>4, <2>5, <2>9 DEF SlotState, Reservation
  <2> QED BY <2>6, <2>7, <2>8, <2>9
<1> QED BY <1>1, DecisionsInductive, PTL

\* What no step does: unregister a point, revise an attempt that has ended, or
\* open one in a repetition that is at work or has used up its time.
Settles(a) ==
    /\ row[a] \in Terminal =>
         row'[a] = row[a] /\ observed'[a] = observed[a] /\ budget'[a] = budget[a]
    /\ row[a] = "none" =>
         row'[a] = "none" \/ Used(Rep(Slot(a))) < Limit

LEMMA UnfinishedSettles ==
    ASSUME NEW a, row[a] \in Unfinished
    PROVE  Settles(a)
BY DEF Settles, Unfinished, Terminal

LEMMA SameSettles ==
    ASSUME NEW a, row'[a] = row[a], observed'[a] = observed[a], budget'[a] = budget[a]
    PROVE  Settles(a)
BY DEF Settles

\* A step on an unfinished attempt.
LEMMA OwnSettles ==
    ASSUME NEW a \in Attempts, row[a] \in Unfinished,
           \A b \in Attempts \ {a} :
              row'[b] = row[b] /\ observed'[b] = observed[b] /\ budget'[b] = budget[b]
    PROVE  \A b \in Attempts : Settles(b)
<1>1. \A b \in Attempts \ {a} : Settles(b)
  BY SameSettles
<1> QED BY <1>1, UnfinishedSettles

LEMMA ExecuteSettles ==
    ASSUME DInv, NEW a \in Attempts, Execute(a) \/ Expire(a)
    PROVE  members' = members /\ \A b \in Attempts : Settles(b)
<1>1. CASE FailEarly(a) \/ ClassifyTimeout(a) \/ PublishOutcome(a) \/ Abort(a) \/ Expire(a)
  <2>1. UNCHANGED <<members, row, observed, budget>>
    BY <1>1 DEF FailEarly, ClassifyTimeout, PublishOutcome, Abort, Expire, db
  <2> QED BY <2>1, SameSettles
<1>2. CASE ReserveFreshTime(a) \/ RecordFreshTime(a)
  <2>1. UNCHANGED <<members, row, observed>> /\ row[a] \in Unfinished
    BY <1>2 DEF ReserveFreshTime, RecordFreshTime, Fence
  <2>2. \A b \in Attempts \ {a} : budget'[b] = budget[b]
    <3>1. \/ budget' = [budget EXCEPT ![a].reserved = Granted(Rep(Slot(a)))]
          \/ \E m \in Measured : budget' = [budget EXCEPT ![a].charged = Charged(a, m)]
      BY <1>2 DEF ReserveFreshTime, RecordFreshTime
    <3>2. budget \in [Attempts -> BudgetType]
      BY DEF DInv, Ledger, Books
    <3> QED BY <3>1, <3>2
  <2> QED BY <2>1, <2>2, OwnSettles
<1>3. CASE RegisterObservation(a)
  <2>1. UNCHANGED <<members, row, budget>> /\ row[a] \in Unfinished
    BY <1>3 DEF RegisterObservation, Fence
  <2>2. \A b \in Attempts \ {a} : observed'[b] = observed[b]
    BY <1>3 DEF RegisterObservation, DInv, Ledger, Books
  <2> QED BY <2>1, <2>2, OwnSettles
<1>4. CASE BeginFinalization(a) \/ CommitFinalization(a)
  <2>1. UNCHANGED <<members, observed, budget>> /\ row[a] \in Unfinished
    BY <1>4 DEF BeginFinalization, CommitFinalization, Fence
  <2>2. \E o : row' = [row EXCEPT ![a] = o]
    BY <1>4 DEF BeginFinalization, CommitFinalization, CommitTerminal
  <2>3. \A b \in Attempts \ {a} : row'[b] = row[b]
    BY <2>2 DEF DInv, IInv, Shape
  <2> QED BY <2>1, <2>3, OwnSettles
<1> QED BY <1>1, <1>2, <1>3, <1>4 DEF Execute

LEMMA InvokeSettles ==
    ASSUME DInv, NEW p \in Procs, Start(p) \/ Invoke(p) \/ Crash(p)
    PROVE  members \subseteq members' /\ \A b \in Attempts : Settles(b)
<1>1. CASE \/ Start(p) \/ RecoverEnd(p) \/ FilterSlot(p) \/ NextBatch(p) \/ Join(p)
           \/ FinishRun(p) \/ Crash(p)
  <2>1. UNCHANGED <<members, row, observed, budget>>
    BY <1>1 DEF Start, RecoverEnd, FilterSlot, NextBatch, Join, FinishRun, Crash, db
  <2> QED BY <2>1, SameSettles
<1>2. CASE RegisterFresh(p)
  <2>1. UNCHANGED <<row, observed, budget>> /\ members \subseteq members'
    BY <1>2 DEF RegisterFresh
  <2> QED BY <2>1, SameSettles
<1>3. ASSUME NEW a \in Attempts, RecoverTake(p, a)
      PROVE  members \subseteq members' /\ \A b \in Attempts : Settles(b)
  <2>1. /\ UNCHANGED <<members, observed, budget>> /\ row[a] \in Unfinished
        /\ row' = [row EXCEPT ![a] = "finalizing"]
    BY <1>3 DEF RecoverTake, Recoverable
  <2>2. \A b \in Attempts \ {a} : row'[b] = row[b]
    BY <2>1 DEF DInv, IInv, Shape
  <2> QED BY <2>1, <2>2, OwnSettles
<1>4. CASE RecoverResolve(p)
  <2>1. PICK a : a = run[p].held
    OBVIOUS
  <2>2. a \in Attempts /\ row[a] \in Unfinished
    BY <1>4, <2>1 DEF RecoverResolve, DInv, IInv, HeldUnfinished
  <2>3. UNCHANGED <<members, observed, budget>> /\ \E o : row' = [row EXCEPT ![a] = o]
    BY <1>4, <2>1 DEF RecoverResolve, CommitTerminal
  <2>4. \A b \in Attempts \ {a} : row'[b] = row[b]
    BY <2>3 DEF DInv, IInv, Shape
  <2> QED BY <2>2, <2>3, <2>4, OwnSettles
<1>5. CASE Reserve(p)
  <2>1. UNCHANGED <<members, observed, budget>>
    BY <1>5 DEF Reserve
  <2>2. CASE row' = row
    BY <2>1, <2>2, SameSettles
  <2>3. ASSUME NEW a \in Attempts, Opens(a, p) PROVE \A b \in Attempts : Settles(b)
    <3>1. \A b \in Attempts \ {a} : row'[b] = row[b]
      BY <2>3 DEF Opens, DInv, IInv, Shape
    <3>2. Settles(a)
      BY <2>3 DEF Settles, Opens, Terminal
    <3> QED BY <2>1, <3>1, <3>2, SameSettles
  <2>4. IInv /\ Ledger /\ Walk(p)
    BY DEF DInv, Walks
  <2> QED BY <1>5, <2>1, <2>2, <2>3, <2>4, ReserveOpens
<1> QED BY <1>1, <1>2, <1>3, <1>4, <1>5 DEF Invoke

\* A repetition that was worked on is registered as a whole.
LEMMA WholeMembers ==
    ASSUME Ledger, Ledger', members \subseteq members', NEW r,
           NEW a \in InRep(r), row[a] # "none"
    PROVE  MembersOf(r)' = MembersOf(r)
<1>1. \A s \in Slots : Rep(s) = r => s \in members
  BY DEF Ledger, WholeSequences, InRep
<1>2. members' \subseteq Slots
  BY DEF Ledger, Books
<1> QED BY <1>1, <1>2 DEF MembersOf

LEMMA StatusStays ==
    ASSUME DInv, DInv', members \subseteq members', \A b \in Attempts : Settles(b),
           NEW r \in Repetitions,
           Progress(r) \in {"target_reached", "fixed_count", "active_time_limit"}
    PROVE  Progress(r)' = Progress(r)
<1>0. Ledger /\ Ledger' /\ Books /\ Books' /\ Untouched /\ Untouched'
  BY DEF DInv, Ledger
<1>1. MembersOf(r) # {} /\ MembersOf(r)' # {}
  BY DEF Progress, MembersOf
<1>2. \A a \in Attempts : row[a] = "accepted" =>
         row'[a] = "accepted" /\ observed'[a] = observed[a]
  BY DEF Settles, Terminal
<1>3. \A s : Satisfied(s) => Satisfied(s)'
  BY <1>2 DEF Satisfied, AttemptsOf
<1>4. CASE Reached(r)
  <2>1. Reached(r)'
    BY <1>2, <1>4 DEF Reached, InRep
  <2> QED BY <1>1, <1>4, <2>1 DEF Progress
<1>5. CASE ~Reached(r) /\ ~Target /\ AcceptedPoints(r) = MembersOf(r)
  <2>1. ~Reached(r)'
    <3>1. \A a \in Attempts : observed'[a] \in {"not_required", "none"}
      BY <1>0, <1>5 DEF Books, Completions
    <3> QED BY <3>1 DEF Reached, InRep
  <2>2. PICK s \in MembersOf(r) : Satisfied(s)
    BY <1>1, <1>5 DEF AcceptedPoints
  <2>3. PICK a \in InRep(r) : row[a] # "none"
    BY <2>2 DEF Satisfied, AttemptsOf, MembersOf, InRep
  <2>4. MembersOf(r)' = MembersOf(r)
    BY <1>0, <2>3, WholeMembers
  <2>5. AcceptedPoints(r)' = MembersOf(r)'
    BY <1>3, <1>5, <2>4 DEF AcceptedPoints
  <2> QED BY <1>1, <1>5, <2>1, <2>5 DEF Progress
<1>6. CASE ~Reached(r) /\ ~(~Target /\ AcceptedPoints(r) = MembersOf(r))
  <2>1. ~Active(r) /\ Used(r) >= Limit /\ Progress(r) = "active_time_limit"
    BY <1>1, <1>6 DEF Progress
  <2>2. Limit \in Nat \ {0} /\ Used(r) \in Nat
    BY <1>0, CostsType, SequenceAssumption
  <2>3. PICK a \in InRep(r) : row[a] # "none"
    <3>1. Used(r) > 0
      BY <2>1, <2>2
    <3> QED BY <1>0, <3>1, UsedTouched
  <2>4. MembersOf(r)' = MembersOf(r)
    BY <1>0, <2>3, WholeMembers
  <2>5. ASSUME NEW b \in InRep(r)
        PROVE  /\ row'[b] = row[b] /\ budget'[b] = budget[b]
               /\ row[b] = "accepted" => observed'[b] = observed[b]
    <3>1. b \in Attempts /\ Rep(Slot(b)) = r /\ row[b] \in States
      BY DEF InRep, DInv, IInv, Shape
    <3>2. row[b] \notin Unfinished
      BY <2>1 DEF Active
    <3>3. CASE row[b] \in Terminal
      BY <3>1, <3>3 DEF Settles
    <3>4. CASE row[b] = "none"
      <4>1. row'[b] = "none"
        BY <2>1, <2>2, <3>1, <3>4 DEF Settles
      <4>2. budget[b] = Blank /\ budget'[b] = Blank
        BY <1>0, <3>1, <3>4, <4>1 DEF Untouched
      <4> QED BY <3>4, <4>1, <4>2
    <3> QED BY <3>1, <3>2, <3>3, <3>4 DEF States
  <2>6. Used(r)' = Used(r)
    BY <2>5, UsedSame DEF Cost, Charge
  <2>7. ~Active(r)' /\ ~Reached(r)'
    BY <1>6, <2>1, <2>5 DEF Active, Reached, InRep
  <2>8. \A s \in MembersOf(r) : Satisfied(s)' <=> Satisfied(s)
    BY <2>5 DEF Satisfied, AttemptsOf, MembersOf, InRep
  <2>9. AcceptedPoints(r)' = AcceptedPoints(r)
    BY <2>4, <2>8 DEF AcceptedPoints
  <2> QED BY <1>1, <1>6, <2>1, <2>4, <2>6, <2>7, <2>9 DEF Progress
<1> QED BY <1>4, <1>5, <1>6

\* progress: once a repetition is reported as decided, by its target, by its
\* last point or by its time, no invocation, retry, late owner or recovery pass
\* changes the report.
THEOREM DecisionsAreFinal == Spec => DecisionFinal
<1> DEFINE Stays == \A r \in Repetitions :
                       Progress(r) \in {"target_reached", "fixed_count", "active_time_limit"}
                          => Progress(r)' = Progress(r)
<1>1. ASSUME DInv, DInv', [Next]_vars PROVE [Stays]_vars
  <2>1. CASE UNCHANGED vars
    BY <2>1
  <2>2. CASE Next
    <3>1. members \subseteq members' /\ \A b \in Attempts : Settles(b)
      BY <1>1, <2>2, ExecuteSettles, InvokeSettles DEF Next
    <3>2. Stays
      BY <1>1, <3>1, StatusStays
    <3> QED BY <3>2
  <2> QED BY <1>1, <2>1, <2>2
<1> HIDE DEF Stays
<1>2. Spec => [][Stays]_vars
  BY <1>1, DecisionsInductive, PTL DEF Spec
<1>3. [][Stays]_vars => DecisionFinal
  BY DEF DecisionFinal, Stays
<1> QED BY <1>2, <1>3

\* An archive counts accepted attempts where the store counts accepted points.
LEMMA AcceptedCount ==
    ASSUME DInv, NEW r
    PROVE  /\ Cardinality({a \in InRep(r) : row[a] = "accepted"}) = Cardinality(AcceptedPoints(r))
           /\ IsFiniteSet(MembersOf(r))
           /\ AcceptedPoints(r) \in SUBSET MembersOf(r)
<1> DEFINE A == {a \in InRep(r) : row[a] = "accepted"}
           f == [a \in A |-> Slot(a)]
<1>1. \A a, b \in Attempts :
        row[a] = "accepted" /\ row[b] = "accepted" /\ Slot(b) = Slot(a) => a = b
  BY DEF DInv, Ledger, AcceptedOnce
<1>2. \A a \in A : a \in Attempts /\ row[a] = "accepted" /\ Rep(Slot(a)) = r /\ Slot(a) \in members
  BY SlotType DEF InRep, DInv, Ledger, WholeSequences
<1>3. \A a \in A : Slot(a) \in AcceptedPoints(r)
  BY <1>2 DEF AcceptedPoints, MembersOf, Satisfied, AttemptsOf
<1>4. \A s \in AcceptedPoints(r) : \E a \in A : Slot(a) = s
  BY DEF AcceptedPoints, MembersOf, Satisfied, AttemptsOf, InRep
<1>5. f \in Bijection(A, AcceptedPoints(r))
  <2>1. f \in [A -> AcceptedPoints(r)]
    BY <1>3
  <2>2. \A a, b \in A : f[a] = f[b] => a = b
    BY <1>1, <1>2
  <2>3. \A s \in AcceptedPoints(r) : \E a \in A : f[a] = s
    BY <1>4
  <2> HIDE DEF f, A
  <2> QED BY <2>1, <2>2, <2>3 DEF Bijection, Injection, Surjection, IsInjective
<1>6. IsFiniteSet(A)
  <2>1. A \in SUBSET InRep(r)
    OBVIOUS
  <2> QED BY <2>1, InRepFinite, FS_Subset
<1>7. Cardinality(A) = Cardinality(AcceptedPoints(r))
  <2>1. ExistsBijection(A, AcceptedPoints(r))
    BY <1>5 DEF ExistsBijection
  <2> HIDE DEF A
  <2> QED BY <1>6, <2>1, FS_Bijection
<1>8. IsFiniteSet(MembersOf(r))
  <2>1. Points \in Int /\ 1 \in Int
    BY SequenceAssumption
  <2>2. IsFiniteSet({r} \X (1..Points))
    BY <2>1, FS_Interval, FS_Singleton, FS_Product
  <2>3. MembersOf(r) \in SUBSET ({r} \X (1..Points))
    BY DEF MembersOf, DInv, Ledger, Books, Slots, Rep
  <2> QED BY <2>2, <2>3, FS_Subset
<1> QED BY <1>7, <1>8 DEF AcceptedPoints

\* Once every attempt has ended, the budget rows of a repetition add up to the
\* time it has used.
LEMMA SettledConsumption ==
    ASSUME DInv, Settled, NEW r
    PROVE  Consumed(r) = Used(r)
<1>1. \A a \in InRep(r) : Cost(a) = Charge(a)
  BY DEF Settled, Cost, InRep
<1>2. \A a \in InRep(r) : a \notin Budgeted(r) => 1..Charge(a) = {}
  <2> SUFFICES ASSUME NEW a \in InRep(r), budget[a].reserved = 0 PROVE 1..Charge(a) = {}
    BY DEF Budgeted
  <2>1. Charge(a) \in 0..Limit /\ Charge(a) <= 0
    BY CostBound DEF DInv, Ledger, InRep
  <2> QED BY <2>1, SequenceAssumption
<1>3. Units(r) = UNION {{a} \X (1..Charge(a)) : a \in Budgeted(r)}
  BY <1>1, <1>2 DEF Units, Budgeted
<1> QED BY <1>3 DEF Consumed, Used

\* validate_fresh: every store whose attempts have ended can be archived, as far
\* as its fresh sequences go: the members, the counts, the total and the status
\* that the archive recomputes are the ones the store reports.
THEOREM ProgressIsArchivable == Spec => []ProgressArchivable
<1>1. ASSUME DInv, Settled, NEW r \in Repetitions PROVE ValidateFresh(r)
  <2>0. Books /\ WholeSequences /\ \A a \in Attempts : row[a] \in States
    BY <1>1 DEF DInv, Ledger, IInv, Shape
  <2>1. \A a \in Budgeted(r) : budget[a].charged # None => budget[a].charged <= budget[a].reserved
    BY <2>0 DEF Budgeted, InRep, Books
  <2>2. \A a \in InRep(r) : row[a] # "none" => Slot(a) \in members
    BY <2>0, SlotType DEF InRep, WholeSequences
  <2> DEFINE accepted == {a \in InRep(r) : row[a] = "accepted"}
             attempted == {s \in MembersOf(r) : AttemptsOf(s) # {}}
  <2>3. /\ Cardinality(accepted) = Cardinality(AcceptedPoints(r))
        /\ IsFiniteSet(MembersOf(r)) /\ AcceptedPoints(r) \in SUBSET MembersOf(r)
    BY <1>1, AcceptedCount
  <2>4. Consumed(r) = Used(r)
    BY <1>1, SettledConsumption
  <2>5. (\E a \in accepted : observed[a] = "reached") <=> Reached(r)
    BY DEF Reached
  <2>6. Cardinality(accepted) = Cardinality(MembersOf(r)) <=> AcceptedPoints(r) = MembersOf(r)
    BY <2>3, FS_Subset
  <2>7. ~Active(r)
    BY <1>1 DEF Active, Settled, InRep
  <2>8. attempted = AttemptedPoints(r)
    <3>1. \A a \in Attempts : row[a] # "none" => row[a] \in Terminal
      BY <1>1, <2>0 DEF Settled, States
    <3>2. \A s : AttemptsOf(s) # {} <=> \E a \in AttemptsOf(s) : row[a] \in Terminal
      BY <3>1 DEF AttemptsOf
    <3> QED BY <3>2 DEF AttemptedPoints
  <2>9. MembersOf(r) # {} => ArchivedStatus(r) = Progress(r)
    <3>1. ArchivedStatus(r) =
            IF \E a \in accepted : observed[a] = "reached" THEN "target_reached"
            ELSE IF ~Target /\ Cardinality(accepted) = Cardinality(MembersOf(r))
              THEN "fixed_count"
            ELSE IF Consumed(r) >= Limit THEN "active_time_limit"
            ELSE IF attempted = MembersOf(r) THEN "schedule_exhausted"
            ELSE "partial"
      BY DEF ArchivedStatus
    <3> HIDE DEF accepted, attempted
    <3> QED BY <2>4, <2>5, <2>6, <2>7, <2>8, <3>1 DEF Progress
  <2> QED BY <2>1, <2>2, <2>3, <2>4, <2>9 DEF ValidateFresh
<1>2. DInv => ProgressArchivable
  BY <1>1 DEF ProgressArchivable
<1> QED BY <1>2, DecisionsInductive, PTL
=============================================================================
