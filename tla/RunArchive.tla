----------------------------- MODULE RunArchive -----------------------------
(***************************************************************************)
(* What readers make of a run store: `metewand status` and `explain`        *)
(* (src/runtime/inspection.rs), and `metewand archive create`, which        *)
(* validates the evidence of a settled store before it copies anything      *)
(* (src/runtime/archive.rs, src/core/archive/validation.rs).                *)
(*                                                                          *)
(* A reader sees one committed state of the database of module RunStore     *)
(* (reader.rs copies it and queries it in one transaction), so the readers  *)
(* are operators on that state and the runs of RunStore check them in every *)
(* state it reaches.  Identities, hashes and JSON shapes are left out:      *)
(* nothing in this model can forge them.                                    *)
(***************************************************************************)
EXTENDS RunStore

\* A missing lease is told from every expiry.
ASSUME ExpiryAssumption == None \notin Nat

-----------------------------------------------------------------------------
(***************************************************************************)
(* Status.                                                                  *)
(***************************************************************************)
\* The reservation an attempt row is joined with: the unreleased one.
LeaseExpiry(a) == IF lease[a].live THEN lease[a].reservation ELSE None

\* Seeded fault: a lease that ends now is still taken for a live one.
RecoveryRequired_Strict(a, now) ==
    /\ row[a].state \in Active
    /\ LeaseExpiry(a) # None => LeaseExpiry(a) < now

RecoveryRequired(a, now) ==
    /\ row[a].state \in Active
    /\ LeaseExpiry(a) # None => LeaseExpiry(a) <= now

\* add_snapshot: one word for a slot, from all its attempts.
SlotState(s, now) ==
    LET attempts == {a \in Attempts : Slot(a) = s /\ row[a].state # "none"} IN
    IF \E a \in attempts : row[a].state = "accepted" THEN "satisfied"
    ELSE IF \E a \in attempts : row[a].state \in Active /\ ~RecoveryRequired(a, now)
      THEN "active"
    ELSE IF \E a \in attempts : RecoveryRequired(a, now) THEN "recovery_required"
    ELSE IF attempts = {} THEN "pending"
    ELSE "retry_required"

\* read_artifact: an outcome document that a committed row points at must name
\* that row's attempt and state, and no other row may point at it.
ReadArtifact(a) ==
    receipt[a] # None =>
        /\ receipt[a].attempt = a
        /\ receipt[a].state = row[a].state

-----------------------------------------------------------------------------
(***************************************************************************)
(* Archive evidence.                                                        *)
(***************************************************************************)
Observed(a) == {p \in PointsOf(Slot(a)) : obs[a][p] \in Registered}

\* Every started attempt is terminal.
Settled == \A a \in Attempts : row[a].state \in Terminal \cup {"none"}

\* A selected observation belongs to an accepted attempt of its slot.
ValidSelections ==
    \A s \in Slots, p \in Points : selected[s][p] # None =>
        /\ Slot(selected[s][p]) = s
        /\ row[selected[s][p]].state = "accepted"

\* An accepted measurement has observations, and each of them is selected.
ValidAcceptance(a) ==
    /\ Observed(a) # {}
    /\ \A p \in Observed(a) : selected[Slot(a)][p] = a

\* validate, for the tables the model keeps.
ValidateEvidence ==
    /\ Settled
    /\ \A a, b \in Attempts :
         /\ Slot(a) = Slot(b)
         /\ row[a].state = "accepted" /\ row[b].state = "accepted"
         => a = b
    /\ ValidSelections
    /\ \A a \in Attempts : row[a].state = "accepted" => ValidAcceptance(a)

\* validate_documents: the attempt document in the archive names its terminal
\* state and exactly the observations that were committed for it.
ValidateDocuments ==
    \A a \in Attempts : row[a].state \in Terminal =>
        /\ receipt[a] # None
        /\ receipt[a].state = row[a].state
        /\ {p \in Points : receipt[a].coordination.own[p] \in Registered} = Observed(a)

Archivable == ValidateEvidence /\ ValidateDocuments

-----------------------------------------------------------------------------
(***************************************************************************)
(* Properties.                                                              *)
(***************************************************************************)
\* running.md says to "create an archive after every started attempt has
\* finished", and that failed attempts may remain: however the attempts of a
\* store ended, create_archive does not reject its evidence once all have ended.
SettledStoreArchivable == Settled => Archivable

\* Status, read with an exact clock: it asks for recovery of exactly the
\* attempts that a recovery pass at that time takes, although it looks at the
\* reservation alone and recovery also at the claim's lease; every committed
\* outcome can be read; and a slot that is being finalized is not reported as
\* idle.
StatusMatchesRecovery ==
    Stale = 0 /\ Back = 0 =>
        \A a \in Attempts :
            /\ RecoveryRequired(a, clock) <=> Expired(a, clock)
            /\ ReadArtifact(a)
            /\ claim[Slot(a)] # None =>
                 SlotState(Slot(a), clock) \in {"active", "recovery_required"}
=============================================================================
