----------------------------- MODULE Maintenance -----------------------------
(***************************************************************************)
(* The commands an operator runs on finance-service while it serves         *)
(* requests: verify-invariants, which compares a balance with its movements *)
(* and may recompute it, and outbox-backfill, which records the events of   *)
(* transactions older than the outbox.  One account; each request of a user *)
(* is the one step that commits it (FinanceLedger has what is inside), and  *)
(* a command sees what is committed at each of its statements.             *)
(***************************************************************************)
EXTENDS Integers, FiniteSets, Functions

CONSTANTS
  Entries,        \* ids of transactions
  Legacy,         \* those registered before there was an outbox
  EntryAmounts,
  Labels,         \* categories
  Deviations,     \* by how much something else may make the balance wrong
  Backfillers,    \* runs of outbox-backfill
  BackfillSize,   \* batch_size
  LastStamp,      \* bound of the model on the instants
  NoEntryRow, Erased, NoPicture

EntryRow == [amount : EntryAmounts, label : Labels, created : Nat]

ASSUME EntriesAssumption ==
  /\ IsFiniteSet(Entries) /\ Legacy \subseteq Entries
  /\ EntryAmounts \subseteq Int /\ Deviations \subseteq Int
  /\ NoEntryRow \notin EntryRow

VARIABLES
  balanceNow,     \* finance_account.balance, of an account opened with 0
  entries,        \* rows of finance_transaction
  recorded,       \* rows of outbox_event
  stamp,          \* the clock of _utcnow()
  audit,          \* the run of verify-invariants
  filling         \* filling[b]: the batch that run b has read

requestVars == <<balanceNow, entries, recorded, stamp>>
maintenanceVars == <<requestVars, audit, filling>>

Kept == {e \in Entries : entries[e] # NoEntryRow}

Movements == SumFunctionOnSet([e \in Kept |-> entries[e].amount], Kept)

Consistent == balanceNow = Movements

Happened(e, kind) == \E r \in recorded : r.tx = e /\ r.kind = kind

(* The ids only tell the rows apart. *)
Record(e, kind, at, label) ==
  recorded' = recorded \cup {[id |-> Cardinality(recorded) + 1, tx |-> e, kind |-> kind,
                              at |-> at, category |-> label]}

InitMaintenance ==
  /\ \E amount \in EntryAmounts, label \in Labels :
       entries = [e \in Entries |-> IF e \in Legacy THEN [amount |-> amount, label |-> label, created |-> 0]
                                    ELSE NoEntryRow]
  /\ \E deviation \in Deviations : balanceNow = Movements + deviation
  /\ recorded = {}
  /\ stamp = 0
  /\ audit = [at |-> "start", fix |-> FALSE, balance |-> 0, quiet |-> TRUE, calculated |-> 0]
  /\ filling = [b \in Backfillers |-> [at |-> "start", batch |-> NoPicture]]

-----------------------------------------------------------------------------
(* Requests of the user, committed.  audit.quiet: a history of whether any  *)
(* was while the audit was reading.                                        *)
Tick == stamp < LastStamp /\ stamp' = stamp + 1 /\ audit' = [audit EXCEPT !.quiet = FALSE]

CommitEntry(e, amount, label) ==
  /\ entries[e] = NoEntryRow
  /\ ~Happened(e, "Deleted") /\ e \notin Legacy
  /\ Tick
  /\ entries' = [entries EXCEPT ![e] = [amount |-> amount, label |-> label, created |-> stamp']]
  /\ balanceNow' = balanceNow + amount
  /\ Record(e, "Added", stamp', label)
  /\ UNCHANGED filling

CommitLabel(e, label) ==
  /\ e \in Kept
  /\ Tick
  /\ entries' = [entries EXCEPT ![e].label = label]
  /\ Record(e, "Categorized", stamp', label)
  /\ UNCHANGED <<balanceNow, filling>>

(* delete_transaction reverts the balance it read before it waited for the  *)
(* lock (FinanceLedger), and may leave it wrong.                           *)
CommitErase(e) ==
  /\ e \in Kept
  /\ Tick
  /\ entries' = [entries EXCEPT ![e] = NoEntryRow]
  /\ \E deviation \in Deviations : balanceNow' = balanceNow - entries[e].amount + deviation
  /\ Record(e, "Deleted", stamp', entries[e].label)
  /\ UNCHANGED filling

-----------------------------------------------------------------------------
(* verify-invariants.  audit_balances reads the balances and then, in a     *)
(* statement of its own, the movements.                                    *)
StartAudit(fix) ==
  /\ audit.at = "start"
  /\ audit' = [audit EXCEPT !.at = "balances", !.fix = fix]
  /\ UNCHANGED <<requestVars, filling>>

ReadBalances ==
  /\ audit.at \in {"balances", "again"}
  /\ audit' = [audit EXCEPT !.at = IF audit.at = "again" THEN "last" ELSE "movements",
                            !.balance = balanceNow, !.quiet = TRUE]
  /\ UNCHANGED <<requestVars, filling>>

(* The first audit is followed by --fix, if asked for and needed; the exit  *)
(* code is that of the last.                                               *)
ReadMovements ==
  /\ audit.at \in {"movements", "last"}
  /\ LET fixes == audit.at = "movements" /\ audit.fix /\ audit.balance # Movements IN
     audit' = [audit EXCEPT !.calculated = Movements, !.at = IF fixes THEN "fixing" ELSE "exit"]
  /\ UNCHANGED <<requestVars, filling>>

FixAsAudited ==
  /\ audit.at = "fixing"
  /\ balanceNow' = audit.calculated
  /\ audit' = [audit EXCEPT !.at = "again", !.quiet = FALSE]
  /\ UNCHANGED <<entries, recorded, stamp, filling>>

(* recompute_balance, under the lock of the row: no registration is in      *)
(* between its reading of the movements and its commit.                    *)
Fix ==
  /\ audit.at = "fixing"
  /\ balanceNow' = Movements
  /\ audit' = [audit EXCEPT !.at = "again", !.quiet = FALSE]
  /\ UNCHANGED <<entries, recorded, stamp, filling>>

-----------------------------------------------------------------------------
(* outbox-backfill.  A batch of the oldest transactions without their       *)
(* event, each with the picture its event will carry.                      *)
Missing == {e \in Kept : ~Happened(e, "Added")}

Older(e, f) ==
  \/ entries[e].created < entries[f].created
  \/ entries[e].created = entries[f].created /\ e <= f

Batches ==
  {B \in SUBSET Missing :
    /\ Cardinality(B) = IF Cardinality(Missing) < BackfillSize THEN Cardinality(Missing) ELSE BackfillSize
    /\ \A e \in B, f \in Missing \ B : Older(e, f)}

ReadBatch(b) ==
  /\ filling[b].at = "start"
  /\ \E B \in Batches :
       filling' = [filling EXCEPT ![b] = [at |-> "commit", batch |-> [e \in B |-> entries[e]]]]
  /\ UNCHANGED <<requestVars, audit>>

FilledNow(batch) ==
  {[id |-> Cardinality(recorded) + e, tx |-> e, kind |-> "Added", at |-> stamp, category |-> batch[e].label]
   : e \in DOMAIN batch}

(* The event happened when the transaction was registered. *)
Filled(batch) ==
  {[id |-> Cardinality(recorded) + e, tx |-> e, kind |-> "Added", at |-> batch[e].created,
    category |-> batch[e].label] : e \in DOMAIN batch}

(* The commit, refused as a whole by uq_outbox_manually_added_once, with an *)
(* exception that ends the run; a full batch is followed by another.       *)
CommitBatch(b) ==
  LET batch == filling[b].batch
      refused == \E e \in DOMAIN batch : Happened(e, "Added")
      full == Cardinality(DOMAIN batch) = BackfillSize
  IN  /\ filling[b].at = "commit"
      /\ recorded' = IF refused THEN recorded ELSE recorded \cup Filled(batch)
      /\ filling' = [filling EXCEPT ![b] =
           [at |-> IF refused THEN "failed" ELSE IF full THEN "start" ELSE "done", batch |-> NoPicture]]
      /\ UNCHANGED <<balanceNow, entries, stamp, audit>>

NextRequest ==
  \E e \in Entries :
    \/ \E amount \in EntryAmounts, label \in Labels : CommitEntry(e, amount, label)
    \/ \E label \in Labels : CommitLabel(e, label)
    \/ CommitErase(e)

NextAudit == (\E fix \in BOOLEAN : StartAudit(fix)) \/ ReadBalances \/ ReadMovements \/ Fix

NextBackfill == \E b \in Backfillers : ReadBatch(b) \/ CommitBatch(b)

NextMaintenance == NextRequest \/ NextAudit \/ NextBackfill

SpecMaintenance == InitMaintenance /\ [][NextMaintenance]_maintenanceVars

-----------------------------------------------------------------------------
(* INV-07 and its audit: nothing but a deletion makes a consistent balance  *)
(* inconsistent, not even a --fix that follows a deviation that never was   *)
(* (the audit can see a movement without its effect on the balance); and    *)
(* when no request is committed between the two statements of the last      *)
(* audit, the exit code is the truth.                                      *)
AuditIsExact ==
  [][/\ Consistent /\ ~Consistent' => \E e \in Entries : CommitErase(e)
     /\ (ReadMovements /\ audit'.at = "exit" /\ audit.quiet) =>
          (audit'.balance = audit'.calculated <=> Consistent)
     /\ (audit'.at = "again" /\ audit.at = "fixing") => Consistent']_maintenanceVars

RM == INSTANCE ReadModel WITH
  Txs <- Entries, Events <- {}, NoFact <- NoPicture, Gone <- Erased,
  log <- recorded, applied <- {}, shown <- {}

(* What analytics-service will show of a transaction whose Added event is   *)
(* recorded is what the table says of it, even if the event was filled in   *)
(* from a picture that was stale by then; Added is recorded once; and a run *)
(* that ended well, whatever was committed meanwhile and whoever else was   *)
(* filling, leaves no transaction without it.                              *)
BackfillConverges ==
  /\ \A e \in Entries : Happened(e, "Added") =>
       /\ RM!Views({r \in recorded : r.tx = e}) =
            {IF e \in Kept THEN entries[e].label ELSE Erased}
       /\ Cardinality({r \in recorded : r.tx = e /\ r.kind = "Added"}) = 1
  /\ (\E b \in Backfillers : filling[b].at = "done") => Missing = {}
=============================================================================
