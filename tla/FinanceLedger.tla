----------------------------- MODULE FinanceLedger -----------------------------
(***************************************************************************)
(* finance-service: AccountService and TransactionService over PostgreSQL  *)
(* at READ COMMITTED.  Each session is a request handled by a gunicorn     *)
(* worker; it reads committed rows, takes row locks, flushes and commits   *)
(* in steps that interleave with those of the other sessions.              *)
(*                                                                         *)
(* `type` and `amount` of a transaction are one signed integer.  Names,    *)
(* currencies, descriptions and dates are left out: they are validated     *)
(* before the first write and a rejected request is a Rollback.            *)
(***************************************************************************)
EXTENDS Integers, FiniteSets, Functions

CONSTANTS
  Accounts,       \* ids of accounts
  CreditAccounts, \* those whose AccountType.allows_negative_balance()
  Openings,       \* opening balances users ask for
  Txs,            \* ids of transactions
  Amounts,        \* signed amounts users register
  Categories,     \* names of the catalogue
  Sessions,       \* database sessions of concurrent requests
  MaxStamps,      \* bound of the model on the events recorded
  NoMovement,     \* no row of finance_transaction
  NoTx,           \* the request is not about one transaction
  NoJob,          \* the session serves no request
  Free            \* nobody has the row locked

(* A row of finance_account, or the place of one not yet or no longer there. *)
Account == [status : {"none", "open", "deleted"}, opening : Int, balance : Int,
            archived : BOOLEAN]

(* `manual` stands for categorization_source and its confidence. *)
Movement == [account : Accounts, amount : Int \ {0}, category : Categories, manual : BOOLEAN]

Event == [id : Nat, tx : Txs, account : Accounts, kind : {"Added", "Categorized", "Deleted"},
          at : Nat, category : Categories]

(* What a session holds between two of its steps: the transaction row it   *)
(* read and the row that is to replace it, the balance the ORM has in its  *)
(* identity map and the one it will write, the instant and the identity of *)
(* its event.                                                              *)
Job == [op : {"register", "recategorize", "delete", "recompute"},
        phase : {"read", "recorded", "flushed"},
        account : Accounts, tx : Txs \cup {NoTx},
        read : Movement \cup {NoMovement}, row : Movement \cup {NoMovement},
        seen : Int, balance : Int, at : Nat, id : Nat]

ASSUME CreditAssumption == CreditAccounts \subseteq Accounts
ASSUME AmountsAssumption == Amounts \subseteq Int \ {0}
ASSUME OpeningsAssumption == Openings \subseteq Int
ASSUME BoundsAssumption == MaxStamps \in Nat /\ IsFiniteSet(Txs)
ASSUME MarkersAssumption ==
  /\ NoMovement \notin Movement /\ NoTx \notin Txs /\ NoJob \notin Job
  /\ Free \notin Sessions

VARIABLES
  account,   \* account[a]: committed row of finance_account
  movement,  \* movement[t]: committed row of finance_transaction
  outbox,    \* committed rows of outbox_event
  lock,      \* lock[a]: the session that holds FOR UPDATE on the row
  job,       \* job[s]: the request session s is serving
  clock,     \* instants handed out by _utcnow(), all different
  nextId,    \* the identity sequence of outbox_event
  drift      \* history: what has happened to the balance of the account

tableVars == <<account, movement, outbox>>
vars == <<tableVars, lock, job, clock, nextId, drift>>

Exists(a) == account[a].status = "open"

Init ==
  /\ account = [a \in Accounts |->
       [status |-> "none", opening |-> 0, balance |-> 0, archived |-> FALSE]]
  /\ movement = [t \in Txs |-> NoMovement]
  /\ outbox = {}
  /\ lock = [a \in Accounts |-> Free]
  /\ job = [s \in Sessions |-> NoJob]
  /\ clock = 0
  /\ nextId = 1
  /\ drift = [a \in Accounts |-> "none"]

-----------------------------------------------------------------------------
(* AccountService                                                          *)

(* TransactionRules.ensure_balance_allowed, and AccountBuilder's rule. *)
BalanceAllowed(a, balance) == balance >= 0 \/ a \in CreditAccounts

CreateAccount(a, opening) ==
  /\ account[a].status = "none"
  /\ BalanceAllowed(a, opening)
  /\ account' = [account EXCEPT
       ![a] = [status |-> "open", opening |-> opening, balance |-> opening, archived |-> FALSE]]
  /\ UNCHANGED <<movement, outbox, lock, job, clock, nextId, drift>>

ArchiveWithoutWaiting(a) ==
  /\ Exists(a)
  /\ ~account[a].archived
  /\ account' = [account EXCEPT ![a].archived = TRUE]
  /\ UNCHANGED <<movement, outbox, lock, job, clock, nextId, drift>>

(* The UPDATE writes only is_archived, and waits for the row lock. *)
ArchiveAccount(a) ==
  /\ Exists(a)
  /\ lock[a] = Free
  /\ ~account[a].archived
  /\ account' = [account EXCEPT ![a].archived = TRUE]
  /\ UNCHANGED <<movement, outbox, lock, job, clock, nextId, drift>>

MovementsOf(a) == {t \in Txs : movement[t] # NoMovement /\ movement[t].account = a}

(* The FK RESTRICT of finance_transaction rejects any other DELETE. *)
DeleteAccount(a) ==
  /\ Exists(a)
  /\ lock[a] = Free
  /\ MovementsOf(a) = {}
  /\ account' = [account EXCEPT ![a].status = "deleted"]
  /\ UNCHANGED <<movement, outbox, lock, job, clock, nextId, drift>>

-----------------------------------------------------------------------------
(* What the operations on transactions share.                              *)

Serves(s, op, phase) == job[s] # NoJob /\ job[s].op = op /\ job[s].phase = phase

(* get_locked_account: waits for the row lock, then needs the row to exist. *)
Acquire(s, a) ==
  /\ lock[a] = Free
  /\ Exists(a)
  /\ lock' = [lock EXCEPT ![a] = s]

EndsStillLocking(s) ==
  /\ job' = [job EXCEPT ![s] = NoJob]
  /\ UNCHANGED <<lock, clock, nextId>>

(* The end of atomic(). *)
Ends(s) ==
  /\ job' = [job EXCEPT ![s] = NoJob]
  /\ lock' = [a \in Accounts |-> IF lock[a] = s THEN Free ELSE lock[a]]
  /\ UNCHANGED <<clock, nextId>>

(* Any failure before the commit -- a lost connection, a killed worker --   *)
(* reverts the whole block.                                                *)
Rollback(s) ==
  /\ job[s] # NoJob
  /\ Ends(s)
  /\ UNCHANGED <<tableVars, drift>>

(* The ORM emits an UPDATE only if a column differs from the row it read. *)
ChangesRow(j) == j.op \in {"recategorize", "delete"} /\ j.row # j.read

(* Session s has an uncommitted UPDATE or DELETE of the row. *)
LocksRow(s, t) ==
  /\ job[s] # NoJob
  /\ job[s].phase = "flushed"
  /\ job[s].tx = t
  /\ ChangesRow(job[s])
  /\ movement[t] # NoMovement

(* An UPDATE or DELETE of a row waits for another session's. *)
RowReady(j) == ChangesRow(j) => \A o \in Sessions : ~LocksRow(o, j.tx)

(* An UPDATE that finds the row gone raises StaleDataError; a DELETE only  *)
(* warns.                                                                  *)
UpdatesMissingRow(j) ==
  j.op = "recategorize" /\ ChangesRow(j) /\ movement[j.tx] = NoMovement

FlushReusingId(s) ==
  /\ job[s] # NoJob
  /\ job[s].phase = "recorded"
  /\ RowReady(job[s])
  /\ ~UpdatesMissingRow(job[s])
  /\ job' = [job EXCEPT ![s].phase = "flushed", ![s].id = Cardinality(outbox) + 1]
  /\ UNCHANGED <<tableVars, lock, clock, nextId, drift>>

(* The flush before the commit; the INSERT of the event takes its id from  *)
(* the sequence.                                                           *)
Flush(s) ==
  /\ job[s] # NoJob
  /\ job[s].phase = "recorded"
  /\ RowReady(job[s])
  /\ ~UpdatesMissingRow(job[s])
  /\ job' = [job EXCEPT ![s].phase = "flushed", ![s].id = nextId]
  /\ nextId' = nextId + 1
  /\ UNCHANGED <<tableVars, lock, clock, drift>>

EventOf(j, kind, category) ==
  [id |-> j.id, tx |-> j.tx, account |-> j.account, kind |-> kind, at |-> j.at,
   category |-> category]

-----------------------------------------------------------------------------
(* TransactionService.register_transaction                                 *)

(* The id of a transaction is a new UUID. *)
Unused(t) ==
  /\ \A e \in outbox : e.tx # t
  /\ \A s \in Sessions : job[s] # NoJob => job[s].tx # t

(* What happens once the row is read: the account must be active and its   *)
(* new balance allowed, and the event is stamped.                          *)
Registers(s, t, row) ==
  LET a == row.account
      balance == account[a].balance + row.amount
  IN  /\ job[s] = NoJob
      /\ Unused(t)
      /\ clock < MaxStamps
      /\ ~account[a].archived
      /\ BalanceAllowed(a, balance)
      /\ job' = [job EXCEPT ![s] =
           [op |-> "register", phase |-> "recorded", account |-> a, tx |-> t,
            read |-> NoMovement, row |-> row, seen |-> account[a].balance,
            balance |-> balance, at |-> clock + 1, id |-> 0]]
      /\ clock' = clock + 1
      /\ UNCHANGED <<tableVars, nextId, drift>>

RegisterUnlocked(s, t, row) ==
  Exists(row.account) /\ UNCHANGED lock /\ Registers(s, t, row)

Register(s, t, row) == Acquire(s, row.account) /\ Registers(s, t, row)

(* The row, the balance and the event are committed together. *)
CommitRegister(s) ==
  LET j == job[s] IN
  /\ Serves(s, "register", "flushed")
  /\ movement' = [movement EXCEPT ![j.tx] = j.row]
  /\ account' = [account EXCEPT ![j.account].balance = j.balance]
  /\ outbox' = outbox \cup {EventOf(j, "Added", j.row.category)}
  /\ Ends(s)
  /\ UNCHANGED drift

-----------------------------------------------------------------------------
(* TransactionService.recategorize, which takes no lock on the account.    *)

ReadToRecategorize(s, t, category) ==
  LET m == movement[t] IN
  /\ job[s] = NoJob
  /\ m # NoMovement
  /\ job' = [job EXCEPT ![s] =
       [op |-> "recategorize", phase |-> "read", account |-> m.account, tx |-> t,
        read |-> m, row |-> [m EXCEPT !.category = category, !.manual = TRUE],
        seen |-> account[m.account].balance, balance |-> account[m.account].balance,
        at |-> 0, id |-> 0]]
  /\ UNCHANGED <<tableVars, lock, clock, nextId, drift>>

RecordRecategorize(s) ==
  /\ Serves(s, "recategorize", "read")
  /\ clock < MaxStamps
  /\ job' = [job EXCEPT ![s].phase = "recorded", ![s].at = clock + 1]
  /\ clock' = clock + 1
  /\ UNCHANGED <<tableVars, lock, nextId, drift>>

RejectRecategorize(s) ==
  /\ Serves(s, "recategorize", "recorded")
  /\ RowReady(job[s])
  /\ UpdatesMissingRow(job[s])
  /\ Ends(s)
  /\ UNCHANGED <<tableVars, drift>>

(* The UPDATE sets the columns that differ from those read, no other. *)
Recategorized(j) ==
  IF ~ChangesRow(j) THEN movement
  ELSE [movement EXCEPT
         ![j.tx].category = IF j.row.category # j.read.category THEN j.row.category ELSE @,
         ![j.tx].manual = TRUE]

CommitRecategorizeUnderLock(s) ==
  LET j == job[s] IN
  /\ Serves(s, "recategorize", "flushed")
  /\ lock[j.account] = Free
  /\ movement' = Recategorized(j)
  /\ outbox' = outbox \cup {EventOf(j, "Categorized", j.row.category)}
  /\ Ends(s)
  /\ UNCHANGED <<account, drift>>

CommitRecategorizeOldFacts(s) ==
  LET j == job[s] IN
  /\ Serves(s, "recategorize", "flushed")
  /\ movement' = Recategorized(j)
  /\ outbox' = outbox \cup {EventOf(j, "Categorized", j.read.category)}
  /\ Ends(s)
  /\ UNCHANGED <<account, drift>>

CommitRecategorize(s) ==
  LET j == job[s] IN
  /\ Serves(s, "recategorize", "flushed")
  /\ movement' = Recategorized(j)
  /\ outbox' = outbox \cup {EventOf(j, "Categorized", j.row.category)}
  /\ Ends(s)
  /\ UNCHANGED <<account, drift>>

-----------------------------------------------------------------------------
(* TransactionService.delete_transaction                                   *)

(* get_transaction loads the row and, joined to it, its account. *)
ReadToDelete(s, t) ==
  LET m == movement[t] IN
  /\ job[s] = NoJob
  /\ m # NoMovement
  /\ job' = [job EXCEPT ![s] =
       [op |-> "delete", phase |-> "read", account |-> m.account, tx |-> t,
        read |-> m, row |-> NoMovement,
        seen |-> account[m.account].balance,
        balance |-> account[m.account].balance - m.amount,
        at |-> 0, id |-> 0]]
  /\ UNCHANGED <<tableVars, lock, clock, nextId, drift>>

LockToDeleteUnchecked(s) ==
  /\ Serves(s, "delete", "read")
  /\ clock < MaxStamps
  /\ Acquire(s, job[s].account)
  /\ job' = [job EXCEPT ![s].phase = "recorded", ![s].at = clock + 1]
  /\ clock' = clock + 1
  /\ UNCHANGED <<tableVars, nextId, drift>>

(* get_locked_account waits for the row, but the session already has the   *)
(* account in its identity map and FOR UPDATE does not refresh it: what is *)
(* reverted is the balance read before the lock.                           *)
LockToDelete(s) ==
  LET j == job[s] IN
  /\ Serves(s, "delete", "read")
  /\ clock < MaxStamps
  /\ Acquire(s, j.account)
  /\ BalanceAllowed(j.account, j.balance)
  /\ job' = [job EXCEPT ![s].phase = "recorded", ![s].at = clock + 1]
  /\ clock' = clock + 1
  /\ UNCHANGED <<tableVars, nextId, drift>>

(* AccountNotFoundError, or NegativeBalanceNotAllowedError. *)
RejectDelete(s) ==
  /\ Serves(s, "delete", "read")
  /\ lock[job[s].account] = Free
  /\ Exists(job[s].account) => ~BalanceAllowed(job[s].account, job[s].balance)
  /\ Ends(s)
  /\ UNCHANGED <<tableVars, drift>>

(* Another request changed the balance, or deleted the transaction, after  *)
(* this one read it.                                                       *)
Stale(j) == account[j.account].balance # j.seen \/ movement[j.tx] = NoMovement

CommitDeleteSilently(s) ==
  LET j == job[s] IN
  /\ Serves(s, "delete", "flushed")
  /\ movement' = [movement EXCEPT ![j.tx] = NoMovement]
  /\ account' = [account EXCEPT ![j.account].balance = j.balance]
  /\ drift' = [drift EXCEPT ![j.account] = IF Stale(j) THEN "drifted" ELSE @]
  /\ Ends(s)
  /\ UNCHANGED outbox

CommitDelete(s) ==
  LET j == job[s] IN
  /\ Serves(s, "delete", "flushed")
  /\ movement' = [movement EXCEPT ![j.tx] = NoMovement]
  /\ account' = [account EXCEPT ![j.account].balance = j.balance]
  /\ outbox' = outbox \cup {EventOf(j, "Deleted", j.read.category)}
  /\ drift' = [drift EXCEPT ![j.account] = IF Stale(j) THEN "drifted" ELSE @]
  /\ Ends(s)

-----------------------------------------------------------------------------
(* AccountService.recompute_balance, which `verify_invariants --fix` calls. *)

(* BalanceCalculator.recompute over the rows of the account. *)
Recomputed(a) ==
  account[a].opening
    + SumFunctionOnSet([t \in MovementsOf(a) |-> movement[t].amount], MovementsOf(a))

Recompute(s, a) ==
  /\ job[s] = NoJob
  /\ Acquire(s, a)
  /\ job' = [job EXCEPT ![s] =
       [op |-> "recompute", phase |-> "flushed", account |-> a, tx |-> NoTx,
        read |-> NoMovement, row |-> NoMovement, seen |-> account[a].balance,
        balance |-> Recomputed(a), at |-> 0, id |-> 0]]
  /\ UNCHANGED <<tableVars, clock, nextId, drift>>

CommitRecompute(s) ==
  LET j == job[s] IN
  /\ Serves(s, "recompute", "flushed")
  /\ account' = [account EXCEPT ![j.account].balance = j.balance]
  /\ drift' = [drift EXCEPT ![j.account] = IF @ = "drifted" THEN "repaired" ELSE @]
  /\ Ends(s)
  /\ UNCHANGED <<movement, outbox>>

-----------------------------------------------------------------------------
(* What a user may ask to register on account a. *)
Drafts(a) == [account : {a}, amount : Amounts, category : Categories, manual : BOOLEAN]

Request(s) ==
  \/ \E t \in Txs, a \in Accounts : \E row \in Drafts(a) : Register(s, t, row)
  \/ \E t \in Txs : ReadToDelete(s, t) \/ \E c \in Categories : ReadToRecategorize(s, t, c)
  \/ \E a \in Accounts : Recompute(s, a)

Continue(s) ==
  \/ RecordRecategorize(s)
  \/ RejectRecategorize(s)
  \/ LockToDelete(s)
  \/ RejectDelete(s)
  \/ Flush(s)
  \/ CommitRegister(s)
  \/ CommitRecategorize(s)
  \/ CommitDelete(s)
  \/ CommitRecompute(s)

Next ==
  \/ \E a \in Accounts :
       (\E o \in Openings : CreateAccount(a, o)) \/ ArchiveAccount(a) \/ DeleteAccount(a)
  \/ \E s \in Sessions : Request(s) \/ Continue(s) \/ Rollback(s)

Spec == Init /\ [][Next]_vars

-----------------------------------------------------------------------------
(* The types of the variables; a row lock is held only by a session that    *)
(* is still serving a request on that account, and a transaction never      *)
(* survives its account (INV-02, INV-13).                                  *)
TypeOK ==
  /\ account \in [Accounts -> Account]
  /\ movement \in [Txs -> Movement \cup {NoMovement}]
  /\ outbox \subseteq Event
  /\ lock \in [Accounts -> Sessions \cup {Free}]
  /\ job \in [Sessions -> Job \cup {NoJob}]
  /\ clock \in 0 .. MaxStamps
  /\ nextId \in Nat
  /\ drift \in [Accounts -> {"none", "drifted", "repaired"}]
  /\ \A a \in Accounts :
       lock[a] # Free => job[lock[a]] # NoJob /\ job[lock[a]].account = a
  /\ \A t \in Txs : movement[t] # NoMovement => Exists(movement[t].account)

(* The balance by the definition of INV-07 (C-17). *)
Effect(a) == [t \in Txs |-> IF t \in MovementsOf(a) THEN movement[t].amount ELSE 0]

Consistent(a) == account[a].balance = account[a].opening + SumFunctionOnSet(Effect(a), Txs)

(* INV-07: the persisted balance is the opening balance plus the movements, *)
(* whatever registrations, deletions and repairs ran at once -- except     *)
(* after a deletion that acted on stale data, until the account is         *)
(* recomputed.                                                             *)
BalanceConsistent ==
  \A a \in Accounts : (Exists(a) /\ drift[a] # "drifted") => Consistent(a)

(* INV-14: as long as no deletion acted on stale data, only a credit       *)
(* account is ever below zero.                                             *)
NoForbiddenNegative ==
  \A a \in Accounts :
    (Exists(a) /\ drift[a] = "none") => account[a].balance >= 0 \/ a \in CreditAccounts

(* ADR-15, the transactional outbox: a transaction exists exactly when its *)
(* registration has an event and its deletion has none, and it is          *)
(* registered once.                                                        *)
OutboxTellsTheTruth ==
  \A t \in Txs :
    LET of(kind) == {e \in outbox : e.tx = t /\ e.kind = kind} IN
    /\ Cardinality(of("Added")) <= 1
    /\ (movement[t] # NoMovement) <=> (of("Added") # {} /\ of("Deleted") = {})

(* No transaction is ever added to an account that is archived at that      *)
(* instant, although archiving takes no FOR UPDATE.                        *)
NothingAddedToArchived ==
  [][\A t \in Txs :
       (movement[t] = NoMovement /\ movement'[t] # NoMovement) =>
         ~account[movement'[t].account].archived]_vars

(* An event committed for an account is later than those committed before. *)
InOrder(kinds) ==
  \A e \in outbox' \ outbox, f \in outbox :
    (e.account = f.account /\ e.kind \in kinds /\ f.kind \in kinds) =>
      f.at < e.at /\ f.id < e.id

(* ADR-15: the events written under the row lock of an account get their   *)
(* identities and instants in commit order.                                *)
LockedEventsInOrder == [][InOrder({"Added", "Deleted"})]_vars

(* No two requests wait for each other: while one is being served, one of  *)
(* them can go on.                                                         *)
SomeoneCanContinue ==
  (clock < MaxStamps /\ \E s \in Sessions : job[s] # NoJob) =>
    \E s \in Sessions : ENABLED Continue(s)

(* Between its steps a request waits for the row lock of its account, or    *)
(* for a row of finance_transaction.                                       *)
WaitsFor(s, o) ==
  /\ job[s] # NoJob
  /\ \/ job[s].op = "delete" /\ job[s].phase = "read" /\ lock[job[s].account] = o
     \/ job[s].phase = "recorded" /\ ChangesRow(job[s]) /\ LocksRow(o, job[s].tx)

(* Requests take the two kinds of lock in one order, however many they are: *)
(* whoever is waited for is being served, and waits at most for one that   *)
(* waits for nobody.                                                       *)
WaitsEnd ==
  \A s, o \in Sessions : WaitsFor(s, o) =>
    /\ job[o] # NoJob
    /\ \A p, q \in Sessions : ~(WaitsFor(o, p) /\ WaitsFor(p, q))

-----------------------------------------------------------------------------
(* What the repository says and the code does not do. *)

(* INV-07 without exception: services.py:311 "Es lo que sostiene INV-07    *)
(* bajo concurrencia".                                                     *)
BalanceAlwaysConsistent == \A a \in Accounts : Exists(a) => Consistent(a)
=============================================================================
