-------------------------- MODULE FinanceLedgerProofs --------------------------
(***************************************************************************)
(* Proofs about FinanceLedger for any accounts, transactions, amounts,     *)
(* sessions and numbers of events.                                         *)
(***************************************************************************)
EXTENDS FinanceLedger, SumsOverSets

USE DEF tableVars

-----------------------------------------------------------------------------
(* The inductive invariant.                                                *)

(* What a request holds, by its operation. *)
WellFormed(j) ==
  /\ j.op \in {"register", "recategorize", "delete"} => j.tx \in Txs
  /\ j.op = "register" =>
       /\ j.phase # "read"
       /\ j.row \in Movement /\ j.row.account = j.account
       /\ j.balance = j.seen + j.row.amount
  /\ j.op \in {"recategorize", "delete"} => j.read \in Movement /\ j.read.account = j.account
  /\ j.op = "recategorize" => j.row \in Movement
  /\ j.op = "delete" => j.row = NoMovement /\ j.balance = j.seen - j.read.amount
  /\ j.op = "recompute" => j.phase = "flushed"

Types ==
  /\ account \in [Accounts -> Account]
  /\ movement \in [Txs -> Movement \cup {NoMovement}]
  /\ outbox \subseteq Event
  /\ lock \in [Accounts -> Sessions \cup {Free}]
  /\ job \in [Sessions -> Job \cup {NoJob}]
  /\ clock \in 0 .. MaxStamps
  /\ nextId \in Nat
  /\ drift \in [Accounts -> {"none", "drifted", "repaired"}]
  /\ \A s \in Sessions : job[s] # NoJob => WellFormed(job[s])

UnderLock(j) == j.op \in {"register", "recompute"} \/ (j.op = "delete" /\ j.phase # "read")

(* Only a request on the account that asked for its row lock holds it ...  *)
LocksServed ==
  \A a \in Accounts : lock[a] # Free =>
    job[lock[a]] # NoJob /\ job[lock[a]].account = a /\ UnderLock(job[lock[a]])

(* ... and whoever will write the balance does hold it. *)
WritersLock ==
  \A s \in Sessions :
    (job[s] # NoJob /\ UnderLock(job[s])) => lock[job[s].account] = s /\ Exists(job[s].account)

MovementsHaveAccounts == \A t \in Txs : movement[t] # NoMovement => Exists(movement[t].account)

(* A registration acts on an account nobody changes, and on a new id. *)
RegistrationsAreNew ==
  \A s \in Sessions :
    LET j == job[s] IN
    (j # NoJob /\ j.op = "register") =>
      /\ ~account[j.account].archived
      /\ BalanceAllowed(j.account, j.balance)
      /\ account[j.account].balance = j.seen
      /\ movement[j.tx] = NoMovement
      /\ \A e \in outbox : e.tx # j.tx
      /\ \A o \in Sessions \ {s} : job[o] # NoJob => job[o].tx # j.tx

Registered(t) == \E e \in outbox : e.tx = t /\ e.kind = "Added"

(* A transaction that was read keeps its account and its amount as long as *)
(* it exists, because its id is never registered again.                    *)
ReadsAreTrue ==
  \A s \in Sessions :
    LET j == job[s] IN
    (j # NoJob /\ j.op \in {"recategorize", "delete"}) =>
      /\ Registered(j.tx)
      /\ movement[j.tx] # NoMovement =>
           movement[j.tx].account = j.account /\ movement[j.tx].amount = j.read.amount

DeletionsAllowed ==
  \A s \in Sessions :
    LET j == job[s] IN
    (j # NoJob /\ j.op = "delete" /\ j.phase # "read") => BalanceAllowed(j.account, j.balance)

(* A row with an uncommitted change is there, and one session changes it.  *)
RowsLocked ==
  /\ \A s \in Sessions :
       LET j == job[s] IN
       (j # NoJob /\ j.op = "recategorize" /\ j.phase = "flushed" /\ ChangesRow(j)) =>
         movement[j.tx] # NoMovement
  /\ \A s, o \in Sessions : \A t \in Txs : LocksRow(s, t) /\ LocksRow(o, t) => s = o

RecomputationsAreTrue ==
  \A s \in Sessions :
    (job[s] # NoJob /\ job[s].op = "recompute") => job[s].balance = Recomputed(job[s].account)

(* Identities and instants only grow, and the events written under the     *)
(* lock of an account are older than that of the session that has it now.  *)
Locking(e) == e.kind \in {"Added", "Deleted"}

StampsBounded ==
  /\ nextId > 0
  /\ \A e \in outbox : e.at <= clock /\ e.id < nextId
  /\ \A s \in Sessions : job[s] # NoJob => job[s].at <= clock /\ job[s].id < nextId

LockedStampsAreNew ==
  \A s \in Sessions :
    LET j == job[s] IN
    (j # NoJob /\ j.op \in {"register", "delete"} /\ j.phase # "read") =>
      \A e \in outbox : (Locking(e) /\ e.account = j.account) =>
        e.at < j.at /\ (j.phase = "flushed" => e.id < j.id)

StampsAreNew == StampsBounded /\ LockedStampsAreNew

JobInv ==
  /\ RegistrationsAreNew
  /\ ReadsAreTrue
  /\ DeletionsAllowed
  /\ RowsLocked
  /\ RecomputationsAreTrue

LockInv == LocksServed /\ WritersLock /\ MovementsHaveAccounts

BalanceInv == BalanceConsistent /\ NoForbiddenNegative

(* OutboxTellsTheTruth without the cardinality. *)
EventsTellTheTruth ==
  \A t \in Txs :
    /\ \A e, f \in outbox :
         (e.tx = t /\ f.tx = t /\ e.kind = "Added" /\ f.kind = "Added") => e = f
    /\ (movement[t] # NoMovement) <=>
         (Registered(t) /\ ~ \E e \in outbox : e.tx = t /\ e.kind = "Deleted")

IInv == Types /\ LockInv /\ JobInv /\ EventsTellTheTruth /\ StampsAreNew /\ BalanceInv

-----------------------------------------------------------------------------
(* What the steps give the session: the request it serves from then on.    *)

(* register_transaction: the new request, under the lock of its account. *)
LEMMA RegisterStep ==
  ASSUME Types, NEW s \in Sessions, NEW t \in Txs, NEW a \in Accounts, NEW row \in Drafts(a),
         Register(s, t, row)
  PROVE  \E k \in Job :
           /\ job[s] = NoJob /\ job' = [job EXCEPT ![s] = k] /\ WellFormed(k)
           /\ k.op = "register" /\ k.phase = "recorded" /\ k.account = a /\ k.tx = t
           /\ k.seen = account[a].balance /\ BalanceAllowed(a, k.balance) /\ k.at = clock + 1 /\ k.id = 0
           /\ lock[a] = Free /\ Exists(a) /\ lock' = [lock EXCEPT ![a] = s]
           /\ Unused(t) /\ ~account[a].archived
           /\ clock < MaxStamps /\ clock' = clock + 1
           /\ UNCHANGED <<account, movement, outbox, nextId, drift>>
<1> DEFINE k == [op |-> "register", phase |-> "recorded", account |-> a, tx |-> t,
                 read |-> NoMovement, row |-> row, seen |-> account[a].balance,
                 balance |-> account[a].balance + row.amount, at |-> clock + 1, id |-> 0]
<1>1. row \in Movement /\ row.account = a /\ row.amount \in Int
  BY AmountsAssumption DEF Drafts, Movement
<1>2. account[a].balance \in Int /\ clock + 1 \in Nat
  BY BoundsAssumption DEF Types, Account
<1>3. k \in Job /\ WellFormed(k)
  BY <1>1, <1>2 DEF Job, WellFormed
<1>4. /\ job[s] = NoJob /\ job' = [job EXCEPT ![s] = k]
      /\ lock[a] = Free /\ Exists(a) /\ lock' = [lock EXCEPT ![a] = s]
      /\ Unused(t) /\ ~account[a].archived /\ BalanceAllowed(a, k.balance)
      /\ clock < MaxStamps /\ clock' = clock + 1
      /\ UNCHANGED <<account, movement, outbox, nextId, drift>>
  BY <1>1 DEF Register, Registers, Acquire
<1>5. /\ k.op = "register" /\ k.phase = "recorded" /\ k.account = a /\ k.tx = t
      /\ k.seen = account[a].balance /\ k.at = clock + 1 /\ k.id = 0
  OBVIOUS
<1> HIDE DEF k
<1>6. QED
  BY <1>3, <1>4, <1>5

(* recategorize and delete_transaction start from the row they read, without a lock. *)
LEMMA ReadStep ==
  ASSUME Types, NEW s \in Sessions, NEW t \in Txs,
         ReadToDelete(s, t) \/ \E c \in Categories : ReadToRecategorize(s, t, c)
  PROVE  \E k \in Job :
           /\ job[s] = NoJob /\ job' = [job EXCEPT ![s] = k] /\ WellFormed(k)
           /\ k.op \in {"recategorize", "delete"} /\ k.phase = "read" /\ k.tx = t
           /\ k.read = movement[t] /\ k.account = movement[t].account /\ k.at = 0 /\ k.id = 0
           /\ movement[t] # NoMovement
           /\ UNCHANGED <<account, movement, outbox, lock, clock, nextId, drift>>
<1> DEFINE m == movement[t]
<1>1. m \in Movement /\ m.account \in Accounts /\ m.amount \in Int
  BY DEF ReadToDelete, ReadToRecategorize, Types, Movement
<1>2. account[m.account].balance \in Int
  BY <1>1 DEF Types, Account
<1>3. CASE ReadToDelete(s, t)
  <2> DEFINE k == [op |-> "delete", phase |-> "read", account |-> m.account, tx |-> t,
                   read |-> m, row |-> NoMovement, seen |-> account[m.account].balance,
                   balance |-> account[m.account].balance - m.amount, at |-> 0, id |-> 0]
  <2>1. /\ job[s] = NoJob /\ job' = [job EXCEPT ![s] = k] /\ m # NoMovement
        /\ UNCHANGED <<account, movement, outbox, lock, clock, nextId, drift>>
    BY <1>3 DEF ReadToDelete
  <2> HIDE DEF m
  <2>2. k \in Job /\ WellFormed(k)
    BY <1>1, <1>2 DEF Job, WellFormed
  <2>3. /\ k.op = "delete" /\ k.phase = "read" /\ k.tx = t /\ k.read = m /\ k.account = m.account
        /\ k.at = 0 /\ k.id = 0
    OBVIOUS
  <2> HIDE DEF k
  <2>4. QED
    BY <2>1, <2>2, <2>3 DEF m
<1>4. ASSUME NEW c \in Categories, ReadToRecategorize(s, t, c)
      PROVE  \E k \in Job :
               /\ job[s] = NoJob /\ job' = [job EXCEPT ![s] = k] /\ WellFormed(k)
               /\ k.op = "recategorize" /\ k.phase = "read" /\ k.tx = t
               /\ k.read = m /\ k.account = m.account /\ m # NoMovement /\ k.at = 0 /\ k.id = 0
               /\ UNCHANGED <<account, movement, outbox, lock, clock, nextId, drift>>
  <2> DEFINE k == [op |-> "recategorize", phase |-> "read", account |-> m.account, tx |-> t,
                   read |-> m, row |-> [m EXCEPT !.category = c, !.manual = TRUE],
                   seen |-> account[m.account].balance, balance |-> account[m.account].balance,
                   at |-> 0, id |-> 0]
  <2>1. /\ job[s] = NoJob /\ job' = [job EXCEPT ![s] = k] /\ m # NoMovement
        /\ UNCHANGED <<account, movement, outbox, lock, clock, nextId, drift>>
    BY <1>4 DEF ReadToRecategorize
  <2> HIDE DEF m
  <2>2. [m EXCEPT !.category = c, !.manual = TRUE] \in Movement
    BY <1>1 DEF Movement
  <2>3. k \in Job /\ WellFormed(k)
    BY <1>1, <1>2, <2>2 DEF Job, WellFormed
  <2>4. /\ k.op = "recategorize" /\ k.phase = "read" /\ k.tx = t /\ k.read = m /\ k.account = m.account
        /\ k.at = 0 /\ k.id = 0
    OBVIOUS
  <2> HIDE DEF k
  <2>5. QED
    BY <2>1, <2>3, <2>4
<1>5. QED
  BY <1>3, <1>4

(* The rows of an account are finitely many, and their amounts integers. *)
LEMMA RecomputedType ==
  ASSUME Types, NEW a \in Accounts
  PROVE  Recomputed(a) \in Int
<1> DEFINE f == [t \in MovementsOf(a) |-> movement[t].amount]
<1>1. IsFiniteSet(MovementsOf(a))
  BY BoundsAssumption, FS_Subset DEF MovementsOf
<1>2. \A t \in MovementsOf(a) : f[t] \in Int
  BY DEF Types, MovementsOf, Movement
<1>3. SumFunctionOnSet(f, MovementsOf(a)) \in Int
  <2> HIDE DEF f
  <2>1. QED
    BY <1>1, <1>2, SumType
<1>4. account[a].opening \in Int
  BY DEF Types, Account
<1>5. QED
  BY <1>3, <1>4 DEF Recomputed

(* recompute_balance: the balance it read under the lock is the one it will write. *)
LEMMA RecomputeStep ==
  ASSUME Types, NEW s \in Sessions, NEW a \in Accounts, Recompute(s, a)
  PROVE  \E k \in Job :
           /\ job[s] = NoJob /\ job' = [job EXCEPT ![s] = k] /\ WellFormed(k)
           /\ k.op = "recompute" /\ k.phase = "flushed" /\ k.account = a /\ k.tx = NoTx
           /\ k.balance = Recomputed(a) /\ k.at = 0 /\ k.id = 0
           /\ lock[a] = Free /\ Exists(a) /\ lock' = [lock EXCEPT ![a] = s]
           /\ UNCHANGED <<account, movement, outbox, clock, nextId, drift>>
<1> DEFINE k == [op |-> "recompute", phase |-> "flushed", account |-> a, tx |-> NoTx,
                 read |-> NoMovement, row |-> NoMovement, seen |-> account[a].balance,
                 balance |-> Recomputed(a), at |-> 0, id |-> 0]
<1>1. account[a].balance \in Int /\ Recomputed(a) \in Int
  BY RecomputedType DEF Types, Account
<1>2. k \in Job /\ WellFormed(k)
  BY <1>1 DEF Job, WellFormed
<1>3. /\ job[s] = NoJob /\ job' = [job EXCEPT ![s] = k]
      /\ lock[a] = Free /\ Exists(a) /\ lock' = [lock EXCEPT ![a] = s]
      /\ UNCHANGED <<account, movement, outbox, clock, nextId, drift>>
  BY DEF Recompute, Acquire
<1>4. /\ k.op = "recompute" /\ k.phase = "flushed" /\ k.account = a /\ k.tx = NoTx
      /\ k.balance = Recomputed(a) /\ k.at = 0 /\ k.id = 0
  OBVIOUS
<1> HIDE DEF k
<1>5. QED
  BY <1>2, <1>3, <1>4

(* The later steps of a request change its phase and stamp its event. *)
SameRequest(k, j) ==
  /\ k.op = j.op /\ k.account = j.account /\ k.tx = j.tx /\ k.read = j.read /\ k.row = j.row
  /\ k.seen = j.seen /\ k.balance = j.balance

(* A recategorization stamps its event; a deletion first takes the lock. *)
LEMMA RecordStep ==
  ASSUME Types, NEW s \in Sessions, RecordRecategorize(s) \/ LockToDelete(s)
  PROVE  \E k \in Job :
           /\ job[s] \in Job /\ job[s] # NoJob /\ job[s].phase = "read"
           /\ job' = [job EXCEPT ![s] = k] /\ WellFormed(k)
           /\ SameRequest(k, job[s]) /\ k.phase = "recorded" /\ k.at = clock + 1 /\ k.id = job[s].id
           /\ clock < MaxStamps /\ clock' = clock + 1
           /\ UNCHANGED <<account, movement, outbox, nextId, drift>>
           /\ \/ k.op = "recategorize" /\ UNCHANGED lock
              \/ /\ k.op = "delete" /\ BalanceAllowed(k.account, k.balance)
                 /\ lock[k.account] = Free /\ Exists(k.account)
                 /\ lock' = [lock EXCEPT ![k.account] = s]
<1> DEFINE j == job[s]
           k == [j EXCEPT !.phase = "recorded", !.at = clock + 1]
<1>1. /\ j # NoJob /\ j.phase = "read" /\ job' = [job EXCEPT ![s] = k]
      /\ clock < MaxStamps /\ clock' = clock + 1
      /\ UNCHANGED <<account, movement, outbox, nextId, drift>>
      /\ \/ j.op = "recategorize" /\ UNCHANGED lock
         \/ /\ j.op = "delete" /\ BalanceAllowed(j.account, j.balance)
            /\ lock[j.account] = Free /\ Exists(j.account)
            /\ lock' = [lock EXCEPT ![j.account] = s]
  BY DEF RecordRecategorize, LockToDelete, Serves, Acquire
<1>2. j \in Job /\ WellFormed(j) /\ clock + 1 \in Nat
  BY <1>1, BoundsAssumption DEF Types
<1> HIDE DEF j
<1>3. /\ k \in Job /\ WellFormed(k)
      /\ SameRequest(k, j) /\ k.phase = "recorded" /\ k.at = clock + 1 /\ k.id = j.id
  BY <1>1, <1>2 DEF Job, WellFormed, SameRequest
<1> HIDE DEF k
<1>4. QED
  BY <1>1, <1>2, <1>3 DEF SameRequest, j

(* The flush takes an identity from the sequence. *)
LEMMA FlushStep ==
  ASSUME Types, NEW s \in Sessions, Flush(s)
  PROVE  \E k \in Job :
           /\ job[s] \in Job /\ job[s] # NoJob /\ job[s].phase = "recorded"
           /\ RowReady(job[s]) /\ ~UpdatesMissingRow(job[s])
           /\ job' = [job EXCEPT ![s] = k] /\ WellFormed(k)
           /\ SameRequest(k, job[s]) /\ k.phase = "flushed" /\ k.at = job[s].at /\ k.id = nextId
           /\ nextId' = nextId + 1
           /\ UNCHANGED <<account, movement, outbox, lock, clock, drift>>
<1> DEFINE j == job[s]
           k == [j EXCEPT !.phase = "flushed", !.id = nextId]
<1>1. /\ j # NoJob /\ j.phase = "recorded" /\ job' = [job EXCEPT ![s] = k]
      /\ RowReady(j) /\ ~UpdatesMissingRow(j)
      /\ nextId' = nextId + 1
      /\ UNCHANGED <<account, movement, outbox, lock, clock, drift>>
  BY DEF Flush
<1>2. j \in Job /\ WellFormed(j) /\ nextId \in Nat
  BY <1>1 DEF Types
<1> HIDE DEF j
<1>3. /\ k \in Job /\ WellFormed(k)
      /\ SameRequest(k, j) /\ k.phase = "flushed" /\ k.at = j.at /\ k.id = nextId
  BY <1>1, <1>2 DEF Job, WellFormed, SameRequest
<1> HIDE DEF k
<1>4. QED
  BY <1>1, <1>2, <1>3 DEF j

(* What is committed. *)
LEMMA CommitSteps ==
  ASSUME Types, NEW s \in Sessions,
         CommitRegister(s) \/ CommitRecategorize(s) \/ CommitDelete(s) \/ CommitRecompute(s)
  PROVE  /\ job[s] # NoJob /\ job[s] \in Job /\ WellFormed(job[s]) /\ job[s].phase = "flushed"
         /\ Ends(s)
  BY DEF CommitRegister, CommitRecategorize, CommitDelete, CommitRecompute, Serves, Types

-----------------------------------------------------------------------------
(* The types.                                                              *)

(* Instants and identities are natural numbers. *)
LEMMA StampTypes ==
  ASSUME Types
  PROVE  /\ clock \in Nat /\ nextId \in Nat
         /\ \A e \in outbox : e.at \in Nat /\ e.id \in Nat
         /\ \A s \in Sessions : job[s] # NoJob => job[s].at \in Nat /\ job[s].id \in Nat
  BY BoundsAssumption DEF Types, Event, Job

(* Giving session s a request, or none. *)
LEMMA JobTypes ==
  ASSUME Types, NEW s \in Sessions, NEW k \in Job \cup {NoJob},
         job' = [job EXCEPT ![s] = k], k # NoJob => WellFormed(k)
  PROVE  /\ job' \in [Sessions -> Job \cup {NoJob}]
         /\ \A o \in Sessions : job'[o] # NoJob => WellFormed(job'[o])
  BY DEF Types

(* The first state has the types. *)
LEMMA TypesInit == Init => Types
  BY BoundsAssumption DEF Init, Types, Account

(* Every step keeps the types. *)
LEMMA TypesNext == IInv /\ [Next]_vars => Types'
<1> SUFFICES ASSUME IInv, [Next]_vars PROVE Types'
  OBVIOUS
<1>0. /\ Types /\ MaxStamps \in Nat /\ clock \in Nat
      /\ \A s \in Sessions : job[s] # NoJob => job[s] \in Job /\ WellFormed(job[s])
      /\ NoJob \notin Job /\ NoMovement \notin Movement
  BY BoundsAssumption, MarkersAssumption DEF IInv, Types
<1>1. ASSUME NEW a \in Accounts, NEW o \in Openings, CreateAccount(a, o) PROVE Types'
  BY <1>0, <1>1, OpeningsAssumption DEF CreateAccount, Types, Account
<1>2. ASSUME NEW a \in Accounts, ArchiveAccount(a) PROVE Types'
  BY <1>0, <1>2 DEF ArchiveAccount, Types, Account
<1>3. ASSUME NEW a \in Accounts, DeleteAccount(a) PROVE Types'
  BY <1>0, <1>3 DEF DeleteAccount, Types, Account
<1>4. ASSUME NEW s \in Sessions, Ends(s)
      PROVE  /\ job' \in [Sessions -> Job \cup {NoJob}]
             /\ \A o \in Sessions : job'[o] # NoJob => WellFormed(job'[o])
             /\ lock' \in [Accounts -> Sessions \cup {Free}]
             /\ clock' \in 0 .. MaxStamps /\ nextId' \in Nat
  <2>1. job' = [job EXCEPT ![s] = NoJob]
    BY <1>4 DEF Ends
  <2>2. lock' \in [Accounts -> Sessions \cup {Free}] /\ UNCHANGED <<clock, nextId>>
    BY <1>0, <1>4 DEF Ends, Types
  <2>3. QED
    BY <1>0, <2>1, <2>2, JobTypes DEF Types
<1>5. ASSUME NEW s \in Sessions, Ends(s), UNCHANGED <<tableVars, drift>> PROVE Types'
  BY <1>0, <1>4, <1>5 DEF Types
<1>6. ASSUME NEW s \in Sessions, NEW t \in Txs, NEW a \in Accounts, NEW row \in Drafts(a),
             Register(s, t, row)
      PROVE Types'
  <2>1. PICK k \in Job :
          /\ job' = [job EXCEPT ![s] = k] /\ WellFormed(k)
          /\ lock' = [lock EXCEPT ![a] = s] /\ clock < MaxStamps /\ clock' = clock + 1
          /\ UNCHANGED <<account, movement, outbox, nextId, drift>>
    BY <1>0, <1>6, RegisterStep
  <2>2. QED
    BY <1>0, <2>1, JobTypes DEF Types
<1>7. ASSUME NEW s \in Sessions, NEW t \in Txs,
             ReadToDelete(s, t) \/ \E c \in Categories : ReadToRecategorize(s, t, c)
      PROVE Types'
  <2>1. PICK k \in Job :
          /\ job' = [job EXCEPT ![s] = k] /\ WellFormed(k)
          /\ UNCHANGED <<account, movement, outbox, lock, clock, nextId, drift>>
    BY <1>0, <1>7, ReadStep
  <2>2. QED
    BY <1>0, <2>1, JobTypes DEF Types
<1>8. ASSUME NEW s \in Sessions, NEW a \in Accounts, Recompute(s, a) PROVE Types'
  <2>1. PICK k \in Job :
          /\ job' = [job EXCEPT ![s] = k] /\ WellFormed(k) /\ lock' = [lock EXCEPT ![a] = s]
          /\ UNCHANGED <<account, movement, outbox, clock, nextId, drift>>
    BY <1>0, <1>8, RecomputeStep
  <2>2. QED
    BY <1>0, <2>1, JobTypes DEF Types
<1>9. ASSUME NEW s \in Sessions, RecordRecategorize(s) \/ LockToDelete(s) PROVE Types'
  <2>1. PICK k \in Job :
          /\ job' = [job EXCEPT ![s] = k] /\ WellFormed(k)
          /\ clock < MaxStamps /\ clock' = clock + 1
          /\ UNCHANGED lock \/ lock' = [lock EXCEPT ![k.account] = s]
          /\ UNCHANGED <<account, movement, outbox, nextId, drift>>
    BY <1>0, <1>9, RecordStep
  <2>2. QED
    BY <1>0, <2>1, JobTypes DEF Types
<1>10. ASSUME NEW s \in Sessions, Flush(s) PROVE Types'
  <2>1. PICK k \in Job :
          /\ job' = [job EXCEPT ![s] = k] /\ WellFormed(k) /\ nextId' = nextId + 1
          /\ UNCHANGED <<account, movement, outbox, lock, clock, drift>>
    BY <1>0, <1>10, FlushStep
  <2>2. QED
    BY <1>0, <2>1, JobTypes DEF Types
<1>11. ASSUME NEW s \in Sessions, CommitRegister(s) PROVE Types'
  <2> DEFINE j == job[s]
  <2>1. /\ j # NoJob /\ j.op = "register" /\ Ends(s)
        /\ movement' = [movement EXCEPT ![j.tx] = j.row]
        /\ account' = [account EXCEPT ![j.account].balance = j.balance]
        /\ outbox' = outbox \cup {EventOf(j, "Added", j.row.category)}
        /\ drift' = drift
    BY <1>11 DEF CommitRegister, Serves
  <2>2. j \in Job /\ j.tx \in Txs /\ j.row \in Movement /\ j.balance \in Int /\ j.account \in Accounts
    BY <1>0, <2>1 DEF WellFormed, Job
  <2>3. EventOf(j, "Added", j.row.category) \in Event
    BY <2>2 DEF EventOf, Event, Job, Movement
  <2> HIDE DEF j
  <2>4. account' \in [Accounts -> Account]
    BY <1>0, <2>1, <2>2 DEF Types, Account
  <2>5. QED
    BY <1>0, <1>4, <2>1, <2>2, <2>3, <2>4 DEF Types
<1>12. ASSUME NEW s \in Sessions, CommitRecategorize(s) PROVE Types'
  <2> DEFINE j == job[s]
  <2>1. /\ j # NoJob /\ j.op = "recategorize" /\ j.phase = "flushed" /\ Ends(s)
        /\ movement' = Recategorized(j)
        /\ outbox' = outbox \cup {EventOf(j, "Categorized", j.row.category)}
        /\ UNCHANGED <<account, drift>>
    BY <1>12 DEF CommitRecategorize, Serves
  <2>2. j \in Job /\ j.tx \in Txs /\ j.row \in Movement
    BY <1>0, <2>1 DEF WellFormed
  <2>3. EventOf(j, "Categorized", j.row.category) \in Event
    BY <2>2 DEF EventOf, Event, Job, Movement
  <2>4. ChangesRow(j) => movement[j.tx] \in Movement
    BY <1>0, <2>1, <2>2 DEF IInv, JobInv, RowsLocked, Types
  <2> HIDE DEF j
  <2>5. movement' \in [Txs -> Movement \cup {NoMovement}]
    BY <1>0, <2>1, <2>2, <2>4 DEF Types, Recategorized, Movement
  <2>6. QED
    BY <1>0, <1>4, <2>1, <2>3, <2>5 DEF Types
<1>13. ASSUME NEW s \in Sessions, CommitDelete(s) PROVE Types'
  <2> DEFINE j == job[s]
  <2>1. /\ j # NoJob /\ j.op = "delete" /\ Ends(s)
        /\ movement' = [movement EXCEPT ![j.tx] = NoMovement]
        /\ account' = [account EXCEPT ![j.account].balance = j.balance]
        /\ outbox' = outbox \cup {EventOf(j, "Deleted", j.read.category)}
        /\ drift' = [drift EXCEPT ![j.account] = IF Stale(j) THEN "drifted" ELSE @]
    BY <1>13 DEF CommitDelete, Serves
  <2>2. j \in Job /\ j.tx \in Txs /\ j.read \in Movement /\ j.balance \in Int /\ j.account \in Accounts
    BY <1>0, <2>1 DEF WellFormed, Job
  <2>3. EventOf(j, "Deleted", j.read.category) \in Event
    BY <2>2 DEF EventOf, Event, Job, Movement
  <2> HIDE DEF j
  <2>4. account' \in [Accounts -> Account]
    BY <1>0, <2>1, <2>2 DEF Types, Account
  <2>5. QED
    BY <1>0, <1>4, <2>1, <2>2, <2>3, <2>4 DEF Types
<1>14. ASSUME NEW s \in Sessions, CommitRecompute(s) PROVE Types'
  <2> DEFINE j == job[s]
  <2>1. /\ j # NoJob /\ Ends(s)
        /\ account' = [account EXCEPT ![j.account].balance = j.balance]
        /\ drift' = [drift EXCEPT ![j.account] = IF @ = "drifted" THEN "repaired" ELSE @]
        /\ UNCHANGED <<movement, outbox>>
    BY <1>14 DEF CommitRecompute, Serves
  <2>2. j \in Job /\ j.balance \in Int /\ j.account \in Accounts
    BY <1>0, <2>1 DEF Job
  <2> HIDE DEF j
  <2>3. account' \in [Accounts -> Account]
    BY <1>0, <2>1, <2>2 DEF Types, Account
  <2>4. QED
    BY <1>0, <1>4, <2>1, <2>2, <2>3 DEF Types
<1>15. CASE UNCHANGED vars
  BY <1>0, <1>15 DEF vars, Types
<1>16. QED
  BY <1>1, <1>2, <1>3, <1>5, <1>6, <1>7, <1>8, <1>9, <1>10, <1>11, <1>12, <1>13, <1>14, <1>15
     DEF Next, Request, Continue, Rollback, RejectRecategorize, RejectDelete

-----------------------------------------------------------------------------
(* Each action keeps the other parts.                                      *)
Kept == LockInv /\ JobInv /\ EventsTellTheTruth /\ StampsAreNew /\ BalanceInv

(* The balance of an account is by definition consistent as long as neither *)
(* its row nor its movements change.                                       *)
LEMMA SameBalance ==
  ASSUME BalanceInv, UNCHANGED <<account, movement, drift>>
  PROVE  BalanceInv'
  BY DEF BalanceInv, BalanceConsistent, NoForbiddenNegative, Consistent, Effect, MovementsOf, Exists

(* A new account has no movement, so its balance is its opening balance. *)
LEMMA CreateAccountKeeps ==
  ASSUME IInv, Types', NEW a \in Accounts, NEW o \in Openings, CreateAccount(a, o)
  PROVE  Kept'
<1>1. /\ Types /\ LockInv /\ JobInv /\ EventsTellTheTruth /\ StampsAreNew /\ BalanceInv
      /\ ~Exists(a) /\ NoMovement \notin Movement
  BY MarkersAssumption DEF IInv, CreateAccount, Exists
<1>2. /\ \A b \in Accounts \ {a} : account'[b] = account[b]
      /\ account'[a] = [status |-> "open", opening |-> o, balance |-> o, archived |-> FALSE]
      /\ UNCHANGED <<movement, outbox, lock, job, clock, nextId, drift>>
  BY <1>1 DEF CreateAccount, Types
<1>3. \A b \in Accounts : Exists(b) => b # a /\ Exists(b)' /\ account'[b] = account[b]
  BY <1>1, <1>2 DEF Exists
<1>4. LockInv'
  BY <1>1, <1>2, <1>3 DEF LockInv, LocksServed, WritersLock, MovementsHaveAccounts, Types, Job, Movement
<1>5. \A s \in Sessions : job[s] # NoJob /\ job[s].op \in {"register", "recompute"} =>
        account'[job[s].account] = account[job[s].account]
  BY <1>1, <1>3 DEF LockInv, WritersLock, UnderLock, Types, Job
<1>6. JobInv'
  <2>1. RegistrationsAreNew'
    BY <1>1, <1>2, <1>5 DEF JobInv, RegistrationsAreNew, BalanceAllowed
  <2>2. RecomputationsAreTrue'
    BY <1>1, <1>2, <1>5 DEF JobInv, RecomputationsAreTrue, Recomputed, MovementsOf
  <2>3. QED
    BY <1>1, <1>2, <2>1, <2>2
       DEF JobInv, ReadsAreTrue, Registered, DeletionsAllowed, BalanceAllowed, RowsLocked, LocksRow
<1>7. BalanceInv'
  <2>1. MovementsOf(a)' = {}
    BY <1>1, <1>2 DEF LockInv, MovementsHaveAccounts, MovementsOf
  <2>2. Consistent(a)'
    <3>1. \A t \in Txs : Effect(a)'[t] = 0
      BY <2>1 DEF Effect
    <3>2. SumFunctionOnSet(Effect(a)', Txs) = 0
      BY <3>1, BoundsAssumption, SumSupport, SumEmpty
    <3>3. QED
      BY <1>2, <3>2, OpeningsAssumption DEF Consistent
  <2>3. \A b \in Accounts \ {a} : Consistent(b)' = Consistent(b) /\ Exists(b)' = Exists(b)
    BY <1>2 DEF Consistent, Effect, MovementsOf, Exists
  <2>4. account'[a].balance >= 0 \/ a \in CreditAccounts
    BY <1>2 DEF CreateAccount, BalanceAllowed
  <2>5. QED
    BY <1>1, <1>2, <2>2, <2>3, <2>4 DEF BalanceInv, BalanceConsistent, NoForbiddenNegative
<1>8. EventsTellTheTruth' /\ StampsAreNew'
  BY <1>1, <1>2 DEF EventsTellTheTruth, StampsAreNew, StampsBounded, LockedStampsAreNew, Registered
<1>9. QED
  BY <1>4, <1>6, <1>7, <1>8 DEF Kept

(* Archiving and deleting an account, which nobody may have locked. *)
LEMMA AccountStepKeeps ==
  ASSUME IInv, Types', NEW a \in Accounts, ArchiveAccount(a) \/ DeleteAccount(a)
  PROVE  Kept'
<1>1. /\ Types /\ LockInv /\ JobInv /\ EventsTellTheTruth /\ StampsAreNew /\ BalanceInv
      /\ lock[a] = Free /\ Exists(a) /\ NoMovement \notin Movement /\ Free \notin Sessions
  BY MarkersAssumption DEF IInv, ArchiveAccount, DeleteAccount
<1>2. /\ \A b \in Accounts \ {a} : account'[b] = account[b]
      /\ account'[a].balance = account[a].balance /\ account'[a].opening = account[a].opening
      /\ Exists(a)' \/ MovementsOf(a) = {}
      /\ UNCHANGED <<movement, outbox, lock, job, clock, nextId, drift>>
  BY <1>1 DEF ArchiveAccount, DeleteAccount, Types, Account, Exists
<1>3. LockInv'
  <2>1. WritersLock'
    BY <1>1, <1>2 DEF LockInv, WritersLock, Types, Job, Exists
  <2>2. MovementsHaveAccounts'
    BY <1>1, <1>2 DEF LockInv, MovementsHaveAccounts, MovementsOf, Types, Movement, Exists
  <2>3. QED
    BY <1>1, <1>2, <2>1, <2>2 DEF LockInv, LocksServed
<1>4. \A s \in Sessions : job[s] # NoJob /\ UnderLock(job[s]) =>
        account'[job[s].account] = account[job[s].account]
  BY <1>1, <1>2 DEF LockInv, WritersLock, Types, Job
<1>5. JobInv'
  <2>1. RegistrationsAreNew'
    BY <1>1, <1>2, <1>4 DEF JobInv, RegistrationsAreNew, BalanceAllowed, UnderLock
  <2>2. RecomputationsAreTrue'
    BY <1>1, <1>2, <1>4 DEF JobInv, RecomputationsAreTrue, Recomputed, MovementsOf, UnderLock
  <2>3. QED
    BY <1>1, <1>2, <2>1, <2>2
       DEF JobInv, ReadsAreTrue, Registered, DeletionsAllowed, BalanceAllowed, RowsLocked, LocksRow
<1>6. BalanceInv'
  <2>1. \A b \in Accounts : Consistent(b)' = Consistent(b) /\ (Exists(b)' => Exists(b))
    BY <1>1, <1>2 DEF Consistent, Effect, MovementsOf, Exists
  <2>2. QED
    BY <1>1, <1>2, <2>1 DEF BalanceInv, BalanceConsistent, NoForbiddenNegative
<1>7. EventsTellTheTruth' /\ StampsAreNew'
  BY <1>1, <1>2 DEF EventsTellTheTruth, StampsAreNew, StampsBounded, LockedStampsAreNew, Registered
<1>8. QED
  BY <1>3, <1>5, <1>6, <1>7 DEF Kept

(* A request that ends without a trace. *)
LEMMA EndKeeps ==
  ASSUME IInv, Types', NEW s \in Sessions, Ends(s), UNCHANGED <<tableVars, drift>>
  PROVE  Kept'
<1>1. /\ Types /\ LockInv /\ JobInv /\ EventsTellTheTruth /\ StampsAreNew /\ BalanceInv
      /\ Free \notin Sessions
  BY MarkersAssumption DEF IInv
<1>2. /\ job'[s] = NoJob /\ \A o \in Sessions \ {s} : job'[o] = job[o]
      /\ \A a \in Accounts : lock'[a] = IF lock[a] = s THEN Free ELSE lock[a]
      /\ UNCHANGED <<account, movement, outbox, clock, nextId, drift>>
  BY <1>1 DEF Ends, Types
<1>3. LockInv'
  <2>1. LocksServed' /\ MovementsHaveAccounts'
    BY <1>1, <1>2 DEF LockInv, LocksServed, MovementsHaveAccounts, Types, Exists
  <2>2. WritersLock'
    BY <1>1, <1>2 DEF LockInv, WritersLock, Types, Job, Exists
  <2>3. QED
    BY <2>1, <2>2 DEF LockInv
<1>4. JobInv'
  <2>1. RegistrationsAreNew' /\ ReadsAreTrue' /\ DeletionsAllowed'
    BY <1>1, <1>2 DEF JobInv, RegistrationsAreNew, ReadsAreTrue, DeletionsAllowed, BalanceAllowed, Registered
  <2>2. RowsLocked'
    BY <1>1, <1>2 DEF JobInv, RowsLocked, LocksRow
  <2>3. RecomputationsAreTrue'
    BY <1>1, <1>2 DEF JobInv, RecomputationsAreTrue, Recomputed, MovementsOf
  <2>4. QED
    BY <2>1, <2>2, <2>3 DEF JobInv
<1>5. EventsTellTheTruth' /\ StampsAreNew'
  BY <1>1, <1>2 DEF EventsTellTheTruth, StampsAreNew, StampsBounded, LockedStampsAreNew, Registered
<1>6. QED
  BY <1>1, <1>2, <1>3, <1>4, <1>5, SameBalance DEF Kept

(* Requests that begin.                                                    *)
LEMMA RegisterKeeps ==
  ASSUME IInv, Types', NEW s \in Sessions, NEW t \in Txs, NEW a \in Accounts, NEW row \in Drafts(a),
         Register(s, t, row)
  PROVE  Kept'
<1>1. /\ Types /\ LockInv /\ JobInv /\ EventsTellTheTruth /\ StampsAreNew /\ BalanceInv
      /\ Free \notin Sessions /\ NoJob \notin Job
  BY MarkersAssumption DEF IInv
<1>2. PICK k \in Job :
           /\ job[s] = NoJob /\ job' = [job EXCEPT ![s] = k] /\ WellFormed(k)
           /\ k.op = "register" /\ k.phase = "recorded" /\ k.account = a /\ k.tx = t
           /\ k.seen = account[a].balance /\ BalanceAllowed(a, k.balance) /\ k.at = clock + 1 /\ k.id = 0
           /\ lock[a] = Free /\ Exists(a) /\ lock' = [lock EXCEPT ![a] = s]
           /\ Unused(t) /\ ~account[a].archived
           /\ clock < MaxStamps /\ clock' = clock + 1
           /\ UNCHANGED <<account, movement, outbox, nextId, drift>>
  BY <1>1, RegisterStep
<1>3. /\ job'[s] = k /\ \A o \in Sessions \ {s} : job'[o] = job[o]
      /\ lock'[a] = s /\ \A b \in Accounts \ {a} : lock'[b] = lock[b]
  BY <1>1, <1>2 DEF Types
<1>4. LockInv'
  <2>1. LocksServed' /\ MovementsHaveAccounts'
    BY <1>1, <1>2, <1>3 DEF LockInv, LocksServed, UnderLock, MovementsHaveAccounts, Types, Exists
  <2>2. WritersLock'
    BY <1>1, <1>2, <1>3 DEF LockInv, WritersLock, Types, Job, Exists
  <2>3. QED
    BY <2>1, <2>2 DEF LockInv
<1>5. movement[t] = NoMovement /\ \A o \in Sessions : job[o] # NoJob => job[o].tx # t
  BY <1>1, <1>2 DEF EventsTellTheTruth, Registered, Unused
<1>6. JobInv'
  <2>1. RegistrationsAreNew'
    BY <1>1, <1>2, <1>3, <1>5 DEF JobInv, RegistrationsAreNew, BalanceAllowed, Unused
  <2>2. ReadsAreTrue' /\ DeletionsAllowed'
    BY <1>1, <1>2, <1>3 DEF JobInv, ReadsAreTrue, DeletionsAllowed, BalanceAllowed, Registered
  <2>3. RowsLocked'
    BY <1>1, <1>2, <1>3 DEF JobInv, RowsLocked, LocksRow
  <2>4. RecomputationsAreTrue'
    BY <1>1, <1>2, <1>3 DEF JobInv, RecomputationsAreTrue, Recomputed, MovementsOf
  <2>5. QED
    BY <2>1, <2>2, <2>3, <2>4 DEF JobInv
<1>7. EventsTellTheTruth' /\ StampsAreNew'
  <2>1. EventsTellTheTruth'
    BY <1>1, <1>2 DEF EventsTellTheTruth, Registered
  <2>2. StampsBounded'
    BY <1>1, <1>2, <1>3, StampTypes DEF StampsAreNew, StampsBounded
  <2>3. LockedStampsAreNew'
    BY <1>1, <1>2, <1>3, StampTypes DEF StampsAreNew, StampsBounded, LockedStampsAreNew, Locking
  <2>4. QED
    BY <2>1, <2>2, <2>3 DEF StampsAreNew
<1>8. QED
  BY <1>1, <1>2, <1>4, <1>6, <1>7, SameBalance DEF Kept

(* The row read exists, so its registration is in the outbox. *)
LEMMA ReadKeeps ==
  ASSUME IInv, Types', NEW s \in Sessions, NEW t \in Txs,
         ReadToDelete(s, t) \/ \E c \in Categories : ReadToRecategorize(s, t, c)
  PROVE  Kept'
<1>1. /\ Types /\ LockInv /\ JobInv /\ EventsTellTheTruth /\ StampsAreNew /\ BalanceInv
      /\ Free \notin Sessions /\ NoJob \notin Job
  BY MarkersAssumption DEF IInv
<1>2. PICK k \in Job :
           /\ job[s] = NoJob /\ job' = [job EXCEPT ![s] = k] /\ WellFormed(k)
           /\ k.op \in {"recategorize", "delete"} /\ k.phase = "read" /\ k.tx = t
           /\ k.read = movement[t] /\ k.account = movement[t].account /\ k.at = 0 /\ k.id = 0
           /\ movement[t] # NoMovement
           /\ UNCHANGED <<account, movement, outbox, lock, clock, nextId, drift>>
  BY <1>1, ReadStep
<1>3. job'[s] = k /\ \A o \in Sessions \ {s} : job'[o] = job[o]
  BY <1>1, <1>2 DEF Types
<1>4. Registered(t)
  BY <1>1, <1>2 DEF EventsTellTheTruth
<1>5. LockInv'
  <2>1. LocksServed' /\ MovementsHaveAccounts'
    BY <1>1, <1>2, <1>3 DEF LockInv, LocksServed, MovementsHaveAccounts, Types, Exists
  <2>2. WritersLock'
    BY <1>1, <1>2, <1>3 DEF LockInv, WritersLock, UnderLock, Types, Job, Exists
  <2>3. QED
    BY <2>1, <2>2 DEF LockInv
<1>6. JobInv'
  <2>1. RegistrationsAreNew'
    BY <1>1, <1>2, <1>3, <1>4 DEF JobInv, RegistrationsAreNew, BalanceAllowed, Registered
  <2>2. ReadsAreTrue' /\ DeletionsAllowed'
    BY <1>1, <1>2, <1>3, <1>4 DEF JobInv, ReadsAreTrue, DeletionsAllowed, BalanceAllowed, Registered
  <2>3. RowsLocked'
    BY <1>1, <1>2, <1>3 DEF JobInv, RowsLocked, LocksRow
  <2>4. RecomputationsAreTrue'
    BY <1>1, <1>2, <1>3 DEF JobInv, RecomputationsAreTrue, Recomputed, MovementsOf
  <2>5. QED
    BY <2>1, <2>2, <2>3, <2>4 DEF JobInv
<1>7. EventsTellTheTruth' /\ StampsAreNew'
  <2>1. EventsTellTheTruth'
    BY <1>1, <1>2 DEF EventsTellTheTruth, Registered
  <2>2. StampsBounded'
    BY <1>1, <1>2, <1>3, StampTypes DEF StampsAreNew, StampsBounded
  <2>3. LockedStampsAreNew'
    BY <1>1, <1>2, <1>3, StampTypes DEF StampsAreNew, StampsBounded, LockedStampsAreNew, Locking
  <2>4. QED
    BY <2>1, <2>2, <2>3 DEF StampsAreNew
<1>8. QED
  BY <1>1, <1>2, <1>5, <1>6, <1>7, SameBalance DEF Kept

(* The balance found is right as long as the account stays locked. *)
LEMMA RecomputeKeeps ==
  ASSUME IInv, Types', NEW s \in Sessions, NEW a \in Accounts, Recompute(s, a)
  PROVE  Kept'
<1>1. /\ Types /\ LockInv /\ JobInv /\ EventsTellTheTruth /\ StampsAreNew /\ BalanceInv
      /\ Free \notin Sessions /\ NoJob \notin Job /\ NoTx \notin Txs
  BY MarkersAssumption DEF IInv
<1>2. PICK k \in Job :
           /\ job[s] = NoJob /\ job' = [job EXCEPT ![s] = k] /\ WellFormed(k)
           /\ k.op = "recompute" /\ k.phase = "flushed" /\ k.account = a /\ k.tx = NoTx
           /\ k.balance = Recomputed(a) /\ k.at = 0 /\ k.id = 0
           /\ lock[a] = Free /\ Exists(a) /\ lock' = [lock EXCEPT ![a] = s]
           /\ UNCHANGED <<account, movement, outbox, clock, nextId, drift>>
  BY <1>1, RecomputeStep
<1>3. /\ job'[s] = k /\ \A o \in Sessions \ {s} : job'[o] = job[o]
      /\ lock'[a] = s /\ \A b \in Accounts \ {a} : lock'[b] = lock[b]
  BY <1>1, <1>2 DEF Types
<1>4. LockInv'
  <2>1. LocksServed' /\ MovementsHaveAccounts'
    BY <1>1, <1>2, <1>3 DEF LockInv, LocksServed, UnderLock, MovementsHaveAccounts, Types, Exists
  <2>2. WritersLock'
    BY <1>1, <1>2, <1>3 DEF LockInv, WritersLock, Types, Job, Exists
  <2>3. QED
    BY <2>1, <2>2 DEF LockInv
<1>5. JobInv'
  <2>1. \A o \in Sessions : (job[o] # NoJob /\ job[o].op = "register") => job[o].tx \in Txs
    BY <1>1 DEF Types, WellFormed
  <2>2. RegistrationsAreNew'
    BY <1>1, <1>2, <1>3, <2>1 DEF JobInv, RegistrationsAreNew, BalanceAllowed
  <2>3. ReadsAreTrue' /\ DeletionsAllowed'
    BY <1>1, <1>2, <1>3 DEF JobInv, ReadsAreTrue, DeletionsAllowed, BalanceAllowed, Registered
  <2>4. RowsLocked'
    BY <1>1, <1>2, <1>3 DEF JobInv, RowsLocked, LocksRow
  <2>5. RecomputationsAreTrue'
    BY <1>1, <1>2, <1>3 DEF JobInv, RecomputationsAreTrue, Recomputed, MovementsOf
  <2>6. QED
    BY <2>2, <2>3, <2>4, <2>5 DEF JobInv
<1>6. EventsTellTheTruth' /\ StampsAreNew'
  <2>1. EventsTellTheTruth'
    BY <1>1, <1>2 DEF EventsTellTheTruth, Registered
  <2>2. StampsBounded'
    BY <1>1, <1>2, <1>3, StampTypes DEF StampsAreNew, StampsBounded
  <2>3. LockedStampsAreNew'
    BY <1>1, <1>2, <1>3, StampTypes DEF StampsAreNew, StampsBounded, LockedStampsAreNew, Locking
  <2>4. QED
    BY <2>1, <2>2, <2>3 DEF StampsAreNew
<1>7. QED
  BY <1>1, <1>2, <1>4, <1>5, <1>6, SameBalance DEF Kept

(* Requests that go on. *)
LEMMA RecordKeeps ==
  ASSUME IInv, Types', NEW s \in Sessions, RecordRecategorize(s) \/ LockToDelete(s)
  PROVE  Kept'
<1>1. /\ Types /\ LockInv /\ JobInv /\ EventsTellTheTruth /\ StampsAreNew /\ BalanceInv
      /\ Free \notin Sessions /\ NoJob \notin Job
  BY MarkersAssumption DEF IInv
<1>2. PICK k \in Job :
           /\ job[s] \in Job /\ job[s] # NoJob /\ job[s].phase = "read"
           /\ job' = [job EXCEPT ![s] = k] /\ WellFormed(k)
           /\ SameRequest(k, job[s]) /\ k.phase = "recorded" /\ k.at = clock + 1 /\ k.id = job[s].id
           /\ clock < MaxStamps /\ clock' = clock + 1
           /\ UNCHANGED <<account, movement, outbox, nextId, drift>>
           /\ \/ k.op = "recategorize" /\ UNCHANGED lock
              \/ /\ k.op = "delete" /\ BalanceAllowed(k.account, k.balance)
                 /\ lock[k.account] = Free /\ Exists(k.account)
                 /\ lock' = [lock EXCEPT ![k.account] = s]
  BY <1>1, RecordStep
<1>3. /\ job'[s] = k /\ \A o \in Sessions \ {s} : job'[o] = job[o]
      /\ \A b \in Accounts : lock'[b] = lock[b] \/ (b = k.account /\ k.op = "delete" /\ lock'[b] = s)
      /\ k.op = "delete" => lock'[k.account] = s
  BY <1>1, <1>2 DEF Types, Job
<1>4. LockInv'
  <2>1. LocksServed' /\ MovementsHaveAccounts'
    BY <1>1, <1>2, <1>3 DEF LockInv, LocksServed, UnderLock, MovementsHaveAccounts, Types, Exists, SameRequest
  <2>2. WritersLock'
    BY <1>1, <1>2, <1>3 DEF LockInv, WritersLock, UnderLock, Types, Job, Exists
  <2>3. QED
    BY <2>1, <2>2 DEF LockInv
<1>5. JobInv'
  <2>1. RegistrationsAreNew'
    BY <1>1, <1>2, <1>3 DEF JobInv, RegistrationsAreNew, BalanceAllowed, SameRequest
  <2>2. ReadsAreTrue' /\ DeletionsAllowed'
    BY <1>1, <1>2, <1>3
       DEF JobInv, ReadsAreTrue, DeletionsAllowed, BalanceAllowed, Registered, SameRequest
  <2>3. RowsLocked'
    BY <1>1, <1>2, <1>3 DEF JobInv, RowsLocked, LocksRow, ChangesRow
  <2>4. RecomputationsAreTrue'
    BY <1>1, <1>2, <1>3 DEF JobInv, RecomputationsAreTrue, Recomputed, MovementsOf
  <2>5. QED
    BY <2>1, <2>2, <2>3, <2>4 DEF JobInv
<1>6. EventsTellTheTruth' /\ StampsAreNew'
  <2>1. EventsTellTheTruth'
    BY <1>1, <1>2 DEF EventsTellTheTruth, Registered
  <2>2. StampsBounded'
    BY <1>1, <1>2, <1>3, StampTypes DEF StampsAreNew, StampsBounded, SameRequest
  <2>3. LockedStampsAreNew'
    BY <1>1, <1>2, <1>3, StampTypes DEF StampsAreNew, StampsBounded, LockedStampsAreNew, Locking, SameRequest
  <2>4. QED
    BY <2>1, <2>2, <2>3 DEF StampsAreNew
<1>7. QED
  BY <1>1, <1>2, <1>4, <1>5, <1>6, SameBalance DEF Kept

(* RowReady leaves at most one session with an uncommitted change of a row. *)
LEMMA FlushKeeps ==
  ASSUME IInv, Types', NEW s \in Sessions, Flush(s)
  PROVE  Kept'
<1>1. /\ Types /\ LockInv /\ JobInv /\ EventsTellTheTruth /\ StampsAreNew /\ BalanceInv
      /\ Free \notin Sessions /\ NoJob \notin Job
  BY MarkersAssumption DEF IInv
<1>2. PICK k \in Job :
           /\ job[s] \in Job /\ job[s] # NoJob /\ job[s].phase = "recorded"
           /\ RowReady(job[s]) /\ ~UpdatesMissingRow(job[s])
           /\ job' = [job EXCEPT ![s] = k] /\ WellFormed(k)
           /\ SameRequest(k, job[s]) /\ k.phase = "flushed" /\ k.at = job[s].at /\ k.id = nextId
           /\ nextId' = nextId + 1
           /\ UNCHANGED <<account, movement, outbox, lock, clock, drift>>
  BY <1>1, FlushStep
<1>3. job'[s] = k /\ \A o \in Sessions \ {s} : job'[o] = job[o]
  BY <1>1, <1>2 DEF Types
<1>4. LockInv'
  <2>1. LocksServed' /\ MovementsHaveAccounts'
    BY <1>1, <1>2, <1>3 DEF LockInv, LocksServed, UnderLock, MovementsHaveAccounts, Types, Exists, SameRequest
  <2>2. WritersLock'
    BY <1>1, <1>2, <1>3 DEF LockInv, WritersLock, UnderLock, Types, Job, Exists, SameRequest
  <2>3. QED
    BY <2>1, <2>2 DEF LockInv
<1>5. JobInv'
  <2>1. RegistrationsAreNew'
    BY <1>1, <1>2, <1>3 DEF JobInv, RegistrationsAreNew, BalanceAllowed, SameRequest
  <2>2. ReadsAreTrue' /\ DeletionsAllowed'
    BY <1>1, <1>2, <1>3
       DEF JobInv, ReadsAreTrue, DeletionsAllowed, BalanceAllowed, Registered, SameRequest
  <2>3. RowsLocked'
    <3>1. /\ ChangesRow(k) <=> ChangesRow(job[s])
          /\ \A o \in Sessions \ {s}, t \in Txs : LocksRow(o, t)' <=> LocksRow(o, t)
          /\ \A t \in Txs : LocksRow(s, t)' => t = job[s].tx /\ ChangesRow(job[s])
      BY <1>2, <1>3 DEF ChangesRow, LocksRow, SameRequest
    <3>2. \A o, p \in Sessions : \A t \in Txs : LocksRow(o, t)' /\ LocksRow(p, t)' => o = p
      BY <1>1, <1>2, <3>1 DEF RowReady, JobInv, RowsLocked
    <3>3. QED
      BY <1>1, <1>2, <1>3, <3>1, <3>2 DEF JobInv, RowsLocked, UpdatesMissingRow, SameRequest
  <2>4. RecomputationsAreTrue'
    BY <1>1, <1>2, <1>3 DEF JobInv, RecomputationsAreTrue, Recomputed, MovementsOf, SameRequest
  <2>5. QED
    BY <2>1, <2>2, <2>3, <2>4 DEF JobInv
<1>6. EventsTellTheTruth' /\ StampsAreNew'
  <2>1. EventsTellTheTruth'
    BY <1>1, <1>2 DEF EventsTellTheTruth, Registered
  <2>2. StampsBounded'
    BY <1>1, <1>2, <1>3, StampTypes DEF StampsAreNew, StampsBounded, SameRequest
  <2>3. LockedStampsAreNew'
    BY <1>1, <1>2, <1>3, StampTypes DEF StampsAreNew, StampsBounded, LockedStampsAreNew, Locking, SameRequest
  <2>4. QED
    BY <2>1, <2>2, <2>3 DEF StampsAreNew
<1>7. QED
  BY <1>1, <1>2, <1>4, <1>5, <1>6, SameBalance DEF Kept

(* Requests that commit: the session lets go of its locks, and nobody else *)
(* acts under the lock of the account it had.                              *)
LEMMA CommitFacts ==
  ASSUME IInv, NEW s \in Sessions,
         CommitRegister(s) \/ CommitRecategorize(s) \/ CommitDelete(s) \/ CommitRecompute(s)
  PROVE  /\ job[s] # NoJob /\ job[s] \in Job /\ WellFormed(job[s]) /\ job[s].phase = "flushed"
         /\ job'[s] = NoJob /\ \A o \in Sessions \ {s} : job'[o] = job[o]
         /\ \A a \in Accounts : lock'[a] = IF lock[a] = s THEN Free ELSE lock[a]
         /\ UNCHANGED <<clock, nextId>>
         /\ UnderLock(job[s]) =>
              \A o \in Sessions \ {s} :
                job[o] # NoJob /\ UnderLock(job[o]) => job[o].account # job[s].account
<1>1. Types /\ LockInv
  BY DEF IInv
<1>2. job[s] # NoJob /\ job[s] \in Job /\ WellFormed(job[s]) /\ job[s].phase = "flushed" /\ Ends(s)
  BY <1>1, CommitSteps
<1>3. QED
  BY <1>1, <1>2 DEF Ends, Types, LockInv, WritersLock

(* Writing the balance of a row of finance_account. *)
BalanceWritten(a, n) ==
  /\ \A b \in Accounts \ {a} : account'[b] = account[b]
  /\ account'[a].balance = n
  /\ \A b \in Accounts :
       /\ account'[b].status = account[b].status
       /\ account'[b].opening = account[b].opening
       /\ account'[b].archived = account[b].archived

(* An UPDATE of the balance leaves the other columns and rows alone. *)
LEMMA WritesBalance ==
  ASSUME Types, NEW a \in Accounts, NEW n, account' = [account EXCEPT ![a].balance = n]
  PROVE  BalanceWritten(a, n)
  BY DEF Types, Account, BalanceWritten

(* Accounts that keep their row, their movements and these' amounts. *)
LEMMA SameEffect ==
  ASSUME NEW a \in Accounts, account'[a] = account[a],
         \A t \in Txs : t \in MovementsOf(a)' <=> t \in MovementsOf(a),
         \A t \in MovementsOf(a) : movement'[t].amount = movement[t].amount
  PROVE  Recomputed(a)' = Recomputed(a) /\ Consistent(a)' = Consistent(a)
<1>1. MovementsOf(a)' = MovementsOf(a)
  BY DEF MovementsOf
<1>2. Effect(a)' = Effect(a)
  BY <1>1 DEF Effect
<1>3. [t \in MovementsOf(a) |-> movement[t].amount]' = [t \in MovementsOf(a) |-> movement[t].amount]
  BY <1>1
<1>4. Recomputed(a)' = Recomputed(a)
  BY <1>1, <1>3 DEF Recomputed
<1>5. Consistent(a)' = Consistent(a)
  BY <1>2 DEF Consistent
<1>6. QED
  BY <1>4, <1>5

(* Effects are integers. *)
LEMMA EffectType ==
  ASSUME Types, NEW a \in Accounts, NEW t \in Txs
  PROVE  Effect(a)[t] \in Int
  BY DEF Effect, Types, Movement, MovementsOf

(* The recomputed balance is the consistent one. *)
LEMMA RecomputedConsistent ==
  ASSUME Types, NEW a \in Accounts
  PROVE  Recomputed(a) = account[a].opening + SumFunctionOnSet(Effect(a), Txs)
<1> DEFINE f == [t \in MovementsOf(a) |-> movement[t].amount]
           M == MovementsOf(a)
<1>1. M \in SUBSET Txs /\ IsFiniteSet(M) /\ IsFiniteSet(Txs)
  BY BoundsAssumption, FS_Subset DEF MovementsOf
<1>2. \A t \in M : f[t] = Effect(a)[t]
  BY <1>1 DEF Effect
<1>3. \A t \in Txs \ M : Effect(a)[t] = 0
  BY DEF Effect
<1>4. SumFunctionOnSet(f, M) = SumFunctionOnSet(Effect(a), M)
  <2> HIDE DEF f, M
  <2>1. QED
    BY <1>1, <1>2, SumCongruence
<1>5. SumFunctionOnSet(Effect(a), M) = SumFunctionOnSet(Effect(a), Txs)
  <2> HIDE DEF M
  <2>1. QED
    BY <1>1, <1>3, EffectType, SumSupport
<1>6. QED
  BY <1>4, <1>5 DEF Recomputed

(* The balance moves by what one transaction's effect moves. *)
LEMMA BalanceMoves ==
  ASSUME Types, Types', NEW a \in Accounts, NEW t \in Txs, NEW n \in Int,
         BalanceWritten(a, account[a].balance + n), Consistent(a),
         \A u \in Txs \ {t} : Effect(a)'[u] = Effect(a)[u],
         Effect(a)'[t] = Effect(a)[t] + n
  PROVE  Consistent(a)'
<1> DEFINE f == Effect(a)
           g == Effect(a)'
<1>1. IsFiniteSet(Txs) /\ \A u \in Txs : f[u] \in Int /\ g[u] \in Int
  BY BoundsAssumption, EffectType DEF Effect, Types, Movement, MovementsOf
<1>2. (\A u \in Txs \ {t} : f[u] = g[u]) /\ g[t] = f[t] + n
  OBVIOUS
<1>3. account[a].balance \in Int /\ account[a].opening \in Int
  BY DEF Types, Account
<1>4. account[a].balance = account[a].opening + SumFunctionOnSet(f, Txs)
  BY DEF Consistent
<1>5. Consistent(a)' <=> account'[a].balance = account'[a].opening + SumFunctionOnSet(g, Txs)
  BY DEF Consistent
<1> HIDE DEF f, g
<1>6. SumFunctionOnSet(f, Txs) \in Int /\ SumFunctionOnSet(g, Txs) = SumFunctionOnSet(f, Txs) - f[t] + g[t]
  BY <1>1, <1>2, SumType, SumUpdate
<1>7. QED
  BY <1>1, <1>2, <1>3, <1>4, <1>5, <1>6 DEF BalanceWritten

(* The balance grows by the amount of the row that appears. *)
LEMMA CommitRegisterKeeps ==
  ASSUME IInv, Types', NEW s \in Sessions, CommitRegister(s)
  PROVE  Kept'
<1> PICK j \in Job : j = job[s]
  BY CommitFacts
<1> DEFINE a == j.account
           t == j.tx
           e == EventOf(j, "Added", j.row.category)
<1>1. /\ Types /\ LockInv /\ JobInv /\ EventsTellTheTruth /\ StampsAreNew /\ BalanceInv
      /\ Free \notin Sessions /\ NoJob \notin Job /\ NoMovement \notin Movement
  BY MarkersAssumption DEF IInv
<1>2. /\ j # NoJob /\ j \in Job /\ WellFormed(j) /\ j.phase = "flushed" /\ j.op = "register"
      /\ job'[s] = NoJob /\ \A o \in Sessions \ {s} : job'[o] = job[o]
      /\ \A b \in Accounts : lock'[b] = IF lock[b] = s THEN Free ELSE lock[b]
      /\ \A o \in Sessions \ {s} : job[o] # NoJob /\ UnderLock(job[o]) => job[o].account # a
      /\ UNCHANGED <<clock, nextId, drift>>
  BY CommitFacts DEF CommitRegister, Serves, UnderLock
<1>3. /\ a \in Accounts /\ t \in Txs /\ j.row \in Movement /\ j.row.account = a
      /\ j.row.amount \in Int /\ j.balance = j.seen + j.row.amount
  BY <1>2 DEF WellFormed, Job, Movement
<1>4. /\ movement'[t] = j.row /\ \A u \in Txs \ {t} : movement'[u] = movement[u]
      /\ BalanceWritten(a, j.balance)
      /\ outbox' = outbox \cup {e}
  BY <1>1, <1>3, WritesBalance DEF CommitRegister, Types
<1>5. /\ e.tx = t /\ e.account = a /\ e.kind = "Added" /\ e.at = j.at /\ e.id = j.id
  BY DEF EventOf
<1>6. /\ movement[t] = NoMovement /\ account[a].balance = j.seen /\ BalanceAllowed(a, j.balance)
      /\ \A f \in outbox : f.tx # t
      /\ \A o \in Sessions \ {s} : job[o] # NoJob => job[o].tx # t
      /\ Exists(a)
  BY <1>1, <1>2 DEF JobInv, RegistrationsAreNew, LockInv, WritersLock, UnderLock
<1> HIDE DEF a, t, e
<1>7. \A b \in Accounts \ {a} : Recomputed(b)' = Recomputed(b) /\ Consistent(b)' = Consistent(b)
  <2>1. ASSUME NEW b \in Accounts \ {a}
        PROVE  /\ account'[b] = account[b]
               /\ \A u \in Txs : u \in MovementsOf(b)' <=> u \in MovementsOf(b)
               /\ \A u \in MovementsOf(b) : movement'[u].amount = movement[u].amount
    BY <1>3, <1>4, <1>6, <2>1 DEF BalanceWritten, MovementsOf
  <2>2. QED
    BY <2>1, SameEffect
<1>8. LockInv'
  <2>1. LocksServed' /\ MovementsHaveAccounts'
    BY <1>1, <1>2, <1>3, <1>4, <1>6
       DEF LockInv, LocksServed, MovementsHaveAccounts, Types, Exists, BalanceWritten, Movement
  <2>2. WritersLock'
    BY <1>1, <1>2, <1>4 DEF LockInv, WritersLock, Types, Job, Exists, BalanceWritten
  <2>3. QED
    BY <2>1, <2>2 DEF LockInv
<1>9. JobInv'
  <2>1. RegistrationsAreNew'
    BY <1>1, <1>2, <1>4, <1>5, <1>6
       DEF JobInv, RegistrationsAreNew, BalanceAllowed, UnderLock, BalanceWritten, Types, Job, WellFormed, a, t
  <2>2. ReadsAreTrue' /\ DeletionsAllowed'
    BY <1>1, <1>2, <1>4, <1>6
       DEF JobInv, ReadsAreTrue, DeletionsAllowed, BalanceAllowed, Registered, Types, WellFormed
  <2>3. RowsLocked'
    BY <1>1, <1>2, <1>4, <1>6 DEF JobInv, RowsLocked, LocksRow, Types, WellFormed
  <2>4. RecomputationsAreTrue'
    BY <1>1, <1>2, <1>7 DEF JobInv, RecomputationsAreTrue, UnderLock, Types, Job
  <2>5. QED
    BY <2>1, <2>2, <2>3, <2>4 DEF JobInv
<1>10. EventsTellTheTruth'
  BY <1>1, <1>3, <1>4, <1>5, <1>6 DEF EventsTellTheTruth, Registered
<1>11. StampsAreNew'
  <2>1. StampsBounded'
    BY <1>1, <1>2, <1>4, <1>5, StampTypes DEF StampsAreNew, StampsBounded
  <2>2. LockedStampsAreNew'
    BY <1>1, <1>2, <1>4, <1>5, StampTypes DEF StampsAreNew, StampsBounded, LockedStampsAreNew, Locking, UnderLock, a
  <2>3. QED
    BY <2>1, <2>2 DEF StampsAreNew
<1>12. BalanceInv'
  <2>1. Consistent(a) => Consistent(a)'
    <3>1. /\ \A u \in Txs \ {t} : Effect(a)'[u] = Effect(a)[u]
          /\ Effect(a)[t] = 0 /\ Effect(a)'[t] = j.row.amount
      BY <1>1, <1>3, <1>4, <1>6 DEF Effect, MovementsOf
    <3>2. BalanceWritten(a, account[a].balance + j.row.amount)
      BY <1>3, <1>4, <1>6
    <3>3. QED
      BY <1>1, <1>3, <3>1, <3>2, BalanceMoves
  <2>2. QED
    BY <1>1, <1>2, <1>3, <1>4, <1>6, <1>7, <2>1
       DEF BalanceInv, BalanceConsistent, NoForbiddenNegative, BalanceWritten, Exists, BalanceAllowed
<1>13. QED
  BY <1>8, <1>9, <1>10, <1>11, <1>12 DEF Kept

(* Neither the account nor the amount of the row changes. *)
LEMMA CommitRecategorizeKeeps ==
  ASSUME IInv, Types', NEW s \in Sessions, CommitRecategorize(s)
  PROVE  Kept'
<1> PICK j \in Job : j = job[s]
  BY CommitFacts
<1> DEFINE t == j.tx
           e == EventOf(j, "Categorized", j.row.category)
<1>1. /\ Types /\ LockInv /\ JobInv /\ EventsTellTheTruth /\ StampsAreNew /\ BalanceInv
      /\ Free \notin Sessions /\ NoJob \notin Job /\ NoMovement \notin Movement
  BY MarkersAssumption DEF IInv
<1>2. /\ j # NoJob /\ j \in Job /\ WellFormed(j) /\ j.phase = "flushed" /\ j.op = "recategorize"
      /\ job'[s] = NoJob /\ \A o \in Sessions \ {s} : job'[o] = job[o]
      /\ \A b \in Accounts : lock'[b] = IF lock[b] = s THEN Free ELSE lock[b]
      /\ UNCHANGED <<account, clock, nextId, drift>>
  BY CommitFacts DEF CommitRecategorize, Serves
<1>3. t \in Txs /\ movement' = Recategorized(j) /\ outbox' = outbox \cup {e}
  BY <1>2 DEF CommitRecategorize, WellFormed
<1>4. ChangesRow(j) => movement[t] # NoMovement
  BY <1>1, <1>2 DEF JobInv, RowsLocked
<1>5. e.tx = t /\ e.kind = "Categorized" /\ e.at = j.at /\ e.id = j.id
  BY DEF EventOf
<1> HIDE DEF t, e
<1>6. \A u \in Txs :
        /\ movement'[u] = NoMovement <=> movement[u] = NoMovement
        /\ movement[u] # NoMovement =>
             movement'[u].account = movement[u].account /\ movement'[u].amount = movement[u].amount
  <2>1. CASE ~ChangesRow(j)
    BY <1>3, <2>1 DEF Recategorized
  <2>2. CASE ChangesRow(j)
    <3>1. movement[t] \in Movement
      BY <1>1, <1>3, <1>4, <2>2 DEF Types
    <3>2. PICK c \in Categories : movement'[t] = [movement[t] EXCEPT !.category = c, !.manual = TRUE]
      BY <1>1, <1>2, <1>3, <2>2, <3>1 DEF Types, Recategorized, Movement, WellFormed, t
    <3>3. /\ movement'[t] # NoMovement
          /\ movement'[t].account = movement[t].account /\ movement'[t].amount = movement[t].amount
      BY <1>1, <3>1, <3>2 DEF Movement
    <3>4. \A u \in Txs \ {t} : movement'[u] = movement[u]
      BY <1>1, <1>3, <2>2 DEF Types, Recategorized, t
    <3>5. QED
      BY <1>4, <2>2, <3>3, <3>4
  <2>3. QED
    BY <2>1, <2>2
<1>7. \A b \in Accounts : Recomputed(b)' = Recomputed(b) /\ Consistent(b)' = Consistent(b)
  <2>1. ASSUME NEW b \in Accounts
        PROVE  /\ account'[b] = account[b]
               /\ \A u \in Txs : u \in MovementsOf(b)' <=> u \in MovementsOf(b)
               /\ \A u \in MovementsOf(b) : movement'[u].amount = movement[u].amount
    BY <1>2, <1>6 DEF MovementsOf
  <2>2. QED
    BY <2>1, SameEffect
<1>8. LockInv'
  <2>1. LocksServed' /\ MovementsHaveAccounts'
    BY <1>1, <1>2, <1>6 DEF LockInv, LocksServed, MovementsHaveAccounts, Types, Exists
  <2>2. WritersLock'
    BY <1>1, <1>2 DEF LockInv, WritersLock, Types, Job, Exists
  <2>3. QED
    BY <2>1, <2>2 DEF LockInv
<1>9. JobInv'
  <2>1. RegistrationsAreNew'
    BY <1>1, <1>2, <1>3, <1>5, <1>6
       DEF JobInv, RegistrationsAreNew, BalanceAllowed, Types, WellFormed, t
  <2>2. ReadsAreTrue' /\ DeletionsAllowed'
    BY <1>1, <1>2, <1>3, <1>6
       DEF JobInv, ReadsAreTrue, DeletionsAllowed, BalanceAllowed, Registered, Types, WellFormed
  <2>3. RowsLocked'
    BY <1>1, <1>2, <1>6 DEF JobInv, RowsLocked, LocksRow, Types, WellFormed
  <2>4. RecomputationsAreTrue'
    BY <1>1, <1>2, <1>7 DEF JobInv, RecomputationsAreTrue, Types, Job
  <2>5. QED
    BY <2>1, <2>2, <2>3, <2>4 DEF JobInv
<1>10. EventsTellTheTruth'
  BY <1>1, <1>3, <1>5, <1>6 DEF EventsTellTheTruth, Registered
<1>11. StampsAreNew'
  <2>1. StampsBounded'
    BY <1>1, <1>2, <1>3, <1>5, StampTypes DEF StampsAreNew, StampsBounded
  <2>2. LockedStampsAreNew'
    BY <1>1, <1>2, <1>3, <1>5, StampTypes DEF StampsAreNew, StampsBounded, LockedStampsAreNew, Locking, UnderLock
  <2>3. QED
    BY <2>1, <2>2 DEF StampsAreNew
<1>12. BalanceInv'
  BY <1>1, <1>2, <1>7 DEF BalanceInv, BalanceConsistent, NoForbiddenNegative, Exists
<1>13. QED
  BY <1>8, <1>9, <1>10, <1>11, <1>12 DEF Kept

(* The balance loses the amount of the row that goes, or the account has drifted. *)
LEMMA CommitDeleteKeeps ==
  ASSUME IInv, Types', NEW s \in Sessions, CommitDelete(s)
  PROVE  Kept'
<1> PICK j \in Job : j = job[s]
  BY CommitFacts
<1> DEFINE a == j.account
           t == j.tx
           e == EventOf(j, "Deleted", j.read.category)
<1>1. /\ Types /\ LockInv /\ JobInv /\ EventsTellTheTruth /\ StampsAreNew /\ BalanceInv
      /\ Free \notin Sessions /\ NoJob \notin Job /\ NoMovement \notin Movement
  BY MarkersAssumption DEF IInv
<1>2. /\ j # NoJob /\ j \in Job /\ WellFormed(j) /\ j.phase = "flushed" /\ j.op = "delete"
      /\ job'[s] = NoJob /\ \A o \in Sessions \ {s} : job'[o] = job[o]
      /\ \A b \in Accounts : lock'[b] = IF lock[b] = s THEN Free ELSE lock[b]
      /\ \A o \in Sessions \ {s} : job[o] # NoJob /\ UnderLock(job[o]) => job[o].account # a
      /\ UNCHANGED <<clock, nextId>>
  BY CommitFacts DEF CommitDelete, Serves, UnderLock
<1>3. /\ a \in Accounts /\ t \in Txs /\ j.read \in Movement /\ j.read.amount \in Int
      /\ j.balance = j.seen - j.read.amount
  BY <1>2 DEF WellFormed, Job, Movement
<1>4. /\ movement'[t] = NoMovement /\ \A u \in Txs \ {t} : movement'[u] = movement[u]
      /\ BalanceWritten(a, j.balance)
      /\ outbox' = outbox \cup {e}
      /\ drift'[a] = IF Stale(j) THEN "drifted" ELSE drift[a]
      /\ \A b \in Accounts \ {a} : drift'[b] = drift[b]
  BY <1>1, <1>3, WritesBalance DEF CommitDelete, Types
<1>5. /\ e.tx = t /\ e.account = a /\ e.kind = "Deleted" /\ e.at = j.at /\ e.id = j.id
  BY DEF EventOf
<1>6. /\ Registered(t) /\ BalanceAllowed(a, j.balance) /\ Exists(a)
      /\ movement[t] # NoMovement => movement[t].account = a /\ movement[t].amount = j.read.amount
  BY <1>1, <1>2 DEF JobInv, ReadsAreTrue, DeletionsAllowed, LockInv, WritersLock, UnderLock
<1>7. ~Stale(j) => account[a].balance = j.seen /\ movement[t] # NoMovement
  BY DEF Stale
<1>8. ChangesRow(j)
  BY <1>1, <1>2, <1>3 DEF ChangesRow, WellFormed
<1> HIDE DEF a, t, e
<1>9. \A b \in Accounts \ {a} : Recomputed(b)' = Recomputed(b) /\ Consistent(b)' = Consistent(b)
  <2>1. ASSUME NEW b \in Accounts \ {a}
        PROVE  /\ account'[b] = account[b]
               /\ \A u \in Txs : u \in MovementsOf(b)' <=> u \in MovementsOf(b)
               /\ \A u \in MovementsOf(b) : movement'[u].amount = movement[u].amount
    BY <1>3, <1>4, <1>6, <2>1 DEF BalanceWritten, MovementsOf
  <2>2. QED
    BY <2>1, SameEffect
<1>10. LockInv'
  <2>1. LocksServed' /\ MovementsHaveAccounts'
    BY <1>1, <1>2, <1>3, <1>4, <1>6
       DEF LockInv, LocksServed, MovementsHaveAccounts, Types, Exists, BalanceWritten, Movement
  <2>2. WritersLock'
    BY <1>1, <1>2, <1>4 DEF LockInv, WritersLock, Types, Job, Exists, BalanceWritten
  <2>3. QED
    BY <2>1, <2>2 DEF LockInv
<1>11. JobInv'
  <2>1. RegistrationsAreNew'
    BY <1>1, <1>2, <1>4, <1>5, <1>6
       DEF JobInv, RegistrationsAreNew, BalanceAllowed, UnderLock, BalanceWritten, Types, Job, WellFormed, a, t
  <2>2. ReadsAreTrue' /\ DeletionsAllowed'
    BY <1>1, <1>2, <1>4, <1>6
       DEF JobInv, ReadsAreTrue, DeletionsAllowed, BalanceAllowed, Registered, Types, WellFormed
  <2>3. RowsLocked'
    <3>1. ASSUME NEW o \in Sessions, job'[o] # NoJob, job'[o].op = "recategorize",
                 job'[o].phase = "flushed", ChangesRow(job'[o])
          PROVE  movement'[job'[o].tx] # NoMovement
      <4>1. o # s /\ job'[o] = job[o] /\ job[o].tx \in Txs /\ movement[job[o].tx] # NoMovement
        BY <1>1, <1>2, <3>1 DEF JobInv, RowsLocked, Types, WellFormed
      <4>2. job[o].tx # t
        BY <1>1, <1>2, <1>3, <1>8, <3>1, <4>1 DEF JobInv, RowsLocked, LocksRow, t
      <4>3. QED
        BY <1>4, <4>1, <4>2
    <3>2. \A o \in Sessions, u \in Txs : LocksRow(o, u)' => LocksRow(o, u)
      BY <1>1, <1>2, <1>4 DEF LocksRow, ChangesRow
    <3>3. QED
      BY <1>1, <3>1, <3>2 DEF JobInv, RowsLocked
  <2>4. RecomputationsAreTrue'
    BY <1>1, <1>2, <1>9 DEF JobInv, RecomputationsAreTrue, UnderLock, Types, Job
  <2>5. QED
    BY <2>1, <2>2, <2>3, <2>4 DEF JobInv
<1>12. EventsTellTheTruth'
  BY <1>1, <1>3, <1>4, <1>5, <1>6 DEF EventsTellTheTruth, Registered
<1>13. StampsAreNew'
  <2>1. StampsBounded'
    BY <1>1, <1>2, <1>4, <1>5, StampTypes DEF StampsAreNew, StampsBounded
  <2>2. LockedStampsAreNew'
    BY <1>1, <1>2, <1>4, <1>5, StampTypes
       DEF StampsAreNew, StampsBounded, LockedStampsAreNew, Locking, UnderLock, a
  <2>3. QED
    BY <2>1, <2>2 DEF StampsAreNew
<1>14. BalanceInv'
  <2>1. Consistent(a) /\ ~Stale(j) => Consistent(a)'
    <3> SUFFICES ASSUME Consistent(a), ~Stale(j) PROVE Consistent(a)'
      OBVIOUS
    <3>1. /\ \A u \in Txs \ {t} : Effect(a)'[u] = Effect(a)[u]
          /\ Effect(a)[t] = j.read.amount /\ Effect(a)'[t] = 0
      BY <1>1, <1>3, <1>4, <1>6, <1>7 DEF Effect, MovementsOf
    <3>2. account[a].balance \in Int /\ -j.read.amount \in Int
      BY <1>1, <1>3 DEF Types, Account
    <3>3. /\ BalanceWritten(a, account[a].balance + (-j.read.amount))
          /\ Effect(a)'[t] = Effect(a)[t] + (-j.read.amount)
      BY <1>3, <1>4, <1>7, <3>1, <3>2
    <3>4. QED
      BY <1>1, <1>3, <3>1, <3>2, <3>3, BalanceMoves
  <2>2. QED
    BY <1>1, <1>3, <1>4, <1>6, <1>9, <2>1
       DEF BalanceInv, BalanceConsistent, NoForbiddenNegative, BalanceWritten, Exists, BalanceAllowed
<1>15. QED
  BY <1>10, <1>11, <1>12, <1>13, <1>14 DEF Kept

(* The balance becomes the consistent one. *)
LEMMA CommitRecomputeKeeps ==
  ASSUME IInv, Types', NEW s \in Sessions, CommitRecompute(s)
  PROVE  Kept'
<1> PICK j \in Job : j = job[s]
  BY CommitFacts
<1> DEFINE a == j.account
<1>1. /\ Types /\ LockInv /\ JobInv /\ EventsTellTheTruth /\ StampsAreNew /\ BalanceInv
      /\ Free \notin Sessions /\ NoJob \notin Job
  BY MarkersAssumption DEF IInv
<1>2. /\ j # NoJob /\ j.op = "recompute"
      /\ job'[s] = NoJob /\ \A o \in Sessions \ {s} : job'[o] = job[o]
      /\ \A b \in Accounts : lock'[b] = IF lock[b] = s THEN Free ELSE lock[b]
      /\ \A o \in Sessions \ {s} : job[o] # NoJob /\ UnderLock(job[o]) => job[o].account # a
      /\ UNCHANGED <<movement, outbox, clock, nextId>>
  BY CommitFacts DEF CommitRecompute, Serves, UnderLock
<1>3. a \in Accounts
  BY DEF Job
<1>4. /\ BalanceWritten(a, j.balance)
      /\ drift'[a] = IF drift[a] = "drifted" THEN "repaired" ELSE drift[a]
      /\ \A b \in Accounts \ {a} : drift'[b] = drift[b]
  BY <1>1, <1>3, WritesBalance DEF CommitRecompute, Types
<1>5. j.balance = Recomputed(a) /\ Exists(a)
  BY <1>1, <1>2 DEF JobInv, RecomputationsAreTrue, LockInv, WritersLock, UnderLock
<1> HIDE DEF a
<1>6. \A b \in Accounts : Recomputed(b)' = Recomputed(b) /\ Effect(b)' = Effect(b)
  BY <1>2, <1>4 DEF BalanceWritten, Recomputed, Effect, MovementsOf
<1>7. LockInv'
  <2>1. LocksServed' /\ MovementsHaveAccounts'
    BY <1>1, <1>2, <1>4
       DEF LockInv, LocksServed, MovementsHaveAccounts, Types, Exists, BalanceWritten, Movement
  <2>2. WritersLock'
    BY <1>1, <1>2, <1>4 DEF LockInv, WritersLock, Types, Job, Exists, BalanceWritten
  <2>3. QED
    BY <2>1, <2>2 DEF LockInv
<1>8. JobInv'
  <2>1. RegistrationsAreNew'
    BY <1>1, <1>2, <1>4
       DEF JobInv, RegistrationsAreNew, BalanceAllowed, UnderLock, BalanceWritten, Types, Job, a
  <2>2. ReadsAreTrue' /\ DeletionsAllowed'
    BY <1>1, <1>2 DEF JobInv, ReadsAreTrue, DeletionsAllowed, BalanceAllowed, Registered
  <2>3. RowsLocked'
    BY <1>1, <1>2 DEF JobInv, RowsLocked, LocksRow
  <2>4. RecomputationsAreTrue'
    BY <1>1, <1>2, <1>6 DEF JobInv, RecomputationsAreTrue, Types, Job
  <2>5. QED
    BY <2>1, <2>2, <2>3, <2>4 DEF JobInv
<1>9. EventsTellTheTruth'
  BY <1>1, <1>2 DEF EventsTellTheTruth, Registered
<1>10. StampsAreNew'
  BY <1>1, <1>2 DEF StampsAreNew, StampsBounded, LockedStampsAreNew
<1>11. BalanceInv'
  <2>1. Consistent(a)'
    BY <1>1, <1>3, <1>4, <1>5, <1>6, RecomputedConsistent DEF Consistent, BalanceWritten
  <2>2. \A b \in Accounts \ {a} : Consistent(b)' = Consistent(b)
    BY <1>4, <1>6 DEF Consistent, BalanceWritten
  <2>3. Consistent(a) => account'[a].balance = account[a].balance
    BY <1>1, <1>3, <1>4, <1>5, RecomputedConsistent DEF Consistent, BalanceWritten
  <2>4. QED
    BY <1>1, <1>3, <1>4, <1>5, <2>1, <2>2, <2>3
       DEF BalanceInv, BalanceConsistent, NoForbiddenNegative, BalanceWritten, Exists
<1>12. QED
  BY <1>7, <1>8, <1>9, <1>10, <1>11 DEF Kept

-----------------------------------------------------------------------------
(* The invariant holds in every state.                                     *)

(* The first state satisfies the invariant. *)
LEMMA IInvInit == Init => IInv
<1> SUFFICES ASSUME Init PROVE IInv
  OBVIOUS
<1>1. Types
  BY TypesInit
<1>2. LockInv /\ JobInv
  BY MarkersAssumption DEF Init, LockInv, LocksServed, WritersLock, MovementsHaveAccounts,
     JobInv, RegistrationsAreNew, ReadsAreTrue, DeletionsAllowed, RowsLocked, LocksRow,
     RecomputationsAreTrue
<1>3. EventsTellTheTruth /\ StampsAreNew
  BY DEF Init, EventsTellTheTruth, Registered, StampsAreNew, StampsBounded, LockedStampsAreNew
<1>4. BalanceInv
  BY DEF Init, BalanceInv, BalanceConsistent, NoForbiddenNegative, Exists
<1>5. QED
  BY <1>1, <1>2, <1>3, <1>4 DEF IInv

(* Every step keeps the invariant. *)
LEMMA IInvNext == IInv /\ [Next]_vars => IInv'
<1> SUFFICES ASSUME IInv, [Next]_vars PROVE IInv'
  OBVIOUS
<1>1. Types'
  BY TypesNext
<1>2. ASSUME NEW a \in Accounts, NEW o \in Openings, CreateAccount(a, o) PROVE Kept'
  BY <1>1, <1>2, CreateAccountKeeps
<1>3. ASSUME NEW a \in Accounts, ArchiveAccount(a) \/ DeleteAccount(a) PROVE Kept'
  BY <1>1, <1>3, AccountStepKeeps
<1>4. ASSUME NEW s \in Sessions, Rollback(s) \/ RejectRecategorize(s) \/ RejectDelete(s) PROVE Kept'
  BY <1>1, <1>4, EndKeeps DEF Rollback, RejectRecategorize, RejectDelete
<1>5. ASSUME NEW s \in Sessions, Request(s) PROVE Kept'
  BY <1>1, <1>5, RegisterKeeps, ReadKeeps, RecomputeKeeps DEF Request
<1>6. ASSUME NEW s \in Sessions, Continue(s) PROVE Kept'
  BY <1>1, <1>4, <1>6, RecordKeeps, FlushKeeps, CommitRegisterKeeps, CommitRecategorizeKeeps,
     CommitDeleteKeeps, CommitRecomputeKeeps DEF Continue
<1>7. ASSUME UNCHANGED vars PROVE Kept'
  <2>1. LockInv' /\ EventsTellTheTruth' /\ StampsAreNew'
    BY <1>7 DEF IInv, vars, LockInv, LocksServed, WritersLock, MovementsHaveAccounts, Exists,
       EventsTellTheTruth, Registered, StampsAreNew, StampsBounded, LockedStampsAreNew
  <2>2. JobInv'
    BY <1>7 DEF IInv, vars, JobInv, RegistrationsAreNew, BalanceAllowed, ReadsAreTrue, Registered,
       DeletionsAllowed, RowsLocked, LocksRow, RecomputationsAreTrue, Recomputed, MovementsOf
  <2>3. BalanceInv'
    BY <1>7, SameBalance DEF IInv, vars
  <2>4. QED
    BY <2>1, <2>2, <2>3 DEF Kept
<1>8. Kept'
  BY <1>2, <1>3, <1>4, <1>5, <1>6, <1>7 DEF Next
<1>9. QED
  BY <1>1, <1>8 DEF IInv, Kept

(* The invariant holds in every reachable state. *)
THEOREM InductiveInvariant == Spec => []IInv
  BY IInvInit, IInvNext, PTL DEF Spec

-----------------------------------------------------------------------------
(* The types; who holds a row lock serves a request on the account, and no *)
(* movement survives its account.                                          *)
THEOREM TypeCorrect == Spec => []TypeOK
<1>1. IInv => TypeOK
  BY DEF IInv, Types, LockInv, LocksServed, MovementsHaveAccounts, TypeOK
<1>2. QED
  BY <1>1, InductiveInvariant, PTL

(* INV-07, whatever registers, deletes and repairs at once, until a delete *)
(* acts on stale data.                                                     *)
THEOREM BalancesAreConsistent == Spec => []BalanceConsistent
<1>1. IInv => BalanceConsistent
  BY DEF IInv, BalanceInv
<1>2. QED
  BY <1>1, InductiveInvariant, PTL

(* INV-14, for accounts never deleted from on stale data. *)
THEOREM BalancesAreAllowed == Spec => []NoForbiddenNegative
<1>1. IInv => NoForbiddenNegative
  BY DEF IInv, BalanceInv
<1>2. QED
  BY <1>1, InductiveInvariant, PTL

(* ADR-15: the outbox says of every transaction whether it exists. *)
THEOREM OutboxIsTrue == Spec => []OutboxTellsTheTruth
<1>1. IInv => OutboxTellsTheTruth
  <2> SUFFICES ASSUME IInv, NEW t \in Txs
               PROVE  LET of(kind) == {e \in outbox : e.tx = t /\ e.kind = kind} IN
                        /\ Cardinality(of("Added")) <= 1
                        /\ (movement[t] # NoMovement) <=> (of("Added") # {} /\ of("Deleted") = {})
    BY DEF OutboxTellsTheTruth
  <2> DEFINE of(kind) == {e \in outbox : e.tx = t /\ e.kind = kind}
             added == of("Added")
  <2>1. EventsTellTheTruth
    BY DEF IInv
  <2>2. \A e, f \in added : e = f
    BY <2>1 DEF EventsTellTheTruth
  <2>3. Cardinality(added) <= 1
    <3> HIDE DEF added
    <3>1. CASE added = {}
      BY <3>1, FS_EmptySet
    <3>2. ASSUME NEW e \in added PROVE Cardinality(added) <= 1
      <4>1. added = {e}
        BY <2>2
      <4>2. QED
        BY <4>1, FS_Singleton
    <3>3. QED
      BY <3>1, <3>2
  <2>4. (movement[t] # NoMovement) <=> (of("Added") # {} /\ of("Deleted") = {})
    BY <2>1 DEF EventsTellTheTruth, Registered
  <2>5. QED
    BY <2>3, <2>4
<1>2. QED
  BY <1>1, InductiveInvariant, PTL

(* A transaction commits only on an account that is not archived. *)
THEOREM ArchivedAccountsGetNothing == Spec => NothingAddedToArchived
<1> DEFINE A == \A t \in Txs :
                  (movement[t] = NoMovement /\ movement'[t] # NoMovement) =>
                    ~account[movement'[t].account].archived
<1>1. IInv /\ [Next]_vars => A
  <2> SUFFICES ASSUME IInv, Next, NEW t \in Txs, movement[t] = NoMovement, movement'[t] # NoMovement
               PROVE  ~account[movement'[t].account].archived
    BY DEF vars
  <2>1. PICK s \in Sessions : CommitRegister(s) \/ CommitRecategorize(s) \/ CommitDelete(s)
    BY DEF Next, CreateAccount, ArchiveAccount, DeleteAccount, Request, Register, Registers,
       ReadToDelete, ReadToRecategorize, Recompute, Continue, RecordRecategorize, RejectRecategorize,
       LockToDelete, RejectDelete, Flush, CommitRecompute, Rollback
  <2>2. job[s] # NoJob /\ WellFormed(job[s]) /\ Types /\ JobInv
    BY <2>1, CommitFacts DEF IInv
  <2>3. CASE CommitRegister(s)
    BY <2>2, <2>3 DEF CommitRegister, Serves, WellFormed, Types, JobInv, RegistrationsAreNew
  <2>4. CASE CommitRecategorize(s)
    <3>1. ChangesRow(job[s]) => job[s].tx # t
      BY <2>2, <2>4 DEF CommitRecategorize, Serves, JobInv, RowsLocked
    <3>2. movement'[t] = movement[t]
      BY <2>2, <2>4, <3>1 DEF CommitRecategorize, Recategorized, Types
    <3>3. QED
      BY <3>2
  <2>5. CASE CommitDelete(s)
    BY <2>2, <2>5 DEF CommitDelete, Types
  <2>6. QED
    BY <2>1, <2>3, <2>4, <2>5
<1>2. QED
  BY <1>1, InductiveInvariant, PTL DEF Spec, NothingAddedToArchived

(* Registrations and deletions of an account commit their events in the    *)
(* order of their instants and of their identities.                        *)
THEOREM LockOrdersEvents == Spec => LockedEventsInOrder
<1>1. IInv /\ [Next]_vars => InOrder({"Added", "Deleted"})
  <2> SUFFICES ASSUME IInv, Next, NEW e \in outbox' \ outbox, NEW f \in outbox,
                      e.account = f.account, Locking(e), Locking(f)
               PROVE  f.at < e.at /\ f.id < e.id
    BY DEF InOrder, vars, Locking
  <2>1. PICK s \in Sessions : CommitRegister(s) \/ CommitRecategorize(s) \/ CommitDelete(s)
    BY DEF Next, CreateAccount, ArchiveAccount, DeleteAccount, Request, Register, Registers,
       ReadToDelete, ReadToRecategorize, Recompute, Continue, RecordRecategorize, RejectRecategorize,
       LockToDelete, RejectDelete, Flush, CommitRecompute, Rollback
  <2>2. job[s] # NoJob /\ job[s].phase = "flushed" /\ LockedStampsAreNew
    BY <2>1, CommitFacts DEF IInv, StampsAreNew
  <2>3. /\ e.account = job[s].account /\ e.at = job[s].at /\ e.id = job[s].id
        /\ job[s].op \in {"register", "delete"}
    BY <2>1, <2>2 DEF CommitRegister, CommitRecategorize, CommitDelete, EventOf, Serves, Locking
  <2>4. QED
    BY <2>2, <2>3 DEF LockedStampsAreNew
<1>2. QED
  BY <1>1, InductiveInvariant, PTL DEF Spec, LockedEventsInOrder
-----------------------------------------------------------------------------
(* Requests do not wait in a circle, nor for longer than two others: who    *)
(* has the lock of an account can wait for a row at most, and who changes  *)
(* a row has only the commit before it.                                    *)
THEOREM WaitsAlwaysEnd == Spec => []WaitsEnd
<1>1. ASSUME IInv, NEW s \in Sessions, NEW o \in Sessions, WaitsFor(s, o)
      PROVE  job[o] # NoJob /\ (job[o].op = "delete" => job[o].phase # "read")
  <2>1. job[s] \in Job
    BY <1>1 DEF WaitsFor, IInv, Types
  <2>2. CASE lock[job[s].account] = o
    <3>1. job[s].account \in Accounts
      BY <2>1 DEF Job
    <3>2. o # Free
      BY MarkersAssumption
    <3>3. QED
      BY <1>1, <2>2, <3>1, <3>2 DEF IInv, LockInv, LocksServed, UnderLock
  <2>3. CASE LocksRow(o, job[s].tx)
    BY <2>3 DEF LocksRow
  <2>4. QED
    BY <1>1, <2>2, <2>3 DEF WaitsFor
<1>2. ASSUME NEW o \in Sessions, NEW p \in Sessions, WaitsFor(o, p),
             job[o].op = "delete" => job[o].phase # "read"
      PROVE  job[p].phase = "flushed"
  BY <1>2 DEF WaitsFor, LocksRow
<1>3. ASSUME NEW p \in Sessions, NEW q \in Sessions, WaitsFor(p, q) PROVE job[p].phase # "flushed"
  BY <1>3 DEF WaitsFor
<1>4. IInv => WaitsEnd
  BY <1>1, <1>2, <1>3 DEF WaitsEnd
<1>5. QED
  BY <1>4, InductiveInvariant, PTL
=============================================================================
