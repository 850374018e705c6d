-------------------------- MODULE RepositoryProofs --------------------------
(***************************************************************************)
(* Proofs about Repository, for any number of instances, tasks,            *)
(* connections and migrations.                                             *)
(***************************************************************************)
EXTENDS Repository, TLAPS

BootAction(i) ==
  \/ New(i) \/ AcquireMigrationLock(i) \/ LockFails(i) \/ IsMigrationApplied(i)
  \/ ExecuteScript(i) \/ RecordVersion(i) \/ Commit(i) \/ MigrationFails(i)
  \/ Unlock(i) \/ Signal(i)

TaskAction(t) ==
  \/ AskStatement(t) \/ \E l \in Ranges : AskLock(t, l)
  \/ AcquireForLock(t) \/ TryBatchLock(t) \/ TryFails(t) \/ Work(t)
  \/ AcquireForStatement(t) \/ Statement(t) \/ GiveUp(t) \/ UnlockBatch(t)

\* Every step is one of an instance, of a task, or of a session.
LEMMA Steps ==
  ASSUME [Next]_vars
  PROVE  \/ \E i \in Instances : BootAction(i) \/ Close(i) \/ Crash(i)
         \/ \E t \in Tasks : TaskAction(t)
         \/ \E c \in Conns : LoseConn(c) \/ Recycle(c)
         \/ \E l \in Locks : EndGhost(l)
         \/ UNCHANGED vars
BY DEF Next, BootStep, TaskStep, BootAction, TaskAction

-----------------------------------------------------------------------------
(* Types.                                                                  *)

\* A migration that is applied is one of the files of the instance.
MigrationExists ==
  \A i \in Instances :
    /\ boot[i].v >= 1
    /\ boot[i].at \in {"script", "record", "commit"} => boot[i].v <= Files[i]

Typed == TypeOK /\ MigrationExists

LEMMA TypesOfBoot ==
  ASSUME Typed, NEW i \in Instances, BootAction(i)
  PROVE  Typed'
<1> USE FilesAssumption
    DEF Typed, TypeOK, MigrationExists, Opening, Locked, Locks, Goto, At, Release,
        Disown, Session, Pool, Answered, Committed
<1>1. ASSUME NEW to \in {"down", "serve", "stop"} \cup Opening, NEW v \in Nat,
             v >= 1, to \in {"script", "record", "commit"} => v <= Files[i],
             Goto(i, to, v)
      PROVE  /\ boot' \in [Instances -> [at : {"down", "serve", "stop"} \cup Opening,
                                         v : Nat]]
             /\ MigrationExists'
  <2>1. boot' = [boot EXCEPT ![i] = [at |-> to, v |-> v]]
    BY <1>1
  <2>2. /\ boot' \in [Instances -> [at : {"down", "serve", "stop"} \cup Opening,
                                    v : Nat]]
        /\ boot'[i].at = to /\ boot'[i].v = v
        /\ \A j \in Instances \ {i} : boot'[j] = boot[j]
    BY <1>1, <2>1
  <2>3. MigrationExists'
    BY <1>1, <2>2
  <2> QED
    BY <2>2, <2>3
<1>2. boot[i].v \in Nat /\ boot[i].v + 1 \in Nat /\ Files[i] \in Nat
  OBVIOUS
<1>3. CASE New(i)
  <2>1. user' \in [Conns -> Tasks \cup Instances \cup {None}]
    BY <1>3 DEF New
  <2> QED
    BY <1>1, <1>3, <2>1 DEF New
<1>4. CASE AcquireMigrationLock(i) \/ LockFails(i) \/ Signal(i)
  <2>1. /\ timeout' \in BOOLEAN /\ recorded' \subseteq Versions
        /\ ran' \in [Versions -> Nat]
        /\ task' = task
    BY <1>4 DEF AcquireMigrationLock, LockFails, Signal
  <2>4. /\ user' \in [Conns -> Tasks \cup Instances \cup {None}]
        /\ alive' \in [Conns -> BOOLEAN]
        /\ lock' \in [Locks -> Conns \cup {None, Ghost}]
    <3>1. CASE AcquireMigrationLock(i) \/ Signal(i)
      BY <3>1 DEF AcquireMigrationLock, Signal
    <3>2. CASE LockFails(i)
      <4>1. PICK c \in Conns : Release(c)
        BY <3>2 DEF LockFails
      <4>2. lock' = lock \/ lock' = [lock EXCEPT ![Migrations] = Ghost]
        BY <3>2 DEF LockFails
      <4> QED
        BY <4>1, <4>2
    <3> QED
      BY <1>4, <3>1, <3>2
  <2>2. Goto(i, "check", 1) \/ Goto(i, "down", 1) \/ Goto(i, "stop", 1)
    BY <1>4 DEF AcquireMigrationLock, LockFails, Signal
  <2>3. /\ boot' \in [Instances -> [at : {"down", "serve", "stop"} \cup Opening,
                                    v : Nat]]
        /\ MigrationExists'
    BY <1>1, <2>2
  <2> QED
    BY <2>1, <2>3, <2>4
<1>5. CASE IsMigrationApplied(i)
  BY <1>1, <1>2, <1>5 DEF IsMigrationApplied
<1>6. CASE ExecuteScript(i) \/ RecordVersion(i) \/ MigrationFails(i)
  BY <1>1, <1>2, <1>6 DEF ExecuteScript, RecordVersion, MigrationFails
<1>7. CASE Commit(i)
  <2>1. boot[i].v \in Versions
    BY <1>2, <1>7 DEF Commit, Versions
  <2> QED
    BY <1>1, <1>2, <1>7, <2>1 DEF Commit
<1>8. CASE Unlock(i)
  BY <1>1, <1>8 DEF Unlock
<1> QED
  BY <1>3, <1>4, <1>5, <1>6, <1>7, <1>8 DEF BootAction

TaskRecord ==
  [at : {"idle", "acquire", "try", "work", "query", "exec", "unlock"},
   range : Ranges \cup {None}, held : Conns \cup {None}, left : Nat]

\* The records a task moves to have the type.
LEMMA TaskRecords ==
  ASSUME NEW r \in TaskRecord
  PROVE  /\ Idle \in TaskRecord
         /\ [Idle EXCEPT !.at = "query"] \in TaskRecord
         /\ \A l \in Ranges :
              [Idle EXCEPT !.at = "acquire", !.range = l] \in TaskRecord
         /\ \A c \in Conns : [r EXCEPT !.at = "try", !.held = c] \in TaskRecord
         /\ [r EXCEPT !.at = "work", !.left = Calls] \in TaskRecord
         /\ r.left > 0 => [r EXCEPT !.at = "query", !.left = @ - 1] \in TaskRecord
         /\ [r EXCEPT !.at = "work"] \in TaskRecord
         /\ [r EXCEPT !.at = "exec"] \in TaskRecord
         /\ [r EXCEPT !.at = "unlock"] \in TaskRecord
<1>1. Idle \in TaskRecord
  BY DEF Idle, TaskRecord
<1>2. /\ [Idle EXCEPT !.at = "query"] \in TaskRecord
      /\ \A l \in Ranges :
           [Idle EXCEPT !.at = "acquire", !.range = l] \in TaskRecord
  BY <1>1 DEF TaskRecord
<1>3. /\ \A c \in Conns : [r EXCEPT !.at = "try", !.held = c] \in TaskRecord
      /\ [r EXCEPT !.at = "work"] \in TaskRecord
      /\ [r EXCEPT !.at = "exec"] \in TaskRecord
      /\ [r EXCEPT !.at = "unlock"] \in TaskRecord
  BY DEF TaskRecord
<1>4. [r EXCEPT !.at = "work", !.left = Calls] \in TaskRecord
  BY CallsAssumption DEF TaskRecord
<1>5. ASSUME r.left > 0
      PROVE  [r EXCEPT !.at = "query", !.left = @ - 1] \in TaskRecord
  <2>1. r.left \in Nat
    BY DEF TaskRecord
  <2>2. r.left - 1 \in Nat
    BY <1>5, <2>1
  <2>3. \A n \in Nat : [r EXCEPT !.at = "query", !.left = n] \in TaskRecord
    BY DEF TaskRecord
  <2>4. [r EXCEPT !.at = "query", !.left = @ - 1]
          = [r EXCEPT !.at = "query", !.left = r.left - 1]
    BY DEF TaskRecord
  <2> QED
    BY <2>2, <2>3, <2>4
<1> QED
  BY <1>1, <1>2, <1>3, <1>4, <1>5

\* Where the task is, or moves to.
LEMMA TaskMoves ==
  ASSUME TypeOK, NEW t \in Tasks, TaskAction(t)
  PROVE  task' \in [Tasks -> TaskRecord]
<1>1. task \in [Tasks -> TaskRecord] /\ task[t] \in TaskRecord
  BY DEF TypeOK, TaskRecord
<1>2. ASSUME NEW r \in TaskRecord, task' = [task EXCEPT ![t] = r]
      PROVE  task' \in [Tasks -> TaskRecord]
  BY <1>1, <1>2
<1>3. CASE AskStatement(t)
  BY <1>1, <1>2, <1>3, TaskRecords DEF AskStatement, Move
<1>4. CASE \E l \in Ranges : AskLock(t, l)
  BY <1>1, <1>2, <1>4, TaskRecords DEF AskLock, Move
<1>5. CASE AcquireForLock(t)
  BY <1>1, <1>2, <1>5, TaskRecords DEF AcquireForLock, Move
<1>6. CASE TryBatchLock(t)
  BY <1>1, <1>2, <1>6, TaskRecords DEF TryBatchLock, Move
<1>7. CASE TryFails(t) \/ UnlockBatch(t)
  BY <1>1, <1>2, <1>7, TaskRecords DEF TryFails, UnlockBatch, Move
<1>8. CASE Work(t)
  BY <1>1, <1>2, <1>8, TaskRecords DEF Work, Move
<1>9. CASE AcquireForStatement(t) \/ GiveUp(t)
  BY <1>1, <1>2, <1>9, TaskRecords DEF AcquireForStatement, GiveUp, Move
<1>10. CASE Statement(t)
  BY <1>1, <1>2, <1>10, TaskRecords DEF Statement, After, Move
<1> QED
  BY <1>3, <1>4, <1>5, <1>6, <1>7, <1>8, <1>9, <1>10 DEF TaskAction

LEMMA TypesOfTasks ==
  ASSUME Typed, NEW t \in Tasks, TaskAction(t)
  PROVE  Typed'
<1>1. /\ timeout' = timeout /\ boot' = boot /\ recorded' = recorded /\ ran' = ran
      /\ user' \in [Conns -> Tasks \cup Instances \cup {None}]
      /\ alive' \in [Conns -> BOOLEAN]
      /\ lock' \in [Locks -> Conns \cup {None, Ghost}]
  <2> USE DEF Typed, TypeOK, Locks, Acquire, Release, Disown
  <2>1. CASE AskStatement(t) \/ \E l \in Ranges : AskLock(t, l)
    BY <2>1 DEF AskStatement, AskLock
  <2>2. CASE AcquireForLock(t) \/ AcquireForStatement(t)
    BY <2>2 DEF AcquireForLock, AcquireForStatement
  <2>3. CASE TryBatchLock(t)
    BY <2>3 DEF TryBatchLock
  <2>4. CASE TryFails(t)
    BY <2>4 DEF TryFails
  <2>5. CASE Work(t) \/ GiveUp(t)
    BY <2>5 DEF Work, GiveUp
  <2>6. CASE Statement(t)
    BY <2>6 DEF Statement, StatementConn
  <2>7. CASE UnlockBatch(t)
    BY <2>7 DEF UnlockBatch
  <2> QED
    BY <2>1, <2>2, <2>3, <2>4, <2>5, <2>6, <2>7 DEF TaskAction
<1>2. task' \in [Tasks -> TaskRecord]
  BY TaskMoves DEF Typed
<1> QED
  BY <1>1, <1>2 DEF Typed, TypeOK, MigrationExists, TaskRecord

LEMMA TypesKept ==
  ASSUME Typed, [Next]_vars
  PROVE  Typed'
<1> USE PoolAssumption DEF Typed, TypeOK, MigrationExists, Locks, Disown
<1>1. CASE \E i \in Instances : BootAction(i)
  BY <1>1, TypesOfBoot
<1>2. CASE \E i \in Instances : Close(i)
  BY <1>2 DEF Close, At, Goto, Pool
<1>3. CASE \E i \in Instances : Crash(i)
  BY <1>3 DEF Crash, At, Goto, Pool, Idle
<1>4. CASE \E t \in Tasks : TaskAction(t)
  BY <1>4, TypesOfTasks
<1>5. CASE \/ \E c \in Conns : LoseConn(c) \/ Recycle(c)
           \/ \E l \in Locks : EndGhost(l)
           \/ UNCHANGED vars
  BY <1>5 DEF LoseConn, Recycle, EndGhost, vars
<1> QED
  BY <1>1, <1>2, <1>3, <1>4, <1>5, Steps

LEMMA TypesHold == Spec => []Typed
<1>1. Init => Typed
  BY TimeoutsAssumption, CallsAssumption, PoolAssumption
  DEF Init, Typed, TypeOK, MigrationExists, Locks, Idle, Opening, Locked
<1> QED
  BY <1>1, TypesKept, PTL DEF Spec

\* Every variable of the repository keeps its type.
THEOREM TypeCorrect == Spec => []TypeOK
BY TypesHold, PTL DEF Typed
-----------------------------------------------------------------------------
(* Connections.                                                            *)

\* New has one connection of its instance while it runs.
OneSession ==
  /\ \A c \in Conns : user[c] \in Instances =>
       Home[c] = user[c] /\ boot[user[c]].at \in Opening
  /\ \A i \in Instances : boot[i].at \in Opening => \E c \in Conns : user[c] = i
  /\ \A c, d \in Conns : user[c] \in Instances /\ user[c] = user[d] => c = d

\* A task has the connection of its lock and at most one other, of its instance.
TaskConns ==
  /\ \A c \in Conns : user[c] \in Tasks =>
       /\ Home[user[c]] = Home[c]
       /\ task[user[c]].held = c \/ task[user[c]].at = "exec"
  /\ \A c, d \in Conns :
       user[c] \in Tasks /\ user[c] = user[d] /\ task[user[c]].held \notin {c, d}
         => c = d
  /\ \A t \in Tasks, c \in Conns : task[t].held = c => user[c] = t

\* Where a task has a lock connection and a range; there are no tasks before the
\* migrations are done.
TaskShape ==
  /\ \A t \in Tasks :
       /\ task[t].at \in {"try", "work", "unlock"} => task[t].held \in Conns
       /\ task[t].at \in {"idle", "acquire"} => task[t].held = None
       /\ task[t].held # None \/ task[t].at = "acquire" => task[t].range \in Ranges
  /\ \A t \in Tasks : boot[Home[t]].at \notin {"serve", "stop"} => task[t] = Idle

PoolInv == OneSession /\ TaskConns /\ TaskShape

LEMMA PoolKeptByBoot ==
  ASSUME Typed, PoolInv, NEW i \in Instances, BootAction(i) \/ Close(i) \/ Crash(i)
  PROVE  PoolInv'
<1> USE PoolAssumption
    DEF Typed, TypeOK, PoolInv, OneSession, TaskConns, TaskShape, Opening, Locked,
        Goto, At, Session
<1>1. CASE \/ AcquireMigrationLock(i) \/ IsMigrationApplied(i) \/ ExecuteScript(i)
           \/ RecordVersion(i) \/ Commit(i) \/ MigrationFails(i) \/ Signal(i)
  <2>1. /\ user' = user /\ task' = task
        /\ \A j \in Instances \ {i} : boot'[j] = boot[j]
        /\ \/ boot[i].at \in Opening /\ boot'[i].at \in Opening
           \/ boot[i].at = "serve" /\ boot'[i].at = "stop"
    BY <1>1 DEF AcquireMigrationLock, IsMigrationApplied, ExecuteScript, RecordVersion,
                Commit, Committed, Answered, MigrationFails, Signal
  <2>5. \A j \in Instances : boot'[j].at \in Opening <=> boot[j].at \in Opening
    BY <2>1
  <2>2. OneSession'
    <3>1. \A c \in Conns : user'[c] \in Instances =>
            Home[c] = user'[c] /\ boot'[user'[c]].at \in Opening
      BY <2>1, <2>5
    <3>2. \A j \in Instances : boot'[j].at \in Opening =>
            \E c \in Conns : user'[c] = j
      BY <2>1, <2>5
    <3>3. \A c, d \in Conns : user'[c] \in Instances /\ user'[c] = user'[d] => c = d
      BY <2>1
    <3> QED
      BY <3>1, <3>2, <3>3
  <2>3. TaskConns'
    BY <2>1
  <2>4. TaskShape'
    BY <2>1
  <2> QED
    BY <2>2, <2>3, <2>4
<1>2. CASE New(i)
  <2>1. PICK c \in Conns : Home[c] = i /\ user' = [user EXCEPT ![c] = i]
    BY <1>2 DEF New, Pool
  <2>2. /\ task' = task /\ boot[i].at = "down" /\ boot'[i].at = "lock"
        /\ \A j \in Instances \ {i} : boot'[j] = boot[j]
    BY <1>2 DEF New
  <2>7. \A t \in Tasks : Home[t] = i => task[t].held = None /\ task[t].at = "idle"
    BY <2>2 DEF Idle
  <2>8. \A d \in Conns : user[d] # i
    BY <2>2
  <2>9. user[c] \notin Tasks
    BY <2>1, <2>7
  <2>3. user[c] = None /\ \A d \in Conns : user[d] # i
    BY <2>1, <2>8, <2>9
  <2>4. OneSession'
    BY <2>1, <2>2, <2>3
  <2>5. TaskConns'
    BY <2>1, <2>2, <2>3
  <2>6. TaskShape'
    BY <2>2
  <2> QED
    BY <2>4, <2>5, <2>6
<1>3. CASE LockFails(i) \/ Unlock(i)
  <2>1. PICK c \in Conns : user[c] = i /\ user' = [user EXCEPT ![c] = None]
    BY <1>3 DEF LockFails, Unlock, Release
  <2>2. /\ task' = task /\ boot[i].at \in Opening /\ boot'[i].at \in {"serve", "down"}
        /\ \A j \in Instances \ {i} : boot'[j] = boot[j]
    BY <1>3 DEF LockFails, Unlock
  <2>3. OneSession'
    BY <2>1, <2>2
  <2>4. TaskConns'
    BY <2>1, <2>2
  <2>5. TaskShape'
    BY <2>2
  <2> QED
    BY <2>3, <2>4, <2>5
<1>4. CASE Close(i)
  BY <1>4 DEF Close
<1>5. CASE Crash(i)
  BY <1>5 DEF Crash, Idle
<1> QED
  BY <1>1, <1>2, <1>3, <1>4, <1>5 DEF BootAction

\* A task goes to r and takes or returns connections; they fit r.
Fits(t, r) ==
  /\ r.at \in {"try", "work", "unlock"} => r.held \in Conns
  /\ r.at \in {"idle", "acquire"} => r.held = None
  /\ r.held # None \/ r.at = "acquire" => r.range \in Ranges
  /\ r # Idle => boot[Home[t]].at \in {"serve", "stop"}
  /\ \A d \in Conns :
       /\ user'[d] = t => r.held = d \/ r.at = "exec"
       /\ r.held = d => user'[d] = t
  /\ \A d, e \in Conns :
       user'[d] = t /\ user'[e] = t /\ r.held \notin {d, e} => d = e

OwnConns(t) ==
  \A d \in Conns :
    \/ user'[d] = user[d]
    \/ user[d] = None /\ user'[d] = t /\ Home[d] = Home[t]
    \/ user[d] = t /\ user'[d] = None

LEMMA PoolKeptByTask ==
  ASSUME Typed, PoolInv, NEW t \in Tasks, NEW r \in TaskRecord, boot' = boot,
         task' = [task EXCEPT ![t] = r], OwnConns(t), Fits(t, r)
  PROVE  PoolInv'
<1> USE PoolAssumption DEF Typed, TypeOK, PoolInv
<1>1. /\ \A u \in Tasks \ {t} : task'[u] = task[u]
      /\ task'[t] = r
  OBVIOUS
<1>2. \A d \in Conns, x \in Tasks \cup Instances :
        x # t => (user'[d] = x <=> user[d] = x)
  BY DEF OwnConns
<1>3. OneSession'
  <2>1. \A d \in Conns, i \in Instances : user'[d] = i <=> user[d] = i
    BY <1>2
  <2> QED
    BY <2>1 DEF OneSession
<1>4. TaskConns'
  <2>1. \A d \in Conns : user'[d] \in Tasks => Home[user'[d]] = Home[d]
    BY <1>2 DEF TaskConns, OwnConns
  <2>2. \A d \in Conns : user'[d] \in Tasks =>
          task'[user'[d]].held = d \/ task'[user'[d]].at = "exec"
    BY <1>1, <1>2 DEF TaskConns, Fits
  <2>3. \A d, e \in Conns :
          user'[d] \in Tasks /\ user'[d] = user'[e]
            /\ task'[user'[d]].held \notin {d, e} => d = e
    <3>1. SUFFICES ASSUME NEW d \in Conns, NEW e \in Conns, user'[d] \in Tasks,
                          user'[d] = user'[e], task'[user'[d]].held \notin {d, e}
                   PROVE  d = e
      OBVIOUS
    <3>2. CASE user'[d] = t
      BY <1>1, <3>1, <3>2 DEF Fits
    <3>3. CASE user'[d] # t
      BY <1>1, <1>2, <3>1, <3>3 DEF TaskConns
    <3> QED
      BY <3>2, <3>3
  <2>4. \A u \in Tasks, d \in Conns : task'[u].held = d => user'[d] = u
    BY <1>1, <1>2 DEF TaskConns, Fits
  <2> QED
    BY <2>1, <2>2, <2>3, <2>4 DEF TaskConns
<1>5. TaskShape'
  BY <1>1 DEF TaskShape, Fits
<1> QED
  BY <1>3, <1>4, <1>5

LEMMA PoolKeptByTasks ==
  ASSUME Typed, PoolInv, NEW t \in Tasks, TaskAction(t)
  PROVE  PoolInv'
<1>1. /\ task \in [Tasks -> TaskRecord] /\ task[t] \in TaskRecord
      /\ user \in [Conns -> Tasks \cup Instances \cup {None}]
      /\ None \notin Tasks \cup Conns
  BY PoolAssumption DEF Typed, TypeOK, TaskRecord
<1>2. /\ task[t].at \in {"try", "work", "unlock"} => task[t].held \in Conns
      /\ task[t].at \in {"idle", "acquire"} => task[t].held = None
      /\ task[t].held # None \/ task[t].at = "acquire" => task[t].range \in Ranges
      /\ task[t] # Idle => boot[Home[t]].at \in {"serve", "stop"}
      /\ \A d \in Conns : user[d] = t => task[t].held = d \/ task[t].at = "exec"
      /\ \A d \in Conns : task[t].held = d => user[d] = t
      /\ task[t].held \in Conns \cup {None}
  BY <1>1, PoolAssumption DEF Typed, TypeOK, PoolInv, TaskShape, TaskConns
<1>3. ASSUME NEW r, task' = [task EXCEPT ![t] = r], boot' = boot, OwnConns(t),
             Fits(t, task'[t])
      PROVE  PoolInv'
  <2>1. r \in TaskRecord /\ task'[t] = r
    BY <1>1, <1>3, TaskMoves DEF Typed
  <2> QED
    BY <1>3, <2>1, PoolKeptByTask
<1>4. Idle.at = "idle" /\ Idle.held = None
  BY DEF Idle
<1> USE <1>1, <1>2, <1>4 DEF Fits, OwnConns
<1>5. ASSUME UNCHANGED <<boot, user>>, task[t].at = "idle",
             boot[Home[t]].at = "serve", NEW r, task' = [task EXCEPT ![t] = r],
             r.at \in {"query", "acquire"}, r.held = None,
             r.at = "acquire" => r.range \in Ranges
      PROVE  PoolInv'
  <2>1. task'[t] = r
    BY <1>5
  <2>2. Fits(t, task'[t])
    BY <1>5, <2>1
  <2> QED
    BY <1>3, <1>5, <2>2
<1>6. CASE AskStatement(t)
  <2> DEFINE r == [Idle EXCEPT !.at = "query"]
  <2>1. r.at = "query" /\ r.held = None
    BY DEF Idle
  <2>2. /\ UNCHANGED <<boot, user>> /\ task[t].at = "idle"
        /\ boot[Home[t]].at = "serve" /\ task' = [task EXCEPT ![t] = r]
    BY <1>6 DEF AskStatement, Live, At, Move
  <2> HIDE DEF r
  <2> QED
    BY <1>5, <2>1, <2>2
<1>7. ASSUME NEW l \in Ranges, AskLock(t, l)
       PROVE  PoolInv'
  <2> DEFINE r == [Idle EXCEPT !.at = "acquire", !.range = l]
  <2>1. r.at = "acquire" /\ r.held = None /\ r.range = l
    BY DEF Idle
  <2>2. /\ UNCHANGED <<boot, user>> /\ task[t].at = "idle"
        /\ boot[Home[t]].at = "serve" /\ task' = [task EXCEPT ![t] = r]
    BY <1>7 DEF AskLock, Live, At, Move
  <2> HIDE DEF r
  <2> QED
    BY <1>5, <1>7, <2>1, <2>2
<1>8. CASE AcquireForLock(t)
  <2>1. PICK d \in Conns : /\ Acquire(d, t)
                           /\ Move(t, "acquire", [task[t] EXCEPT !.at = "try", !.held = d])
    BY <1>8, Zenon DEF AcquireForLock
  <2>2. \A e \in Conns : user[e] # t
    BY <2>1 DEF Move
  <2>3. OwnConns(t) /\ \A e \in Conns : user'[e] = t <=> e = d
    BY <2>1, <2>2 DEF Acquire
  <2>4. /\ task'[t].at = "try" /\ task'[t].held = d
        /\ task'[t].range \in Ranges /\ boot' = boot
        /\ boot[Home[t]].at \in {"serve", "stop"}
    BY <1>8, <2>1 DEF AcquireForLock, Move, TaskRecord
  <2>5. Fits(t, task'[t])
    BY <2>3, <2>4
  <2>6. PICK r : task' = [task EXCEPT ![t] = r]
    BY <2>1 DEF Move
  <2> QED
    BY <1>3, <2>3, <2>4, <2>5, <2>6
<1>9. ASSUME Release(task[t].held), task' = [task EXCEPT ![t] = Idle],
             task[t].at \in {"try", "unlock"}, boot' = boot
      PROVE  PoolInv'
  <2>1. OwnConns(t) /\ \A e \in Conns : user'[e] # t
    BY <1>9 DEF Release
  <2>2. task'[t] = Idle
    BY <1>9
  <2>3. Fits(t, task'[t])
    BY <2>1, <2>2
  <2> QED
    BY <1>3, <1>9, <2>1, <2>3
<1>10. ASSUME UNCHANGED <<user, boot>>, task[t].at \in {"try", "work"},
             NEW r, task' = [task EXCEPT ![t] = r],
             r.at \in {"work", "query", "unlock"}, r.held = task[t].held,
             r.range = task[t].range
      PROVE  PoolInv'
  <2>1. task'[t] = r /\ task[t].held \in Conns
    BY <1>10
  <2>2. Fits(t, task'[t])
    BY <1>10, <2>1
  <2> QED
    BY <1>3, <1>10, <2>2
<1>11. CASE TryBatchLock(t)
  <2>1. boot' = boot /\ task[t].at = "try"
    BY <1>11 DEF TryBatchLock
  <2>2. CASE Move(t, "try", [task[t] EXCEPT !.at = "work", !.left = Calls])
             /\ UNCHANGED user
    <3> DEFINE r == [task[t] EXCEPT !.at = "work", !.left = Calls]
    <3>1. r.at = "work" /\ r.held = task[t].held /\ r.range = task[t].range
      BY DEF TaskRecord
    <3>2. task' = [task EXCEPT ![t] = r]
      BY <2>2 DEF Move
    <3> HIDE DEF r
    <3> QED
      BY <1>10, <2>1, <2>2, <3>1, <3>2
  <2>3. CASE Move(t, "try", Idle) /\ Release(task[t].held)
    BY <1>9, <2>1, <2>3 DEF Move
  <2> QED
    BY <1>11, <2>2, <2>3 DEF TryBatchLock
<1>12. CASE TryFails(t) \/ UnlockBatch(t)
  BY <1>9, <1>12 DEF TryFails, UnlockBatch, Move
<1>13. CASE Work(t)
  <2>1. UNCHANGED <<user, boot>> /\ task[t].at = "work"
    BY <1>13 DEF Work, Move
  <2>2. PICK r : task' = [task EXCEPT ![t] = r]
    BY <1>13 DEF Work, Move
  <2>3. /\ task'[t].at \in {"query", "unlock"} /\ task'[t].held = task[t].held
        /\ task'[t].range = task[t].range
    <3>1. CASE Move(t, "work", [task[t] EXCEPT !.at = "query", !.left = @ - 1])
      BY <3>1 DEF Move, TaskRecord
    <3>2. CASE Move(t, "work", [task[t] EXCEPT !.at = "unlock"])
      BY <3>2 DEF Move, TaskRecord
    <3> QED
      BY <1>13, <3>1, <3>2, Zenon DEF Work
  <2>4. task'[t] = r
    BY <2>2
  <2> QED
    BY <1>10, <2>1, <2>2, <2>3, <2>4
<1>14. CASE AcquireForStatement(t)
  <2>1. PICK d \in Conns : Acquire(d, t)
    BY <1>14 DEF AcquireForStatement
  <2>2. PICK r : task' = [task EXCEPT ![t] = r]
    BY <1>14 DEF AcquireForStatement, Move
  <2>3. /\ boot' = boot /\ task[t].at = "query" /\ task'[t].at = "exec"
        /\ task'[t].held = task[t].held /\ task'[t].range = task[t].range
    BY <1>14 DEF AcquireForStatement, Move, TaskRecord
  <2>4. OwnConns(t) /\ \A e \in Conns : user'[e] = t <=> e = d \/ e = task[t].held
    BY <2>1, <2>3 DEF Acquire
  <2>5. Fits(t, task'[t])
    BY <2>3, <2>4
  <2> QED
    BY <1>3, <2>2, <2>3, <2>4, <2>5
<1>15. CASE Statement(t)
  <2>1. PICK d \in StatementConn(t) : Release(d)
    BY <1>15 DEF Statement
  <2>2. /\ boot' = boot /\ task[t].at = "exec"
        /\ task' = [task EXCEPT ![t] = After(t)]
    BY <1>15 DEF Statement, Move
  <2>3. \A e \in Conns : user[e] = t => e = d \/ e = task[t].held
    BY <2>1 DEF StatementConn, PoolInv, TaskConns
  <2>4. OwnConns(t) /\ \A e \in Conns : user'[e] = t <=> e = task[t].held
    BY <2>1, <2>3 DEF Release, StatementConn
  <2>5. Fits(t, task'[t])
    <3>1. CASE task[t].held = None
      <4>1. task'[t] = Idle
        BY <2>2, <3>1 DEF After
      <4> QED
        BY <2>4, <3>1, <4>1
    <3>2. CASE task[t].held # None
      <4>1. /\ task'[t].at = "work" /\ task'[t].held = task[t].held
            /\ task'[t].range = task[t].range
        BY <2>2, <3>2 DEF After, TaskRecord
      <4> QED
        BY <2>2, <2>4, <3>2, <4>1
    <3> QED
      BY <3>1, <3>2
  <2> QED
    BY <1>3, <2>2, <2>4, <2>5
<1>16. CASE GiveUp(t)
  <2>1. UNCHANGED <<user, boot>> /\ task[t].at \in {"query", "acquire"}
    BY <1>16 DEF GiveUp, Move
  <2>2. PICK r : task' = [task EXCEPT ![t] = r]
    BY <1>16 DEF GiveUp, Move
  <2>3. \/ task[t].held = None /\ task'[t] = Idle
        \/ /\ task[t].held # None /\ task'[t].at = "unlock"
           /\ task'[t].held = task[t].held /\ task'[t].range = task[t].range
    BY <1>16 DEF GiveUp, Move, TaskRecord
  <2>4. Fits(t, task'[t])
    BY <2>1, <2>3
  <2> QED
    BY <1>3, <2>1, <2>2, <2>4
<1> QED
  BY <1>6, <1>7, <1>8, <1>11, <1>12, <1>13, <1>14, <1>15, <1>16 DEF TaskAction

LEMMA PoolKept ==
  ASSUME Typed, PoolInv, [Next]_vars
  PROVE  PoolInv'
<1>1. CASE \E i \in Instances : BootAction(i) \/ Close(i) \/ Crash(i)
  BY <1>1, PoolKeptByBoot
<1>2. CASE \E t \in Tasks : TaskAction(t)
  BY <1>2, PoolKeptByTasks
<1>3. CASE \/ \E c \in Conns : LoseConn(c) \/ Recycle(c)
           \/ \E l \in Locks : EndGhost(l)
           \/ UNCHANGED vars
  <2>1. UNCHANGED <<boot, user, task>>
    BY <1>3 DEF LoseConn, Recycle, EndGhost, vars
  <2> QED
    BY <2>1 DEF PoolInv, OneSession, TaskConns, TaskShape
<1> QED
  BY <1>1, <1>2, <1>3, Steps

LEMMA PoolHolds == Spec => [](Typed /\ PoolInv)
<1>1. Init => PoolInv
  BY PoolAssumption
  DEF Init, PoolInv, OneSession, TaskConns, TaskShape, Idle, Opening, Locked
<1>2. Typed /\ PoolInv /\ [Next]_vars => PoolInv'
  BY PoolKept
<1> QED
  BY <1>1, <1>2, TypesHold, PTL DEF Spec

\* AcquireBatchLock, runMigrations and every statement return what they acquire:
\* a connection that is acquired has one user that is going to release it.
THEOREM ConnectionsAccounted == Spec => []ConnsAccounted
<1>1. Typed /\ PoolInv => ConnsAccounted
  BY DEF Typed, TypeOK, PoolInv, OneSession, TaskConns, ConnsAccounted, HeldBy
<1> QED
  BY <1>1, PoolHolds, PTL

-----------------------------------------------------------------------------
(* Migrations.                                                             *)

\* New has the migration lock as long as its session lives.
LockOwned ==
  \A i \in Instances, c \in Conns :
    boot[i].at \in Locked /\ user[c] = i /\ alive[c] => lock[Migrations] = c

\* The migrations before the one that is next are applied.
EarlierApplied ==
  \A i \in Instances : boot[i].at \in {"check", "script", "record", "commit"} =>
    \A v \in Nat : 1 <= v /\ v < boot[i].v => v \in recorded

\* The one that is being applied is not, if its transaction can still commit.
NextOpen ==
  \A i \in Instances, c \in Conns :
    boot[i].at \in {"script", "record", "commit"} /\ user[c] = i /\ alive[c]
      => boot[i].v \notin recorded

Migrated ==
  \A i \in Instances : boot[i].at \in {"unlock", "serve", "stop"} =>
    \A v \in Nat : 1 <= v /\ v <= Files[i] => v \in recorded

SchemaInv ==
  LockOwned /\ EarlierApplied /\ NextOpen /\ Migrated /\ AppliedOnceInOrder

\* What leaves the sessions of New and their lock alone keeps the schema.
LEMMA SchemaKeptElsewhere ==
  ASSUME Typed, SchemaInv, UNCHANGED <<boot, recorded, ran>>,
         \A d \in Conns : user'[d] \in Instances /\ alive'[d] =>
           /\ user'[d] = user[d] /\ alive[d]
           /\ lock[Migrations] = d => lock'[Migrations] = d
  PROVE  SchemaInv'
<1>1. LockOwned'
  BY DEF SchemaInv, LockOwned
<1>2. NextOpen'
  BY DEF SchemaInv, NextOpen
<1>3. EarlierApplied' /\ Migrated' /\ AppliedOnceInOrder'
  BY DEF SchemaInv, EarlierApplied, Migrated, AppliedOnceInOrder
<1> QED
  BY <1>1, <1>3, <1>2 DEF SchemaInv

LEMMA SchemaKeptByTasks ==
  ASSUME Typed, PoolInv, SchemaInv, NEW t \in Tasks, TaskAction(t)
  PROVE  SchemaInv'
<1> USE PoolAssumption, LockAssumption DEF Typed, TypeOK, Locks
<1>1. /\ task[t].at \in {"try", "unlock"} =>
           /\ task[t].held \in Conns /\ user[task[t].held] = t
           /\ task[t].range # Migrations
      /\ t \notin Instances
  <2>1. /\ task[t].at \in {"try", "unlock"} => task[t].held \in Conns
        /\ task[t].held # None => task[t].range \in Ranges
    BY DEF PoolInv, TaskShape
  <2>2. \A d \in Conns : task[t].held = d => user[d] = t
    BY DEF PoolInv, TaskConns
  <2>3. None \notin Conns /\ t \notin Instances /\ Migrations \notin Ranges
    OBVIOUS
  <2> QED
    BY <2>1, <2>2, <2>3
<1>2. boot' = boot /\ recorded' = recorded /\ ran' = ran
  BY Zenon DEF TaskAction, AskStatement, AskLock, AcquireForLock, TryBatchLock, TryFails,
         Work, AcquireForStatement, Statement, GiveUp, UnlockBatch
<1>3. ASSUME NEW d \in Conns, user'[d] \in Instances, alive'[d]
      PROVE  /\ user'[d] = user[d] /\ alive[d]
             /\ lock[Migrations] = d => lock'[Migrations] = d
  <2> USE <1>1, <1>3
  <2>1. CASE \/ AskStatement(t) \/ \E l \in Ranges : AskLock(t, l)
             \/ Work(t) \/ GiveUp(t)
    <3>1. user' = user /\ alive' = alive /\ lock' = lock
      BY <2>1, Zenon DEF AskStatement, AskLock, Work, GiveUp
    <3> QED
      BY <3>1
  <2>2. CASE AcquireForLock(t) \/ AcquireForStatement(t)
    <3>1. alive' = alive /\ lock' = lock /\ \E c \in Conns : Acquire(c, t)
      BY <2>2, Zenon DEF AcquireForLock, AcquireForStatement
    <3>2. \A c \in Conns : user'[c] \in {user[c], t}
      BY <3>1 DEF Acquire
    <3> QED
      BY <3>1, <3>2
  <2>3. CASE TryBatchLock(t)
    <3>1. task[t].at = "try"
      BY <2>3 DEF TryBatchLock
    <3>2. CASE UNCHANGED <<user, alive>>
               /\ lock' = [lock EXCEPT ![task[t].range] = task[t].held]
      BY <3>1, <3>2
    <3>3. CASE Release(task[t].held) /\ UNCHANGED lock
      BY <3>1, <3>3 DEF Release
    <3> QED
      BY <2>3, <3>2, <3>3 DEF TryBatchLock
  <2>4. CASE TryFails(t)
    <3>1. task[t].at = "try" /\ Release(task[t].held)
      BY <2>4 DEF TryFails, Move
    <3>2. lock[Migrations] # task[t].held => lock'[Migrations] = lock[Migrations]
      BY <2>4, <3>1 DEF TryFails, Disown
    <3> QED
      BY <3>1, <3>2 DEF Release
  <2>5. CASE Statement(t)
    <3>1. PICK c \in StatementConn(t) :
            /\ Release(c)
            /\ UNCHANGED lock \/ \E new \in {None, Ghost} : Disown({c}, new)
      BY <2>5 DEF Statement
    <3>2. c \in Conns /\ user[c] = t
      BY <3>1 DEF StatementConn
    <3>3. lock[Migrations] # c => lock'[Migrations] = lock[Migrations]
      BY <3>1 DEF Disown
    <3> QED
      BY <3>1, <3>2, <3>3 DEF Release
  <2>6. CASE UnlockBatch(t)
    <3>1. task[t].at = "unlock" /\ Release(task[t].held)
      BY <2>6 DEF UnlockBatch, Move
    <3>2. lock'[Migrations] = lock[Migrations]
      BY <2>6, <3>1 DEF UnlockBatch
    <3> QED
      BY <3>1, <3>2 DEF Release
  <2> QED
    BY <2>1, <2>2, <2>3, <2>4, <2>5, <2>6 DEF TaskAction
<1> QED
  BY <1>2, <1>3, SchemaKeptElsewhere

LEMMA SchemaKeptBySessions ==
  ASSUME Typed, SchemaInv,
         \/ \E c \in Conns : LoseConn(c) \/ Recycle(c)
         \/ \E l \in Locks : EndGhost(l)
         \/ UNCHANGED vars
  PROVE  SchemaInv'
<1> USE PoolAssumption DEF Typed, TypeOK, Locks
<1>1. ASSUME NEW c \in Conns, LoseConn(c) PROVE SchemaInv'
  BY <1>1, SchemaKeptElsewhere DEF LoseConn, Disown, SchemaInv, LockOwned
<1>2. ASSUME NEW c \in Conns, Recycle(c) PROVE SchemaInv'
  BY <1>2, SchemaKeptElsewhere DEF Recycle, Disown
<1>3. ASSUME NEW l \in Locks, EndGhost(l) PROVE SchemaInv'
  BY <1>3, SchemaKeptElsewhere DEF EndGhost
<1>4. CASE UNCHANGED vars
  BY <1>4, SchemaKeptElsewhere DEF vars
<1> QED
  BY <1>1, <1>2, <1>3, <1>4

LEMMA NextNumber == \A m, n \in Nat : m < n + 1 => m < n \/ m = n
OBVIOUS

\* What a start, stop or crash of i must show: its own part of the invariant, and
\* that the sessions of others are left alone.
LEMMA SchemaKeptByOne ==
  ASSUME Typed, SchemaInv, NEW i \in Instances,
         \A j \in Instances \ {i} : boot'[j] = boot[j],
         recorded' = recorded, ran' = ran,
         \A d \in Conns : user'[d] \in Instances \ {i} /\ alive'[d] =>
           /\ user'[d] = user[d] /\ alive[d]
           /\ lock[Migrations] = d => lock'[Migrations] = d,
         \A d \in Conns : user'[d] = i /\ alive'[d] =>
           /\ boot'[i].at \in Locked => lock'[Migrations] = d
           /\ boot'[i].at \in {"script", "record", "commit"} =>
                boot'[i].v \notin recorded,
         boot'[i].at \in {"check", "script", "record", "commit"} =>
           \A v \in Nat : 1 <= v /\ v < boot'[i].v => v \in recorded,
         boot'[i].at \in {"unlock", "serve", "stop"} =>
           \A v \in Nat : 1 <= v /\ v <= Files[i] => v \in recorded
  PROVE  SchemaInv'
<1>1. LockOwned'
  BY DEF SchemaInv, LockOwned
<1>2. NextOpen'
  BY DEF SchemaInv, NextOpen
<1>3. EarlierApplied' /\ Migrated'
  BY DEF SchemaInv, EarlierApplied, Migrated
<1>4. AppliedOnceInOrder'
  BY DEF SchemaInv, AppliedOnceInOrder
<1> QED
  BY <1>1, <1>2, <1>3, <1>4 DEF SchemaInv

LEMMA SchemaKeptByCommit ==
  ASSUME Typed, PoolInv, SchemaInv, NEW i \in Instances, Commit(i)
  PROVE  SchemaInv'
<1> USE DEF Typed, TypeOK
<1>1. /\ boot[i].at = "commit" /\ boot[i].v \in Versions /\ boot[i].v \in Nat
      /\ boot[i].v >= 1 /\ Files[i] \in Nat
  BY FilesAssumption
  DEF Commit, Committed, Answered, At, MigrationExists, Versions
<1>2. PICK c \in Conns : user[c] = i /\ alive[c]
  BY <1>1 DEF Commit, Committed, Answered, Session, PoolInv, OneSession, Opening, Locked
<1>3. lock[Migrations] = c /\ boot[i].v \notin recorded
  BY <1>1, <1>2 DEF SchemaInv, LockOwned, NextOpen, Locked
<1>4. /\ recorded' = recorded \cup {boot[i].v}
      /\ ran' = [ran EXCEPT ![boot[i].v] = @ + 1]
      /\ UNCHANGED <<user, alive, lock>>
  BY DEF Commit, Committed
<1>5. /\ \A j \in Instances \ {i} : boot'[j] = boot[j]
      /\ \/ boot'[i].at = "check" /\ boot'[i].v = boot[i].v + 1
         \/ boot'[i].at = "abort"
  BY DEF Commit, Goto
<1>6. LockOwned'
  BY <1>1, <1>4, <1>5 DEF SchemaInv, LockOwned, Locked
<1>7. NextOpen'
  <2>1. ASSUME NEW j \in Instances \ {i}, NEW d \in Conns,
               boot[j].at \in {"script", "record", "commit"}, user[d] = j, alive[d]
        PROVE  FALSE
    BY <1>2, <1>3, <2>1 DEF SchemaInv, LockOwned, Locked
  <2> QED
    BY <1>4, <1>5, <2>1 DEF NextOpen
<1>8. \A v \in Nat : 1 <= v /\ v < boot[i].v => v \in recorded
  BY <1>1 DEF SchemaInv, EarlierApplied
<1>9. EarlierApplied'
  <2>1. ASSUME NEW j \in Instances, NEW v \in Nat, 1 <= v, v < boot'[j].v,
               boot'[j].at \in {"check", "script", "record", "commit"}
        PROVE  v \in recorded'
    <3>1. CASE j = i
      <4>1. boot'[i].v = boot[i].v + 1
        BY <1>5, <2>1, <3>1
      <4>2. v < boot[i].v \/ v = boot[i].v
        <5>1. v \in Nat /\ v < boot[i].v + 1 /\ boot[i].v \in Nat
          BY <1>1, <2>1, <3>1, <4>1
        <5> HIDE DEF Typed
        <5> QED
          BY <5>1, NextNumber
      <4> QED
        BY <1>4, <1>8, <2>1, <4>2
    <3>2. CASE j # i
      BY <1>4, <1>5, <2>1, <3>2 DEF SchemaInv, EarlierApplied
    <3> QED
      BY <3>1, <3>2
  <2> QED
    BY <2>1 DEF EarlierApplied
<1>10. Migrated'
  BY <1>4, <1>5 DEF SchemaInv, Migrated
<1>11. AppliedOnceInOrder'
  <2>1. ASSUME NEW v \in Versions
        PROVE  /\ ran'[v] = IF v \in recorded' THEN 1 ELSE 0
               /\ v \in recorded' => 1 .. v \subseteq recorded'
    <3>1. CASE v = boot[i].v
      <4>1. ran[v] = 0
        BY <1>3, <2>1, <3>1 DEF SchemaInv, AppliedOnceInOrder
      <4> QED
        BY <1>1, <1>4, <1>8, <2>1, <3>1, <4>1
    <3>2. CASE v # boot[i].v
      BY <1>1, <1>4, <2>1, <3>2 DEF SchemaInv, AppliedOnceInOrder
    <3> QED
      BY <3>1, <3>2
  <2> QED
    BY <2>1 DEF AppliedOnceInOrder
<1> QED
  BY <1>6, <1>7, <1>9, <1>10, <1>11 DEF SchemaInv

LEMMA SchemaKeptByBoot ==
  ASSUME Typed, PoolInv, SchemaInv, NEW i \in Instances,
         BootAction(i) \/ Close(i) \/ Crash(i)
  PROVE  SchemaInv'
<1> USE PoolAssumption, FilesAssumption DEF Typed, TypeOK, At, Goto, Locks
<1>1. \A c, d \in Conns : user[c] \in Instances /\ user[c] = user[d] => c = d
  BY DEF PoolInv, OneSession
<1>2. boot[i].at \in Opening => \E c \in Conns : user[c] = i
  BY DEF PoolInv, OneSession
<1>3. boot[i].at \in Locked => \A d \in Conns :
        user[d] = i /\ alive[d] => lock[Migrations] = d
  BY DEF SchemaInv, LockOwned
<1>4. boot[i].at \in {"script", "record", "commit"} => \A d \in Conns :
        user[d] = i /\ alive[d] => boot[i].v \notin recorded
  BY DEF SchemaInv, NextOpen
<1>5. boot[i].at \in {"check", "script", "record", "commit"} =>
        \A v \in Nat : 1 <= v /\ v < boot[i].v => v \in recorded
  BY DEF SchemaInv, EarlierApplied
<1>6. boot[i].at \in {"unlock", "serve", "stop"} =>
        \A v \in Nat : 1 <= v /\ v <= Files[i] => v \in recorded
  BY DEF SchemaInv, Migrated
<1>7. boot[i].v \in Nat /\ Files[i] \in Nat
  OBVIOUS
<1>8. CASE New(i)
  <2>1. PICK c \in Conns : user' = [user EXCEPT ![c] = i]
    BY <1>8 DEF New, Pool
  <2>2. /\ boot'[i].at = "lock" /\ \A j \in Instances \ {i} : boot'[j] = boot[j]
        /\ UNCHANGED <<alive, lock, recorded, ran>>
    BY <1>8 DEF New
  <2> QED
    BY <2>1, <2>2, SchemaKeptByOne DEF Locked
<1>9. CASE AcquireMigrationLock(i)
  <2>1. PICK c \in Conns : /\ user[c] = i
                           /\ lock' = [lock EXCEPT ![Migrations] = c]
    BY <1>9 DEF AcquireMigrationLock, Session
  <2>2. /\ boot'[i].at = "check" /\ boot'[i].v = 1
        /\ \A j \in Instances \ {i} : boot'[j] = boot[j]
        /\ UNCHANGED <<user, alive, recorded, ran>> /\ lock[Migrations] = None
    BY <1>9 DEF AcquireMigrationLock
  <2>3. lock'[Migrations] = c /\ \A d \in Conns : user[d] = i => d = c
    BY <1>1, <2>1
  <2> QED
    BY <2>2, <2>3, SchemaKeptByOne
<1>10. CASE LockFails(i)
  <2>1. PICK c \in Conns : user[c] = i /\ Release(c)
    BY <1>10 DEF LockFails, Session
  <2>2. /\ boot'[i].at = "down" /\ \A j \in Instances \ {i} : boot'[j] = boot[j]
        /\ recorded' = recorded /\ ran' = ran
        /\ lock'[Migrations] = lock[Migrations] \/ lock[Migrations] = None
    BY <1>10 DEF LockFails
  <2>3. \A d \in Conns : d # c => user'[d] = user[d] /\ alive'[d] = alive[d]
    BY <2>1 DEF Release
  <2>4. user'[c] = None
    BY <2>1 DEF Release
  <2> QED
    BY <2>2, <2>3, <2>4, SchemaKeptByOne DEF Locked
<1>11. CASE IsMigrationApplied(i)
  <2>1. /\ boot[i].at = "check" /\ UNCHANGED <<user, alive, lock, recorded, ran>>
        /\ \A j \in Instances \ {i} : boot'[j] = boot[j]
        /\ \/ boot[i].v > Files[i] /\ boot'[i].at = "unlock"
           \/ /\ boot[i].v \in recorded /\ boot'[i].at = "check"
              /\ boot'[i].v = boot[i].v + 1
           \/ /\ boot[i].v \notin recorded /\ boot'[i].at = "script"
              /\ boot'[i].v = boot[i].v
    BY <1>11 DEF IsMigrationApplied, Answered
  <2>2. boot[i].at \in Locked
    BY <2>1 DEF Locked
  <2>3. boot'[i].at \in {"check", "script", "record", "commit"} =>
          \A v \in Nat : 1 <= v /\ v < boot'[i].v => v \in recorded
    <3>1. CASE boot'[i].at = "check"
      <4>1. boot'[i].v = boot[i].v + 1 /\ boot[i].v \in recorded
        BY <2>1, <3>1
      <4>2. \A v \in Nat : v < boot'[i].v => v < boot[i].v \/ v = boot[i].v
        <5>1. ASSUME NEW v \in Nat, v < boot'[i].v
              PROVE  v < boot[i].v \/ v = boot[i].v
          <6>1. v < boot[i].v + 1 /\ boot[i].v \in Nat
            BY <1>7, <4>1, <5>1
          <6> QED
            BY <6>1, NextNumber
        <5> QED
          BY <5>1
      <4> QED
        BY <1>5, <2>1, <4>1, <4>2
    <3>2. CASE boot'[i].at # "check"
      BY <1>5, <2>1, <3>2
    <3> QED
      BY <3>1, <3>2
  <2>4. boot'[i].at \in {"unlock", "serve", "stop"} =>
          \A v \in Nat : 1 <= v /\ v <= Files[i] => v \in recorded
    BY <1>5, <1>7, <2>1
  <2> QED
    BY <1>3, <2>1, <2>2, <2>3, <2>4, SchemaKeptByOne
<1>12. CASE ExecuteScript(i) \/ RecordVersion(i)
  <2>1. /\ boot[i].at \in {"script", "record"} /\ boot'[i].at \in {"record", "commit"}
        /\ boot'[i].v = boot[i].v /\ UNCHANGED <<user, alive, lock, recorded, ran>>
        /\ \A j \in Instances \ {i} : boot'[j] = boot[j]
    BY <1>12 DEF ExecuteScript, RecordVersion, Answered
  <2>2. boot[i].at \in Locked
    BY <2>1 DEF Locked
  <2> QED
    BY <1>3, <1>4, <1>5, <2>1, <2>2, SchemaKeptByOne
<1>13. CASE MigrationFails(i)
  <2>1. /\ boot[i].at \in Locked /\ boot'[i].at = "abort"
        /\ UNCHANGED <<user, alive, lock, recorded, ran>>
        /\ \A j \in Instances \ {i} : boot'[j] = boot[j]
    BY <1>13 DEF MigrationFails
  <2> QED
    BY <1>3, <2>1, SchemaKeptByOne
<1>14. CASE Unlock(i)
  <2>1. PICK c \in Conns, new \in {None, Ghost} :
          user[c] = i /\ Release(c) /\ Disown({c}, new)
    <3> HIDE DEF Typed, TypeOK
    <3>1. PICK c \in Session(i), new \in {None, Ghost} :
            Release(c) /\ Disown({c}, new)
      BY <1>14, Zenon DEF Unlock
    <3>2. c \in Conns /\ user[c] = i
      BY <3>1 DEF Session
    <3> QED
      BY <3>1, <3>2, Zenon
  <2>2. /\ \A j \in Instances \ {i} : boot'[j] = boot[j]
        /\ recorded' = recorded /\ ran' = ran
        /\ \/ boot[i].at = "unlock" /\ boot'[i].at = "serve"
           \/ boot'[i].at = "down"
    BY <1>14 DEF Unlock
  <2>3. \A d \in Conns : d # c =>
          /\ user'[d] = user[d] /\ alive'[d] = alive[d]
          /\ lock[Migrations] = d => lock'[Migrations] = d
    BY <2>1 DEF Release, Disown
  <2>4. user'[c] = None
    BY <2>1 DEF Release
  <2> QED
    BY <1>6, <2>2, <2>3, <2>4, SchemaKeptByOne DEF Locked
<1>15. CASE Signal(i)
  <2>1. /\ boot[i].at = "serve" /\ boot'[i].at = "stop"
        /\ UNCHANGED <<user, alive, lock, recorded, ran>>
        /\ \A j \in Instances \ {i} : boot'[j] = boot[j]
    BY <1>15 DEF Signal
  <2> QED
    BY <1>6, <2>1, SchemaKeptByOne DEF Locked
<1>16. CASE Close(i)
  <2>1. /\ boot'[i].at = "down" /\ UNCHANGED <<user, alive, recorded, ran>>
        /\ \A j \in Instances \ {i} : boot'[j] = boot[j]
    BY <1>16 DEF Close
  <2>2. \A d \in Conns : user[d] \in Instances /\ lock[Migrations] = d
          => lock'[Migrations] = d
    BY <1>16 DEF Close, Disown, Pool
  <2> QED
    BY <2>1, <2>2, SchemaKeptByOne DEF Locked
<1>17. CASE Crash(i)
  <2>1. /\ boot'[i].at = "down" /\ recorded' = recorded /\ ran' = ran
        /\ \A j \in Instances \ {i} : boot'[j] = boot[j]
    BY <1>17 DEF Crash
  <2>2. \A d \in Conns : user'[d] \in Instances =>
          /\ Home[d] # i /\ user'[d] = user[d] /\ alive'[d] = alive[d]
          /\ lock[Migrations] = d => lock'[Migrations] = d
    BY <1>17 DEF Crash, Disown, Pool
  <2>3. \A d \in Conns : user'[d] # i
    BY <2>2 DEF PoolInv, OneSession
  <2> QED
    BY <2>1, <2>2, <2>3, SchemaKeptByOne DEF Locked
<1> QED
  BY <1>8, <1>9, <1>10, <1>11, <1>12, <1>13, <1>14, <1>15, <1>16, <1>17,
     SchemaKeptByCommit DEF BootAction

LEMMA SchemaHolds == Spec => [](Typed /\ PoolInv /\ SchemaInv)
<1>1. Init => SchemaInv
  BY DEF Init, SchemaInv, LockOwned, EarlierApplied, NextOpen, Migrated,
         AppliedOnceInOrder, Locked
<1>2. Typed /\ PoolInv /\ SchemaInv /\ [Next]_vars => SchemaInv'
  BY Steps, SchemaKeptByBoot, SchemaKeptByTasks, SchemaKeptBySessions
<1> QED
  BY <1>1, <1>2, PoolHolds, PTL DEF Spec

\* Two instances never have the transaction of a migration open at the same time,
\* however their starts overlap, are killed or lose their sessions.
THEOREM MigrationsAreSerialised == Spec => []MigrationsSerialised
<1>1. Typed /\ PoolInv /\ SchemaInv => MigrationsSerialised
  BY DEF PoolInv, OneSession, SchemaInv, LockOwned, MigrationsSerialised, Session,
         InTx, Locked
<1> QED
  BY <1>1, SchemaHolds, PTL

\* runMigrations executes each script once, in the order of the files, with its
\* record in schema_migrations.
THEOREM MigrationsApplyOnce == Spec => []AppliedOnceInOrder
BY SchemaHolds, PTL DEF SchemaInv

\* An instance that New has returned has every migration of its binary.
THEOREM ServesAfterMigrating == Spec => []ServesMigrated
<1>1. Typed /\ SchemaInv => ServesMigrated
  <2> SUFFICES ASSUME Typed, SchemaInv, NEW i \in Instances,
                      boot[i].at \in {"serve", "stop"}, NEW v \in 1 .. Files[i]
               PROVE  v \in recorded
    BY DEF ServesMigrated
  <2> QED
    BY FilesAssumption DEF SchemaInv, Migrated
<1> QED
  BY <1>1, SchemaHolds, PTL

-----------------------------------------------------------------------------
(* Batch locks.                                                            *)

\* A task has the lock of its range, if its session lives.
HasLock(u) ==
  task[u].held # None /\ task[u].at # "try" /\ alive[task[u].held]
    => lock[task[u].range] = task[u].held

\* A step that changes the tasks in S keeps the batch locks if it leaves those of
\* the other tasks alone and no connection keeps a lock its task gives up.
LEMMA LocksKept ==
  ASSUME Typed, LocksFollowJobs, timeout' = timeout, NEW S \in SUBSET Tasks,
         \A u \in Tasks \ S :
           /\ task'[u] = task[u]
           /\ task[u].held # None /\ alive'[task[u].held] =>
                /\ alive[task[u].held]
                /\ lock[task[u].range] = task[u].held =>
                     lock'[task[u].range] = task[u].held,
         \A u \in S : HasLock(u)',
         timeout => \A l \in Ranges : lock'[l] \in Conns =>
           \/ /\ lock'[l] = lock[l]
              /\ \A u \in S : task[u].held = lock[l] /\ task[u].range = l =>
                   task'[u].held = lock[l] /\ task'[u].range = l
           \/ \E u \in S : task'[u].held = lock'[l] /\ task'[u].range = l
  PROVE  LocksFollowJobs'
<1>1. \A u \in Tasks : HasLock(u)'
  <2>1. ASSUME NEW u \in Tasks \ S
        PROVE  HasLock(u)'
    BY <2>1 DEF HasLock, LocksFollowJobs
  <2> QED
    BY <2>1
<1>2. ASSUME timeout', NEW l \in Ranges, lock'[l] \in Conns
      PROVE  \E u \in Tasks : task'[u].held = lock'[l] /\ task'[u].range = l
  <2>1. CASE /\ lock'[l] = lock[l]
             /\ \A u \in S : task[u].held = lock[l] /\ task[u].range = l =>
                  task'[u].held = lock[l] /\ task'[u].range = l
    <3>1. PICK u \in Tasks : task[u].held = lock[l] /\ task[u].range = l
      BY <1>2, <2>1 DEF LocksFollowJobs, HeldBy
    <3> QED
      BY <2>1, <3>1
  <2> QED
    BY <1>2, <2>1
<1> QED
  BY <1>1, <1>2 DEF LocksFollowJobs, HasLock, HeldBy

LEMMA LocksKeptElsewhere ==
  ASSUME Typed, LocksFollowJobs, timeout' = timeout, task' = task,
         \A u \in Tasks : task[u].held # None /\ alive'[task[u].held] =>
           /\ alive[task[u].held]
           /\ lock[task[u].range] = task[u].held =>
                lock'[task[u].range] = task[u].held,
         \A l \in Ranges : lock'[l] \in Conns => lock'[l] = lock[l]
  PROVE  LocksFollowJobs'
BY LocksKept, {} \in SUBSET Tasks

LEMMA LocksKeptByBoot ==
  ASSUME Typed, PoolInv, LocksFollowJobs, NEW i \in Instances,
         BootAction(i) \/ Close(i) \/ Crash(i)
  PROVE  LocksFollowJobs'
<1> USE PoolAssumption, LockAssumption DEF Typed, TypeOK, Locks
<1>1. ASSUME NEW u \in Tasks, task[u].held # None
      PROVE  /\ task[u].held \in Conns /\ user[task[u].held] = u
             /\ task[u].range \in Ranges /\ Home[task[u].held] = Home[u]
  <2>1. task[u].held \in Conns /\ task[u].range \in Ranges
    BY <1>1 DEF PoolInv, TaskShape
  <2>2. user[task[u].held] = u
    BY <1>1, <2>1 DEF PoolInv, TaskConns
  <2> QED
    BY <2>1, <2>2 DEF PoolInv, TaskConns
<1>2. CASE \/ New(i) \/ IsMigrationApplied(i) \/ ExecuteScript(i)
           \/ RecordVersion(i) \/ Commit(i) \/ MigrationFails(i) \/ Signal(i)
  <2>1. timeout' = timeout /\ task' = task /\ alive' = alive /\ lock' = lock
    BY <1>2, Zenon DEF New, IsMigrationApplied, ExecuteScript, RecordVersion, Commit,
                MigrationFails, Signal
  <2> QED
    BY <2>1, LocksKeptElsewhere
<1>3. CASE AcquireMigrationLock(i)
  <2>1. /\ timeout' = timeout /\ task' = task /\ alive' = alive
        /\ \E c \in Conns : lock' = [lock EXCEPT ![Migrations] = c]
    BY <1>3 DEF AcquireMigrationLock, Session
  <2>2. \A l \in Ranges : lock'[l] = lock[l]
    BY <2>1
  <2> QED
    BY <1>1, <2>1, <2>2, LocksKeptElsewhere
<1>4. CASE LockFails(i)
  <2>1. /\ timeout' = timeout /\ task' = task
        /\ \A l \in Ranges : lock'[l] = lock[l]
    BY <1>4 DEF LockFails
  <2>2. PICK c \in Conns : user[c] = i /\ Release(c)
    BY <1>4 DEF LockFails, Session
  <2>3. \A u \in Tasks : task[u].held # None =>
          alive'[task[u].held] = alive[task[u].held]
    <3>1. \A d \in Conns : d # c => alive'[d] = alive[d]
      BY <2>2 DEF Release
    <3>2. \A u \in Tasks : u # i
      OBVIOUS
    <3> QED
      BY <1>1, <2>2, <3>1, <3>2
  <2> QED
    BY <1>1, <2>1, <2>3, LocksKeptElsewhere
<1>5. CASE Unlock(i)
  <2>1. PICK c \in Session(i), new \in {None, Ghost} : Release(c) /\ Disown({c}, new)
    BY <1>5, Zenon DEF Unlock
  <2>2. c \in Conns /\ user[c] = i /\ timeout' = timeout /\ task' = task
    BY <1>5, <2>1 DEF Session, Unlock
  <2>3. \A u \in Tasks : task[u].held # None =>
          alive'[task[u].held] = alive[task[u].held]
    <3>1. \A d \in Conns : d # c => alive'[d] = alive[d]
      BY <2>1 DEF Release
    <3>2. \A u \in Tasks : u # i
      OBVIOUS
    <3> QED
      BY <1>1, <2>2, <3>1, <3>2
  <2>4. /\ \A l \in Ranges : lock'[l] \in Conns => lock'[l] = lock[l]
        /\ \A l \in Ranges : lock[l] # c => lock'[l] = lock[l]
    BY <2>1 DEF Disown
  <2> QED
    BY <1>1, <2>2, <2>3, <2>4, LocksKeptElsewhere
<1>6. CASE Close(i)
  <2>1. /\ timeout' = timeout /\ task' = task /\ alive' = alive
        /\ \A u \in Tasks : Home[u] = i => task[u].held = None
    BY <1>6 DEF Close, Idle
  <2>2. /\ \A l \in Ranges : lock'[l] \in Conns => lock'[l] = lock[l]
        /\ \A l \in Ranges : lock[l] \in Conns /\ Home[lock[l]] # i => lock'[l] = lock[l]
    BY <1>6 DEF Close, Disown, Pool
  <2> QED
    BY <1>1, <2>1, <2>2, LocksKeptElsewhere
<1>7. CASE Crash(i)
  <2> DEFINE S == {u \in Tasks : Home[u] = i}
  <2>1. /\ timeout' = timeout
        /\ \A u \in S : task'[u].held = None
        /\ \A u \in Tasks \ S : task'[u] = task[u]
        /\ \A d \in Conns : Home[d] # i => alive'[d] = alive[d]
    BY <1>7 DEF Crash, Idle
  <2>2. /\ \A l \in Ranges : lock'[l] \in Conns =>
             lock'[l] = lock[l] /\ Home[lock[l]] # i
        /\ \A l \in Ranges : lock[l] \in Conns /\ Home[lock[l]] # i => lock'[l] = lock[l]
    BY <1>7 DEF Crash, Disown, Pool
  <2>3. \A u \in Tasks \ S : task[u].held # None =>
          /\ Home[task[u].held] # i /\ task[u].held \in Conns
          /\ task[u].range \in Ranges
    BY <1>1
  <2>4. \A u \in S : HasLock(u)'
    BY <2>1 DEF HasLock
  <2>5. \A l \in Ranges : lock'[l] \in Conns =>
          /\ lock'[l] = lock[l]
          /\ \A u \in S : task[u].held # lock[l]
    BY <1>1, <2>2
  <2>6. S \in SUBSET Tasks
    OBVIOUS
  <2> HIDE DEF S
  <2> QED
    BY <2>1, <2>2, <2>3, <2>4, <2>5, <2>6, LocksKept
<1> QED
  BY <1>2, <1>3, <1>4, <1>5, <1>6, <1>7 DEF BootAction

LEMMA LocksKeptBySessions ==
  ASSUME Typed, PoolInv, LocksFollowJobs,
         \/ \E c \in Conns : LoseConn(c) \/ Recycle(c)
         \/ \E l \in Locks : EndGhost(l)
         \/ UNCHANGED vars
  PROVE  LocksFollowJobs'
<1> USE PoolAssumption, LockAssumption DEF Typed, TypeOK, Locks
<1>1. ASSUME NEW u \in Tasks, task[u].held # None
      PROVE  /\ task[u].held \in Conns /\ user[task[u].held] = u
             /\ task[u].range \in Ranges
  <2>1. task[u].held \in Conns /\ task[u].range \in Ranges
    BY <1>1 DEF PoolInv, TaskShape
  <2> QED
    BY <1>1, <2>1 DEF PoolInv, TaskConns
<1>2. ASSUME NEW c \in Conns, LoseConn(c)
      PROVE  LocksFollowJobs'
  <2>1. /\ timeout' = timeout /\ task' = task /\ ~alive'[c]
        /\ \A d \in Conns : d # c => alive'[d] = alive[d]
    BY <1>2 DEF LoseConn
  <2>2. \A l \in Ranges : /\ lock'[l] \in Conns => lock'[l] = lock[l]
                          /\ lock[l] # c => lock'[l] = lock[l]
    BY <1>2 DEF LoseConn, Disown
  <2> QED
    BY <1>1, <2>1, <2>2, LocksKeptElsewhere
<1>3. ASSUME NEW c \in Conns, Recycle(c)
      PROVE  LocksFollowJobs'
  <2>1. timeout' = timeout /\ task' = task /\ alive' = alive /\ user[c] = None
    BY <1>3 DEF Recycle
  <2>2. \A l \in Ranges : /\ lock'[l] \in Conns => lock'[l] = lock[l]
                          /\ lock[l] # c => lock'[l] = lock[l]
    BY <1>3 DEF Recycle, Disown
  <2> QED
    BY <1>1, <2>1, <2>2, LocksKeptElsewhere
<1>4. ASSUME NEW l \in Locks, EndGhost(l)
      PROVE  LocksFollowJobs'
  <2>1. timeout' = timeout /\ task' = task /\ alive' = alive
    BY <1>4 DEF EndGhost
  <2>2. \A m \in Ranges : /\ lock'[m] \in Conns => lock'[m] = lock[m]
                          /\ lock[m] # Ghost => lock'[m] = lock[m]
    BY <1>4 DEF EndGhost
  <2> QED
    BY <1>1, <2>1, <2>2, LocksKeptElsewhere
<1>5. CASE UNCHANGED vars
  BY <1>5, LocksKeptElsewhere DEF vars
<1> QED
  BY <1>2, <1>3, <1>4, <1>5

LEMMA LocksKeptByTasks ==
  ASSUME Typed, PoolInv, LocksFollowJobs, NEW t \in Tasks, TaskAction(t)
  PROVE  LocksFollowJobs'
<1> USE PoolAssumption DEF Typed, TypeOK, Locks
<1>1. ASSUME NEW u \in Tasks, task[u].held # None
      PROVE  /\ task[u].held \in Conns /\ user[task[u].held] = u
             /\ task[u].range \in Ranges
  <2>1. task[u].held \in Conns /\ task[u].range \in Ranges
    BY <1>1 DEF PoolInv, TaskShape
  <2> QED
    BY <1>1, <2>1 DEF PoolInv, TaskConns
<1>2. \A u \in Tasks \ {t} : task[u].held # None => task[u].held # task[t].held
  BY <1>1
<1>3. /\ task[t].at \in {"try", "work", "unlock"} => task[t].held \in Conns
      /\ task[t].at \in {"idle", "acquire"} => task[t].held = None
      /\ task[t].at # "try" => HasLock(t)
  BY DEF PoolInv, TaskShape, LocksFollowJobs, HasLock
<1>4. timeout => \A l \in Ranges : lock[l] \in Conns =>
        \E u \in Tasks : task[u].held = lock[l] /\ task[u].range = l
  BY DEF LocksFollowJobs, HeldBy
<1>5. Idle.held = None
  BY DEF Idle
<1>6. ASSUME NEW r, task' = [task EXCEPT ![t] = r], timeout' = timeout,
             \A u \in Tasks \ {t} : task[u].held # None /\ alive'[task[u].held] =>
                /\ alive[task[u].held]
                /\ lock[task[u].range] = task[u].held =>
                     lock'[task[u].range] = task[u].held,
             HasLock(t)',
             timeout => \A l \in Ranges : lock'[l] \in Conns =>
               \/ /\ lock'[l] = lock[l]
                  /\ task[t].held = lock[l] /\ task[t].range = l =>
                       r.held = lock[l] /\ r.range = l
               \/ r.held = lock'[l] /\ r.range = l
      PROVE  LocksFollowJobs'
  <2>1. task'[t] = r /\ \A u \in Tasks \ {t} : task'[u] = task[u]
    BY <1>6
  <2>2. timeout => \A l \in Ranges : lock'[l] \in Conns =>
          \/ /\ lock'[l] = lock[l]
             /\ \A u \in {t} : task[u].held = lock[l] /\ task[u].range = l =>
                  task'[u].held = lock[l] /\ task'[u].range = l
          \/ \E u \in {t} : task'[u].held = lock'[l] /\ task'[u].range = l
    BY <1>6, <2>1
  <2>3. {t} \in SUBSET Tasks /\ \A u \in {t} : HasLock(u)'
    BY <1>6
  <2>4. \A u \in Tasks \ {t} :
          /\ task'[u] = task[u]
          /\ task[u].held # None /\ alive'[task[u].held] =>
               /\ alive[task[u].held]
               /\ lock[task[u].range] = task[u].held =>
                    lock'[task[u].range] = task[u].held
    BY <1>6, <2>1
  <2> HIDE DEF Typed, TypeOK, Locks
  <2> QED
    BY <1>6, <2>2, <2>3, <2>4, LocksKept
<1>7. ASSUME timeout' = timeout, alive' = alive, lock' = lock,
             NEW r, task' = [task EXCEPT ![t] = r],
             \/ task[t].held = None /\ (r.held = None \/ r.at = "try")
             \/ /\ r.held = task[t].held /\ r.range = task[t].range
                /\ task[t].at # "try"
      PROVE  LocksFollowJobs'
  <2>1. task'[t] = r
    BY <1>7
  <2>2. HasLock(t)'
    BY <1>3, <1>7, <2>1 DEF HasLock
  <2>3. \A l \in Ranges : lock[l] \in Conns /\ task[t].held = lock[l] /\ task[t].range = l
          => r.held = lock[l] /\ r.range = l
    BY <1>7
  <2> QED
    BY <1>6, <1>7, <2>2, <2>3
<1>8. ASSUME timeout' = timeout, NEW c \in Conns, user[c] = t, Release(c),
             NEW r, task' = [task EXCEPT ![t] = r],
             \A l \in Ranges : /\ lock'[l] \in Conns => lock'[l] = lock[l]
                               /\ lock[l] # None /\ lock[l] # c => lock'[l] = lock[l],
             \/ r.held = None /\ c = task[t].held
             \/ /\ r.held = task[t].held
                /\ r.held # None => r.range = task[t].range
                /\ task[t].at # "try" /\ c # task[t].held,
             timeout => \A l \in Ranges : lock[l] = c /\ task[t].range = l
                                           /\ task[t].held = c => lock'[l] # c
      PROVE  LocksFollowJobs'
  <2>1. task'[t] = r /\ \A d \in Conns : d # c => alive'[d] = alive[d]
    BY <1>8 DEF Release
  <2>2. HasLock(t)'
    BY <1>1, <1>3, <1>8, <2>1 DEF HasLock
  <2>3. \A u \in Tasks \ {t} : task[u].held # None => task[u].held # c
    BY <1>1, <1>8
  <2>4. \A u \in Tasks \ {t} : task[u].held # None /\ alive'[task[u].held] =>
          /\ alive[task[u].held]
          /\ lock[task[u].range] = task[u].held => lock'[task[u].range] = task[u].held
    BY <1>1, <1>8, <2>1, <2>3
  <2>5. timeout => \A l \in Ranges : lock'[l] \in Conns =>
          /\ lock'[l] = lock[l]
          /\ task[t].held = lock[l] /\ task[t].range = l =>
               r.held = lock[l] /\ r.range = l
    BY <1>8
  <2> HIDE DEF Typed, TypeOK, Locks
  <2> QED
    BY <1>6, <1>8, <2>2, <2>4, <2>5
<1>9. CASE AskStatement(t)
  <2> DEFINE r == [Idle EXCEPT !.at = "query"]
  <2>1. r.held = None
    BY DEF Idle
  <2>2. /\ timeout' = timeout /\ alive' = alive /\ lock' = lock
        /\ task[t].at = "idle" /\ task' = [task EXCEPT ![t] = r]
    BY <1>9 DEF AskStatement, Move
  <2> HIDE DEF r
  <2> QED
    BY <1>3, <1>7, <2>1, <2>2
<1>10. ASSUME NEW l \in Ranges, AskLock(t, l)
       PROVE  LocksFollowJobs'
  <2> DEFINE r == [Idle EXCEPT !.at = "acquire", !.range = l]
  <2>1. r.held = None
    BY DEF Idle
  <2>2. /\ timeout' = timeout /\ alive' = alive /\ lock' = lock
        /\ task[t].at = "idle" /\ task' = [task EXCEPT ![t] = r]
    BY <1>10 DEF AskLock, Move
  <2> HIDE DEF r
  <2> QED
    BY <1>3, <1>7, <2>1, <2>2
<1>11. CASE AcquireForLock(t)
  <2>1. /\ timeout' = timeout /\ alive' = alive /\ lock' = lock
        /\ task[t].at = "acquire" /\ task'[t].at = "try"
    BY <1>11 DEF AcquireForLock, Move
  <2>2. PICK r : task' = [task EXCEPT ![t] = r]
    BY <1>11 DEF AcquireForLock, Move
  <2>3. r = task'[t]
    BY <2>2
  <2> QED
    BY <1>3, <1>7, <2>1, <2>2, <2>3
<1>12. CASE TryBatchLock(t)
  <2> DEFINE c == task[t].held
  <2>1. timeout' = timeout /\ task[t].at = "try" /\ c \in Conns /\ user[c] = t
    BY <1>1, <1>3, <1>12, PoolAssumption DEF TryBatchLock
  <2>2. task[t].range \in Ranges
    BY <1>1, <2>1
  <2>3. CASE /\ lock[task[t].range] \in {None, c}
             /\ lock' = [lock EXCEPT ![task[t].range] = c]
             /\ Move(t, "try", [task[t] EXCEPT !.at = "work", !.left = Calls])
             /\ UNCHANGED <<user, alive>>
    <3>1. PICK r : task' = [task EXCEPT ![t] = r]
      BY <2>3 DEF Move
    <3>2. r = task'[t]
      BY <3>1
    <3>3. task'[t].held = c /\ task'[t].range = task[t].range
      BY <2>3 DEF Move
    <3>4. HasLock(t)'
      BY <2>2, <2>3, <3>3 DEF HasLock
    <3>5. \A l \in Ranges : l # task[t].range => lock'[l] = lock[l]
      BY <2>3
    <3>6. lock'[task[t].range] = c
      BY <2>2, <2>3
    <3>7. \A u \in Tasks \ {t} :
            task[u].held # None /\ lock[task[u].range] = task[u].held =>
              task[u].range # task[t].range
      BY <1>1, <1>2, <2>3
    <3>8. \A u \in Tasks \ {t} : task[u].held # None /\ alive'[task[u].held] =>
            /\ alive[task[u].held]
            /\ lock[task[u].range] = task[u].held => lock'[task[u].range] = task[u].held
      BY <1>1, <2>3, <3>5, <3>7
    <3>9. \A l \in Ranges : lock'[l] \in Conns =>
            \/ /\ lock'[l] = lock[l]
               /\ task[t].held = lock[l] /\ task[t].range = l =>
                    r.held = lock[l] /\ r.range = l
            \/ r.held = lock'[l] /\ r.range = l
      BY <3>2, <3>3, <3>5, <3>6
    <3> HIDE DEF Typed, TypeOK, Locks, c
    <3> QED
      BY <1>6, <2>1, <3>1, <3>4, <3>8, <3>9
  <2>4. CASE /\ lock[task[t].range] \notin {None, c}
             /\ Move(t, "try", Idle) /\ Release(c) /\ UNCHANGED lock
    <3>1. task' = [task EXCEPT ![t] = Idle]
      BY <2>4 DEF Move
    <3> QED
      BY <1>5, <1>8, <2>1, <2>4, <3>1
  <2> QED
    BY <1>12, <2>3, <2>4, Zenon DEF TryBatchLock
<1>13. CASE TryFails(t)
  <2> DEFINE c == task[t].held
  <2>1. /\ timeout' = timeout /\ task[t].at = "try" /\ Release(c)
        /\ task' = [task EXCEPT ![t] = Idle]
    BY <1>13 DEF TryFails, Move
  <2>2. c \in Conns /\ user[c] = t
    BY <1>1, <1>3, <2>1
  <2>3. \A l \in Ranges : /\ lock'[l] \in Conns => lock'[l] = lock[l]
                          /\ lock[l] # None /\ lock[l] # c => lock'[l] = lock[l]
                          /\ lock[l] = c => lock'[l] # c
    <3>1. CASE \E new \in {None, Ghost} : Disown({c}, new)
      BY <2>2, <3>1 DEF Disown
    <3>2. CASE /\ lock[task[t].range] = None
               /\ lock' = [l \in Locks |-> IF lock[l] = c \/ l = task[t].range
                                             THEN Ghost ELSE lock[l]]
      BY <2>2, <3>2
    <3> QED
      BY <1>13, <3>1, <3>2, Zenon DEF TryFails
  <2> HIDE DEF c
  <2>4. c = task[t].held
    BY DEF c
  <2> QED
    BY <1>5, <1>8, <2>1, <2>2, <2>3, <2>4
<1>14. CASE Work(t) \/ AcquireForStatement(t)
  <2>1. timeout' = timeout /\ alive' = alive /\ lock' = lock
    BY <1>14, Zenon DEF Work, AcquireForStatement
  <2>2. PICK r : task' = [task EXCEPT ![t] = r]
    BY <1>14, Zenon DEF Work, AcquireForStatement, Move
  <2>3. task[t] \in TaskRecord
    BY DEF TaskRecord
  <2>4. /\ task[t].at # "try" /\ task'[t].held = task[t].held
        /\ task'[t].range = task[t].range
    <3>1. CASE Move(t, "work", [task[t] EXCEPT !.at = "query", !.left = @ - 1])
      BY <2>3, <3>1 DEF Move, TaskRecord
    <3>2. CASE Move(t, "work", [task[t] EXCEPT !.at = "unlock"])
      BY <2>3, <3>2 DEF Move, TaskRecord
    <3>3. CASE Move(t, "query", [task[t] EXCEPT !.at = "exec"])
      BY <2>3, <3>3 DEF Move, TaskRecord
    <3> QED
      BY <1>14, <3>1, <3>2, <3>3, Zenon DEF Work, AcquireForStatement
  <2>5. r = task'[t]
    BY <2>2
  <2> QED
    BY <1>7, <2>1, <2>2, <2>4, <2>5
<1>15. CASE Statement(t)
  <2>1. PICK c \in StatementConn(t) :
          /\ Release(c)
          /\ UNCHANGED lock \/ \E new \in {None, Ghost} : Disown({c}, new)
    BY <1>15 DEF Statement
  <2>2. /\ timeout' = timeout /\ task[t].at = "exec"
        /\ task' = [task EXCEPT ![t] = After(t)]
    BY <1>15 DEF Statement, Move
  <2>3. c \in Conns /\ user[c] = t /\ c # task[t].held
    BY <2>1 DEF StatementConn
  <2>4. \A l \in Ranges : /\ lock'[l] \in Conns => lock'[l] = lock[l]
                          /\ lock[l] # None /\ lock[l] # c => lock'[l] = lock[l]
    BY <2>1 DEF Disown
  <2>5. PICK r : r = After(t)
    OBVIOUS
  <2>6. r.held = task[t].held /\ (r.held # None => r.range = task[t].range)
    BY <1>5, <2>5 DEF After
  <2> QED
    BY <1>8, <2>1, <2>2, <2>3, <2>4, <2>5, <2>6
<1>16. CASE UnlockBatch(t)
  <2> DEFINE c == task[t].held
  <2>1. /\ timeout' = timeout /\ task[t].at = "unlock" /\ Release(c)
        /\ task' = [task EXCEPT ![t] = Idle]
    BY <1>16 DEF UnlockBatch, Move
  <2>2. c \in Conns /\ user[c] = t
    BY <1>1, <1>3, <2>1
  <2>3. CASE timeout
    <3>1. PICK new \in {None, Ghost} :
            lock' = [lock EXCEPT ![task[t].range] = IF @ = c THEN new ELSE @]
      BY <1>16, <2>3 DEF UnlockBatch
    <3>2. \A l \in Ranges :
            /\ lock'[l] \in Conns => lock'[l] = lock[l]
            /\ lock[l] # None /\ lock[l] # c => lock'[l] = lock[l]
            /\ lock[l] = c /\ l = task[t].range => lock'[l] # c
      BY <2>2, <3>1
    <3> HIDE DEF c
    <3>3. c = task[t].held
      BY DEF c
    <3> QED
      BY <1>5, <1>8, <2>1, <2>2, <3>2, <3>3
  <2>4. CASE ~timeout
    <3>1. lock' = lock
      BY <1>16, <2>4 DEF UnlockBatch
    <3> QED
      BY <1>5, <1>8, <2>1, <2>2, <2>4, <3>1
  <2> QED
    BY <2>3, <2>4
<1>17. CASE GiveUp(t)
  <2>1. /\ timeout' = timeout /\ alive' = alive /\ lock' = lock
        /\ task[t].at \in {"query", "acquire"}
    BY <1>17 DEF GiveUp, Move
  <2>2. PICK r : task' = [task EXCEPT ![t] = r]
    BY <1>17 DEF GiveUp, Move
  <2>3. \/ task[t].held = None /\ task'[t] = Idle
        \/ task'[t].held = task[t].held /\ task'[t].range = task[t].range
    BY <1>3, <1>17 DEF GiveUp, Move
  <2>4. r = task'[t]
    BY <2>2
  <2> QED
    BY <1>5, <1>7, <2>1, <2>2, <2>3, <2>4
<1> QED
  BY <1>9, <1>10, <1>11, <1>12, <1>13, <1>14, <1>15, <1>16, <1>17 DEF TaskAction

\* The lock of a range follows its job: no other job takes it meanwhile, and none
\* that returns its connection to the pool leaves it behind.
THEOREM BatchLocksFollowJobs == Spec => []LocksFollowJobs
<1>1. Init => LocksFollowJobs
  BY PoolAssumption, LockAssumption DEF Init, LocksFollowJobs, Idle, Locks
<1>2. Typed /\ PoolInv /\ LocksFollowJobs /\ [Next]_vars => LocksFollowJobs'
  BY Steps, LocksKeptByBoot, LocksKeptByTasks, LocksKeptBySessions
<1> QED
  BY <1>1, <1>2, PoolHolds, PTL DEF Spec
=============================================================================
