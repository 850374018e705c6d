----------------------------- MODULE Repository -----------------------------
(***************************************************************************)
(* storage.Repository as a resource (internal/storage/postgres.go): what   *)
(* New does to the schema, the connection pool, and the session-level      *)
(* advisory locks.  Several instances of the bot share one database.       *)
(*                                                                         *)
(* A connection is a server session; its locks live as long as it does.    *)
(* What a statement does to the tables of the pipeline is module Digest.   *)
(***************************************************************************)
EXTENDS Integers, FiniteSets

CONSTANTS
  Instances,    \* processes of the bot
  Tasks,        \* goroutines that use the repository
  Jobs,         \* those of them that digest, and take a batch lock
  Conns,        \* slots of the pools; an instance has DB_MAX_CONNS of them
  Home,         \* the instance of a task and of a connection
  Ranges,       \* batch lock keys
  Migrations,   \* the migration lock key
  Files,        \* Files[i]: migrations embedded in the binary of i, in order
  Calls,        \* statements of a job between lock and unlock
  Timeouts,     \* whether queryTimeout is set: the values a run considers
  None, Ghost   \* no user or owner; a session the server has yet to end

ASSUME PoolAssumption ==
  /\ Jobs \subseteq Tasks
  /\ Home \in [Tasks \cup Conns -> Instances]
  /\ Tasks \cap Instances = {} /\ Tasks \cap Conns = {}
  /\ None \notin Tasks \cup Instances \cup Conns
  /\ Ghost \notin Conns \cup {None}
ASSUME LockAssumption == Migrations \notin Ranges
ASSUME FilesAssumption == Files \in [Instances -> Nat]
ASSUME CallsAssumption == Calls \in Nat
ASSUME TimeoutsAssumption == Timeouts \subseteq BOOLEAN

VARIABLES
  timeout,   \* DB_QUERY_TIMEOUT > 0, the same for all instances
  boot,      \* New and the life of an instance: where it is, which migration
  user,      \* who has acquired a connection: a task, New, or nobody
  alive,     \* whether the session of an acquired connection still exists
  task,      \* where a task is, its range, its lock connection, calls left
  lock,      \* advisory locks: the connection that owns it, or none
  recorded,  \* schema_migrations
  ran        \* how often the script of a migration has been committed

vars == <<timeout, boot, user, alive, task, lock, recorded, ran>>

Locks    == Ranges \cup {Migrations}
Versions == UNION {1 .. Files[i] : i \in Instances}
Idle     == [at |-> "idle", range |-> None, held |-> None, left |-> 0]

\* New holds the migration lock, or has asked for it.
Locked  == {"check", "script", "record", "commit", "unlock", "abort"}
Opening == {"lock"} \cup Locked
\* The transaction of a migration is open.
InTx == {"record", "commit"}

Init ==
  /\ timeout \in Timeouts
  /\ boot = [i \in Instances |-> [at |-> "down", v |-> 1]]
  /\ user = [c \in Conns |-> None]
  /\ alive = [c \in Conns |-> TRUE]
  /\ task = [t \in Tasks |-> Idle]
  /\ lock = [l \in Locks |-> None]
  /\ recorded = {}
  /\ ran = [v \in Versions |-> 0]

-----------------------------------------------------------------------------
(* Sessions.                                                               *)

\* The locks of the sessions in S pass to new: free once the server has
\* ended the session, Ghost as long as it has not noticed.
Disown(S, new) ==
  lock' = [l \in Locks |-> IF lock[l] \in S THEN new ELSE lock[l]]

Pool(i) == {c \in Conns : Home[c] = i}

\* pgxpool: a connection that is broken when it is released is replaced, so
\* an unused one has a living session.
Release(c) ==
  /\ user' = [user EXCEPT ![c] = None]
  /\ alive' = [alive EXCEPT ![c] = TRUE]

\* The server drops the session of New or of a batch lock, its locks and its
\* transaction.  (One of a single statement: that statement fails.)
LoseConn(c) ==
  /\ user[c] \in Instances \/ \E t \in Tasks : task[t].held = c
  /\ alive[c]
  /\ alive' = [alive EXCEPT ![c] = FALSE]
  /\ Disown({c}, None)
  /\ UNCHANGED <<timeout, boot, user, task, recorded, ran>>

\* MaxConnLifetime, MaxConnIdleTime: the pool closes an unused connection.
Recycle(c) ==
  /\ user[c] = None /\ \E l \in Locks : lock[l] = c
  /\ Disown({c}, None)
  /\ UNCHANGED <<timeout, boot, user, alive, task, recorded, ran>>

\* The server notices that a client is gone.
EndGhost(l) ==
  /\ lock[l] = Ghost
  /\ lock' = [lock EXCEPT ![l] = None]
  /\ UNCHANGED <<timeout, boot, user, alive, task, recorded, ran>>

-----------------------------------------------------------------------------
(* New: ping and migrations.                                               *)

At(i, from) == boot[i].at = from
Goto(i, to, v) == boot' = [boot EXCEPT ![i] = [at |-> to, v |-> v]]
Session(i) == {c \in Conns : user[c] = i}

\* The ping and the connection for the migrations; an error closes the pool,
\* and the instance has not started.
New(i) ==
  /\ At(i, "down") /\ Goto(i, "lock", 1)
  /\ \E c \in Pool(i) : user' = [user EXCEPT ![c] = i]
  /\ UNCHANGED <<timeout, alive, task, lock, recorded, ran>>

\* Mutant: pg_try_advisory_lock, and its answer is not looked at.
TryMigrationLock(i) ==
  /\ At(i, "lock")
  /\ \E c \in Session(i) :
       lock' = [lock EXCEPT ![Migrations] = IF @ = None THEN c ELSE @]
  /\ Goto(i, "check", 1)
  /\ UNCHANGED <<timeout, user, alive, task, recorded, ran>>

\* pg_advisory_lock blocks until the lock is free.
AcquireMigrationLock(i) ==
  /\ At(i, "lock") /\ lock[Migrations] = None
  /\ \E c \in Session(i) : /\ alive[c]
                           /\ lock' = [lock EXCEPT ![Migrations] = c]
  /\ Goto(i, "check", 1)
  /\ UNCHANGED <<timeout, user, alive, task, recorded, ran>>

\* The wait fails or times out: the request may still be granted to a session
\* that nobody uses any more.
LockFails(i) ==
  /\ At(i, "lock")
  /\ \E c \in Session(i) : Release(c)
  /\ \/ UNCHANGED lock
     \/ lock[Migrations] = None /\ lock' = [lock EXCEPT ![Migrations] = Ghost]
  /\ Goto(i, "down", 1)
  /\ UNCHANGED <<timeout, task, recorded, ran>>

\* The failures that end every wait.
WaitTimesOut(i) ==
  (timeout \/ \E c \in Session(i) : ~alive[c]) /\ LockFails(i)

\* A statement of runMigrations is answered.
Answered(i, from) == At(i, from) /\ \A c \in Session(i) : alive[c]

\* Mutant: the last file is not looked at.
CheckButLast(i) ==
  /\ Answered(i, "check")
  /\ LET v == boot[i].v IN
       IF v >= Files[i] THEN Goto(i, "unlock", 1)
         ELSE IF v \in recorded THEN Goto(i, "check", v + 1)
         ELSE Goto(i, "script", v)
  /\ UNCHANGED <<timeout, user, alive, task, lock, recorded, ran>>

\* The table of versions is there; the loop over the sorted file names, with
\* isMigrationApplied.
IsMigrationApplied(i) ==
  /\ Answered(i, "check")
  /\ LET v == boot[i].v IN
       IF v > Files[i] THEN Goto(i, "unlock", 1)
         ELSE IF v \in recorded THEN Goto(i, "check", v + 1)
         ELSE Goto(i, "script", v)
  /\ UNCHANGED <<timeout, user, alive, task, lock, recorded, ran>>

\* Begin and the script: visible to nobody else before the commit.
ExecuteScript(i) ==
  /\ Answered(i, "script") /\ Goto(i, "record", boot[i].v)
  /\ UNCHANGED <<timeout, user, alive, task, lock, recorded, ran>>

\* The insert; version is the primary key.
RecordVersion(i) ==
  /\ Answered(i, "record") /\ boot[i].v \notin recorded
  /\ Goto(i, "commit", boot[i].v)
  /\ UNCHANGED <<timeout, user, alive, task, lock, recorded, ran>>

\* Script and record become visible together; the answer may be lost.
Committed(i) ==
  /\ Answered(i, "commit")
  /\ recorded' = recorded \cup {boot[i].v}
  /\ ran' = [ran EXCEPT ![boot[i].v] = @ + 1]

Commit(i) ==
  /\ Committed(i)
  /\ \/ Goto(i, "check", boot[i].v + 1) \/ Goto(i, "abort", 1)
  /\ UNCHANGED <<timeout, user, alive, task, lock>>

\* Mutant: a script that was executed stays although its record is not made.
FailKeepsScript(i) ==
  /\ boot[i].at \in Locked \ {"unlock", "abort"}
  /\ Goto(i, "abort", 1)
  /\ ran' = IF At(i, "record") THEN [ran EXCEPT ![boot[i].v] = @ + 1] ELSE ran
  /\ UNCHANGED <<timeout, user, alive, task, lock, recorded>>

\* A statement fails: the transaction is rolled back, by the server when it
\* ends the session, or by the client.
MigrationFails(i) ==
  /\ boot[i].at \in Locked \ {"unlock", "abort"}
  /\ Goto(i, "abort", 1)
  /\ UNCHANGED <<timeout, user, alive, task, lock, recorded, ran>>

\* Mutant: without the unlock after the last migration.
UnlockForgotten(i) ==
  /\ boot[i].at \in {"unlock", "abort"}
  /\ Goto(i, IF At(i, "unlock") THEN "serve" ELSE "down", 1)
  /\ \E c \in Session(i) :
       Release(c) /\ IF At(i, "unlock") THEN UNCHANGED lock ELSE Disown({c}, None)
  /\ UNCHANGED <<timeout, task, recorded, ran>>

\* The deferred unlock, whose errors are ignored, and the release: the lock is
\* free, or the connection is closed and the server has not noticed.
Unlock(i) ==
  /\ boot[i].at \in {"unlock", "abort"}
  /\ Goto(i, IF At(i, "unlock") THEN "serve" ELSE "down", 1)
  /\ \E c \in Session(i), new \in {None, Ghost} : Release(c) /\ Disown({c}, new)
  /\ UNCHANGED <<timeout, task, recorded, ran>>

BootStep(i) ==
  \/ AcquireMigrationLock(i) \/ IsMigrationApplied(i) \/ ExecuteScript(i)
  \/ RecordVersion(i) \/ Commit(i) \/ MigrationFails(i) \/ Unlock(i)
-----------------------------------------------------------------------------
(* Tasks: single statements, and jobs that keep one connection for their   *)
(* lock and take others for their statements.                              *)

Live(t) == At(Home[t], "serve")

Move(t, from, to) ==
  /\ task[t].at = from
  /\ task' = [task EXCEPT ![t] = to]

After(t) == IF task[t].held = None THEN Idle ELSE [task[t] EXCEPT !.at = "work"]

Acquire(c, t) == user[c] = None /\ Home[c] = Home[t]
                   /\ user' = [user EXCEPT ![c] = t]

\* A statement of a handler or of retention.  (Those of a job before its lock
\* take and return a connection like them.)
AskStatement(t) ==
  /\ t \notin Jobs /\ Live(t) /\ Move(t, "idle", [Idle EXCEPT !.at = "query"])
  /\ UNCHANGED <<timeout, boot, user, alive, lock, recorded, ran>>

AskLock(t, l) ==
  /\ t \in Jobs /\ Live(t)
  /\ Move(t, "idle", [Idle EXCEPT !.at = "acquire", !.range = l])
  /\ UNCHANGED <<timeout, boot, user, alive, lock, recorded, ran>>

\* AcquireBatchLock gets its connection.
AcquireForLock(t) ==
  /\ \E c \in Conns :
       /\ Acquire(c, t)
       /\ Move(t, "acquire", [task[t] EXCEPT !.at = "try", !.held = c])
  /\ UNCHANGED <<timeout, boot, alive, lock, recorded, ran>>

\* Mutant: the connection is not released when the lock is taken.
RefusedKeepsConn(t) ==
  LET c == task[t].held IN
  /\ task[t].at = "try" /\ alive[c]
  /\ \/ /\ lock[task[t].range] \in {None, c}
        /\ lock' = [lock EXCEPT ![task[t].range] = c]
        /\ Move(t, "try", [task[t] EXCEPT !.at = "work", !.left = Calls])
     \/ /\ lock[task[t].range] \notin {None, c}
        /\ Move(t, "try", Idle)
        /\ UNCHANGED lock
  /\ UNCHANGED <<timeout, boot, user, alive, recorded, ran>>

\* pg_try_advisory_lock: a session gets a lock it has again; a job that is
\* refused returns its connection.
TryBatchLock(t) ==
  LET c == task[t].held IN
  /\ task[t].at = "try" /\ alive[c]
  /\ \/ /\ lock[task[t].range] \in {None, c}
        /\ lock' = [lock EXCEPT ![task[t].range] = c]
        /\ Move(t, "try", [task[t] EXCEPT !.at = "work", !.left = Calls])
        /\ UNCHANGED <<user, alive>>
     \/ /\ lock[task[t].range] \notin {None, c}
        /\ Move(t, "try", Idle) /\ Release(c)
        /\ UNCHANGED lock
  /\ UNCHANGED <<timeout, boot, recorded, ran>>

\* The request fails, and its connection with it: a lock granted meanwhile,
\* and those it has, end when the server notices.
TryFails(t) ==
  LET c == task[t].held IN
  /\ Move(t, "try", Idle) /\ Release(c)
  /\ \/ \E new \in {None, Ghost} : Disown({c}, new)
     \/ /\ lock[task[t].range] = None
        /\ lock' = [l \in Locks |-> IF lock[l] = c \/ l = task[t].range
                                      THEN Ghost ELSE lock[l]]
  /\ UNCHANGED <<timeout, boot, recorded, ran>>

\* executeNext between lock and unlock: the next statement, or the end.
Work(t) ==
  /\ \/ /\ task[t].left > 0
        /\ Move(t, "work", [task[t] EXCEPT !.at = "query", !.left = @ - 1])
     \/ Move(t, "work", [task[t] EXCEPT !.at = "unlock"])
  /\ UNCHANGED <<timeout, boot, user, alive, lock, recorded, ran>>

\* A statement gets its connection.
AcquireForStatement(t) ==
  /\ \E c \in Conns : Acquire(c, t)
  /\ Move(t, "query", [task[t] EXCEPT !.at = "exec"])
  /\ UNCHANGED <<timeout, boot, alive, lock, recorded, ran>>

\* The connection a statement of t runs on.
StatementConn(t) == {c \in Conns : user[c] = t /\ c # task[t].held}

\* The statement ends; one that times out closes its connection.
Statement(t) ==
  /\ Move(t, "exec", After(t))
  /\ \E c \in StatementConn(t) :
       /\ Release(c)
       /\ UNCHANGED lock \/ \E new \in {None, Ghost} : Disown({c}, new)
  /\ UNCHANGED <<timeout, boot, recorded, ran>>

\* Mutant: the context of a job has no deadline.
GiveUpWithoutDeadline(t) ==
  /\ \/ /\ timeout \/ ~Live(t)
        /\ Move(t, "query", IF task[t].held = None THEN Idle
                              ELSE [task[t] EXCEPT !.at = "unlock"])
     \/ Move(t, "acquire", Idle)
  /\ UNCHANGED <<timeout, boot, user, alive, lock, recorded, ran>>

\* Waiting for a connection ends with the query timeout, the deadline of a
\* job, or the shutdown.
GiveUp(t) ==
  /\ \/ /\ timeout \/ t \in Jobs \/ ~Live(t)
        /\ Move(t, "query", IF task[t].held = None THEN Idle
                              ELSE [task[t] EXCEPT !.at = "unlock"])
     \/ Move(t, "acquire", Idle)
  /\ UNCHANGED <<timeout, boot, user, alive, lock, recorded, ran>>

\* Mutant: the connection returns to the pool with its lock.
ReleaseLocked(t) ==
  /\ Move(t, "unlock", Idle)
  /\ Release(task[t].held)
  /\ UNCHANGED <<timeout, boot, lock, recorded, ran>>

\* The deferred unlock.  Without a query timeout its own context has expired
\* before it starts: nothing is sent, and the connection keeps the lock.
UnlockBatch(t) ==
  LET c == task[t].held IN
  /\ Move(t, "unlock", Idle)
  /\ Release(c)
  /\ IF timeout THEN \E new \in {None, Ghost} :
                       lock' = [lock EXCEPT ![task[t].range] =
                                  IF @ = c THEN new ELSE @]
                ELSE UNCHANGED lock
  /\ UNCHANGED <<timeout, boot, recorded, ran>>

TaskStep(t) ==
  \/ AcquireForLock(t) \/ TryBatchLock(t) \/ TryFails(t) \/ Work(t)
  \/ AcquireForStatement(t) \/ Statement(t) \/ GiveUp(t) \/ UnlockBatch(t)

-----------------------------------------------------------------------------
(* The end of an instance.                                                 *)

Signal(i) ==
  /\ At(i, "serve") /\ Goto(i, "stop", 1)
  /\ UNCHANGED <<timeout, user, alive, task, lock, recorded, ran>>

\* Handlers, jobs and retention are gone; Close waits for all connections.
Close(i) ==
  /\ At(i, "stop") /\ Goto(i, "down", 1)
  /\ \A t \in Tasks : Home[t] = i => task[t] = Idle
  /\ \A c \in Pool(i) : user[c] = None
  /\ Disown(Pool(i), None)
  /\ UNCHANGED <<timeout, user, alive, task, recorded, ran>>

\* The process is killed: the server finds out later.
Crash(i) ==
  /\ ~At(i, "down") /\ Goto(i, "down", 1)
  /\ user' = [c \in Conns |-> IF Home[c] = i THEN None ELSE user[c]]
  /\ alive' = [c \in Conns |-> Home[c] = i \/ alive[c]]
  /\ task' = [t \in Tasks |-> IF Home[t] = i THEN Idle ELSE task[t]]
  /\ \E new \in {None, Ghost} : Disown(Pool(i), new)
  /\ UNCHANGED <<timeout, recorded, ran>>

Next ==
  \/ \E i \in Instances : New(i) \/ BootStep(i) \/ LockFails(i) \/ Signal(i)
                            \/ Close(i) \/ Crash(i)
  \/ \E t \in Tasks : AskStatement(t) \/ TaskStep(t)
                        \/ \E l \in Ranges : AskLock(t, l)
  \/ \E c \in Conns : LoseConn(c) \/ Recycle(c)
  \/ \E l \in Locks : EndGhost(l)

Spec == Init /\ [][Next]_vars

\* Goroutines are scheduled, statements are answered, fail or run into their
\* timeout, the server ends dead sessions; PostgreSQL grants locks and pgxpool
\* hands out connections in the order of the requests, so a request is not
\* passed over for ever.  The wait for the migration lock ends with its
\* connection and, if there is one, with the query timeout.  Nothing is assumed
\* of starts, signals, crashes and the work that arrives.
FairSpec ==
  /\ Spec
  /\ \A i \in Instances :
       /\ WF_vars(BootStep(i) \/ Close(i) \/ WaitTimesOut(i))
       /\ SF_vars(AcquireMigrationLock(i))
  /\ \A t \in Tasks : WF_vars(TaskStep(t))
  /\ \A t \in Tasks \ Jobs : SF_vars(AcquireForStatement(t))
  /\ \A l \in Locks : WF_vars(EndGhost(l))

-----------------------------------------------------------------------------
(* Properties.                                                             *)

\* Every variable keeps its type.
TypeOK ==
  /\ timeout \in BOOLEAN
  /\ boot \in [Instances -> [at : {"down", "serve", "stop"}
                                    \cup Opening, v : Nat]]
  /\ user \in [Conns -> Tasks \cup Instances \cup {None}]
  /\ alive \in [Conns -> BOOLEAN]
  /\ task \in [Tasks -> [at : {"idle", "acquire", "try", "work", "query",
                               "exec", "unlock"},
                         range : Ranges \cup {None},
                         held : Conns \cup {None}, left : Nat]]
  /\ lock \in [Locks -> Conns \cup {None, Ghost}]
  /\ recorded \subseteq Versions
  /\ ran \in [Versions -> Nat]

\* CHANGELOG.md, 2026-07-15: instances that start at the same time do not
\* execute migrations at the same time.  A transaction whose session is gone
\* is over.
MigrationsSerialised ==
  \A i, j \in Instances :
    boot[i].at \in InTx /\ boot[j].at \in InTx
      /\ (\E c \in Session(i) : alive[c]) /\ (\E c \in Session(j) : alive[c])
    => i = j

\* A script takes effect exactly when it is recorded, never again, and after
\* those before it, however often instances are killed or fail between its
\* statements: each finds the schema it was written for.
AppliedOnceInOrder ==
  \A v \in Versions : /\ ran[v] = IF v \in recorded THEN 1 ELSE 0
                      /\ v \in recorded => 1 .. v \subseteq recorded

\* An instance that handles messages has the schema of its binary.
ServesMigrated ==
  \A i \in Instances :
    boot[i].at \in {"serve", "stop"} => 1 .. Files[i] \subseteq recorded

\* No connection is leaked: one that is acquired belongs to a task or to New,
\* which will release it.
HeldBy(c) == {t \in Tasks : task[t].held = c}
ConnsAccounted ==
  \A c \in Conns :
    /\ user[c] \in Instances => boot[user[c]].at \in Opening
    /\ user[c] \in Tasks =>
         task[user[c]].held = c \/ task[user[c]].at = "exec"
    /\ \A t \in HeldBy(c) : user[c] = t

\* The lock of a range is held by the session of the job that digests it; and
\* with a query timeout by no connection of the pool that nobody uses: such a
\* lock would refuse every later job of the range until the connection is
\* recycled.
LocksFollowJobs ==
  /\ \A t \in Tasks :
       task[t].held # None /\ task[t].at # "try" /\ alive[task[t].held]
         => lock[task[t].range] = task[t].held
  /\ timeout => \A l \in Ranges : lock[l] \in Conns =>
       \E t \in HeldBy(lock[l]) : task[t].range = l

\* A start ends: no migration waits for ever for the lock of another start,
\* one that was killed included.
StartEnds ==
  \A i \in Instances : boot[i].at = "lock" ~> boot[i].at \in {"serve", "down"}

\* However many jobs wait for connections that others hold, every wait ends.
WaitsEnd ==
  \A t \in Tasks \ Jobs : task[t].at = "query" ~> task[t].at # "query"

\* The deferred Close, which waits for every connection, returns.
CloseReturns == \A i \in Instances : boot[i].at = "stop" ~> boot[i].at = "down"
=============================================================================
