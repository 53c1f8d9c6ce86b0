----------------------------- MODULE Migration -----------------------------
(***************************************************************************)
(* Store.Migrate (internal/store/store.go), run at start-up by every        *)
(* instance of the sidecar against one database.  Each of its statements    *)
(* goes through pool.Exec, which borrows any idle session of the instance's *)
(* pool or opens one; the advisory lock of line 128 belongs to the session  *)
(* that took it.  The pool opens sessions in the background (MinConns) and  *)
(* closes idle ones (MaxConnLifetime, MaxConnIdleTime) whenever it likes.   *)
(*                                                                          *)
(* The migration files, sorted by name, are 1..NumVersions.                 *)
(***************************************************************************)
EXTENDS Naturals, FiniteSets

CONSTANTS
    Instances,     \* sidecar processes
    Sessions,      \* session slots of a pool (MaxConns of them)
    NumVersions    \* migration files

ASSUME NumVersionsAssumption == NumVersions \in Nat
ASSUME SessionsAssumption == IsFiniteSet(Sessions) /\ Sessions # {}

Versions == 1..NumVersions
NoOwner == <<>>

VARIABLES
    pc,         \* pc[i]: where Migrate of instance i is
    cur,        \* cur[i]: the file its loop is at
    err,        \* err[i]: Migrate is returning an error
    open,       \* open[i]: sessions the pool of i has open
    waitOn,     \* waitOn[i]: the session blocked in pg_advisory_lock
    owner,      \* database: <<i, s>> holding the lock, or NoOwner
    applied,    \* database: files whose SQL has been executed
    recorded    \* database: rows of schema_migrations

vars == <<pc, cur, err, open, waitOn, owner, applied, recorded>>

PCs == {"down", "start", "locking", "create", "check", "apply", "record",
        "unlock", "done"}
Migrating == {"create", "check", "apply", "record"}

TypeOK ==
    /\ pc \in [Instances -> PCs]
    /\ cur \in [Instances -> 1..(NumVersions + 1)]
    /\ err \in [Instances -> BOOLEAN]
    /\ open \in [Instances -> SUBSET Sessions]
    /\ waitOn \in [Instances -> SUBSET Sessions]
    /\ owner \in {NoOwner} \cup (Instances \X Sessions)
    /\ applied \subseteq Versions
    /\ recorded \subseteq Versions

Init ==
    /\ pc = [i \in Instances |-> "down"]
    /\ cur = [i \in Instances |-> 1]
    /\ err = [i \in Instances |-> FALSE]
    /\ open = [i \in Instances |-> {}]
    /\ waitOn = [i \in Instances |-> {}]
    /\ owner = NoOwner
    /\ applied = {} /\ recorded = {}

-----------------------------------------------------------------------------
Goto(i, l) == pc' = [pc EXCEPT ![i] = l]

\* pool.Exec runs on session s of instance i, opening it if need be.
Borrow(i, s) == open' = [open EXCEPT ![i] = @ \cup {s}]

\* NewWithPoolOptions: the ping opens a first session.
Start(i) ==
    /\ pc[i] = "down"
    /\ \E s \in Sessions : open' = [open EXCEPT ![i] = {s}]
    /\ Goto(i, "start")
    /\ cur' = [cur EXCEPT ![i] = 1]
    /\ err' = [err EXCEPT ![i] = FALSE]
    /\ UNCHANGED <<waitOn, owner, applied, recorded>>

\* SELECT pg_advisory_lock is sent, and blocks on its session ...
Lock(i) ==
    /\ pc[i] = "start"
    /\ \E s \in Sessions :
          Borrow(i, s) /\ waitOn' = [waitOn EXCEPT ![i] = {s}]
    /\ Goto(i, "locking")
    /\ UNCHANGED <<cur, err, owner, applied, recorded>>

\* ... until the lock is free.
Granted(i) ==
    /\ pc[i] = "locking" /\ owner = NoOwner
    /\ \E s \in waitOn[i] : owner' = <<i, s>>
    /\ waitOn' = [waitOn EXCEPT ![i] = {}]
    /\ Goto(i, "create")
    /\ UNCHANGED <<cur, err, open, applied, recorded>>

\* CREATE TABLE IF NOT EXISTS schema_migrations
Create(i) ==
    /\ pc[i] = "create"
    /\ \E s \in Sessions : Borrow(i, s)
    /\ Goto(i, "check")
    /\ UNCHANGED <<cur, err, waitOn, owner, applied, recorded>>

Bug_CheckOnePastEnd(i) ==
    /\ pc[i] = "check" /\ cur[i] <= NumVersions + 1
    /\ \E s \in Sessions : Borrow(i, s)
    /\ \/ /\ cur[i] \in recorded
          /\ cur' = [cur EXCEPT ![i] = @ + 1]
          /\ UNCHANGED pc
       \/ /\ cur[i] \notin recorded
          /\ Goto(i, "apply")
          /\ UNCHANGED cur
    /\ UNCHANGED <<err, waitOn, owner, applied, recorded>>

\* The loop: skip a recorded file, apply another, return after the last.
Check(i) ==
    /\ pc[i] = "check" /\ cur[i] \in Versions
    /\ \E s \in Sessions : Borrow(i, s)
    /\ \/ /\ cur[i] \in recorded
          /\ cur' = [cur EXCEPT ![i] = @ + 1]
          /\ UNCHANGED pc
       \/ /\ cur[i] \notin recorded
          /\ Goto(i, "apply")
          /\ UNCHANGED cur
    /\ UNCHANGED <<err, waitOn, owner, applied, recorded>>

LoopEnds(i) ==
    /\ pc[i] = "check" /\ cur[i] \notin Versions
    /\ Goto(i, "unlock")
    /\ UNCHANGED <<cur, err, open, waitOn, owner, applied, recorded>>

Bug_RecordBeforeApply(i) ==
    /\ pc[i] = "apply"
    /\ \E s \in Sessions : Borrow(i, s)
    /\ recorded' = recorded \cup {cur[i]}
    /\ Goto(i, "record")
    /\ UNCHANGED <<cur, err, waitOn, owner, applied>>

\* Every file is one transaction, and idempotent (IF NOT EXISTS).
Apply(i) ==
    /\ pc[i] = "apply"
    /\ \E s \in Sessions : Borrow(i, s)
    /\ applied' = applied \cup {cur[i]}
    /\ Goto(i, "record")
    /\ UNCHANGED <<cur, err, waitOn, owner, recorded>>

Bug_RecordErrorIgnored(i) ==
    /\ pc[i] = "record"
    /\ \E s \in Sessions : Borrow(i, s)
    /\ recorded' \in {recorded, recorded \cup {cur[i]}}
    /\ cur' = [cur EXCEPT ![i] = @ + 1]
    /\ Goto(i, "check")
    /\ UNCHANGED <<err, waitOn, owner, applied>>

Bug_RecordSkipsOne(i) ==
    /\ pc[i] = "record"
    /\ \E s \in Sessions : Borrow(i, s)
    /\ recorded' = recorded \cup {cur[i]}
    /\ cur' = [cur EXCEPT ![i] = IF @ < NumVersions THEN @ + 2 ELSE @ + 1]
    /\ Goto(i, "check")
    /\ UNCHANGED <<err, waitOn, owner, applied>>

\* INSERT INTO schema_migrations: the primary key refuses a second row.
Record(i) ==
    /\ pc[i] = "record"
    /\ \E s \in Sessions : Borrow(i, s)
    /\ \/ /\ cur[i] \notin recorded
          /\ recorded' = recorded \cup {cur[i]}
          /\ cur' = [cur EXCEPT ![i] = @ + 1]
          /\ Goto(i, "check")
          /\ UNCHANGED err
       \/ /\ cur[i] \in recorded
          /\ err' = [err EXCEPT ![i] = TRUE]
          /\ Goto(i, "unlock")
          /\ UNCHANGED <<recorded, cur>>
    /\ UNCHANGED <<waitOn, owner, applied>>

\* A statement fails, or ctx is cancelled: Migrate returns the error.
Fails(i) ==
    /\ pc[i] \in Migrating
    /\ err' = [err EXCEPT ![i] = TRUE]
    /\ Goto(i, "unlock")
    /\ UNCHANGED <<cur, open, waitOn, owner, applied, recorded>>

\* Sessions of S close; the server drops the lock of a closed session.
Close(i, S) ==
    /\ open' = [open EXCEPT ![i] = @ \ S]
    /\ IF \E s \in S : owner = <<i, s>>
       THEN owner' = NoOwner
       ELSE UNCHANGED owner

(* The deferred pg_advisory_unlock: on a session that does not own the lock *)
(* it only raises a warning, and its result is ignored.                     *)
Unlock(i) ==
    /\ pc[i] = "unlock" /\ ~err[i]
    /\ \E s \in Sessions :
          /\ Borrow(i, s)
          /\ IF owner = <<i, s>>
             THEN owner' = NoOwner
             ELSE UNCHANGED owner
    /\ Goto(i, "done")
    /\ UNCHANGED <<cur, err, waitOn, applied, recorded>>

\* After an error the unlock makes no difference: os.Exit(1) ends every session.
ExitOnError(i) ==
    /\ pc[i] = "unlock" /\ err[i]
    /\ Close(i, open[i])
    /\ Goto(i, "down")
    /\ UNCHANGED <<cur, err, waitOn, applied, recorded>>

\* A crash, a shutdown, or the exit after pg_advisory_lock itself failed.
Crash(i) ==
    /\ pc[i] # "down"
    /\ Close(i, open[i])
    /\ waitOn' = [waitOn EXCEPT ![i] = {}]
    /\ Goto(i, "down")
    /\ UNCHANGED <<cur, err, applied, recorded>>

\* The pool retires an idle session that is too old or has idled too long.
Bug_RecycleSparesOwner(i, s) ==
    /\ s \in open[i] /\ s \notin waitOn[i] /\ owner # <<i, s>>
    /\ Close(i, {s})
    /\ UNCHANGED <<pc, cur, err, waitOn, applied, recorded>>

Recycle(i, s) ==
    /\ s \in open[i] /\ s \notin waitOn[i]
    /\ Close(i, {s})
    /\ UNCHANGED <<pc, cur, err, waitOn, applied, recorded>>

Step(i) ==
    \/ Lock(i) \/ Granted(i) \/ Create(i) \/ Check(i) \/ LoopEnds(i)
    \/ Apply(i) \/ Record(i) \/ Unlock(i) \/ ExitOnError(i)

Next ==
    \E i \in Instances :
        \/ Start(i) \/ Step(i) \/ Fails(i) \/ Crash(i)
        \/ \E s \in Sessions : Recycle(i, s)

(* Calls return, PostgreSQL grants the lock first come first served, and    *)
(* the pool retires every session in the end (MaxConnLifetime).             *)
Fairness ==
    \A i \in Instances :
        /\ WF_vars(Step(i)) /\ SF_vars(Granted(i))
        /\ \A s \in Sessions : WF_vars(Recycle(i, s))

Spec == Init /\ [][Next]_vars /\ Fairness

-----------------------------------------------------------------------------
(* A file that schema_migrations lists has been executed, whatever crashes  *)
(* or competes: a crash between the two statements repeats the file, never  *)
(* skips it (apply before record in the loop of Migrate).                   *)
RecordedWasApplied == recorded \subseteq applied

(* No file is executed before the ones it builds on are recorded, even when *)
(* two instances migrate at once; so the record never has a gap.            *)
AppliedInOrder == \A v \in applied : \A u \in 1..(v - 1) : u \in recorded

(* An instance that goes on to serve finds the whole schema (Migrate        *)
(* returned nil).                                                           *)
ReadyMeansMigrated == \A i \in Instances : pc[i] = "done" => recorded = Versions

(* No instance waits for the migration lock for ever, although the unlock   *)
(* may miss the session that owns it.                                       *)
LockWaitEnds ==
    \A i \in Instances : pc[i] = "locking" ~> pc[i] # "locking"

(* ADR-002: "only one sidecar instance runs migrations at any given time".  *)
DocOneMigrator ==
    Cardinality({i \in Instances : pc[i] \in Migrating}) <= 1
=============================================================================
