-------------------------- MODULE CommandExpansion --------------------------
(***************************************************************************)
(* The Command status report: CommandDetailsAPIView.post and               *)
(* expand_command of src/changes/api/command_details.py, for one Command   *)
(* of one JobStep.                                                          *)
(*                                                                         *)
(* Each report is one HTTP request, handled in its own database           *)
(* transaction.  A request reads the Command (line 60) and writes it at    *)
(* the commit (line 114); other requests may commit in between.  The       *)
(* flush writes only the columns whose value differs from the one the     *)
(* request loaded, so a request overwrites exactly what it changed.  The   *)
(* expand:<id> lock is taken only by reports that carry output or the      *)
(* finished status (lines 51-57), and it may expire while held.            *)
(***************************************************************************)
EXTENDS Integers, Sequences

CONSTANTS
  Reports,        \* the status reports (HTTP requests) sent for the Command
  ReportArgs,     \* the argument sets a report may carry
  HasExpander,    \* whether EXPANDERS has an entry for the Command's type
  MaxSteps,       \* the most JobSteps an expansion creates
  LockCanExpire,  \* whether the lock's 15 s expiry may pass while it is held
  NoReport        \* no holder of the lock

(* A report's status ("none" when absent), whether it carries output, and *)
(* whether expander.validate() accepts that output.                        *)
ReportStatus == {"none", "queued", "in_progress", "finished"}
ArgsType == [status : ReportStatus, output : BOOLEAN, valid : BOOLEAN]

ASSUME ReportsAssumption ==
  /\ NoReport \notin Reports
  /\ ReportArgs \subseteq ArgsType
ASSUME ExpanderAssumption ==
  /\ HasExpander \in BOOLEAN
  /\ LockCanExpire \in BOOLEAN
  /\ MaxSteps \in Nat

CmdStatus == {"queued", "in_progress", "finished"}
(* The Command columns the handler writes; the dates are "set or None". *)
CmdType == [status : CmdStatus, started : BOOLEAN, finished : BOOLEAN]
FailingResults == {"aborted", "failed", "infra_failed"}
StepResults == {"unknown", "passed"} \cup FailingResults
PhaseType == [status : {"queued", "finished"},
              result : {"unknown", "passed"}, steps : 0..MaxSteps]
(* Request stages: not yet sent, read and holding its changes, changes  *)
(* ready to commit at teardown with the lock already released, returned. *)
Stages == {"new", "read", "teardown", "done"}
NoExpansion == -1
(* The JobSteps expansions may create: the i-th step of request r's one. *)
StepIds == Reports \X (1..MaxSteps)

VARIABLES
  cmd,        \* the committed Command row
  stepResult, \* the committed result of the Command's JobStep
  phases,     \* the JobPhases created by expansions, in commit order
  lock,       \* the holder of expand:<id>
  rstage,     \* where each request is
  rargs,      \* the arguments of each request
  rread,      \* the Command as each request loaded it
  rnew,       \* the Command as each request has changed it
  rexp,       \* the JobSteps each request's expansion made, or NoExpansion
  tasks,      \* the sync_job_step tasks enqueued and not yet taken
  steps       \* the JobSteps of committed expansions

vars == <<cmd, stepResult, phases, lock, rstage, rargs, rread, rnew, rexp,
          tasks, steps>>

Init ==
  /\ cmd = [status |-> "queued", started |-> FALSE, finished |-> FALSE]
  /\ stepResult = "unknown"
  /\ phases = << >>
  /\ lock = NoReport
  /\ rstage = [r \in Reports |-> "new"]
  /\ rargs \in [Reports -> ReportArgs]
  /\ rread = [r \in Reports |-> cmd]
  /\ rnew = [r \in Reports |-> cmd]
  /\ rexp = [r \in Reports |-> NoExpansion]
  /\ tasks = {}
  /\ steps = {}

(* Lines 51 and 87: the reports that take the lock and may expand. *)
NeedsLock(a) == a.output \/ a.status = "finished"

(* A slip: the "if args.status" guard of line 70 dropped. *)
UpdatedNoStatusGuard(c, a) ==
  [status   |-> a.status,
   finished |-> a.status = "finished",
   started  |-> a.status # "queued"]

(* Lines 67-82: the Command as the report changes it; a date is set when *)
(* it is None and due, and cleared when set and not due.                 *)
Updated(c, a) ==
  IF a.status = "none" THEN c
  ELSE [status   |-> a.status,
        finished |-> a.status = "finished",
        started  |-> a.status # "queued"]

(* Lines 84-85 and 114: the flush writes a column only if the request   *)
(* changed it from what it loaded.                                        *)
Flushed(r) ==
  [f \in {"status", "started", "finished"} |->
     IF rnew[r][f] # rread[r][f] THEN rnew[r][f] ELSE cmd[f]]

(* Lines 131-150: the phase an expansion into n JobSteps creates. *)
NewPhase(n) ==
  IF n = 0 THEN [status |-> "finished", result |-> "passed", steps |-> 0]
  ELSE [status |-> "queued", result |-> "unknown", steps |-> n]

(* Lines 141-145: the JobSteps create_expanded_jobstep makes for request *)
(* r's expansion into n steps.                                           *)
NewSteps(r, n) == {<<r, i>> : i \in 1..n}

(* Lines 152-160: after the flush, and before the commit of line 114,    *)
(* sync_job_step is enqueued for every new JobStep.                       *)
EnqueueSyncs(r, n) == tasks' = tasks \cup NewSteps(r, n)

Release(r) == lock' = IF lock = r THEN NoReport ELSE lock

(* Lines 51-57: a report that needs the lock finds it held; __enter__    *)
(* raises before the try, and the request fails with nothing done.       *)
LockBusy(r) ==
  /\ rstage[r] = "new"
  /\ NeedsLock(rargs[r])
  /\ lock # NoReport
  /\ rstage' = [rstage EXCEPT ![r] = "done"]
  /\ UNCHANGED <<cmd, stepResult, phases, lock, rargs, rread, rnew, rexp,
                 tasks, steps>>

(* A slip: the check of line 64 dropped. *)
BeginNoFinishedCheck(r) ==
  LET a == rargs[r]
      new == Updated(cmd, a)
      failing == stepResult \in FailingResults
  IN
  /\ rstage[r] = "new"
  /\ NeedsLock(a) => lock = NoReport
  /\ rread' = [rread EXCEPT ![r] = cmd]
  /\ rnew' = [rnew EXCEPT ![r] = new]
  /\ \/ /\ ~NeedsLock(a) \/ (~failing /\ ~HasExpander)
        /\ rstage' = [rstage EXCEPT ![r] = "read"]
        /\ lock' = IF NeedsLock(a) THEN r ELSE lock
        /\ UNCHANGED <<rexp, tasks>>
     \/ /\ NeedsLock(a) /\ failing
        /\ rstage' = [rstage EXCEPT ![r] = "teardown"]
        /\ UNCHANGED <<lock, rexp, tasks>>
     \/ /\ NeedsLock(a) /\ ~failing /\ HasExpander
        /\ ~(a.output /\ a.valid)
        /\ rstage' = [rstage EXCEPT ![r] = "done"]
        /\ UNCHANGED <<lock, rexp, tasks>>
     \/ /\ NeedsLock(a) /\ ~failing /\ HasExpander
        /\ a.output /\ a.valid
        /\ rstage' = [rstage EXCEPT ![r] = "read"]
        /\ lock' = r
        /\ \E n \in 0..MaxSteps : /\ rexp' = [rexp EXCEPT ![r] = n]
                                 /\ EnqueueSyncs(r, n)
  /\ UNCHANGED <<cmd, stepResult, phases, rargs, steps>>

(* Lines 56-112, up to the commit: take the lock if the report needs it, *)
(* load the Command, reject it if already finished (lines 64-65), apply  *)
(* the report (lines 67-85).  A report that needs the lock then: skips   *)
(* expansion when the JobStep already failed (lines 89-91), returning     *)
(* before the commit, so the lock is released in the finally clause and  *)
(* the flushed changes are committed at request teardown; is rolled back *)
(* when the type has an expander but the output is missing or invalid    *)
(* (lines 94-110); or is expanded (line 112).                            *)
Begin(r) ==
  LET a == rargs[r]
      new == Updated(cmd, a)
      failing == stepResult \in FailingResults
  IN
  /\ rstage[r] = "new"
  /\ NeedsLock(a) => lock = NoReport
  /\ \/ /\ cmd.status = "finished"
        /\ rstage' = [rstage EXCEPT ![r] = "done"]
        /\ UNCHANGED <<lock, rread, rnew, rexp, tasks>>
     \/ /\ cmd.status # "finished"
        /\ rread' = [rread EXCEPT ![r] = cmd]
        /\ rnew' = [rnew EXCEPT ![r] = new]
        /\ \/ /\ ~NeedsLock(a) \/ (~failing /\ ~HasExpander)
              /\ rstage' = [rstage EXCEPT ![r] = "read"]
              /\ lock' = IF NeedsLock(a) THEN r ELSE lock
              /\ UNCHANGED <<rexp, tasks>>
           \/ /\ NeedsLock(a) /\ failing
              /\ rstage' = [rstage EXCEPT ![r] = "teardown"]
              /\ UNCHANGED <<lock, rexp, tasks>>
           \/ /\ NeedsLock(a) /\ ~failing /\ HasExpander
              /\ ~(a.output /\ a.valid)
              /\ rstage' = [rstage EXCEPT ![r] = "done"]
              /\ UNCHANGED <<lock, rexp, tasks>>
           \/ /\ NeedsLock(a) /\ ~failing /\ HasExpander
              /\ a.output /\ a.valid
              /\ rstage' = [rstage EXCEPT ![r] = "read"]
              /\ lock' = r
              /\ \E n \in 0..MaxSteps : /\ rexp' = [rexp EXCEPT ![r] = n]
                                       /\ EnqueueSyncs(r, n)
  /\ UNCHANGED <<cmd, stepResult, phases, rargs, steps>>

(* Lines 114-118: the commit writes the changed Command columns and the  *)
(* expansion's phase and JobSteps, then the finally clause releases the  *)
(* lock.                                                                   *)
Commit(r) ==
  /\ rstage[r] = "read"
  /\ cmd' = Flushed(r)
  /\ phases' = IF rexp[r] = NoExpansion THEN phases
               ELSE Append(phases, NewPhase(rexp[r]))
  /\ steps' = IF rexp[r] = NoExpansion THEN steps
              ELSE steps \cup NewSteps(r, rexp[r])
  /\ Release(r)
  /\ rstage' = [rstage EXCEPT ![r] = "done"]
  /\ UNCHANGED <<stepResult, rargs, rread, rnew, rexp, tasks>>

(* Line 91: the flushed changes of a skipped expansion are committed     *)
(* when the request ends.                                                *)
Teardown(r) ==
  /\ rstage[r] = "teardown"
  /\ cmd' = Flushed(r)
  /\ rstage' = [rstage EXCEPT ![r] = "done"]
  /\ UNCHANGED <<stepResult, phases, lock, rargs, rread, rnew, rexp,
                 tasks, steps>>

(* The JobStep fails meanwhile (a timeout or a failing sync_job_step). *)
StepFails ==
  /\ stepResult = "unknown"
  /\ \E res \in FailingResults : stepResult' = res
  /\ UNCHANGED <<cmd, phases, lock, rstage, rargs, rread, rnew, rexp,
                 tasks, steps>>

(* The 15 s expiry of expand:<id> passes while its holder still runs. *)
LockExpires ==
  /\ LockCanExpire
  /\ lock # NoReport
  /\ lock' = NoReport
  /\ UNCHANGED <<cmd, stepResult, phases, rstage, rargs, rread, rnew, rexp,
                 tasks, steps>>

Next ==
  \/ \E r \in Reports : LockBusy(r) \/ Begin(r) \/ Commit(r) \/ Teardown(r)
  \/ StepFails
  \/ LockExpires

Spec == Init /\ [][Next]_vars

-----------------------------------------------------------------------------
(***************************************************************************)
(* Properties.                                                            *)
(***************************************************************************)

TypeOK ==
  /\ cmd \in CmdType
  /\ stepResult \in StepResults
  /\ phases \in Seq(PhaseType)
  /\ lock \in Reports \cup {NoReport}
  /\ rstage \in [Reports -> Stages]
  /\ rargs \in [Reports -> ReportArgs]
  /\ rread \in [Reports -> CmdType]
  /\ rnew \in [Reports -> CmdType]
  /\ rexp \in [Reports -> 0..MaxSteps \cup {NoExpansion}]
  /\ tasks \subseteq StepIds
  /\ steps \subseteq StepIds

(* The Command is expanded at most once, whatever reports arrive and in  *)
(* whatever order they commit: the purpose of the expand lock (the       *)
(* comment at lines 49-50, spec 4.5).                                    *)
AtMostOneExpansion == Len(phases) <= 1

=============================================================================
