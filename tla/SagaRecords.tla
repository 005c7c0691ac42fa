------------------------------ MODULE SagaRecords ------------------------------
(***************************************************************************)
(* The records the sagas keep of themselves (saga_helpers.go,              *)
(* saga_cleanup.go, SagaRepository), for one saga type and correlation id. *)
(* Every write is best-effort: a saga that cannot create its record, or    *)
(* whose write fails, goes on.  A starting process marks every record in   *)
(* progress as failed, those of living processes included; nothing resumes *)
(* a saga.  A record is old when SagaRetentionPeriod has passed since it   *)
(* was last written.                                                       *)
(***************************************************************************)
EXTENDS Integers

CONSTANTS
    SagaPods,
    SagaSteps,      \* TotalSteps
    MaxSagaRuns, MaxSagaFaults, MaxSagaCrashes

VARIABLES
    sagaRow,        \* the row with the saga type and correlation id
    sagaRun,        \* each process: the saga it runs
    sagaStart,      \* each process: "up", "down", or starting, with the rows it listed
    did,            \* history: steps done by the run of each record
    outcome,        \* history: how that run ended
    sagaCrossed,        \* history: records with a write that failed or came from a start-up
    sagaRuns, sagaFaults, sagaCrashes

sagaVars == <<sagaRow, sagaRun, sagaStart, did, outcome, sagaCrossed, sagaRuns, sagaFaults,
              sagaCrashes>>

Records == 1 .. MaxSagaRuns
NoRecord == 0
InProgress == {"running", "compensating"}
NoSaga == [id |-> NoRecord, st |-> "none", step |-> 0, old |-> FALSE]
NotRunning == [pc |-> "idle", id |-> NoRecord, step |-> 0]
Up == [pc |-> "up", listed |-> NoRecord]

-----------------------------------------------------------------------------
SagaInit ==
    /\ sagaRow = NoSaga
    /\ sagaRun = [p \in SagaPods |-> NotRunning]
    /\ sagaStart = [p \in SagaPods |-> Up]
    /\ did = [r \in Records |-> 0]
    /\ outcome = [r \in Records |-> "none"]
    /\ sagaCrossed = {}
    /\ sagaRuns = 0 /\ sagaFaults = 0 /\ sagaCrashes = 0

Fault(id) ==
    /\ sagaFaults < MaxSagaFaults /\ sagaFaults' = sagaFaults + 1
    /\ sagaCrossed' = sagaCrossed \cup {id}
    /\ UNCHANGED sagaRow

\* UpdateSagaProgress, CompleteSaga, FailSaga and MarkSagaCompensating: WHERE id = $1.
RowOf(id) == sagaRow.id = id

\* A best-effort write; a run without a record writes nothing.
Write(id, row) ==
    \/ /\ id # NoRecord
       /\ sagaRow' = IF RowOf(id) THEN row ELSE sagaRow
       /\ UNCHANGED <<sagaCrossed, sagaFaults>>
    \/ id # NoRecord /\ Fault(id)
    \/ id = NoRecord /\ UNCHANGED <<sagaRow, sagaCrossed, sagaFaults>>

Touched(st) == [sagaRow EXCEPT !.st = st, !.old = FALSE]

\* Create: the unique key refuses a second row, whatever the status of the first.
CreateSaga(p) ==
    LET id == sagaRuns + 1
    IN /\ sagaStart[p] = Up /\ sagaRun[p].pc = "idle"
       /\ sagaRuns < MaxSagaRuns /\ sagaRuns' = id
       /\ \/ /\ sagaRow = NoSaga
             /\ sagaRow' = [id |-> id, st |-> "running", step |-> 0, old |-> FALSE]
             /\ sagaRun' = [sagaRun EXCEPT ![p] = [pc |-> "run", id |-> id, step |-> 0]]
             /\ UNCHANGED <<sagaCrossed, sagaFaults>>
          \/ /\ \/ sagaRow # NoSaga /\ UNCHANGED <<sagaRow, sagaCrossed, sagaFaults>>
                \/ sagaRow = NoSaga /\ Fault(id)
             /\ sagaRun' = [sagaRun EXCEPT ![p] = [pc |-> "run", id |-> NoRecord, step |-> 0]]
       /\ UNCHANGED <<sagaStart, did, outcome, sagaCrashes>>

\* A step of the saga is done, and then checkpointed.
DoStep(p) ==
    LET run == sagaRun[p]
    IN /\ run.pc = "run" /\ run.step < SagaSteps
       /\ sagaRun' = [sagaRun EXCEPT ![p].pc = "checkpoint", ![p].step = @ + 1]
       /\ did' = IF run.id = NoRecord THEN did ELSE [did EXCEPT ![run.id] = run.step + 1]
       /\ UNCHANGED <<sagaRow, sagaStart, outcome, sagaCrossed, sagaRuns, sagaFaults, sagaCrashes>>

checkpointSaga(p) ==
    LET run == sagaRun[p]
    IN /\ run.pc = "checkpoint"
       /\ Write(run.id, [sagaRow EXCEPT !.step = run.step, !.old = FALSE])
       /\ sagaRun' = [sagaRun EXCEPT ![p].pc = "run"]
       /\ UNCHANGED <<sagaStart, did, outcome, sagaRuns, sagaCrashes>>

End(p, how) ==
    LET id == sagaRun[p].id
    IN /\ sagaRun' = [sagaRun EXCEPT ![p] = NotRunning]
       /\ outcome' = IF id = NoRecord THEN outcome ELSE [outcome EXCEPT ![id] = how]
       /\ UNCHANGED <<did, sagaRuns>>

completeSaga(p) ==
    /\ sagaRun[p].pc = "run" /\ sagaRun[p].step = SagaSteps
    /\ Write(sagaRun[p].id, Touched("completed"))
    /\ End(p, "completed")
    /\ UNCHANGED <<sagaStart, sagaCrashes>>

\* A step fails: failSaga, or first compensateSaga and the compensation.
failSaga(p) ==
    /\ sagaRun[p].pc \in {"run", "undo"} /\ (sagaRun[p].step < SagaSteps \/ sagaRun[p].pc = "undo")
    /\ Write(sagaRun[p].id, Touched("failed"))
    /\ End(p, "failed")
    /\ UNCHANGED <<sagaStart, sagaCrashes>>

compensateSaga(p) ==
    /\ sagaRun[p].pc = "run" /\ sagaRun[p].step < SagaSteps
    /\ Write(sagaRun[p].id, Touched("compensating"))
    /\ sagaRun' = [sagaRun EXCEPT ![p].pc = "undo"]
    /\ UNCHANGED <<sagaStart, did, outcome, sagaRuns, sagaCrashes>>

CrashSagaPod(p) ==
    /\ sagaStart[p] = Up
    /\ sagaCrashes < MaxSagaCrashes /\ sagaCrashes' = sagaCrashes + 1
    /\ sagaStart' = [sagaStart EXCEPT ![p] = [pc |-> "down", listed |-> NoRecord]]
    /\ End(p, "crashed")
    /\ UNCHANGED <<sagaRow, sagaCrossed, sagaFaults>>

\* ReportStaleOnStartup: GetRunning, and then Fail of what it listed.
GetRunning(p) ==
    /\ sagaStart[p].pc = "down"
    /\ sagaStart' = [sagaStart EXCEPT ![p] =
         [pc |-> "starting",
          listed |-> IF sagaRow.st \in InProgress THEN sagaRow.id ELSE NoRecord]]
    /\ UNCHANGED <<sagaRow, sagaRun, did, outcome, sagaCrossed, sagaRuns, sagaFaults, sagaCrashes>>

FailStale(p) ==
    LET id == sagaStart[p].listed
    IN /\ sagaStart[p].pc = "starting"
       /\ sagaStart' = [sagaStart EXCEPT ![p] = Up]
       /\ \/ /\ id # NoRecord
             /\ sagaRow' = IF RowOf(id) THEN Touched("failed") ELSE sagaRow
             /\ sagaCrossed' = IF outcome[id] = "crashed" THEN sagaCrossed ELSE sagaCrossed \cup {id}
             /\ UNCHANGED sagaFaults
          \/ id # NoRecord /\ Fault(id)
          \/ id = NoRecord /\ UNCHANGED <<sagaRow, sagaCrossed, sagaFaults>>
       /\ UNCHANGED <<sagaRun, did, outcome, sagaRuns, sagaCrashes>>

\* SagaRetentionPeriod passes without a write.
GrowOld ==
    /\ sagaRow # NoSaga /\ ~sagaRow.old
    /\ sagaRow' = [sagaRow EXCEPT !.old = TRUE]
    /\ UNCHANGED <<sagaRun, sagaStart, did, outcome, sagaCrossed, sagaRuns, sagaFaults, sagaCrashes>>

\* CleanupOldSagas.
CleanupSagas ==
    /\ sagaRow.st \in {"completed", "failed"} /\ sagaRow.old
    /\ sagaRow' = NoSaga
    /\ UNCHANGED <<sagaRun, sagaStart, did, outcome, sagaCrossed, sagaRuns, sagaFaults, sagaCrashes>>

SagaNext ==
    \/ \E p \in SagaPods :
        \/ CreateSaga(p) \/ DoStep(p) \/ checkpointSaga(p)
        \/ completeSaga(p) \/ failSaga(p) \/ compensateSaga(p)
        \/ CrashSagaPod(p) \/ GetRunning(p) \/ FailStale(p)
    \/ GrowOld
    \/ CleanupSagas

SagaSpec == SagaInit /\ [][SagaNext]_sagaVars

-----------------------------------------------------------------------------
\* A record never claims what its run did not do: a checkpoint is of a step that is
\* done, "completed" of a run that did all its steps, and a record in progress or failed
\* disagrees with the run only after a lost write or another process's start.
SagaRecordsHonest ==
    sagaRow # NoSaga =>
        /\ sagaRow.step <= did[sagaRow.id]
        /\ sagaRow.st = "completed" =>
             did[sagaRow.id] = SagaSteps /\ outcome[sagaRow.id] = "completed"
        /\ sagaRow.id \notin sagaCrossed =>
             /\ sagaRow.st = "failed" => outcome[sagaRow.id] \in {"failed", "crashed"}
             /\ sagaRow.st \in InProgress => outcome[sagaRow.id] \in {"none", "crashed"}

\* No two runs write to one record.
RecordOfOneRun ==
    \A p, q \in SagaPods : p # q /\ sagaRun[p].id = sagaRun[q].id => sagaRun[p].id = NoRecord

SagasSafe == SagaRecordsHonest /\ RecordOfOneRun
=============================================================================
