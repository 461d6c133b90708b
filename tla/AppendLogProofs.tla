--------------------------- MODULE AppendLogProofs ---------------------------
(* Types, and the correspondence of file, store and rewrite, for every     *)
(* value of the constants of AppendLog.                                    *)
EXTENDS AppendLogRecords

-----------------------------------------------------------------------------
\* A faulty step keeps the count of faults a number.
LEMMA FaultType ==
    ASSUME faults \in Nat, Fault \/ NoFault
    PROVE  faults' \in Nat
  BY DEF Fault, NoFault

\* Every step of Open keeps the types.
LEMMA TypeOpen ==
    ASSUME TypeInv, Open
    PROVE  TypeInv'
<1> USE DEF disk, flags, writer, proc, ghost, TypeInv, OffsetInFile
<1>1. CASE OpenCreate
  BY <1>1 DEF OpenCreate, TypeOK, Steps, Records
<1>2. CASE OpenExisting
  <2>1. data' \in Records /\ store' \in Records
    BY <1>2, CompleteType DEF OpenExisting, TypeOK
  <2>2. synced' \in Nat /\ ghosts' \subseteq Records
    BY <1>2, <2>1 DEF OpenExisting, TypeOK, Records
  <2> QED BY <1>2, <2>1, <2>2 DEF OpenExisting, TypeOK, Steps
<1>3. CASE CreatedSyncOK
  BY Zenon, <1>3 DEF CreatedSyncOK, TypeOK, Steps
<1>4. CASE CreatedSyncFail
  BY <1>4, FaultType DEF CreatedSyncFail, TypeOK, Steps
<1> QED BY <1>1, <1>2, <1>3, <1>4 DEF Open

\* Every step of a commit keeps the types.
LEMMA TypeCommit ==
    ASSUME TypeInv, Commit
    PROVE  TypeInv'
<1> USE DEF disk, flags, writer, proc, ghost, TypeInv, OffsetInFile
<1>1. CASE AppendRefused
  BY <1>1 DEF AppendRefused, TypeOK
<1>2. ASSUME NEW n \in 1..MaxBatch, AppendBatch(n) PROVE TypeInv'
  <2>1. n \in Nat /\ issued' \in Nat
    BY <1>2, LogAssumption DEF AppendBatch, TypeOK
  <2>2. batch' \in Records
    <3>1. \A i \in 1..n : issued + i \in Nat
      BY <2>1 DEF TypeOK
    <3> QED BY <1>2, <2>1, <3>1 DEF AppendBatch, Records
  <2>3. offset' \in Nat /\ offset' <= Len(data')
    BY <1>2 DEF AppendBatch, TypeOK, Records
  <2> QED BY <1>2, <2>1, <2>2, <2>3 DEF AppendBatch, TypeOK, Steps
<1>3. CASE FlushOK
  <2>1. data' \in Records /\ Len(data') >= Len(data)
    BY <1>3 DEF FlushOK, TypeOK, Records
  <2> QED BY <1>3, <2>1 DEF FlushOK, TypeOK, Steps, Records
<1>4. CASE FlushFail
  <2>1. data \o batch \in Records /\ Len(data) \in Nat /\ Len(data) <= Len(data \o batch)
    BY DEF TypeOK, Records
  <2>2. data' \in Records /\ Len(data') >= Len(data)
    BY <1>4, <2>1, SurvivorsType, SurvivorsLen DEF FlushFail
  <2>3. offset <= Len(data')
    BY <1>4, <2>1, <2>2, RecordsBasic DEF FlushFail, TypeOK
  <2> QED BY <1>4, <2>2, <2>3, FaultType DEF FlushFail, TypeOK, Steps
<1>5. ASSUME NEW k \in 0..(Len(batch) - 1), EncodeFail(k) PROVE TypeInv'
  <2>1. PICK j \in 0..k :
            /\ data' \in Cut(data \o SubSeq(batch, 1, k), Len(data) + j)
            /\ buf' = SubSeq(batch, j + 1, k)
    BY Zenon, <1>5 DEF EncodeFail
  <2>2. /\ SubSeq(batch, 1, k) \in Seq(Nat) /\ Len(SubSeq(batch, 1, k)) = k
        /\ SubSeq(batch, j + 1, k) \in Seq(Nat)
        /\ Len(data) + j \in Nat
    BY DEF TypeOK, Records
  <2>3. /\ data \o SubSeq(batch, 1, k) \in Records
        /\ Len(data) + j \in 0..Len(data \o SubSeq(batch, 1, k))
    BY <2>2 DEF TypeOK, Records
  <2>4. data' \in Records /\ buf' \in Records
    BY Zenon, <2>1, <2>2, <2>3, CutType DEF Records
  <2>5. Len(data') >= Len(data)
    <3>1. Len(data') \in (Len(data) + j)..(Len(data) + j + 1)
      BY Zenon, <2>1, <2>3, CutRecords
    <3> QED BY <3>1 DEF TypeOK, Records
  <2>6. offset <= Len(data')
    BY <1>5, <2>4, <2>5, RecordsBasic DEF EncodeFail, TypeOK
  <2> QED BY <1>5, <2>4, <2>6, FaultType DEF EncodeFail, TypeOK, Steps
<1>6. CASE SyncOK
  BY <1>6 DEF SyncOK, Fsync, TypeOK, Steps, Records
<1>7. CASE SyncFail
  BY <1>7, FaultType DEF SyncFail, TypeOK, Steps
<1>8. CASE TruncateOK
  <2>1. data' \in Records
    BY <1>8 DEF TruncateOK, TypeOK, Records
  <2> QED BY Zenon, <1>8, <2>1, RecordsBasic DEF TruncateOK, TypeOK, Steps
<1>9. CASE TruncateFail
  BY <1>9, FaultType DEF TruncateFail, TypeOK, Steps, Records
<1>10. CASE RollbackSyncOK
  <2>1. ToSet(batch) \subseteq Nat
    BY DEF ToSet, TypeOK, Records
  <2> QED BY Zenon, <1>10, <2>1, RecordsBasic DEF RollbackSyncOK, Fsync, TypeOK, Steps
<1>11. CASE RollbackSyncFail
  BY <1>11, FaultType DEF RollbackSyncFail, TypeOK, Steps, Records
<1>12. CASE DeltaOK
  <2>1. job' \in Jobs
    <3>1. job.delta \o batch \in Records
      BY DEF TypeOK, Jobs, Records
    <3> QED BY Zenon, <1>12, <3>1 DEF DeltaOK, TypeOK, Jobs
  <2> QED BY <1>12, <2>1 DEF DeltaOK, TypeOK, Steps
<1>13. CASE DeltaFail
  <2>1. job' \in Jobs
    BY Zenon, <1>13 DEF DeltaFail, TypeOK, Jobs
  <2> QED BY <1>13, <2>1, FaultType DEF DeltaFail, TypeOK, Steps
<1>14. CASE Apply
  <2>1. store \o batch \in Records
    BY DEF TypeOK, Records
  <2> QED BY <1>14, <2>1 DEF Apply, TypeOK, Steps, Records
<1> QED BY <1>1, <1>2, <1>3, <1>4, <1>5, <1>6, <1>7, <1>8, <1>9, <1>10,
           <1>11, <1>12, <1>13, <1>14 DEF Commit

\* The periodic sync keeps the types.
LEMMA TypeSyncLoop ==
    ASSUME TypeInv, SyncLoop
    PROVE  TypeInv'
<1> USE DEF disk, flags, writer, proc, ghost, TypeInv, OffsetInFile
<1>1. CASE SyncTickOK
  BY <1>1, RecordsBasic DEF SyncTickOK, Fsync, TypeOK
<1>2. CASE SyncTickFail
  BY <1>2, FaultType DEF SyncTickFail, TypeOK
<1> QED BY <1>1, <1>2 DEF SyncLoop

\* The empty job is a job.
LEMMA NoJobType == NoJob \in Jobs
  BY RecordsBasic DEF NoJob, Jobs

\* Every step of a rewrite keeps the types.
LEMMA TypeRewrite ==
    ASSUME TypeInv, Rewrite
    PROVE  TypeInv'
<1> USE DEF disk, flags, writer, proc, ghost, TypeInv, OffsetInFile
<1>1. CASE StartRewrite
  <2>1. job' \in Jobs
    BY Zenon, <1>1, RecordsBasic DEF StartRewrite, TypeOK, Jobs, NoJob
  <2> QED BY <1>1, <2>1 DEF StartRewrite, TypeOK
<1>2. CASE SnapshotWritten
  <2>1. job' \in Jobs
    BY <1>2 DEF SnapshotWritten, TypeOK, Jobs
  <2> QED BY <1>2, <2>1 DEF SnapshotWritten, TypeOK
<1>3. CASE SnapshotFails
  <2>1. job' \in Jobs
    BY <1>3 DEF SnapshotFails, TypeOK, Jobs
  <2> QED BY <1>3, <2>1, FaultType DEF SnapshotFails, TypeOK
<1>4. CASE AbortRewrite
  BY <1>4, NoJobType DEF AbortRewrite, TypeOK
<1>5. CASE CompleteRefused
  BY <1>5, NoJobType DEF CompleteRefused, TypeOK
<1>6. CASE CompleteSynced
  BY <1>6 DEF CompleteSynced, TypeOK, Steps
<1>7. CASE CompleteFails
  BY <1>7, NoJobType, FaultType DEF CompleteFails, TypeOK, Steps
<1>8. CASE Rename
  <2>1. data' \in Records
    BY <1>8 DEF Rename, TypeOK, Jobs, Records
  <2>2. synced' \in Nat /\ ghosts' = {}
    BY Zenon, <1>8, <2>1, RecordsBasic DEF Rename, Fsync
  <2>3. reverts' \subseteq Records
    BY <1>8, ImagesType DEF Rename
  <2> QED BY Zenon, <1>8, <2>1, <2>2, <2>3, RecordsBasic DEF Rename, TypeOK, Steps
<1>9. CASE DirectorySyncOK
  BY Zenon, <1>9, NoJobType DEF DirectorySyncOK, TypeOK, Steps
<1>10. CASE DirectorySyncFail
  BY <1>10, NoJobType, FaultType DEF DirectorySyncFail, TypeOK, Steps
<1> QED BY <1>1, <1>2, <1>3, <1>4, <1>5, <1>6, <1>7, <1>8, <1>9, <1>10 DEF Rewrite

\* Closing, killing and a power loss keep the types.
LEMMA TypeStop ==
    ASSUME TypeInv, Close \/ Kill \/ PowerLoss
    PROVE  TypeInv'
<1> USE DEF disk, flags, writer, proc, ghost, TypeInv, OffsetInFile
<1>1. CASE CloseBegin
  BY <1>1 DEF CloseBegin, TypeOK
<1>2. CASE CloseFlushed
  <2>1. data' \in Records
    <3>1. Complete(data) \o buf \in Records
      BY CompleteType DEF TypeOK, Records
    <3> QED BY <1>2, <3>1 DEF CloseFlushed, Flushed, TypeOK
  <2>2. synced' \in Nat /\ ghosts' = {}
    BY <1>2, <2>1, RecordsBasic DEF CloseFlushed, Fsync
  <2>3. owed' \in Records
    BY <1>2 DEF CloseFlushed, TypeOK
  <2>4. OffsetInFile'
    BY <1>2 DEF CloseFlushed, MutexFree
  <2> QED BY <1>2, <2>1, <2>2, <2>3, <2>4, RecordsBasic DEF CloseFlushed, TypeOK
<1>3. CASE CloseFails
  <2>1. data' \in Records
    <3>1. PartlyFlushed \subseteq Records
      BY PartlyFlushedType
    <3> QED BY <1>3, <3>1 DEF CloseFails, TypeOK
  <2>2. OffsetInFile'
    BY <1>3 DEF CloseFails, MutexFree
  <2> QED BY <1>3, <2>1, <2>2, FaultType DEF CloseFails, TypeOK
<1>4. CASE Exit
  BY Zenon, <1>4, NoJobType, RecordsBasic DEF Exit, Stopped, TypeOK, Steps
<1>5. CASE Kill
  <2>1. Written \in Records
    BY DEF TypeOK, Written, Records
  <2>2. data' \in Records
    BY <1>5, <2>1, SurvivorsType, RecordsBasic DEF Kill, TypeOK
  <2>3. crashes' \in Nat
    BY <1>5 DEF Kill, TypeOK
  <2>4. pc' = "down" /\ batch' \in Records /\ store' \in Records /\ buf' \in Records
    BY <1>5, RecordsBasic DEF Kill, Stopped
  <2> QED BY Zenon, <1>5, <2>2, <2>3, <2>4, NoJobType DEF Kill, Stopped, TypeOK, Steps
<1>6. CASE PowerLoss
  <2>1. data' \in Records
    BY <1>6, ImagesType, RecordsBasic DEF PowerLoss
  <2>2. synced' \in Nat /\ ghosts' = {}
    BY <1>6, <2>1, RecordsBasic DEF PowerLoss, Fsync
  <2>3. link' \in {"absent", "volatile", "durable"} /\ owed' \in Records /\ crashes' \in Nat
    BY <1>6, RecordsBasic DEF PowerLoss, TypeOK
  <2> QED BY Zenon, <1>6, <2>1, <2>2, <2>3, NoJobType, RecordsBasic
          DEF PowerLoss, Stopped, TypeOK, Steps
<1> QED BY <1>1, <1>2, <1>3, <1>4, <1>5, <1>6 DEF Close

\* Every step keeps the types.
LEMMA TypeStep ==
    ASSUME TypeInv, [Next]_vars
    PROVE  TypeInv'
<1>1. CASE Next
  BY <1>1, TypeOpen, TypeCommit, TypeSyncLoop, TypeRewrite, TypeStop DEF Next
<1>2. CASE UNCHANGED vars
  BY <1>2 DEF vars, disk, flags, writer, proc, ghost, TypeInv, TypeOK, OffsetInFile
<1> QED BY <1>1, <1>2

\* The types hold in every state of every behaviour of the log, whatever the
\* sync policy, the size of a batch and the number of commands and crashes.
THEOREM TypeCorrect == Spec => []TypeOK
<1>1. Init => TypeInv
  BY Zenon, NoJobType, RecordsBasic DEF Init, TypeInv, TypeOK, OffsetInFile, Steps
<1>2. TypeInv /\ [Next]_vars => TypeInv'
  BY TypeStep
<1>3. TypeInv => TypeOK
  BY DEF TypeInv
<1> QED BY <1>1, <1>2, <1>3, PTL DEF Spec

=============================================================================
