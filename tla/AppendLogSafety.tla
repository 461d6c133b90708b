--------------------------- MODULE AppendLogSafety ---------------------------
(* File, store and rewrite correspond in every behaviour of AppendLog. *)
EXTENDS AppendLogProofs

\* Appending without the torn record keeps a content free of it.
LEMMA NoTornConcat ==
    ASSUME NEW s \in Records, NEW t \in Records, NoTorn(s), NoTorn(t)
    PROVE  NoTorn(s \o t)
  BY AvoidsConcat DEF NoTorn

\* The empty content has no torn record.
LEMMA EmptyClean == NoTorn(<<>>) /\ TornOnlyLast(<<>>)
  BY DEF NoTorn, Avoids, TornOnlyLast

\* A cut beyond the certain records is a survivor.
LEMMA CutSurvives ==
    ASSUME NEW c \in Records, NEW low \in Nat, NEW n \in low..Len(c)
    PROVE  Cut(c, n) \subseteq Survivors(c, low)
  BY DEF Survivors

\* Concatenation is associative.
LEMMA ConcatThree == \A s, t, u \in Records : s \o (t \o u) = (s \o t) \o u
<1> SUFFICES ASSUME NEW s \in Seq(Nat), NEW t \in Seq(Nat), NEW u \in Seq(Nat)
             PROVE  s \o (t \o u) = (s \o t) \o u
  BY DEF Records
<1>1. (s \o t) \o u = s \o (t \o u)
  BY ConcatAssociative, SMTT(30)
<1> QED BY <1>1, Zenon

\* Opening the log establishes the correspondence.
LEMMA ShapeOpen ==
    ASSUME Shape, Open, TypeInv'
    PROVE  Shape'
<1> USE DEF disk, flags, writer, proc, ghost
<1> USE DEF Shape
<1>1. CASE OpenCreate
  <2>1. FileMatchesStore'
    BY <1>1, PrefixOrder, RecordsBasic DEF OpenCreate, FileMatchesStore
  <2>2. TornPlacement'
    BY <1>1, EmptyClean DEF OpenCreate, TornPlacement
  <2>3. WriterEmpty' /\ JobMatchesStore'
    BY <1>1 DEF OpenCreate, WriterEmpty, JobMatchesStore
  <2> QED BY <2>1, <2>2, <2>3
<1>2. CASE OpenExisting
  <2>1. data \in Records /\ data' \in Records
    BY DEF TypeInv, TypeOK
  <2>2. store' = data' /\ data' = Complete(data) /\ pc' = "idle"
    BY <1>2 DEF OpenExisting
  <2>3. FileMatchesStore'
    BY <2>1, <2>2, PrefixOrder DEF FileMatchesStore
  <2>4. TornPlacement'
    <3>1. NoTorn(data')
      BY <2>1, <2>2, CompleteAvoids DEF TornPlacement
    <3>2. TornOnlyLast(data')
      BY <2>1, <3>1, NoTornOnlyLast
    <3> QED BY <1>2, <2>2, <3>1, <3>2 DEF OpenExisting, TornPlacement
  <2>5. WriterEmpty' /\ JobMatchesStore'
    BY Zenon, <1>2 DEF OpenExisting, WriterEmpty, JobMatchesStore
  <2> QED BY <2>3, <2>4, <2>5
<1>3. CASE CreatedSyncOK
  <2>1. FileMatchesStore' /\ TornPlacement'
    BY <1>3 DEF CreatedSyncOK, FileMatchesStore, TornPlacement
  <2>2. WriterEmpty' /\ JobMatchesStore'
    BY Zenon, <1>3 DEF CreatedSyncOK, WriterEmpty, JobMatchesStore
  <2> QED BY <2>1, <2>2
<1>4. CASE CreatedSyncFail
  <2>1. FileMatchesStore' /\ TornPlacement'
    BY <1>4 DEF CreatedSyncFail, FileMatchesStore, TornPlacement
  <2>2. WriterEmpty' /\ JobMatchesStore'
    BY Zenon, <1>4 DEF CreatedSyncFail, WriterEmpty, JobMatchesStore
  <2> QED BY <2>1, <2>2
<1> QED BY <1>1, <1>2, <1>3, <1>4 DEF Open

\* A commit that writes, and rolls back what it could not write, keeps it.
LEMMA ShapeCommit ==
    ASSUME Shape, Commit, TypeInv'
    PROVE  Shape'
<1> USE DEF disk, flags, writer, proc, ghost
<1> USE DEF Shape
<1>0. /\ data \in Records /\ data' \in Records /\ store \in Records /\ batch \in Records
      /\ buf \in Records /\ Len(data) \in Nat
  BY RecordsBasic DEF TypeInv, TypeOK
<1>1. CASE AppendRefused
  <2>1. FileMatchesStore' /\ TornPlacement'
    BY <1>1 DEF AppendRefused, FileMatchesStore, TornPlacement
  <2>2. WriterEmpty' /\ JobMatchesStore'
    BY Zenon, <1>1 DEF AppendRefused, WriterEmpty, JobMatchesStore
  <2> QED BY <2>1, <2>2
<1>2. ASSUME NEW n \in 1..MaxBatch, AppendBatch(n) PROVE Shape'
  <2>1. FileMatchesStore'
    BY <1>2 DEF AppendBatch, FileMatchesStore
  <2>2. NoTorn(batch')
    <3>1. batch' = [i \in 1..n |-> issued + i] /\ n \in Nat /\ issued \in Nat
      BY <1>2, LogAssumption DEF AppendBatch, TypeInv, TypeOK
    <3>2. Len(batch') = n
      BY <3>1
    <3>3. \A i \in 1..n : batch'[i] # Torn
      BY <3>1 DEF Torn
    <3> QED BY <3>2, <3>3 DEF NoTorn, Avoids
  <2>3. TornPlacement'
    BY <1>2, <2>2 DEF AppendBatch, TornPlacement
  <2>4. WriterEmpty' /\ JobMatchesStore'
    BY Zenon, <1>2 DEF AppendBatch, WriterEmpty, JobMatchesStore
  <2> QED BY <2>1, <2>3, <2>4
<1>3. CASE FlushOK
  <2>1. data = store /\ NoTorn(store) /\ NoTorn(batch)
    BY <1>3 DEF FlushOK, FileMatchesStore, TornPlacement
  <2>2. data' = store \o batch /\ pc' \in {"sync", "delta"}
    BY <1>3, <2>1 DEF FlushOK
  <2>3. IsPrefix(store, data') /\ NoTorn(data')
    BY <1>0, <2>1, <2>2, PrefixConcat, NoTornConcat
  <2>4. FileMatchesStore'
    BY <1>3, <2>2, <2>3 DEF FlushOK, FileMatchesStore
  <2>5. TornPlacement'
    BY <1>0, <1>3, <2>3, NoTornOnlyLast DEF FlushOK, TornPlacement
  <2>6. WriterEmpty' /\ JobMatchesStore'
    BY Zenon, <1>3, <2>2 DEF FlushOK, WriterEmpty, JobMatchesStore
  <2> QED BY <2>4, <2>5, <2>6
<1>4. CASE FlushFail
  <2>1. data = store /\ NoTorn(store) /\ NoTorn(batch) /\ offset = Len(store) /\ ~failed
    BY <1>4 DEF FlushFail, FileMatchesStore, TornPlacement
  <2>2. data' \in Survivors(store \o batch, Len(store))
    BY <1>4, <2>1 DEF FlushFail
  <2>3. /\ store \o batch \in Records /\ IsPrefix(store, store \o batch)
        /\ NoTorn(store \o batch)
    BY <1>0, <2>1, PrefixConcat, NoTornConcat
  <2>4. IsPrefix(store, data') /\ TornOnlyLast(data')
    <3>1. Len(store) \in Nat /\ Len(store) <= Len(store) /\ TornOnlyLast(store \o batch)
      BY <1>0, <2>3, RecordsBasic, NoTornOnlyLast
    <3> QED BY <1>0, <2>2, <2>3, <3>1, PrefixSurvives, TornSurvivors
  <2>5. FileMatchesStore'
    BY <1>4, <2>1, <2>4 DEF FlushFail, FileMatchesStore
  <2>6. TornPlacement'
    BY <1>4, <2>4 DEF FlushFail, TornPlacement
  <2>7. WriterEmpty' /\ JobMatchesStore'
    BY Zenon, <1>4 DEF FlushFail, WriterEmpty, JobMatchesStore
  <2> QED BY <2>5, <2>6, <2>7
<1>5. ASSUME NEW k \in 0..(Len(batch) - 1), EncodeFail(k) PROVE Shape'
  <2> DEFINE w == SubSeq(batch, 1, k)
  <2>1. data = store /\ NoTorn(store) /\ NoTorn(batch) /\ offset = Len(store) /\ ~failed
    BY <1>5 DEF EncodeFail, FileMatchesStore, TornPlacement
  <2>2. PICK j \in 0..k : data' \in Cut(data \o w, Len(data) + j) /\ buf' = SubSeq(batch, j + 1, k)
    BY Zenon, <1>5 DEF EncodeFail
  <2>3. Len(batch) \in Nat /\ Len(store) \in Nat /\ k \in Nat /\ k <= Len(batch) /\ j + 1 \in Nat \ {0}
    BY <1>0, RecordsBasic
  <2>4. w \in Records /\ NoTorn(w) /\ NoTorn(buf') /\ Len(w) = k
    <3>1. w \in Records /\ NoTorn(w) /\ NoTorn(buf')
      BY <1>0, <2>1, <2>2, <2>3, AvoidsSubSeq DEF NoTorn
    <3>2. Len(w) = k
      BY <1>0, <2>3 DEF Records
    <3> QED BY <3>1, <3>2
  <2> HIDE DEF w
  <2>5. store \o w \in Records /\ IsPrefix(store, store \o w) /\ NoTorn(store \o w)
    BY <1>0, <2>1, <2>4, PrefixConcat, NoTornConcat
  <2>6. data' \in Survivors(store \o w, Len(store))
    <3>1. Len(store \o w) = Len(store) + Len(w)
      BY Zenon, <1>0, <2>4, ConcatProperties DEF Records
    <3>2. Len(store) + j \in Len(store)..Len(store \o w)
      BY <2>3, <2>4, <3>1
    <3> QED BY Zenon, <2>1, <2>2, <2>3, <2>5, <3>2, CutSurvives
  <2>7. IsPrefix(store, data') /\ TornOnlyLast(data')
    <3>1. Len(store) <= Len(store) /\ TornOnlyLast(store \o w)
      BY <2>3, <2>5, NoTornOnlyLast
    <3> QED BY <1>0, <2>3, <2>5, <2>6, <3>1, PrefixSurvives, TornSurvivors
  <2>8. FileMatchesStore'
    BY <1>5, <2>1, <2>7 DEF EncodeFail, FileMatchesStore
  <2>9. TornPlacement'
    BY <1>5, <2>4, <2>7 DEF EncodeFail, TornPlacement
  <2>10. WriterEmpty' /\ JobMatchesStore'
    BY Zenon, <1>5 DEF EncodeFail, WriterEmpty, JobMatchesStore
  <2> QED BY <2>8, <2>9, <2>10
<1>6. CASE SyncOK
  <2>1. FileMatchesStore' /\ TornPlacement'
    BY <1>6 DEF SyncOK, Fsync, FileMatchesStore, TornPlacement
  <2>2. WriterEmpty' /\ JobMatchesStore'
    BY Zenon, <1>6 DEF SyncOK, WriterEmpty, JobMatchesStore
  <2> QED BY <2>1, <2>2
<1>7. CASE SyncFail
  <2>1. FileMatchesStore' /\ TornPlacement'
    BY <1>7 DEF SyncFail, FileMatchesStore, TornPlacement
  <2>2. WriterEmpty' /\ JobMatchesStore'
    BY Zenon, <1>7 DEF SyncFail, WriterEmpty, JobMatchesStore
  <2> QED BY <2>1, <2>2
<1>8. CASE TruncateOK
  <2>1. data' = store /\ IsPrefix(store, store)
    BY <1>0, <1>8, TruncateToPrefix, PrefixOrder DEF TruncateOK, FileMatchesStore
  <2>2. FileMatchesStore'
    BY Zenon, <1>8, <2>1 DEF TruncateOK, FileMatchesStore
  <2>3. TornPlacement'
    <3>1. TornOnlyLast(store)
      BY <1>0, NoTornOnlyLast DEF TornPlacement
    <3> QED BY Zenon, <1>8, <2>1, <3>1, EmptyClean DEF TruncateOK, TornPlacement
  <2>4. WriterEmpty' /\ JobMatchesStore'
    BY Zenon, <1>8 DEF TruncateOK, WriterEmpty, JobMatchesStore
  <2> QED BY <2>2, <2>3, <2>4
<1>9. CASE TruncateFail
  <2>1. FileMatchesStore' /\ TornPlacement'
    BY <1>9, EmptyClean DEF TruncateFail, FileMatchesStore, TornPlacement
  <2>2. WriterEmpty' /\ JobMatchesStore'
    BY <1>9 DEF TruncateFail, WriterEmpty, JobMatchesStore
  <2> QED BY <2>1, <2>2
<1>10. CASE RollbackSyncOK
  <2>1. FileMatchesStore' /\ TornPlacement'
    BY <1>10, EmptyClean DEF RollbackSyncOK, Fsync, FileMatchesStore, TornPlacement
  <2>2. WriterEmpty' /\ JobMatchesStore'
    BY <1>10 DEF RollbackSyncOK, WriterEmpty, JobMatchesStore
  <2> QED BY <2>1, <2>2
<1>11. CASE RollbackSyncFail
  <2>1. FileMatchesStore' /\ TornPlacement'
    BY <1>11, EmptyClean DEF RollbackSyncFail, FileMatchesStore, TornPlacement
  <2>2. WriterEmpty' /\ JobMatchesStore'
    BY <1>11 DEF RollbackSyncFail, WriterEmpty, JobMatchesStore
  <2> QED BY <2>1, <2>2
<1>12. CASE DeltaOK
  <2>1. FileMatchesStore' /\ TornPlacement' /\ WriterEmpty'
    BY <1>12 DEF DeltaOK, FileMatchesStore, TornPlacement, WriterEmpty
  <2>2. JobMatchesStore'
    <3>1. job \in Jobs /\ job.snap \in Records /\ job.delta \in Records
      BY DEF TypeInv, TypeOK, Jobs
    <3>2. job.snap \o (job.delta \o batch) = (job.snap \o job.delta) \o batch
      <4> DEFINE s == job.snap
                 d == job.delta
      <4>1. s \in Records /\ d \in Records /\ batch \in Records
        BY <1>0, <3>1
      <4> HIDE DEF s, d
      <4>2. s \o (d \o batch) = (s \o d) \o batch
        BY <4>1, ConcatThree
      <4> QED BY <4>2 DEF s, d
    <3>3. job.on /\ ~job.deltaErr =>
              /\ job'.on /\ ~job'.deltaErr
              /\ job'.snap = job.snap /\ job'.delta = job.delta \o batch
      BY <1>12, <3>1 DEF DeltaOK, Jobs
    <3>4. ~(job.on /\ ~job.deltaErr) => job' = job
      BY <1>12 DEF DeltaOK
    <3> QED BY Zenon, <1>12, <3>2, <3>3, <3>4 DEF DeltaOK, JobMatchesStore
  <2> QED BY <2>1, <2>2
<1>13. CASE DeltaFail
  <2>1. FileMatchesStore' /\ TornPlacement' /\ WriterEmpty'
    BY <1>13 DEF DeltaFail, FileMatchesStore, TornPlacement, WriterEmpty
  <2>2. JobMatchesStore'
    BY <1>13 DEF DeltaFail, JobMatchesStore, TypeInv, TypeOK, Jobs
  <2> QED BY <2>1, <2>2
<1>14. CASE Apply
  <2>1. data = store \o batch /\ store' = store \o batch /\ data' = data
    BY <1>14 DEF Apply, FileMatchesStore
  <2>2. IsPrefix(store', data') /\ NoTorn(store')
    BY <1>0, <2>1, PrefixOrder, NoTornConcat DEF TornPlacement
  <2>3. FileMatchesStore'
    BY <1>14, <2>1, <2>2 DEF Apply, FileMatchesStore
  <2>4. TornPlacement'
    BY <1>14, <2>2, EmptyClean DEF Apply, TornPlacement
  <2>5. WriterEmpty' /\ JobMatchesStore'
    BY Zenon, <1>14 DEF Apply, WriterEmpty, JobMatchesStore
  <2> QED BY <2>3, <2>4, <2>5
<1> QED BY <1>1, <1>2, <1>3, <1>4, <1>5, <1>6, <1>7, <1>8, <1>9, <1>10,
           <1>11, <1>12, <1>13, <1>14 DEF Commit

\* The periodic sync changes neither file nor store.
LEMMA ShapeSyncLoop ==
    ASSUME Shape, SyncLoop, TypeInv'
    PROVE  Shape'
<1> USE DEF disk, flags, writer, proc, ghost
<1> USE DEF Shape
<1>1. CASE SyncTickOK
  <2>1. FileMatchesStore' /\ TornPlacement'
    BY <1>1 DEF SyncTickOK, Fsync, FileMatchesStore, TornPlacement
  <2>2. WriterEmpty' /\ JobMatchesStore'
    BY Zenon, <1>1 DEF SyncTickOK, WriterEmpty, JobMatchesStore
  <2> QED BY <2>1, <2>2
<1>2. CASE SyncTickFail
  <2>1. FileMatchesStore' /\ TornPlacement'
    BY <1>2 DEF SyncTickFail, MutexFree, FileMatchesStore, TornPlacement
  <2>2. WriterEmpty' /\ JobMatchesStore'
    BY <1>2 DEF SyncTickFail, MutexFree, WriterEmpty, JobMatchesStore
  <2> QED BY <2>1, <2>2
<1> QED BY <1>1, <1>2 DEF SyncLoop

\* Contents a power loss may leave have a torn record only at the end.
LEMMA ImagesTorn ==
    ASSUME Shape
    PROVE  \A c \in Images : TornOnlyLast(c)
<1>1. synced \in Nat /\ data \in Records /\ batch \in Records /\ store \in Records
  BY DEF Shape, TypeInv, TypeOK
<1>2. Written \in Records /\ TornOnlyLast(Written)
  <2>1. CASE pc = "write"
    <3>1. data = store /\ NoTorn(store) /\ NoTorn(batch)
      BY <2>1 DEF Shape, FileMatchesStore, TornPlacement
    <3>2. data \o batch \in Records /\ NoTorn(data \o batch)
      BY <1>1, <3>1, PrefixConcat, NoTornConcat
    <3> QED BY <2>1, <3>2, NoTornOnlyLast DEF Written
  <2>2. CASE pc # "write"
    BY <1>1, <2>2 DEF Written, Shape, TornPlacement
  <2> QED BY <2>1, <2>2
<1>3. \A c \in ghosts : c \in Records /\ TornOnlyLast(c)
  BY DEF Shape, TypeInv, TypeOK, TornPlacement
<1>4. \A c \in {Written} \cup ghosts : \A x \in Survivors(c, synced) : TornOnlyLast(x)
  BY <1>1, <1>2, <1>3, TornSurvivors
<1>5. \A c \in reverts : TornOnlyLast(c)
  BY DEF Shape, TornPlacement
<1> QED BY <1>4, <1>5 DEF Images

\* The empty job has captured nothing.
LEMMA NoJobOff == ~NoJob.on
  BY DEF NoJob

\* A rewrite starts from the store and is installed as the store.
LEMMA ShapeRewrite ==
    ASSUME Shape, Rewrite, TypeInv'
    PROVE  Shape'
<1> USE DEF disk, flags, writer, proc, ghost
<1> USE DEF Shape
<1>1. CASE StartRewrite
  <2>1. FileMatchesStore' /\ TornPlacement' /\ WriterEmpty'
    BY <1>1 DEF StartRewrite, FileMatchesStore, TornPlacement, WriterEmpty
  <2>2. JobMatchesStore'
    <3>1. job'.snap = store /\ job'.delta = <<>>
      BY <1>1 DEF StartRewrite, NoJob
    <3>2. store \o <<>> = store
      BY ConcatEmptySeq DEF TypeInv, TypeOK, Records
    <3> QED BY Zenon, <1>1, <3>1, <3>2 DEF StartRewrite, JobMatchesStore
  <2> QED BY <2>1, <2>2
<1>2. CASE SnapshotWritten
  <2>1. FileMatchesStore' /\ TornPlacement' /\ WriterEmpty'
    BY <1>2 DEF SnapshotWritten, FileMatchesStore, TornPlacement, WriterEmpty
  <2>2. JobMatchesStore'
    BY Zenon, <1>2 DEF SnapshotWritten, JobMatchesStore, TypeInv, TypeOK, Jobs
  <2> QED BY <2>1, <2>2
<1>3. CASE SnapshotFails
  <2>1. FileMatchesStore' /\ TornPlacement' /\ WriterEmpty'
    BY <1>3 DEF SnapshotFails, FileMatchesStore, TornPlacement, WriterEmpty
  <2>2. JobMatchesStore'
    BY Zenon, <1>3 DEF SnapshotFails, JobMatchesStore, TypeInv, TypeOK, Jobs
  <2> QED BY <2>1, <2>2
<1>4. CASE AbortRewrite
  <2>1. FileMatchesStore' /\ TornPlacement' /\ WriterEmpty'
    BY <1>4 DEF AbortRewrite, FileMatchesStore, TornPlacement, WriterEmpty
  <2>2. JobMatchesStore'
    BY Zenon, <1>4, NoJobOff DEF AbortRewrite, MutexFree, JobMatchesStore
  <2> QED BY <2>1, <2>2
<1>5. CASE CompleteRefused
  <2>1. FileMatchesStore' /\ TornPlacement' /\ WriterEmpty'
    BY <1>5 DEF CompleteRefused, FileMatchesStore, TornPlacement, WriterEmpty
  <2>2. JobMatchesStore'
    BY Zenon, <1>5, NoJobOff DEF CompleteRefused, JobMatchesStore
  <2> QED BY <2>1, <2>2
<1>6. CASE CompleteSynced
  <2>1. FileMatchesStore' /\ TornPlacement' /\ WriterEmpty'
    BY <1>6 DEF CompleteSynced, FileMatchesStore, TornPlacement, WriterEmpty
  <2>2. JobMatchesStore'
    BY Zenon, <1>6 DEF CompleteSynced, JobMatchesStore
  <2> QED BY <2>1, <2>2
<1>7. CASE CompleteFails
  <2>1. FileMatchesStore' /\ TornPlacement' /\ WriterEmpty'
    BY <1>7 DEF CompleteFails, FileMatchesStore, TornPlacement, WriterEmpty
  <2>2. JobMatchesStore'
    BY Zenon, <1>7, NoJobOff DEF CompleteFails, JobMatchesStore
  <2> QED BY <2>1, <2>2
<1>8. CASE Rename
  <2>1. store \in Records /\ ~failed /\ data' = store /\ NoTorn(store)
    BY Zenon, <1>8 DEF Rename, JobMatchesStore, TornPlacement, TypeInv, TypeOK
  <2>2. FileMatchesStore'
    BY <1>8, <2>1, PrefixOrder DEF Rename, FileMatchesStore
  <2>3. TornPlacement'
    <3>1. TornOnlyLast(store) /\ \A c \in reverts' : TornOnlyLast(c)
      BY <1>8, <2>1, NoTornOnlyLast, ImagesTorn DEF Rename
    <3> QED BY <1>8, <2>1, <3>1, EmptyClean DEF Rename, Fsync, TornPlacement
  <2>4. WriterEmpty' /\ JobMatchesStore'
    BY Zenon, <1>8 DEF Rename, WriterEmpty, JobMatchesStore
  <2> QED BY <2>2, <2>3, <2>4
<1>9. CASE DirectorySyncOK
  <2>1. FileMatchesStore' /\ TornPlacement' /\ WriterEmpty'
    BY <1>9 DEF DirectorySyncOK, FileMatchesStore, TornPlacement, WriterEmpty
  <2>2. JobMatchesStore'
    BY Zenon, <1>9, NoJobOff DEF DirectorySyncOK, JobMatchesStore
  <2> QED BY <2>1, <2>2
<1>10. CASE DirectorySyncFail
  <2>1. FileMatchesStore' /\ TornPlacement' /\ WriterEmpty'
    BY <1>10 DEF DirectorySyncFail, FileMatchesStore, TornPlacement, WriterEmpty
  <2>2. JobMatchesStore'
    BY <1>10, NoJobOff DEF DirectorySyncFail, JobMatchesStore
  <2> QED BY <2>1, <2>2
<1> QED BY <1>1, <1>2, <1>3, <1>4, <1>5, <1>6, <1>7, <1>8, <1>9, <1>10 DEF Rewrite

\* Closing, a kill and a power loss leave a file that recovery can read.
LEMMA ShapeStop ==
    ASSUME Shape, Close \/ Kill \/ PowerLoss, TypeInv'
    PROVE  Shape'
<1> USE DEF disk, flags, writer, proc, ghost
<1> USE DEF Shape
<1>0. /\ data \in Records /\ data' \in Records /\ store \in Records /\ batch \in Records
      /\ buf \in Records
  BY DEF TypeInv, TypeOK
<1>1. CASE CloseBegin
  <2>1. FileMatchesStore' /\ TornPlacement'
    BY <1>1 DEF CloseBegin, FileMatchesStore, TornPlacement
  <2>2. WriterEmpty' /\ JobMatchesStore'
    BY Zenon, <1>1 DEF CloseBegin, WriterEmpty, JobMatchesStore
  <2> QED BY <2>1, <2>2
<1>2. CASE CloseFlushed
  <2>1. CASE buf = <<>>
    <3>1. FileMatchesStore' /\ TornPlacement'
      BY <1>2, <2>1 DEF CloseFlushed, Flushed, Fsync, FileMatchesStore, TornPlacement
    <3>2. WriterEmpty' /\ JobMatchesStore'
      BY Zenon, <1>2 DEF CloseFlushed, WriterEmpty, JobMatchesStore
    <3> QED BY <3>1, <3>2
  <2>2. CASE buf # <<>>
    <3>1. pc = "idle" /\ failed /\ data' = Complete(data) \o buf
      BY <1>2, <2>2 DEF CloseFlushed, Flushed, MutexFree, WriterEmpty
    <3>2. /\ Complete(data) \in Records /\ IsPrefix(store, Complete(data))
          /\ NoTorn(Complete(data))
      BY <1>0, <3>1, PrefixComplete, CompleteAvoids DEF FileMatchesStore, TornPlacement
    <3>3. IsPrefix(store, data')
      BY <1>0, <3>1, <3>2, PrefixConcat, PrefixOrder
    <3>4. NoTorn(data')
      BY <1>0, <3>1, <3>2, NoTornConcat DEF TornPlacement
    <3>5. FileMatchesStore'
      BY <1>2, <3>1, <3>3 DEF CloseFlushed, FileMatchesStore
    <3>6. TornPlacement'
      BY <1>0, <1>2, <3>4, NoTornOnlyLast, EmptyClean DEF CloseFlushed, Fsync, TornPlacement
    <3>7. WriterEmpty' /\ JobMatchesStore'
      BY Zenon, <1>2 DEF CloseFlushed, WriterEmpty, JobMatchesStore
    <3> QED BY <3>5, <3>6, <3>7
  <2> QED BY <2>1, <2>2
<1>3. CASE CloseFails
  <2>1. FileMatchesStore' /\ TornPlacement'
    <3>1. CASE data' = data
      BY <1>3, <3>1 DEF CloseFails, FileMatchesStore, TornPlacement
    <3>2. CASE data' # data
      <4>1. buf # <<>> /\ data' \in Survivors(Complete(data) \o buf, Len(Complete(data)))
        BY <1>3, <3>2 DEF CloseFails, PartlyFlushed, Flushed
      <4>2. pc = "idle" /\ failed
        BY <1>3, <4>1 DEF CloseFails, MutexFree, WriterEmpty
      <4>3. /\ Complete(data) \in Records /\ IsPrefix(store, Complete(data))
            /\ NoTorn(Complete(data))
        BY <1>0, <4>2, PrefixComplete, CompleteAvoids DEF FileMatchesStore, TornPlacement
      <4>4. Complete(data) \o buf \in Records /\ IsPrefix(store, Complete(data) \o buf)
        BY <1>0, <4>3, PrefixConcat, PrefixOrder
      <4>5. Len(Complete(data)) \in Nat /\ Len(store) <= Len(Complete(data))
        BY <1>0, <4>3, PrefixDef, RecordsBasic
      <4>6. IsPrefix(store, data')
        BY <1>0, <4>1, <4>4, <4>5, PrefixSurvives
      <4>7. TornOnlyLast(Complete(data) \o buf)
        BY <1>0, <4>3, <4>4, NoTornConcat, NoTornOnlyLast DEF TornPlacement
      <4>8. TornOnlyLast(data')
        BY <4>1, <4>4, <4>5, <4>7, TornSurvivors
      <4>9. FileMatchesStore'
        BY <1>3, <4>2, <4>6 DEF CloseFails, FileMatchesStore
      <4>10. TornPlacement'
        BY <1>3, <4>8 DEF CloseFails, TornPlacement
      <4> QED BY <4>9, <4>10
    <3> QED BY <3>1, <3>2
  <2>2. WriterEmpty' /\ JobMatchesStore'
    BY Zenon, <1>3 DEF CloseFails, WriterEmpty, JobMatchesStore
  <2> QED BY <2>1, <2>2
<1>4. ASSUME Stopped, TornOnlyLast(data'), \A c \in ghosts' \cup reverts' : TornOnlyLast(c)
      PROVE  Shape'
  <2>1. FileMatchesStore' /\ TornPlacement'
    BY <1>4, EmptyClean DEF Stopped, FileMatchesStore, TornPlacement
  <2>2. WriterEmpty' /\ JobMatchesStore'
    BY <1>4, NoJobOff DEF Stopped, WriterEmpty, JobMatchesStore
  <2> QED BY <2>1, <2>2
<1>5. CASE Exit
  BY <1>4, <1>5 DEF Exit, TornPlacement
<1>6. CASE Kill
  <2>1. Written \in Records /\ TornOnlyLast(Written)
    <3>1. CASE pc = "write"
      <4>1. data = store /\ NoTorn(store) /\ NoTorn(batch)
        BY <3>1 DEF FileMatchesStore, TornPlacement
      <4>2. data \o batch \in Records /\ NoTorn(data \o batch)
        BY <1>0, <4>1, PrefixConcat, NoTornConcat
      <4> QED BY <3>1, <4>2, NoTornOnlyLast DEF Written
    <3>2. CASE pc # "write"
      BY <1>0, <3>2 DEF Written, TornPlacement
    <3> QED BY <3>1, <3>2
  <2>2. TornOnlyLast(data')
    BY <1>0, <1>6, <2>1, TornSurvivors, RecordsBasic DEF Kill
  <2> QED BY <1>4, <1>6, <2>2 DEF Kill, TornPlacement
<1>7. CASE PowerLoss
  <2>1. TornOnlyLast(data')
    BY <1>7, ImagesTorn, EmptyClean DEF PowerLoss
  <2> QED BY <1>4, <1>7, <2>1 DEF PowerLoss, Fsync
<1> QED BY <1>1, <1>2, <1>3, <1>5, <1>6, <1>7 DEF Close

\* Every step keeps the correspondence.
LEMMA ShapeStep ==
    ASSUME Shape, [Next]_vars
    PROVE  Shape'
<1>1. TypeInv'
  BY TypeStep DEF Shape
<1>2. CASE Next
  BY <1>1, <1>2, ShapeOpen, ShapeCommit, ShapeSyncLoop, ShapeRewrite, ShapeStop DEF Next
<1>3. CASE UNCHANGED vars
  BY Zenon, <1>1, <1>3 DEF vars, disk, flags, writer, proc, ghost, Shape, FileMatchesStore,
                    TornPlacement, WriterEmpty, JobMatchesStore
<1> QED BY <1>2, <1>3

\* The correspondence holds initially.
LEMMA ShapeInit == Init => Shape
<1> SUFFICES ASSUME Init PROVE Shape
  OBVIOUS
<1>1. TypeInv
  BY Zenon, NoJobType, RecordsBasic DEF Init, TypeInv, TypeOK, OffsetInFile, Steps
<1>2. FileMatchesStore /\ TornPlacement
  BY EmptyClean DEF Init, FileMatchesStore, TornPlacement
<1>3. WriterEmpty /\ JobMatchesStore
  BY NoJobOff DEF Init, WriterEmpty, JobMatchesStore
<1> QED BY <1>1, <1>2, <1>3 DEF Shape

\* Append before apply: what the store shows is a prefix of the file, so that a
\* killed process loses nothing a client has seen, for every sync policy.
THEOREM StoreAlwaysLogged == Spec => []StoreIsLogged
<1>1. Shape => StoreIsLogged
  BY DEF Shape, FileMatchesStore, StoreIsLogged
<1>2. Shape /\ [Next]_vars => Shape'
  BY ShapeStep
<1> QED BY <1>1, <1>2, ShapeInit, PTL DEF Spec

\* No crash leaves a torn record that recovery would call corruption.
THEOREM LogAlwaysRecoverable == Spec => []AlwaysRecoverable
<1>1. Shape => AlwaysRecoverable
  <2> SUFFICES ASSUME Shape PROVE AlwaysRecoverable
    OBVIOUS
  <2>1. TornOnlyLast(data) /\ TornOnlyLast(<<>>)
    BY EmptyClean DEF Shape, TornPlacement
  <2> QED BY <2>1, ImagesTorn DEF AlwaysRecoverable, AfterPowerLoss
<1>2. Shape /\ [Next]_vars => Shape'
  BY ShapeStep
<1> QED BY <1>1, <1>2, ShapeInit, PTL DEF Spec

\* Installing a rewrite leaves what the log replays to unchanged.
THEOREM RewritePreservesLog == Spec => ReplacementIsEquivalent
<1> DEFINE Install == pc = "rename" /\ pc' = "directorySync" => data' = data /\ data' = store
<1>1. Shape /\ [Next]_vars => [Install]_vars
  <2> SUFFICES ASSUME Shape, Next, pc = "rename", pc' = "directorySync"
               PROVE  data' = data /\ data' = store
    OBVIOUS
  <2>1. data = store /\ job.snap \o job.delta = store
    BY Zenon DEF Shape, FileMatchesStore, JobMatchesStore
  <2>2. Rename
    <3>1. ~Open /\ ~SyncLoop /\ ~Close /\ ~Kill /\ ~PowerLoss
      BY DEF Open, OpenCreate, OpenExisting, CreatedSyncOK, CreatedSyncFail,
             SyncLoop, SyncTickOK, SyncTickFail, MutexFree,
             Close, CloseBegin, CloseFlushed, CloseFails, Exit, Kill, PowerLoss, Stopped
    <3>2. ~Commit
      BY DEF Commit, AppendRefused, AppendBatch, FlushOK, FlushFail, EncodeFail, SyncOK,
             SyncFail, TruncateOK, TruncateFail, RollbackSyncOK, RollbackSyncFail,
             DeltaOK, DeltaFail, Apply
    <3>3. Rewrite
      BY <3>1, <3>2 DEF Next
    <3> QED BY <3>3 DEF Rewrite, StartRewrite, SnapshotWritten, SnapshotFails, AbortRewrite,
                MutexFree, CompleteRefused, CompleteSynced, CompleteFails,
                DirectorySyncOK, DirectorySyncFail
  <2> QED BY <2>1, <2>2 DEF Rename
<1>2. Shape /\ [Next]_vars => Shape'
  BY ShapeStep
<1> QED BY <1>1, <1>2, ShapeInit, PTL DEF Spec, ReplacementIsEquivalent

=============================================================================
