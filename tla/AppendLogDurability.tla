------------------------- MODULE AppendLogDurability -------------------------
(* What a power loss may not take from AppendLog. *)
EXTENDS AppendLogSafety

\* The length of a prefix.
LEMMA PrefixLen ==
    ASSUME NEW s \in Records, NEW t \in Records, IsPrefix(s, t)
    PROVE  Len(s) <= Len(t)
  BY PrefixDef

\* What is owed is at the front of what is being written.
LEMMA OwedWritten ==
    ASSUME Shape, Durable
    PROVE  /\ Written \in Records /\ IsPrefix(owed, Written)
           /\ Len(data) \in Nat /\ Len(data) <= Len(Written)
<1>1. data \in Records /\ batch \in Records /\ owed \in Records
  BY DEF Shape, TypeInv, TypeOK
<1>2. IsPrefix(owed, data) /\ Len(data) \in Nat
  BY <1>1, RecordsBasic DEF Durable, OwedIsSynced
<1>3. data \o batch \in Records /\ IsPrefix(data, data \o batch) /\ Len(data) <= Len(data \o batch)
  BY <1>1, PrefixConcat
<1>4. IsPrefix(owed, data \o batch)
  BY <1>1, <1>2, <1>3, PrefixOrder
<1> QED BY <1>1, <1>2, <1>3, <1>4 DEF Written

\* What is owed is at the front of every content a power loss may leave.
LEMMA ImagesOwed ==
    ASSUME Shape, Durable, ~dirty
    PROVE  \A c \in Images : IsPrefix(owed, c)
<1>1. /\ synced \in Nat /\ owed \in Records /\ Len(owed) <= synced
      /\ Written \in Records /\ IsPrefix(owed, Written)
  BY OwedWritten DEF Shape, TypeInv, TypeOK, Durable, OwedIsSynced
<1>2. \A g \in ghosts : g \in Records /\ IsPrefix(owed, g)
  BY DEF Shape, TypeInv, TypeOK, Durable, OwedIsSynced
<1>3. \A c \in {Written} \cup ghosts : \A x \in Survivors(c, synced) : IsPrefix(owed, x)
  BY <1>1, <1>2, PrefixSurvives
<1>4. \A r \in reverts : IsPrefix(owed, r)
  BY DEF Durable, EntryIsSafe
<1> QED BY <1>3, <1>4 DEF Images

\* Opening the log.
LEMMA DurableOpen ==
    ASSUME Shape, Durable, Open, Shape'
    PROVE  Durable'
<1> USE DEF disk, flags, writer, proc, ghost
<1> USE DEF Durable
<1>0. /\ data \in Records /\ owed \in Records /\ synced \in Nat /\ reverts \subseteq Records
      /\ data' \in Records
  BY DEF Shape, TypeInv, TypeOK
<1>1. CASE OpenCreate
  <2>1. owed = <<>> /\ owed' = <<>> /\ data' = <<>> /\ store' = <<>> /\ synced' = 0 /\ ghosts' = {}
    BY <1>1 DEF OpenCreate, EntryIsSafe
  <2>2. OwedIsSynced'
    BY <1>1, <2>1, PrefixOrder, RecordsBasic, EmptyClean DEF OpenCreate, OwedIsSynced
  <2>3. EntryIsSafe'
    BY <1>0, <1>1, <2>1, PrefixOrder DEF OpenCreate, EntryIsSafe
  <2> QED BY <2>2, <2>3
<1>2. CASE OpenExisting
  <2>1. /\ data' = Complete(data) /\ store' = data' /\ owed' = owed /\ pc' = "idle"
        /\ synced' = IF synced > Len(data') THEN Len(data') ELSE synced
        /\ ghosts' \subseteq ghosts \cup {data}
    BY <1>2 DEF OpenExisting
  <2>2. IsPrefix(owed, data')
    BY <1>0, <2>1, PrefixComplete DEF OwedIsSynced
  <2>3. Len(owed) <= Len(data') /\ Len(data') \in Nat /\ Len(owed) \in Nat
    BY <1>0, <2>2, PrefixLen, RecordsBasic
  <2>4. Len(owed) <= synced' /\ synced' <= Len(data') /\ synced' <= synced /\ synced' \in Nat
    BY <1>0, <2>1, <2>3 DEF OwedIsSynced
  <2>5. \A g \in ghosts' : IsPrefix(owed, g) /\ synced' <= Len(g)
    <3>1. \A g \in ghosts' : g \in Records /\ IsPrefix(owed, g) /\ synced <= Len(g)
      BY <2>1, <1>0 DEF OwedIsSynced, Shape, TypeInv, TypeOK
    <3> QED BY <1>0, <2>4, <3>1, RecordsBasic
  <2>6. OwedIsSynced'
    BY <2>1, <2>2, <2>4, <2>5 DEF OwedIsSynced
  <2>7. EntryIsSafe'
    BY Zenon, <1>2 DEF OpenExisting, EntryIsSafe
  <2> QED BY <2>6, <2>7
<1>3. CASE CreatedSyncOK
  <2>1. OwedIsSynced'
    BY <1>3 DEF CreatedSyncOK, OwedIsSynced
  <2>2. EntryIsSafe'
    BY <1>3 DEF CreatedSyncOK, EntryIsSafe
  <2> QED BY <2>1, <2>2
<1>4. CASE CreatedSyncFail
  <2>1. OwedIsSynced'
    BY <1>4 DEF CreatedSyncFail, OwedIsSynced
  <2>2. EntryIsSafe'
    BY <1>4 DEF CreatedSyncFail, EntryIsSafe
  <2> QED BY <2>1, <2>2
<1> QED BY <1>1, <1>2, <1>3, <1>4 DEF Open

\* A batch that could not be written: the part that reached the file is cut to
\* no less than what was there.
LEMMA DurablePartial ==
    ASSUME Shape, Durable, pc = "write", pc' = "truncate",
           NEW w \in Records, data' \in Survivors(data \o w, Len(data)),
           UNCHANGED <<synced, ghosts, link, reverts, failed, store, owed, dirty>>
    PROVE  Durable'
<1> USE DEF Durable
<1>0. data \in Records /\ owed \in Records /\ synced \in Nat /\ Len(data) \in Nat /\ data = store
  BY RecordsBasic DEF Shape, TypeInv, TypeOK, FileMatchesStore
<1>1. data \o w \in Records /\ IsPrefix(data, data \o w)
  BY <1>0, PrefixConcat
<1>2. Len(data) <= Len(data)
  BY <1>0
<1>3. data' \in Records /\ IsPrefix(data, data')
  BY <1>0, <1>1, <1>2, PrefixSurvives
<1>4. IsPrefix(owed, data') /\ Len(data) <= Len(data') /\ Len(data') \in Nat
  BY <1>0, <1>3, PrefixOrder, PrefixLen, RecordsBasic DEF OwedIsSynced
<1>5. OwedIsSynced'
  BY <1>0, <1>4 DEF OwedIsSynced
<1>6. EntryIsSafe'
  BY DEF EntryIsSafe
<1> QED BY <1>5, <1>6

\* A commit.
LEMMA DurableCommit ==
    ASSUME Shape, Durable, Commit, Shape'
    PROVE  Durable'
<1> USE DEF disk, flags, writer, proc, ghost
<1> USE DEF Durable
<1>0. /\ data \in Records /\ owed \in Records /\ store \in Records /\ batch \in Records
      /\ data' \in Records /\ store' \in Records
      /\ synced \in Nat /\ Len(data) \in Nat
  BY RecordsBasic DEF Shape, TypeInv, TypeOK
<1>1. CASE AppendRefused
  <2>1. OwedIsSynced'
    BY <1>1 DEF AppendRefused, OwedIsSynced
  <2>2. EntryIsSafe'
    BY <1>1 DEF AppendRefused, EntryIsSafe
  <2> QED BY <2>1, <2>2
<1>2. ASSUME NEW n \in 1..MaxBatch, AppendBatch(n) PROVE Durable'
  <2>1. OwedIsSynced'
    BY <1>2 DEF AppendBatch, OwedIsSynced
  <2>2. EntryIsSafe'
    BY <1>2 DEF AppendBatch, EntryIsSafe
  <2> QED BY <2>1, <2>2
<1>3. CASE FlushOK
  <2>1. /\ data' = data \o batch /\ data = store /\ IsPrefix(data, data') /\ Len(data) <= Len(data')
        /\ Len(data') \in Nat /\ pc' \in {"sync", "delta"} /\ (SyncPolicy = "always" => pc' = "sync")
    BY Zenon, <1>0, <1>3, PrefixConcat, RecordsBasic DEF FlushOK, Shape, FileMatchesStore
  <2>2. IsPrefix(owed, data')
    BY <1>0, <2>1, PrefixOrder DEF OwedIsSynced
  <2>3. synced <= Len(data')
    BY <1>0, <2>1 DEF OwedIsSynced
  <2>4. OwedIsSynced'
    BY <1>3, <2>1, <2>2, <2>3 DEF FlushOK, OwedIsSynced
  <2>5. EntryIsSafe'
    BY <1>3, <2>1 DEF FlushOK, EntryIsSafe
  <2> QED BY <2>4, <2>5
<1>4. CASE FlushFail
  BY <1>0, <1>4, DurablePartial DEF FlushFail
<1>5. ASSUME NEW k \in 0..(Len(batch) - 1), EncodeFail(k) PROVE Durable'
  <2> DEFINE w == SubSeq(batch, 1, k)
  <2>1. PICK j \in 0..k : data' \in Cut(data \o w, Len(data) + j)
    BY <1>5 DEF EncodeFail
  <2>2. Len(batch) \in Nat
    BY <1>0, RecordsBasic
  <2>3. w \in Records /\ Len(w) = k
    BY <1>0, <2>2 DEF Records
  <2> HIDE DEF w
  <2>4. data \o w \in Records /\ Len(data \o w) = Len(data) + Len(w)
    BY Zenon, <1>0, <2>3, ConcatProperties DEF Records
  <2>5. Len(data) + j \in Len(data)..Len(data \o w)
    BY <1>0, <2>2, <2>3, <2>4
  <2>6. data' \in Survivors(data \o w, Len(data))
    BY Zenon, <1>0, <2>1, <2>4, <2>5, CutSurvives
  <2> QED BY <1>5, <2>3, <2>6, DurablePartial DEF EncodeFail
<1>6. CASE SyncOK
  <2>1. Len(owed) <= Len(data) /\ Len(data) <= Len(data)
    BY <1>0, PrefixLen DEF OwedIsSynced
  <2>2. OwedIsSynced'
    BY <1>6, <2>1 DEF SyncOK, Fsync, OwedIsSynced
  <2>3. EntryIsSafe'
    BY <1>6 DEF SyncOK, EntryIsSafe
  <2> QED BY <2>2, <2>3
<1>7. CASE SyncFail
  <2>1. OwedIsSynced'
    BY <1>7 DEF SyncFail, OwedIsSynced
  <2>2. EntryIsSafe'
    BY <1>7 DEF SyncFail, EntryIsSafe
  <2> QED BY <2>1, <2>2
<1>8. CASE TruncateOK
  <2>1. data' = store
    BY <1>8, <1>0, TruncateToPrefix DEF TruncateOK, Shape, FileMatchesStore
  <2>2. OwedIsSynced'
    BY Zenon, <1>8, <2>1 DEF TruncateOK, OwedIsSynced
  <2>3. EntryIsSafe'
    BY <1>8 DEF TruncateOK, EntryIsSafe
  <2> QED BY <2>2, <2>3
<1>9. CASE TruncateFail
  <2>1. OwedIsSynced'
    BY <1>9 DEF TruncateFail, OwedIsSynced
  <2>2. EntryIsSafe'
    BY <1>9 DEF TruncateFail, EntryIsSafe
  <2> QED BY <2>1, <2>2
<1>10. CASE RollbackSyncOK
  <2>1. Len(owed) <= Len(data) /\ Len(data) <= Len(data)
    BY <1>0, PrefixLen DEF OwedIsSynced
  <2>2. OwedIsSynced'
    BY <1>10, <2>1 DEF RollbackSyncOK, Fsync, OwedIsSynced
  <2>3. EntryIsSafe'
    BY <1>10 DEF RollbackSyncOK, EntryIsSafe
  <2> QED BY <2>2, <2>3
<1>11. CASE RollbackSyncFail
  <2>1. OwedIsSynced'
    BY <1>11 DEF RollbackSyncFail, OwedIsSynced
  <2>2. EntryIsSafe'
    BY <1>11 DEF RollbackSyncFail, EntryIsSafe
  <2> QED BY <2>1, <2>2
<1>12. CASE DeltaOK
  <2>1. OwedIsSynced'
    BY <1>12 DEF DeltaOK, OwedIsSynced
  <2>2. EntryIsSafe'
    BY <1>12 DEF DeltaOK, EntryIsSafe
  <2> QED BY <2>1, <2>2
<1>13. CASE DeltaFail
  <2>1. OwedIsSynced'
    BY <1>13 DEF DeltaFail, OwedIsSynced
  <2>2. EntryIsSafe'
    BY <1>13 DEF DeltaFail, EntryIsSafe
  <2> QED BY <2>1, <2>2
<1>14. CASE Apply
  <2>1. /\ data' = data /\ store' = data /\ owed' \in {owed, data}
        /\ NoTorn(store') /\ IsPrefix(data, data)
        /\ synced' = synced /\ ghosts' = ghosts /\ pc = "apply" /\ pc' = "idle"
    BY <1>0, <1>14, PrefixOrder DEF Apply, Shape, FileMatchesStore, TornPlacement
  <2>2. owed' = owed \/ (owed' = data /\ synced = Len(data) /\ ghosts = {})
    BY <1>14, <2>1 DEF Apply, OwedIsSynced
  <2>3. Len(data) <= Len(data)
    BY <1>0
  <2>4. OwedIsSynced'
    <3>1. CASE owed' = owed
      BY <2>1, <3>1 DEF OwedIsSynced
    <3>2. CASE owed' = data /\ synced = Len(data) /\ ghosts = {}
      BY <2>1, <2>3, <3>2 DEF OwedIsSynced
    <3> QED BY <2>1, <2>2, <3>1, <3>2
  <2>5. EntryIsSafe'
    BY <1>14 DEF Apply, EntryIsSafe
  <2> QED BY <2>4, <2>5
<1> QED BY <1>1, <1>2, <1>3, <1>4, <1>5, <1>6, <1>7, <1>8, <1>9, <1>10,
           <1>11, <1>12, <1>13, <1>14 DEF Commit

\* The periodic sync: what it makes durable becomes owed.
LEMMA DurableSyncLoop ==
    ASSUME Shape, Durable, SyncLoop, Shape'
    PROVE  Durable'
<1> USE DEF disk, flags, writer, proc, ghost
<1> USE DEF Durable
<1>0. data \in Records /\ store \in Records /\ Len(data) \in Nat
  BY RecordsBasic DEF Shape, TypeInv, TypeOK
<1>1. CASE SyncTickOK
  <2>1. IsPrefix(store, data) /\ NoTorn(store) /\ IsPrefix(store, store)
    BY <1>0, <1>1, PrefixOrder
       DEF SyncTickOK, MutexFree, Shape, FileMatchesStore, TornPlacement
  <2>2. Len(store) <= Len(data) /\ Len(data) <= Len(data)
    BY <1>0, <2>1, PrefixLen
  <2>3. OwedIsSynced'
    BY <1>1, <2>1, <2>2 DEF SyncTickOK, Fsync, MutexFree, OwedIsSynced
  <2>4. EntryIsSafe'
    BY <1>1 DEF SyncTickOK, MutexFree, EntryIsSafe
  <2> QED BY <2>3, <2>4
<1>2. CASE SyncTickFail
  <2>1. OwedIsSynced'
    BY <1>2 DEF SyncTickFail, OwedIsSynced
  <2>2. EntryIsSafe'
    BY <1>2 DEF SyncTickFail, MutexFree, EntryIsSafe
  <2> QED BY <2>1, <2>2
<1> QED BY <1>1, <1>2 DEF SyncLoop

\* A rewrite.
LEMMA DurableRewrite ==
    ASSUME Shape, Durable, Rewrite, Shape'
    PROVE  Durable'
<1> USE DEF disk, flags, writer, proc, ghost
<1> USE DEF Durable
<1>1. CASE StartRewrite
  <2>1. OwedIsSynced'
    BY <1>1 DEF StartRewrite, OwedIsSynced
  <2>2. EntryIsSafe'
    BY <1>1 DEF StartRewrite, EntryIsSafe
  <2> QED BY <2>1, <2>2
<1>2. CASE SnapshotWritten
  <2>1. OwedIsSynced'
    BY <1>2 DEF SnapshotWritten, OwedIsSynced
  <2>2. EntryIsSafe'
    BY <1>2 DEF SnapshotWritten, EntryIsSafe
  <2> QED BY <2>1, <2>2
<1>3. CASE SnapshotFails
  <2>1. OwedIsSynced'
    BY <1>3 DEF SnapshotFails, OwedIsSynced
  <2>2. EntryIsSafe'
    BY <1>3 DEF SnapshotFails, EntryIsSafe
  <2> QED BY <2>1, <2>2
<1>4. CASE AbortRewrite
  <2>1. OwedIsSynced'
    BY <1>4 DEF AbortRewrite, OwedIsSynced, MutexFree
  <2>2. EntryIsSafe'
    BY <1>4 DEF AbortRewrite, EntryIsSafe, MutexFree
  <2> QED BY <2>1, <2>2
<1>5. CASE CompleteRefused
  <2>1. OwedIsSynced'
    BY <1>5 DEF CompleteRefused, OwedIsSynced
  <2>2. EntryIsSafe'
    BY <1>5 DEF CompleteRefused, EntryIsSafe
  <2> QED BY <2>1, <2>2
<1>6. CASE CompleteSynced
  <2>1. OwedIsSynced'
    BY <1>6 DEF CompleteSynced, OwedIsSynced
  <2>2. EntryIsSafe'
    BY <1>6 DEF CompleteSynced, EntryIsSafe
  <2> QED BY <2>1, <2>2
<1>7. CASE CompleteFails
  <2>1. OwedIsSynced'
    BY <1>7 DEF CompleteFails, OwedIsSynced, Shape, JobMatchesStore
  <2>2. EntryIsSafe'
    BY <1>7 DEF CompleteFails, EntryIsSafe, Shape, JobMatchesStore
  <2> QED BY <2>1, <2>2
<1>8. CASE Rename
  <2>1. /\ store \in Records /\ owed \in Records /\ data' = store /\ IsPrefix(owed, store)
        /\ pc = "rename" /\ pc' = "directorySync" /\ owed' = owed /\ store' = store
    BY Zenon, <1>8 DEF Rename, Shape, JobMatchesStore, TypeInv, TypeOK, OwedIsSynced
  <2>2. Len(owed) <= Len(store) /\ Len(store) <= Len(store)
    BY <2>1, PrefixLen, RecordsBasic
  <2>3. OwedIsSynced'
    BY <1>8, <2>1, <2>2 DEF Rename, Fsync, OwedIsSynced
  <2>4. ~dirty => \A r \in reverts' : IsPrefix(owed, r)
    BY <1>8, ImagesOwed DEF Rename
  <2>5. EntryIsSafe'
    BY <1>8, <2>4 DEF Rename, EntryIsSafe
  <2> QED BY <2>3, <2>5
<1>9. CASE DirectorySyncOK
  <2>1. OwedIsSynced'
    BY <1>9 DEF DirectorySyncOK, OwedIsSynced
  <2>2. EntryIsSafe'
    BY <1>9 DEF DirectorySyncOK, EntryIsSafe
  <2> QED BY <2>1, <2>2
<1>10. CASE DirectorySyncFail
  <2>1. OwedIsSynced'
    BY <1>10 DEF DirectorySyncFail, OwedIsSynced
  <2>2. EntryIsSafe'
    BY <1>10 DEF DirectorySyncFail, EntryIsSafe
  <2> QED BY <2>1, <2>2
<1> QED BY <1>1, <1>2, <1>3, <1>4, <1>5, <1>6, <1>7, <1>8, <1>9, <1>10 DEF Rewrite

\* Closing, a kill and a power loss.
LEMMA DurableStop ==
    ASSUME Shape, Durable, Close \/ Kill \/ PowerLoss, Shape'
    PROVE  Durable'
<1> USE DEF disk, flags, writer, proc, ghost
<1> USE DEF Durable
<1>0. /\ data \in Records /\ data' \in Records /\ store \in Records /\ owed \in Records
      /\ synced \in Nat /\ Len(data) \in Nat /\ Len(data') \in Nat
  BY RecordsBasic DEF Shape, TypeInv, TypeOK
<1>1. CASE CloseBegin
  <2>1. OwedIsSynced'
    BY <1>1 DEF CloseBegin, OwedIsSynced
  <2>2. EntryIsSafe'
    BY <1>1 DEF CloseBegin, EntryIsSafe
  <2> QED BY <2>1, <2>2
<1>2. CASE CloseFlushed
  <2>1. /\ IsPrefix(store, data') /\ IsPrefix(store, store) /\ NoTorn(store)
        /\ IsPrefix(owed, store) /\ NoTorn(owed) /\ owed' \in {owed, store} /\ store' = store
        /\ synced' = Len(data') /\ ghosts' = {} /\ pc' = pc /\ pc \in {"idle", "apply"}
    BY <1>0, <1>2, PrefixOrder
       DEF CloseFlushed, MutexFree, Fsync, Shape, FileMatchesStore, TornPlacement, OwedIsSynced
  <2>2. IsPrefix(owed', store) /\ IsPrefix(owed', data') /\ owed' \in Records
    BY <1>0, <2>1, PrefixOrder
  <2>3. Len(owed') <= Len(data') /\ Len(data') <= Len(data')
    BY <1>0, <2>2, PrefixLen
  <2>4. OwedIsSynced'
    BY <2>1, <2>2, <2>3 DEF OwedIsSynced
  <2>5. EntryIsSafe'
    BY <1>2, <2>1 DEF CloseFlushed, EntryIsSafe
  <2> QED BY <2>4, <2>5
<1>3. CASE CloseFails
  <2>1. OwedIsSynced'
    <3>1. CASE data' = data
      BY <1>3, <3>1 DEF CloseFails, OwedIsSynced
    <3>2. CASE data' # data
      <4>1. buf # <<>> /\ Len(data') >= Len(data)
        BY <1>3, <3>2 DEF CloseFails, PartlyFlushed
      <4>2. pc = "idle" /\ pc' = pc /\ store' = store /\ owed' = owed
        BY <1>3, <4>1 DEF CloseFails, MutexFree, Shape, WriterEmpty
      <4>3. IsPrefix(owed, store) /\ IsPrefix(store, data')
        BY <4>2 DEF Shape, FileMatchesStore, OwedIsSynced
      <4>4. IsPrefix(owed, data')
        BY <1>0, <4>3, PrefixOrder
      <4>5. synced <= Len(data')
        BY <1>0, <4>1 DEF OwedIsSynced
      <4> QED BY <1>3, <4>2, <4>4, <4>5 DEF CloseFails, OwedIsSynced
    <3> QED BY <3>1, <3>2
  <2>2. EntryIsSafe'
    BY <1>3 DEF CloseFails, EntryIsSafe
  <2> QED BY <2>1, <2>2
<1>4. CASE Exit
  <2>1. OwedIsSynced'
    BY <1>4 DEF Exit, Stopped, OwedIsSynced
  <2>2. EntryIsSafe'
    BY <1>4 DEF Exit, Stopped, EntryIsSafe
  <2> QED BY <2>1, <2>2
<1>5. CASE Kill
  <2>1. data' \in Survivors(Written, Len(data)) /\ Written \in Records /\ IsPrefix(owed, Written)
    BY <1>5, OwedWritten DEF Kill
  <2>2. Len(owed) <= Len(data)
    BY <1>0, PrefixLen DEF OwedIsSynced
  <2>3. IsPrefix(owed, data') /\ Len(data') >= Len(data)
    BY <1>0, <2>1, <2>2, PrefixSurvives, SurvivorsLen
  <2>4. synced <= Len(data')
    BY <1>0, <2>3 DEF OwedIsSynced
  <2>5. OwedIsSynced'
    BY <1>5, <2>3, <2>4 DEF Kill, Stopped, OwedIsSynced
  <2>6. EntryIsSafe'
    BY <1>5 DEF Kill, Stopped, EntryIsSafe
  <2> QED BY <2>5, <2>6
<1>6. CASE PowerLoss
  <2>1. IsPrefix(owed', data') /\ NoTorn(owed') /\ owed' \in Records
    <3>1. CASE dirty
      BY <1>0, <1>6, <3>1, PrefixOrder, EmptyClean, RecordsBasic DEF PowerLoss
    <3>2. CASE ~dirty /\ data' \in Images
      BY <1>0, <1>6, <3>2, ImagesOwed DEF PowerLoss, OwedIsSynced
    <3>3. CASE ~dirty /\ link = "volatile" /\ data' = <<>>
      BY <1>0, <1>6, <3>3, PrefixOrder, EmptyClean, RecordsBasic DEF PowerLoss, EntryIsSafe
    <3> QED BY <1>6, <3>1, <3>2, <3>3 DEF PowerLoss
  <2>2. Len(owed') <= Len(data') /\ Len(data') <= Len(data')
    BY <1>0, <2>1, PrefixLen
  <2>3. OwedIsSynced'
    BY <1>6, <2>1, <2>2 DEF PowerLoss, Fsync, Stopped, OwedIsSynced
  <2>4. EntryIsSafe'
    BY <1>6 DEF PowerLoss, Stopped, EntryIsSafe
  <2> QED BY <2>3, <2>4
<1> QED BY <1>1, <1>2, <1>3, <1>4, <1>5, <1>6 DEF Close

\* Every step keeps what is owed.
LEMMA DurableStep ==
    ASSUME Shape, Durable, [Next]_vars
    PROVE  Durable'
<1>1. Shape'
  BY ShapeStep
<1>2. CASE Next
  BY <1>1, <1>2, DurableOpen, DurableCommit, DurableSyncLoop, DurableRewrite, DurableStop
     DEF Next
<1>3. CASE UNCHANGED vars
  BY <1>3 DEF vars, disk, flags, writer, proc, ghost, Durable, OwedIsSynced, EntryIsSafe
<1> QED BY <1>2, <1>3

\* What the sync policy has promised to keep survives a power loss at any
\* moment, unless the log was opened over a directory entry never synced.
THEOREM OwedAlwaysKept == Spec => []OwedSurvives
<1>1. Init => Shape /\ Durable
  <2> SUFFICES ASSUME Init PROVE Durable
    BY ShapeInit
  <2>1. OwedIsSynced
    BY PrefixOrder, RecordsBasic, EmptyClean DEF Init, OwedIsSynced
  <2>2. EntryIsSafe
    BY DEF Init, EntryIsSafe
  <2> QED BY <2>1, <2>2 DEF Durable
<1>2. Shape /\ Durable /\ [Next]_vars => (Shape /\ Durable)'
  BY ShapeStep, DurableStep
<1>3. Shape /\ Durable => OwedSurvives
  <2> SUFFICES ASSUME Shape, Durable, ~dirty, NEW c \in AfterPowerLoss PROVE IsPrefix(owed, c)
    BY DEF OwedSurvives
  <2>1. CASE c \in Images
    BY <2>1, ImagesOwed
  <2>2. CASE c = <<>> /\ link # "durable"
    BY <2>2, PrefixOrder, RecordsBasic DEF Durable, EntryIsSafe
  <2> QED BY <2>1, <2>2 DEF AfterPowerLoss
<1> QED BY <1>1, <1>2, <1>3, PTL DEF Spec

=============================================================================
