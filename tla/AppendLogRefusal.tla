-------------------------- MODULE AppendLogRefusal --------------------------
(* A refused command leaves no record in AppendLog. *)
EXTENDS AppendLogSafety

\* Neither the future nor the refused commands include the torn record.
LEMMA TornIsApart ==
    ASSUME TypeInv, Fresh
    PROVE  Torn \notin Future /\ Torn \notin refused
  BY DEF TypeInv, TypeOK, Fresh, Future, Torn

\* The empty content is clean, and so are extensions, survivors and parts of
\* clean contents.
LEMMA CleanEmpty == Clean(<<>>)
  BY DEF Clean, Avoids

LEMMA CleanConcat ==
    ASSUME NEW s \in Records, NEW t \in Records, Clean(s), Clean(t)
    PROVE  Clean(s \o t)
  BY AvoidsConcat DEF Clean

LEMMA CleanSurvivors ==
    ASSUME TypeInv, Fresh, NEW c \in Records, Clean(c), NEW low \in Nat,
           NEW x \in Survivors(c, low)
    PROVE  Clean(x)
  BY TornIsApart, AvoidsSurvivors DEF Clean

LEMMA CleanComplete ==
    ASSUME NEW c \in Records, Clean(c)
    PROVE  Clean(Complete(c))
  BY CompleteAvoids DEF Clean

LEMMA CleanSubSeq ==
    ASSUME NEW c \in Records, Clean(c), NEW m \in Nat \ {0}, NEW n \in Nat, n <= Len(c)
    PROVE  Clean(SubSeq(c, m, n))
  BY AvoidsSubSeq DEF Clean

\* Steps that number and refuse no command, and write clean contents only.
LEMMA FreshSame ==
    ASSUME Fresh, issued' = issued, refused' = refused,
           \A c \in Contents' : c \in Contents \/ Clean(c),
           pc' \in {"write", "sync", "truncate", "rollbackSync"}
               => /\ pc \in {"write", "sync", "truncate", "rollbackSync"}
                  /\ UNCHANGED <<store, reverts, batch>>
    PROVE  Fresh'
<1>1. Future' = Future
  BY DEF Future
<1>2. \A c : Avoids(c, Future) /\ Avoids(c, refused) <=> Avoids(c, Future') /\ Avoids(c, refused')
  BY <1>1
<1>3. \A c \in Contents' : Clean(c)'
  BY <1>2 DEF Fresh, Clean
<1>4. Torn \notin refused' /\ refused' \cap Future' = {}
  BY <1>1 DEF Fresh
<1>5. pc' \in {"write", "sync", "truncate", "rollbackSync"}
          => \A c \in ({store} \cup reverts)' : Avoids(c, ToSet(batch)')
  BY DEF Fresh
<1> QED BY <1>3, <1>4, <1>5 DEF Fresh

\* The contents a power loss may leave are clean.
LEMMA ImagesClean ==
    ASSUME Shape, Fresh
    PROVE  \A c \in Images : Clean(c)
<1>1. /\ data \in Records /\ batch \in Records /\ synced \in Nat
      /\ ghosts \subseteq Records /\ TypeInv
  BY DEF Shape, TypeInv, TypeOK
<1>2. Clean(data) /\ Clean(batch) /\ \A c \in ghosts \cup reverts : Clean(c)
  BY DEF Fresh, Contents
<1>3. Written \in Records /\ Clean(Written)
  BY Zenon, <1>1, <1>2, CleanConcat, PrefixConcat DEF Written
<1>4. \A c \in {Written} \cup ghosts : \A x \in Survivors(c, synced) : Clean(x)
  BY <1>1, <1>2, <1>3, CleanSurvivors
<1> QED BY <1>2, <1>4 DEF Images

\* Opening the log.
LEMMA FreshOpen ==
    ASSUME Shape, Fresh, Open
    PROVE  Fresh'
<1> USE DEF disk, flags, writer, proc, ghost
<1>1. CASE OpenCreate
  BY <1>1, FreshSame, CleanEmpty DEF OpenCreate, Contents
<1>2. CASE OpenExisting
  <2>1. Clean(Complete(data))
    BY CleanComplete DEF Shape, TypeInv, TypeOK, Fresh, Contents
  <2> QED BY <1>2, <2>1, FreshSame DEF OpenExisting, Contents
<1>3. CASE CreatedSyncOK
  BY <1>3, FreshSame DEF CreatedSyncOK, Contents
<1>4. CASE CreatedSyncFail
  BY <1>4, FreshSame DEF CreatedSyncFail, Contents
<1> QED BY <1>1, <1>2, <1>3, <1>4 DEF Open

\* A commit numbers its commands afresh, and refuses them only when their
\* records are gone.
LEMMA FreshCommit ==
    ASSUME Shape, Fresh, Commit, Shape'
    PROVE  Fresh'
<1> USE DEF disk, flags, writer, proc, ghost
<1>0. /\ data \in Records /\ store \in Records /\ batch \in Records /\ data' \in Records
      /\ issued \in Nat /\ Len(data) \in Nat /\ TypeInv
      /\ Clean(data) /\ Clean(store) /\ Clean(batch)
  BY RecordsBasic DEF Shape, TypeInv, TypeOK, Fresh, Contents
<1>1. CASE AppendRefused
  <2>1. /\ issued' = issued + 1 /\ refused' = refused \cup {issued + 1}
        /\ pc' = pc /\ pc = "idle" /\ Contents' = Contents
    BY <1>1 DEF AppendRefused, Contents
  <2>2. Future' \subseteq Future /\ issued + 1 \in Future /\ issued + 1 \notin Future'
    BY <1>0, <2>1 DEF Future
  <2>3. refused' \cap Future' = {} /\ Torn \notin refused'
    BY <1>0, <2>1, <2>2 DEF Fresh, Torn
  <2>4. \A c \in Contents' : Clean(c)'
    <3>1. \A c \in Contents : Avoids(c, Future) /\ Avoids(c, refused)
      BY DEF Fresh, Clean
    <3>2. \A c \in Contents : Avoids(c, Future') /\ Avoids(c, refused')
      BY <2>1, <2>2, <3>1 DEF Avoids
    <3> QED BY <2>1, <3>2 DEF Clean
  <2> QED BY <2>1, <2>3, <2>4 DEF Fresh
<1>2. ASSUME NEW n \in 1..MaxBatch, AppendBatch(n) PROVE Fresh'
  <2>1. /\ n \in Nat /\ issued' = issued + n /\ refused' = refused
        /\ batch' = [i \in 1..n |-> issued + i]
        /\ UNCHANGED <<data, store, buf, ghosts, reverts>>
    BY <1>2, LogAssumption DEF AppendBatch
  <2>2. Future' \subseteq Future
    BY <1>0, <2>1 DEF Future
  <2>3. Len(batch') = n /\ \A i \in 1..n : batch'[i] \in Future /\ batch'[i] \notin Future'
    BY <1>0, <2>1 DEF Future
  <2>4. \A c \in Contents : Avoids(c, Future') /\ Avoids(c, refused')
    BY <2>1, <2>2 DEF Fresh, Clean, Avoids
  <2>5. Avoids(batch', Future') /\ Avoids(batch', refused')
    BY <2>1, <2>3 DEF Fresh, Avoids
  <2>6. \A c \in Contents' : Clean(c)'
    BY <2>1, <2>4, <2>5 DEF Clean, Contents
  <2>7. ToSet(batch') \subseteq Future
    BY <2>1, <2>3 DEF ToSet
  <2>8. \A c \in {store} \cup reverts : Avoids(c, ToSet(batch'))
    BY <2>7 DEF Fresh, Contents, Clean, Avoids
  <2> QED BY <2>1, <2>2, <2>6, <2>8 DEF Fresh
<1>3. CASE FlushOK
  <2>1. Clean(data \o batch)
    BY <1>0, CleanConcat
  <2> QED BY Zenon, <1>3, <2>1, FreshSame DEF FlushOK, Contents
<1>4. CASE FlushFail
  <2>1. data \o batch \in Records /\ Clean(data \o batch)
    BY <1>0, CleanConcat, PrefixConcat
  <2>2. Clean(data')
    BY <1>0, <1>4, <2>1, CleanSurvivors DEF FlushFail
  <2> QED BY <1>4, <2>2, FreshSame DEF FlushFail, Contents
<1>5. ASSUME NEW k \in 0..(Len(batch) - 1), EncodeFail(k) PROVE Fresh'
  <2> DEFINE w == SubSeq(batch, 1, k)
  <2>1. PICK j \in 0..k : data' \in Cut(data \o w, Len(data) + j) /\ buf' = SubSeq(batch, j + 1, k)
    BY Zenon, <1>5 DEF EncodeFail
  <2>2. Len(batch) \in Nat /\ k \in Nat /\ k <= Len(batch) /\ j + 1 \in Nat \ {0}
    BY <1>0, RecordsBasic
  <2>3. w \in Records /\ Len(w) = k
    BY <1>0, <2>2 DEF Records
  <2>4. Clean(w) /\ Clean(buf')
    BY <1>0, <2>1, <2>2, CleanSubSeq
  <2> HIDE DEF w
  <2>5. data \o w \in Records /\ Clean(data \o w) /\ Len(data \o w) = Len(data) + Len(w)
    <3>1. data \o w \in Records /\ Clean(data \o w)
      BY <1>0, <2>3, <2>4, CleanConcat, PrefixConcat
    <3>2. Len(data \o w) = Len(data) + Len(w)
      BY Zenon, <1>0, <2>3, ConcatProperties DEF Records
    <3> QED BY <3>1, <3>2
  <2>6. Len(data) + j \in Len(data)..Len(data \o w)
    BY <1>0, <2>2, <2>3, <2>5
  <2>7. data' \in Survivors(data \o w, Len(data))
    BY Zenon, <1>0, <2>1, <2>5, <2>6, CutSurvives
  <2>8. Clean(data')
    BY <1>0, <2>5, <2>7, CleanSurvivors
  <2> QED BY Zenon, <1>5, <2>4, <2>8, FreshSame DEF EncodeFail, Contents
<1>6. CASE SyncOK
  BY <1>6, FreshSame DEF SyncOK, Fsync, Contents
<1>7. CASE SyncFail
  BY <1>7, FreshSame DEF SyncFail, Contents
<1>8. CASE TruncateOK
  <2>1. data' = store
    BY <1>0, <1>8, TruncateToPrefix DEF TruncateOK, Shape, FileMatchesStore
  <2> QED BY Zenon, <1>8, <2>1, FreshSame, CleanEmpty DEF TruncateOK, Contents
<1>9. CASE TruncateFail
  BY <1>9, FreshSame, CleanEmpty DEF TruncateFail, Contents
<1>10. CASE RollbackSyncOK
  <2>1. /\ refused' = refused \cup ToSet(batch) /\ issued' = issued /\ ghosts' = {}
        /\ batch' = <<>> /\ data' = store /\ buf' = <<>> /\ pc' = "idle"
        /\ UNCHANGED <<store, reverts>>
    BY <1>10 DEF RollbackSyncOK, Fsync, Shape, FileMatchesStore, WriterEmpty
  <2>2. Future' = Future
    BY <2>1 DEF Future
  <2>3. \A b \in ToSet(batch) : b \notin Future /\ b # Torn
    <3>1. NoTorn(batch) /\ Clean(batch)
      BY <1>0 DEF Shape, TornPlacement
    <3>2. ASSUME NEW b \in ToSet(batch) PROVE \E i \in 1..Len(batch) : batch[i] = b
      BY <1>0, <3>2 DEF ToSet, Records
    <3> QED BY <3>1, <3>2 DEF Clean, NoTorn, Avoids
  <2>4. Torn \notin refused' /\ refused' \cap Future' = {}
    BY <2>1, <2>2, <2>3 DEF Fresh
  <2>5. \A c \in {store} \cup reverts : Avoids(c, ToSet(batch)) /\ Clean(c)
    BY <1>10 DEF RollbackSyncOK, Fresh, Contents
  <2>6. \A c \in {store} \cup reverts : Avoids(c, Future') /\ Avoids(c, refused')
    BY <2>1, <2>2, <2>5 DEF Clean, Avoids
  <2>7. Avoids(<<>>, Future') /\ Avoids(<<>>, refused')
    BY DEF Avoids
  <2>8. \A c \in Contents' : Clean(c)'
    BY Zenon, <2>1, <2>6, <2>7 DEF Contents, Clean
  <2> QED BY <2>1, <2>4, <2>8 DEF Fresh
<1>11. CASE RollbackSyncFail
  BY <1>11, FreshSame, CleanEmpty DEF RollbackSyncFail, Contents
<1>12. CASE DeltaOK
  BY <1>12, FreshSame DEF DeltaOK, Contents
<1>13. CASE DeltaFail
  BY <1>13, FreshSame DEF DeltaFail, Contents
<1>14. CASE Apply
  <2>1. Clean(store \o batch)
    BY <1>0, CleanConcat
  <2> QED BY Zenon, <1>14, <2>1, FreshSame, CleanEmpty DEF Apply, Contents
<1> QED BY <1>1, <1>2, <1>3, <1>4, <1>5, <1>6, <1>7, <1>8, <1>9, <1>10,
           <1>11, <1>12, <1>13, <1>14 DEF Commit

\* The periodic sync and the rewrite write nothing new.
LEMMA FreshBackground ==
    ASSUME Shape, Fresh, SyncLoop \/ Rewrite
    PROVE  Fresh'
<1> USE DEF disk, flags, writer, proc, ghost
<1>1. CASE SyncTickOK
  BY <1>1, FreshSame DEF SyncTickOK, Fsync, MutexFree, Contents
<1>2. CASE SyncTickFail
  BY <1>2, FreshSame DEF SyncTickFail, Contents, MutexFree
<1>3. CASE StartRewrite
  BY <1>3, FreshSame DEF StartRewrite, Contents
<1>4. CASE SnapshotWritten
  BY <1>4, FreshSame DEF SnapshotWritten, Contents
<1>5. CASE SnapshotFails
  BY <1>5, FreshSame DEF SnapshotFails, Contents
<1>6. CASE AbortRewrite
  BY <1>6, FreshSame DEF AbortRewrite, Contents
<1>7. CASE CompleteRefused
  BY <1>7, FreshSame DEF CompleteRefused, Contents
<1>8. CASE CompleteSynced
  BY <1>8, FreshSame DEF CompleteSynced, Contents
<1>9. CASE CompleteFails
  BY <1>9, FreshSame DEF CompleteFails, Contents
<1>10. CASE Rename
  <2>1. data' = store /\ \A c \in reverts' : Clean(c)
    BY Zenon, <1>10, ImagesClean DEF Rename, Shape, JobMatchesStore
  <2> QED BY <1>10, <2>1, FreshSame, CleanEmpty DEF Rename, Fsync, Contents
<1>11. CASE DirectorySyncOK
  BY <1>11, FreshSame DEF DirectorySyncOK, Contents
<1>12. CASE DirectorySyncFail
  BY <1>12, FreshSame DEF DirectorySyncFail, Contents
<1> QED BY <1>1, <1>2, <1>3, <1>4, <1>5, <1>6, <1>7, <1>8, <1>9, <1>10, <1>11, <1>12
       DEF SyncLoop, Rewrite

\* Closing, a kill and a power loss leave clean contents.
LEMMA FreshStop ==
    ASSUME Shape, Fresh, Close \/ Kill \/ PowerLoss
    PROVE  Fresh'
<1> USE DEF disk, flags, writer, proc, ghost
<1>0. /\ data \in Records /\ buf \in Records /\ batch \in Records /\ TypeInv
      /\ Clean(data) /\ Clean(buf) /\ Clean(batch)
  BY DEF Shape, TypeInv, TypeOK, Fresh, Contents
<1>1. CASE CloseBegin
  BY <1>1, FreshSame DEF CloseBegin, Contents
<1>2. CASE CloseFlushed
  <2>1. Clean(Complete(data) \o buf)
    BY <1>0, CleanComplete, CompleteType, CleanConcat
  <2> QED BY Zenon, <1>2, <2>1, FreshSame, CleanEmpty
          DEF CloseFlushed, Flushed, MutexFree, Fsync, Contents
<1>3. CASE CloseFails
  <2>1. Complete(data) \o buf \in Records /\ Clean(Complete(data) \o buf)
    BY <1>0, CleanComplete, CompleteType, CleanConcat, PrefixConcat
  <2>2. Len(Complete(data)) \in Nat
    BY <1>0, CompleteType, RecordsBasic
  <2>3. \A c \in Survivors(Complete(data) \o buf, Len(Complete(data))) : Clean(c)
    BY <1>0, <2>1, <2>2, CleanSurvivors
  <2>4. Clean(data')
    BY <1>0, <1>3, <2>3 DEF CloseFails, PartlyFlushed, Flushed
  <2> QED BY <1>3, <2>4, FreshSame DEF CloseFails, MutexFree, Contents
<1>4. CASE Exit
  BY <1>4, FreshSame, CleanEmpty DEF Exit, Stopped, Contents
<1>5. CASE Kill
  <2>1. Written \in Records /\ Clean(Written)
    BY Zenon, <1>0, CleanConcat, PrefixConcat DEF Written
  <2>2. Clean(data')
    BY <1>0, <1>5, <2>1, CleanSurvivors, RecordsBasic DEF Kill
  <2> QED BY <1>5, <2>2, FreshSame, CleanEmpty DEF Kill, Stopped, Contents
<1>6. CASE PowerLoss
  <2>1. Clean(data')
    BY <1>6, ImagesClean, CleanEmpty DEF PowerLoss
  <2> QED BY <1>6, <2>1, FreshSame, CleanEmpty DEF PowerLoss, Fsync, Stopped, Contents
<1> QED BY <1>1, <1>2, <1>3, <1>4, <1>5, <1>6 DEF Close

\* A command answered with an error after a completed rollback has no record
\* in any content that recovery may read, now or after a power loss.
THEOREM RefusedNeverRecovered == Spec => []RefusedLeavesNoRecord
<1>1. Init => Shape /\ Fresh
  <2> SUFFICES ASSUME Init PROVE Fresh
    BY ShapeInit
  <2>1. \A c \in Contents : Clean(c)
    BY CleanEmpty DEF Init, Contents
  <2> QED BY <2>1 DEF Init, Fresh
<1>2. Shape /\ Fresh /\ [Next]_vars => (Shape /\ Fresh)'
  <2> SUFFICES ASSUME Shape, Fresh, [Next]_vars PROVE Fresh'
    BY ShapeStep
  <2>1. Shape'
    BY ShapeStep
  <2>2. CASE Next
    BY <2>1, <2>2, FreshOpen, FreshCommit, FreshBackground, FreshStop DEF Next
  <2>3. CASE UNCHANGED vars
    BY <2>3, FreshSame DEF vars, disk, flags, writer, proc, ghost, Contents
  <2> QED BY <2>2, <2>3
<1>3. Shape /\ Fresh => RefusedLeavesNoRecord
  <2> SUFFICES ASSUME Shape, Fresh, NEW c \in AfterPowerLoss PROVE ToSet(c) \cap refused = {}
    BY DEF RefusedLeavesNoRecord
  <2>1. c \in Records
    BY ImagesType, RecordsBasic DEF AfterPowerLoss, Shape, TypeInv
  <2>2. Clean(c)
    BY ImagesClean, CleanEmpty DEF AfterPowerLoss
  <2> QED BY <2>1, <2>2 DEF Clean, Avoids, ToSet, Records
<1> QED BY <1>1, <1>2, <1>3, PTL DEF Spec

=============================================================================
