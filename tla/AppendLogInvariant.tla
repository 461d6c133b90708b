------------------------- MODULE AppendLogInvariant -------------------------
(***************************************************************************)
(* The inductive invariant behind the safety properties of AppendLog, in   *)
(* three parts: how file, store and rewrite correspond (Shape), what a     *)
(* power loss may not take (Durable), and where the records of refused     *)
(* commands cannot be (Fresh).                                             *)
(***************************************************************************)
EXTENDS AppendLog

\* No record of content c is in R.
Avoids(c, R) == \A i \in 1..Len(c) : c[i] \notin R
NoTorn(c) == Avoids(c, {Torn})

\* The offset a rollback truncates to lies within the file.
OffsetInFile == pc \in {"write", "sync", "truncate"} => offset <= Len(data)

\* Truncation keeps the type only because the offset is within the file.
TypeInv == TypeOK /\ OffsetInFile

\* What the file holds at each step of the mutex holder.
FileMatchesStore ==
    /\ pc # "down" => IsPrefix(store, data)
    /\ pc \in {"created", "idle", "write", "rename", "directorySync"} /\ ~failed
           => data = store
    /\ pc = "rollbackSync" => data = store
    /\ pc \in {"sync", "delta", "apply"} => data = store \o batch
    /\ pc \in {"write", "sync", "truncate"} => offset = Len(store) /\ ~failed

\* A torn record is the last of its file, and never part of what was applied.
TornPlacement ==
    /\ NoTorn(store) /\ NoTorn(batch) /\ NoTorn(buf)
    /\ TornOnlyLast(data)
    /\ \A c \in ghosts \cup reverts : TornOnlyLast(c)

\* The writer is empty except after a rollback that could not truncate.
WriterEmpty == buf # <<>> => pc = "truncate" \/ (pc = "idle" /\ failed)

\* Snapshot and delta together are the store, the batch being applied included.
JobMatchesStore ==
    /\ pc \in {"down", "created"} => ~job.on
    /\ job.on /\ ~failed /\ ~job.deltaErr
           => job.snap \o job.delta = IF pc = "apply" THEN store \o batch ELSE store
    /\ pc = "rename" => job.on /\ ~job.deltaErr
    /\ pc \in {"rename", "directorySync"} => ~failed

Shape ==
    /\ TypeInv /\ FileMatchesStore /\ TornPlacement /\ WriterEmpty /\ JobMatchesStore

\* What is owed is on the device, at the front of every content it may show.
OwedIsSynced ==
    /\ NoTorn(owed)
    /\ IsPrefix(owed, data)
    /\ pc # "down" => IsPrefix(owed, store)
    /\ Len(owed) <= synced /\ synced <= Len(data)
    /\ pc \in {"sync", "truncate"} => synced <= Len(store)
    /\ \A g \in ghosts : IsPrefix(owed, g) /\ synced <= Len(g)
    /\ SyncPolicy = "always" /\ pc \in {"delta", "apply"}
           => synced = Len(data) /\ ghosts = {}

\* A directory entry that is not durable names nothing that is owed.
EntryIsSafe ==
    /\ link = "absent" => owed = <<>> /\ pc = "down"
    /\ ~dirty => \A r \in reverts : IsPrefix(owed, r)
    /\ ~dirty /\ link # "durable" => owed = <<>>
    /\ ~dirty /\ pc \notin {"down", "created", "directorySync"} /\ ~(failed /\ pc = "idle")
           => reverts = {} /\ link = "durable"

Durable == OwedIsSynced /\ EntryIsSafe

\* Numbers not given to a command yet.
Future == {n \in Nat : n > issued}

\* Every content the process or the file system holds.
Contents == {data, store, buf, batch} \cup ghosts \cup reverts

\* A content with no record of a refused command, nor of one not yet issued.
Clean(c) == Avoids(c, Future) /\ Avoids(c, refused)

\* Commands are numbered once, and no record of a refused one is anywhere.
Fresh ==
    /\ Torn \notin refused /\ refused \cap Future = {}
    /\ \A c \in Contents : Clean(c)
    /\ pc \in {"write", "sync", "truncate", "rollbackSync"}
           => \A c \in {store} \cup reverts : Avoids(c, ToSet(batch))

=============================================================================
