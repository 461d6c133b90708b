------------------------------- MODULE Keyspace -------------------------------
(***************************************************************************)
(* What each mutation does to the store, and what the log keeps of it: the *)
(* handlers of internal/command over internal/storage, canonicalCommand,   *)
(* the snapshot records of a rewrite and replay, all in internal/aof.      *)
(* Lists are plain sequences here; ListBuffer has their buffers.  Times    *)
(* are milliseconds counted from 1.                                        *)
(***************************************************************************)
EXTENDS Lists

CONSTANTS Keys, Values

Never == 0
Absent == [kind |-> "none", value |-> <<>>, expires |-> Never]
String(v, at) == [kind |-> "string", value |-> <<v>>, expires |-> at]
EmptyStore == [k \in Keys |-> Absent]

IsExpired(obj, now) == obj.expires # Never /\ now >= obj.expires

\* The object a command finds: an expired one is removed when it is met.
Live(s, k, now) == IF IsExpired(s[k], now) THEN Absent ELSE s[k]
Lazy(s, k, now) == [s EXCEPT ![k] = Live(s, k, now)]

\* What clients can see of the store at a time.
View(s, now) == [k \in Keys |-> Live(s, k, now)]

Done(s) == [store |-> s, error |-> FALSE]
Error(s) == [store |-> s, error |-> TRUE]

\* A list stored under a key keeps the key's deadline; an empty one is removed.
PutList(s, k, l) ==
    [s EXCEPT ![k] = IF l = <<>> THEN Absent
                     ELSE [kind |-> "list", value |-> l, expires |-> @.expires]]

-----------------------------------------------------------------------------
(* Store operations.  Each takes the store, the command and the time. *)

\* SET without an option, or with the absolute deadline at.
SetAt(s, c, now) ==
    Done([s EXCEPT ![c.key] = IF c.at # Never /\ now >= c.at THEN Absent
                              ELSE String(c.value, c.at)])

\* SET with EX or PX.
SetFor(s, c, now) ==
    IF c.ttl <= 0 THEN Error(s)
    ELSE Done([s EXCEPT ![c.key] = String(c.value, now + c.ttl)])

ExpireAt(s, k, at, now) ==
    Done(IF Live(s, k, now) = Absent \/ now >= at THEN [s EXCEPT ![k] = Absent]
         ELSE [s EXCEPT ![k].expires = at])

\* The deadline EXPIRE sets: a time to live that is not positive ends now.
DeadlineOf(c, now) == IF c.ttl > 0 THEN now + c.ttl ELSE now

Del(s, c, now) == Done([s EXCEPT ![c.key] = Absent])

ListPush(s, c, now) ==
    LET t == Lazy(s, c.key, now)
        obj == t[c.key]
    IN  IF obj.kind = "string" THEN Error(t)
        ELSE IF obj = Absent /\ c.onlyExisting THEN Done(t)
        ELSE Done(PutList(t, c.key, Push(obj.value, c.values, c.left)))

\* Mutated form: a list that lost its last item is kept, empty.
Shrink_KeepsEmpty(s, k, now, l) ==
    LET t == Lazy(s, k, now)
    IN  IF t[k].kind = "string" THEN Error(t)
        ELSE IF t[k] = Absent THEN Done(t)
        ELSE Done([t EXCEPT ![k].value = l])

\* The commands that change an existing list only: l is its new content.
Shrink(s, k, now, l) ==
    LET t == Lazy(s, k, now)
    IN  IF t[k].kind = "string" THEN Error(t)
        ELSE IF t[k] = Absent THEN Done(t)
        ELSE Done(PutList(t, k, l))

ListPop(s, c, now) ==
    IF c.count < 0 THEN Error(s)
    ELSE Shrink(s, c.key, now, Pop(s[c.key].value, c.left, c.count))

ListTrim(s, c, now) == Shrink(s, c.key, now, Slice(s[c.key].value, c.start, c.stop))
ListRem(s, c, now) == Shrink(s, c.key, now, Rem(s[c.key].value, c.count, c.value))
ListInsert(s, c, now) ==
    Shrink(s, c.key, now, Insert(s[c.key].value, c.pivot, c.value, c.before))

ListSet(s, c, now) ==
    LET t == Lazy(s, c.key, now)
        obj == t[c.key]
    IN  IF obj.kind # "list" \/ Index(obj.value, c.index) = -1 THEN Error(t)
        ELSE Done(PutList(t, c.key, SetItem(obj.value, c.index, c.value)))

\* Mutated form: the element is popped before the destination's kind is known.
ListMove_PopsFirst(s, c, now) ==
    LET t == Lazy(s, c.src, now)
        source == t[c.src]
        v == IF c.fromLeft THEN Head(source.value) ELSE Last(source.value)
        rest == PutList(Lazy(t, c.dst, now), c.src, Pop(source.value, c.fromLeft, 1))
    IN  IF source = Absent THEN Done(t)
        ELSE IF source.kind # "list" THEN Error(t)
        ELSE IF rest[c.dst].kind = "string" THEN Error(rest)
        ELSE Done(PutList(rest, c.dst, Push(rest[c.dst].value, <<v>>, c.toLeft)))

ListMove(s, c, now) ==
    LET t == Lazy(s, c.src, now)
        source == t[c.src]
        u == Lazy(t, c.dst, now)
        v == IF c.fromLeft THEN Head(source.value) ELSE Last(source.value)
        rest == Pop(source.value, c.fromLeft, 1)
        popped == PutList(u, c.src, rest)
    IN  IF source = Absent THEN Done(t)
        ELSE IF source.kind # "list" THEN Error(t)
        ELSE IF c.src = c.dst THEN Done(PutList(t, c.src, Push(rest, <<v>>, c.toLeft)))
        ELSE IF u[c.dst].kind = "string" THEN Error(u)
        ELSE Done(PutList(popped, c.dst, Push(popped[c.dst].value, <<v>>, c.toLeft)))

\* Executor.execute.  The relative forms get here only without a journal, or
\* when canonicalCommand refused them.
Execute(s, c, now) ==
    CASE c.op = "SET" -> SetAt(s, c, now)
      [] c.op = "SETEX" -> SetFor(s, c, now)
      [] c.op = "EXPIRE" -> ExpireAt(s, c.key, DeadlineOf(c, now), now)
      [] c.op = "PEXPIREAT" -> ExpireAt(s, c.key, c.at, now)
      [] c.op = "DEL" -> Del(s, c, now)
      [] c.op = "PUSH" -> ListPush(s, c, now)
      [] c.op = "POP" -> ListPop(s, c, now)
      [] c.op = "LSET" -> ListSet(s, c, now)
      [] c.op = "LTRIM" -> ListTrim(s, c, now)
      [] c.op = "LREM" -> ListRem(s, c, now)
      [] c.op = "LINSERT" -> ListInsert(s, c, now)
      [] c.op = "LMOVE" -> ListMove(s, c, now)

GrowsMemory(c) == c.op \in {"SET", "SETEX", "PUSH", "LINSERT", "LSET", "LMOVE"}

-----------------------------------------------------------------------------
(* What the log keeps *)

Set(k, v, at) == [op |-> "SET", key |-> k, value |-> v, at |-> at]
PExpireAt(k, at) == [op |-> "PEXPIREAT", key |-> k, at |-> at]
DelOf(k) == [op |-> "DEL", key |-> k]
RPush(k, v) ==
    [op |-> "PUSH", key |-> k, values |-> <<v>>, left |-> FALSE, onlyExisting |-> FALSE]

\* canonicalCommand's verdict: a SET it cannot normalise is not journaled.
IsCanonical(c) == c.op = "SETEX" => c.ttl > 0

\* canonicalCommand: relative durations become deadlines.
Canonical(c, now) ==
    CASE c.op = "SETEX" /\ c.ttl > 0 -> Set(c.key, c.value, now + c.ttl)
      [] c.op = "EXPIRE" -> PExpireAt(c.key, DeadlineOf(c, now))
      [] OTHER -> c

\* writeSnapshotEntry: the records that stand for one key.
SnapshotEntry(k, obj) ==
    CASE obj.kind = "string" -> <<Set(k, obj.value[1], obj.expires)>>
      [] obj.kind = "list" -> [i \in DOMAIN obj.value |-> RPush(k, obj.value[i])]
                              \o (IF obj.expires = Never THEN <<>>
                                  ELSE <<PExpireAt(k, obj.expires)>>)
      [] obj.kind = "none" -> <<>>

\* ForEachSnapshot: the live keys, in some order.
Snapshot(s, now) ==
    FoldLeft(LAMBDA records, k : records \o SnapshotEntry(k, Live(s, k, now)),
             <<>>, SetToSeq(Keys))

\* replay, in one instant.
Replay(records, now) ==
    FoldLeft(LAMBDA s, c : Execute(s, c, now).store, EmptyStore, records)

=============================================================================
