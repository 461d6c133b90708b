------------------------------ MODULE ListBuffer ------------------------------
(***************************************************************************)
(* The list values of internal/storage/list.go: growable circular buffers  *)
(* with a running byte count, and the store operations that loop over      *)
(* them.  Shown to implement ListSpec.                                     *)
(***************************************************************************)
EXTENDS Integers, Sequences, SequencesExt, FiniteSetsExt

CONSTANTS
    Keys, Values,
    Bytes,            \* length of each value as a string
    Empty,            \* the empty string, which marks a cleared slot
    InitialCapacity,  \* slots of the first buffer of a list
    MaxItems,         \* bound: items in all lists together
    Offsets           \* indexes and counts used as arguments

ASSUME BufferAssumption ==
    /\ Bytes \in [Values -> Nat] /\ Empty \notin Values
    /\ InitialCapacity \in Nat \ {0} /\ MaxItems \in Nat /\ Offsets \subseteq Int

VARIABLES
    lists,   \* buffer of each key; an absent key has one without slots
    reply    \* what the latest operation returned

vars == <<lists, reply>>

NoList == [buffer |-> <<>>, head |-> 0, size |-> 0, bytes |-> 0]

-----------------------------------------------------------------------------
(* listValue.  Slots and items count from 0. *)

Slot(l, i) == ((l.head + i) % Len(l.buffer)) + 1
At(l, i) == l.buffer[Slot(l, i)]
SetAt(l, i, v) == [l EXCEPT !.buffer[Slot(l, i)] = v]

Grow(l) ==
    IF l.size < Len(l.buffer) THEN l
    ELSE LET capacity == IF l.buffer = <<>> THEN InitialCapacity ELSE 2 * Len(l.buffer)
         IN  [l EXCEPT !.head = 0,
                       !.buffer = [s \in 1..capacity |->
                                      IF s <= l.size THEN At(l, s - 1) ELSE Empty]]

Back(l) == (l.head - 1 + Len(l.buffer)) % Len(l.buffer)

\* Mutated form: the head moves past the end of the buffer.
Forward_NoWrap(l) == l.head + 1

Forward(l) == (l.head + 1) % Len(l.buffer)

PushOne(l, v, left) ==
    LET g == Grow(l)
        p == IF left THEN [g EXCEPT !.head = Back(g), !.buffer[Back(g) + 1] = v]
             ELSE SetAt(g, g.size, v)
    IN  [p EXCEPT !.size = @ + 1, !.bytes = @ + Bytes[v]]

\* Mutated form: a popped item stays in its slot.
PopOne_KeepsSlot(l, left) ==
    LET v == IF left THEN At(l, 0) ELSE At(l, l.size - 1)
        p == IF left THEN [l EXCEPT !.head = Forward(l)] ELSE l
    IN  [p EXCEPT !.size = @ - 1, !.bytes = @ - Bytes[v]]

PopOne(l, left) ==
    LET v == IF left THEN At(l, 0) ELSE At(l, l.size - 1)
        p == IF left THEN [l EXCEPT !.buffer[l.head + 1] = Empty, !.head = Forward(l)]
             ELSE SetAt(l, l.size - 1, Empty)
    IN  [p EXCEPT !.size = @ - 1, !.bytes = @ - Bytes[v]]

\* for i := first; i < last; i++ { set(i, at(i+1)) }
CloseGap(l, first, last) ==
    FoldLeft(LAMBDA b, i : SetAt(b, i, At(b, i + 1)), l, [j \in 1..(last - first) |-> first + j - 1])

\* for i := first; i > last; i-- { set(i, at(i-1)) }
OpenGap(l, first, last) ==
    FoldLeft(LAMBDA b, i : SetAt(b, i, At(b, i - 1)), l, [j \in 1..(first - last) |-> first - j + 1])

\* Mutated form: one item too few is shifted towards the head.
InsertItem_ShiftShort(l, index, v) ==
    LET g == Grow(l)
        p == IF index < g.size - index
             THEN CloseGap([g EXCEPT !.head = Back(g)], 0, index - 1)
             ELSE OpenGap(g, g.size, index)
    IN  [SetAt(p, index, v) EXCEPT !.size = @ + 1, !.bytes = @ + Bytes[v]]

InsertItem(l, index, v) ==
    LET g == Grow(l)
        p == IF index < g.size - index
             THEN CloseGap([g EXCEPT !.head = Back(g)], 0, index)
             ELSE OpenGap(g, g.size, index)
    IN  [SetAt(p, index, v) EXCEPT !.size = @ + 1, !.bytes = @ + Bytes[v]]

RemoveItem(l, index) ==
    LET p == IF index < l.size - index - 1
             THEN LET o == OpenGap(l, index, 0)
                  IN  [o EXCEPT !.buffer[o.head + 1] = Empty, !.head = Forward(o)]
             ELSE SetAt(CloseGap(l, index, l.size - 1), l.size - 1, Empty)
    IN  [p EXCEPT !.size = @ - 1, !.bytes = @ - Bytes[At(l, index)]]

RangeCopy(l, start, end) == [j \in 1..(end - start) |-> At(l, start + j - 1)]

Replace(values) ==
    [buffer |-> values, head |-> 0, size |-> Len(values),
     bytes |-> FoldLeft(LAMBDA sum, v : sum + Bytes[v], 0, values)]

\* Mutated form: overwriting an item does not touch the byte count.
Assign_KeepsBytes(l, index, v) == SetAt(l, index, v)

Assign(l, index, v) ==
    [SetAt(l, index, v) EXCEPT !.bytes = @ + Bytes[v] - Bytes[At(l, index)]]

\* The position of a possibly negative index, or -1.
IndexOf(l, i) ==
    LET j == IF i < 0 THEN i + l.size ELSE i
    IN  IF j < 0 \/ j >= l.size THEN -1 ELSE j

-----------------------------------------------------------------------------
(* The store operations *)

Contents(l) == RangeCopy(l, 0, l.size)
Exists(k) == lists[k].size > 0
Put(k, l) == lists' = [lists EXCEPT ![k] = IF l.size = 0 THEN NoList ELSE l]
KeySeq == SetToSeq(Keys)
RoomFor(n) == FoldLeft(LAMBDA sum, k : sum + lists[k].size, n, KeySeq) <= MaxItems

Nothing == [n |-> 0, values |-> <<>>]
Number(n) == [n |-> n, values |-> <<>>]
Answer(values) == [n |-> 0, values |-> values]

Init == lists = [k \in Keys |-> NoList] /\ reply = Nothing

ListPush(k, values, left, onlyExisting) ==
    /\ RoomFor(Len(values))
    /\ IF onlyExisting /\ ~Exists(k)
       THEN reply' = Nothing /\ UNCHANGED lists
       ELSE LET l == FoldLeft(LAMBDA b, v : PushOne(b, v, left), lists[k], values)
            IN  Put(k, l) /\ reply' = Number(l.size)

ListPop(k, left, count) ==
    LET l == lists[k]
        n == IF count > l.size THEN l.size ELSE count
        Popped(acc, i) == [list |-> PopOne(acc.list, left),
                           values |-> Append(acc.values,
                               At(acc.list, IF left THEN 0 ELSE acc.list.size - 1))]
        result == FoldLeft(Popped, [list |-> l, values |-> <<>>], [i \in 1..n |-> i])
    IN  /\ count >= 0
        /\ Put(k, result.list)
        /\ reply' = Answer(result.values)

ListSet(k, i, v) ==
    LET j == IndexOf(lists[k], i)
    IN  /\ IF j = -1 THEN UNCHANGED lists ELSE Put(k, Assign(lists[k], j, v))
        /\ reply' = Nothing

\* Mutated form: a stop past the end is not clamped.
Bounds_Unclamped(l, start, stop) ==
    LET first == IF start < 0 THEN start + l.size ELSE start
        last == IF stop < 0 THEN stop + l.size ELSE stop
    IN  <<IF first < 0 THEN 0 ELSE first, last>>

\* The bounds of LRANGE and LTRIM, negative indexes resolved and clamped.
Bounds(l, start, stop) ==
    LET first == IF start < 0 THEN start + l.size ELSE start
        last == IF stop < 0 THEN stop + l.size ELSE stop
    IN  <<IF first < 0 THEN 0 ELSE first, IF last >= l.size THEN l.size - 1 ELSE last>>

ListRange(l, start, stop) ==
    LET ends == Bounds(l, start, stop)
    IN  IF ends[1] >= l.size \/ ends[1] > ends[2] \/ l.size = 0 THEN <<>>
        ELSE RangeCopy(l, ends[1], ends[2] + 1)

ListTrim(k, start, stop) ==
    LET kept == ListRange(lists[k], start, stop)
    IN  Put(k, IF kept = <<>> THEN NoList ELSE Replace(kept)) /\ reply' = Nothing

\* One turn of LREM's loops at item i of acc.list.
RemTurn(acc, i, v, count, limit) ==
    IF At(acc.list, i) = v /\ (count = 0 \/ acc.removed < limit)
    THEN [list |-> RemoveItem(acc.list, i), removed |-> acc.removed + 1, next |-> acc.next]
    ELSE [acc EXCEPT !.next = @ + 1]

ListRem(k, count, v) ==
    LET l == lists[k]
        limit == IF count < 0 THEN -count ELSE count
        start == [list |-> l, removed |-> 0, next |-> 0]
        Up(acc, i) == RemTurn(acc, acc.next, v, count, limit)
        Down(acc, i) == RemTurn(acc, l.size - i, v, count, limit)
        turns == [i \in 1..l.size |-> i]
        result == IF count >= 0 THEN FoldLeft(Up, start, turns) ELSE FoldLeft(Down, start, turns)
    IN  Put(k, result.list) /\ reply' = Number(result.removed)

ListInsert(k, pivot, v, before) ==
    LET l == lists[k]
        found == {i \in 0..(l.size - 1) : At(l, i) = pivot}
        at == IF before THEN Min(found) ELSE Min(found) + 1
    IN  /\ RoomFor(1)
        /\ IF found = {}
           THEN /\ reply' = Number(IF Exists(k) THEN -1 ELSE 0)
                /\ UNCHANGED lists
           ELSE /\ Put(k, InsertItem(l, at, v))
                /\ reply' = Number(l.size + 1)

ListMove(src, dst, fromLeft, toLeft) ==
    IF ~Exists(src)
    THEN reply' = Nothing /\ UNCHANGED lists
    ELSE LET s == lists[src]
             v == At(s, IF fromLeft THEN 0 ELSE s.size - 1)
             rest == PopOne(s, fromLeft)
         IN  /\ lists' = IF src = dst
                         THEN [lists EXCEPT ![src] = PushOne(rest, v, toLeft)]
                         ELSE [lists EXCEPT ![src] = IF rest.size = 0 THEN NoList ELSE rest,
                                            ![dst] = PushOne(@, v, toLeft)]
             /\ reply' = Answer(<<v>>)

\* LPOS walks from the end the rank's sign names, stopping after maxLen items
\* and after count matches.
ListPosition(l, v, rank, count, maxLen) ==
    LET from == IF rank < 0 THEN [i \in 1..l.size |-> l.size - i]
                ELSE [i \in 1..l.size |-> i - 1]
        skip == IF rank < 0 THEN -rank ELSE rank
        Stops(acc) == \/ maxLen > 0 /\ acc.examined >= maxLen
                      \/ count > 0 /\ Len(acc.positions) >= count
        Turn(acc, i) ==
            IF Stops(acc) THEN acc
            ELSE LET hit == At(l, i) = v
                     seen == IF hit THEN acc.seen + 1 ELSE acc.seen
                 IN  [examined |-> acc.examined + 1, seen |-> seen,
                      positions |-> IF hit /\ seen >= skip THEN Append(acc.positions, i)
                                    ELSE acc.positions]
    IN  FoldLeft(Turn, [examined |-> 0, seen |-> 0, positions |-> <<>>], from).positions

Next ==
    \E k \in Keys :
        \/ \E v \in Values, left, x \in BOOLEAN : ListPush(k, <<v>>, left, x)
        \/ \E u, v \in Values, left \in BOOLEAN : ListPush(k, <<u, v>>, left, FALSE)
        \/ \E left \in BOOLEAN, n \in Offsets : ListPop(k, left, n)
        \/ \E i \in Offsets, v \in Values : ListSet(k, i, v) \/ ListRem(k, i, v)
        \/ \E i, j \in Offsets : ListTrim(k, i, j)
        \/ \E u, v \in Values, before \in BOOLEAN : ListInsert(k, u, v, before)
        \/ \E d \in Keys, from, to \in BOOLEAN : ListMove(k, d, from, to)

Spec == Init /\ [][Next]_vars

-----------------------------------------------------------------------------
\* Head, size and count stay within the buffer, whose slots hold values.
TypeOK ==
    \A k \in Keys : LET l == lists[k] IN
        /\ l.buffer \in Seq(Values \cup {Empty})
        /\ l.size \in 0..Len(l.buffer) /\ l.bytes \in Nat
        /\ l.head \in Nat /\ (l.head < Len(l.buffer) \/ l = NoList)

\* The running byte count that feeds the memory estimate is the sum over the
\* items, however they were pushed, shifted, overwritten and removed.
BytesAreExact ==
    \A k \in Keys :
        lists[k].bytes = FoldLeft(LAMBDA sum, v : sum + Bytes[v], 0, Contents(lists[k]))

\* A slot that holds no item is cleared, so that removed strings are not kept
\* alive by the buffer.
FreeSlotsCleared ==
    \A k \in Keys : LET l == lists[k] IN
        \A i \in l.size..(Len(l.buffer) - 1) : At(l, i) = Empty

Seqs == INSTANCE Lists

\* LRANGE and LPOS, whose loops and clamps work on the buffer, return what
\* their definitions on plain sequences say.
QueriesAgree ==
    \A k \in Keys : LET l == lists[k] IN
        /\ \A i, j \in Offsets : ListRange(l, i, j) = Seqs!Slice(Contents(l), i, j)
        /\ \A v \in Values, r \in Offsets \ {0}, n, m \in {i \in Offsets : i >= 0} :
              ListPosition(l, v, r, n, m) = Seqs!Position(Contents(l), v, r, n, m)

Abstract == INSTANCE ListSpec WITH items <- [k \in Keys |-> Contents(lists[k])]

\* The circular buffer behaves as the sequence it stands for: every operation
\* has the abstract effect and answer, through wrap-around, growth, shifting
\* in either direction and replacement.
ImplementsListSpec == Abstract!Spec

=============================================================================
