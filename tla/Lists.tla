-------------------------------- MODULE Lists --------------------------------
(***************************************************************************)
(* What the list operations of internal/storage/list.go promise, on plain  *)
(* sequences: the part of Store.List* that is left when the circular       *)
(* buffer, the locks and the key are taken away.  ListBuffer has the       *)
(* buffer and implements this.  Indexes are those of the commands: they    *)
(* count from 0, and negative ones from the end.                           *)
(***************************************************************************)
EXTENDS Integers, Sequences, FiniteSets, SequencesExt

\* Position of an index in the list, or -1 if there is none.
Index(l, i) ==
    LET j == IF i < 0 THEN i + Len(l) ELSE i
    IN  IF j \in 0..(Len(l) - 1) THEN j ELSE -1

Push(l, values, left) == IF left THEN Reverse(values) \o l ELSE l \o values

Pop(l, left, n) ==
    LET k == IF n > Len(l) THEN Len(l) ELSE n
    IN  IF left THEN SubSeq(l, k + 1, Len(l)) ELSE SubSeq(l, 1, Len(l) - k)

\* The inclusive range of LRANGE and LTRIM, empty if it has no element.
Slice(l, start, stop) ==
    LET first == IF start < 0 THEN start + Len(l) ELSE start
        last == IF stop < 0 THEN stop + Len(l) ELSE stop
    IN  SubSeq(l, (IF first < 0 THEN 0 ELSE first) + 1,
               IF last >= Len(l) THEN Len(l) ELSE last + 1)

SetItem(l, i, v) == [l EXCEPT ![Index(l, i) + 1] = v]

Matches(l, v, first, last) == Cardinality({i \in first..last : l[i] = v})

\* LREM: the first count matches go, the last -count, or all for 0.
Rem(l, count, v) ==
    LET Goes(i) == /\ l[i] = v
                   /\ \/ count = 0
                      \/ count > 0 /\ Matches(l, v, 1, i) <= count
                      \/ count < 0 /\ Matches(l, v, i, Len(l)) <= -count
        stays == {i \in DOMAIN l : ~Goes(i)}
    IN  [n \in 1..Cardinality(stays) |->
            l[CHOOSE i \in stays : Cardinality({j \in stays : j <= i}) = n]]

\* Position of the first item equal to pivot, or 0 if there is none.
PivotOf(l, pivot) ==
    IF \E i \in DOMAIN l : l[i] = pivot
    THEN CHOOSE i \in DOMAIN l : l[i] = pivot /\ \A j \in 1..(i - 1) : l[j] # pivot
    ELSE 0

Insert(l, pivot, v, before) ==
    LET p == PivotOf(l, pivot)
    IN  IF p = 0 THEN l ELSE InsertAt(l, IF before THEN p ELSE p + 1, v)

\* LPOS: the items to look at are the first maxLen (all for 0) from the end
\* the rank's sign names; matches are numbered along them, and those from
\* number |rank| on are returned, count of them at most (all for 0).
Position(l, v, rank, count, maxLen) ==
    LET n == Len(l)
        Seen(k) == IF rank > 0 THEN k ELSE n + 1 - k
        limit == IF maxLen > 0 /\ maxLen < n THEN maxLen ELSE n
        Hits(k) == Cardinality({j \in 1..k : l[Seen(j)] = v})
        skip == (IF rank > 0 THEN rank ELSE -rank) - 1
        found == {k \in 1..limit : /\ l[Seen(k)] = v
                                   /\ Hits(k) > skip
                                   /\ count = 0 \/ Hits(k) <= skip + count}
    IN  [h \in 1..Cardinality(found) |->
            Seen(CHOOSE k \in found : Hits(k) = skip + h) - 1]

=============================================================================
