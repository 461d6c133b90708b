------------------------------- MODULE ListSpec -------------------------------
(***************************************************************************)
(* Abstract specification of the lists of the store: each key holds a      *)
(* sequence, an empty one being an absent key, and every list command      *)
(* acts on it in one step and answers.                                     *)
(***************************************************************************)
EXTENDS Lists

CONSTANTS
    Keys, Values,
    Offsets     \* indexes and counts used as arguments

VARIABLES items, reply

Nothing == [n |-> 0, values |-> <<>>]
Number(n) == [n |-> n, values |-> <<>>]
Answer(values) == [n |-> 0, values |-> values]

Holds(k) == items[k] # <<>>

Init == items = [k \in Keys |-> <<>>] /\ reply = Nothing

ListPush(k, values, left, onlyExisting) ==
    /\ items' = IF onlyExisting /\ ~Holds(k) THEN items
                ELSE [items EXCEPT ![k] = Push(@, values, left)]
    /\ reply' = Number(Len(items'[k]))

ListPop(k, left, n) ==
    /\ n >= 0
    /\ items' = [items EXCEPT ![k] = Pop(@, left, n)]
    /\ reply' = Answer(LET gone == Len(items[k]) - Len(items'[k])
                       IN  IF left THEN SubSeq(items[k], 1, gone)
                           ELSE Reverse(SubSeq(items[k], Len(items'[k]) + 1, Len(items[k]))))

ListSet(k, i, v) ==
    /\ reply' = Nothing
    /\ items' = IF Index(items[k], i) = -1 THEN items
                ELSE [items EXCEPT ![k] = SetItem(@, i, v)]

ListTrim(k, start, stop) ==
    /\ reply' = Nothing
    /\ items' = [items EXCEPT ![k] = Slice(@, start, stop)]

ListRem(k, count, v) ==
    /\ items' = [items EXCEPT ![k] = Rem(@, count, v)]
    /\ reply' = Number(Len(items[k]) - Len(items'[k]))

ListInsert(k, pivot, v, before) ==
    /\ items' = [items EXCEPT ![k] = Insert(@, pivot, v, before)]
    /\ reply' = Number(IF ~Holds(k) THEN 0
                       ELSE IF PivotOf(items[k], pivot) = 0 THEN -1 ELSE Len(items'[k]))

ListMove(src, dst, fromLeft, toLeft) ==
    IF ~Holds(src)
    THEN reply' = Nothing /\ UNCHANGED items
    ELSE LET v == IF fromLeft THEN Head(items[src]) ELSE Last(items[src])
             popped == [items EXCEPT ![src] = Pop(@, fromLeft, 1)]
         IN  /\ items' = [popped EXCEPT ![dst] = Push(@, <<v>>, toLeft)]
             /\ reply' = Answer(<<v>>)

Next ==
    \E k \in Keys :
        \/ \E v \in Values, left, x \in BOOLEAN : ListPush(k, <<v>>, left, x)
        \/ \E u, v \in Values, left \in BOOLEAN : ListPush(k, <<u, v>>, left, FALSE)
        \/ \E left \in BOOLEAN, n \in Offsets : ListPop(k, left, n)
        \/ \E i \in Offsets, v \in Values : ListSet(k, i, v) \/ ListRem(k, i, v)
        \/ \E i, j \in Offsets : ListTrim(k, i, j)
        \/ \E u, v \in Values, before \in BOOLEAN : ListInsert(k, u, v, before)
        \/ \E d \in Keys, from, to \in BOOLEAN : ListMove(k, d, from, to)

Spec == Init /\ [][Next]_<<items, reply>>

=============================================================================
