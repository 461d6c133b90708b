------------------------------ MODULE MCRecovery ------------------------------
(* Commands for TLC.  Deadlines reach from the past to beyond the clock.      *)
EXTENDS Recovery

CONSTANTS x, y, a, b

SetEx(k, v, n) == [op |-> "SETEX", key |-> k, value |-> v, ttl |-> n]
Expire(k, n) == [op |-> "EXPIRE", key |-> k, ttl |-> n]
Pushes(k, v, left, only) ==
    [op |-> "PUSH", key |-> k, values |-> v, left |-> left, onlyExisting |-> only]
Pops(k, left, n) == [op |-> "POP", key |-> k, left |-> left, count |-> n]
Moves(src, dst, from, to) ==
    [op |-> "LMOVE", src |-> src, dst |-> dst, fromLeft |-> from, toLeft |-> to]

\* Strings: every form of SET and EXPIRE, in batches.
MCStrings ==
    {Set(x, a, Never), Set(x, b, 2), SetEx(x, a, 1), SetEx(y, a, 2),
     Expire(x, 2), PExpireAt(y, 3), DelOf(x)}

\* Lists: every list command, kinds that clash, and deadlines.
MCLists ==
    {SetEx(x, a, 1), SetEx(x, b, 0), Expire(y, 2), Expire(y, 0),
     Pushes(x, <<b>>, FALSE, FALSE), Pushes(y, <<a, b>>, TRUE, FALSE),
     Pushes(x, <<a>>, TRUE, TRUE), Pops(y, TRUE, 1), Pops(y, FALSE, -1),
     Moves(y, x, TRUE, FALSE), Moves(y, y, FALSE, TRUE),
     [op |-> "LSET", key |-> y, index |-> -1, value |-> a],
     [op |-> "LTRIM", key |-> y, start |-> 1, stop |-> -1],
     [op |-> "LREM", key |-> y, count |-> -1, value |-> b],
     [op |-> "LINSERT", key |-> y, pivot |-> b, value |-> a, before |-> TRUE]}

=============================================================================
