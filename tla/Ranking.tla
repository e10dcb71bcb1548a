------------------------------- MODULE Ranking ------------------------------
(***************************************************************************)
(* The loops that put scan results in order and pick from them:            *)
(* sortVerifyResults and processResults of autoscan.go.  runScan of        *)
(* scanner.go has the same loops with another comparison.                  *)
(*                                                                         *)
(* A loop is the sequence of lists it goes through, one for every pass.    *)
(***************************************************************************)
EXTENDS Integers, Sequences

CONSTANT Ahead(_, _)    \* whether the sort moves the one before the other

CompareSwap(s, j) ==
    IF Ahead(s[j], s[j - 1])
    THEN [s EXCEPT ![j] = s[j - 1], ![j - 1] = s[j]]
    ELSE s

\* Mutant of SinkInto: the first result is never compared.
SinkIntoSecond(s, i) ==
    LET after[n \in 0 .. i - 1] ==
            IF n = 0 THEN s ELSE CompareSwap(after[n - 1], i + 1 - n)
    IN  after[IF i > 2 THEN i - 2 ELSE 0]

\* The inner loop, from j = i down to 2 (1 in the code, which counts from 0).
SinkInto(s, i) ==
    LET after[n \in 0 .. i - 1] ==
            IF n = 0 THEN s ELSE CompareSwap(after[n - 1], i + 1 - n)
    IN  after[i - 1]

\* The outer loop.  Sinking the first result does nothing.
InsertionSort(s) ==
    LET after[i \in 0 .. Len(s)] == IF i = 0 THEN s ELSE SinkInto(after[i - 1], i)
    IN  after[Len(s)]

\* The loop that appends the results that are good.
Picked(s, good) ==
    LET after[i \in 0 .. Len(s)] ==
            IF i = 0 THEN <<>>
            ELSE IF s[i] \in good THEN Append(after[i - 1], s[i]) ELSE after[i - 1]
    IN  after[Len(s)]
=============================================================================
