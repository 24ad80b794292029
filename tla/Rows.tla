-------------------------------- MODULE Rows --------------------------------
(***************************************************************************)
(* The rows of a list of items, counted from 0, and moving some of them.   *)
(***************************************************************************)
EXTENDS Integers, SequencesExt

Rows(q) == 0..(Len(q) - 1)
SongsAt(q, rows) == {q[r + 1] : r \in rows}

\* The items at the positions i and j are exchanged.
Swapped(q, i, j) == [q EXCEPT ![i] = q[j], ![j] = q[i]]

\* Rows one up or down, by swaps in the order in which none runs over another:
\* upwards from the first row, downwards from the last.
ShiftRow(q, by, n) == IF by = 1 THEN Len(q) - n ELSE n - 1

Shifted(q, rows, by) ==
    LET after[n \in 0..Len(q)] ==
            IF n = 0 THEN q
            ELSE IF ShiftRow(q, by, n) \in rows
            THEN Swapped(after[n - 1], ShiftRow(q, by, n) + 1, ShiftRow(q, by, n) + 1 + by)
            ELSE after[n - 1]
    IN  after[Len(q)]

ShiftedUp(q, rows)   == Shifted(q, rows, -1)
ShiftedDown(q, rows) == Shifted(q, rows, 1)

\* Seeded fault: the first row first; one that is gone by then is refused.
RowsDeletedForwards(q, rows) ==
    LET left[n \in 0..Len(q)] ==
            IF n = 0 THEN q
            ELSE IF n - 1 \in rows /\ n <= Len(left[n - 1]) THEN RemoveAt(left[n - 1], n)
            ELSE left[n - 1]
    IN  left[Len(q)]

\* Rows are deleted one after the other, as the positions are then: the last
\* row first.
RowsDeleted(q, rows) ==
    LET left[n \in 0..Len(q)] ==
            IF n = 0 THEN q
            ELSE IF Len(q) - n \in rows THEN RemoveAt(left[n - 1], Len(q) - n + 1)
            ELSE left[n - 1]
    IN  left[Len(q)]

=============================================================================
