---------------------------- MODULE MCLz4Fast ----------------------------
(* Small words of period three that lose their phase at one place, and may *)
(* have an odd byte.                                                       *)
EXTENDS Lz4Fast

Word(n, phase, shift, odd) ==
    [i \in 1..n |-> IF i = odd THEN 3
                    ELSE IF i < shift THEN (i + phase) % 3 ELSE (i + phase + 1) % 3]

MCTexts == {<<>>, Word(3, 0, 9, 0), Word(18, 0, 7, 9), Word(28, 1, 16, 0)}
MCDictTexts == {Word(6, 0, 9, 0), Word(18, 0, 99, 0)}
MCSlots == {1, 19, 47}
MCRooms == {11, 17, 50}
=============================================================================
