------------------------------ MODULE Terminal ------------------------------
(***************************************************************************)
(* What the console promises of its input: characters are edited until they *)
(* are committed, by a line end or because there is no more room, and taken *)
(* once each in the order in which they were typed.                        *)
(***************************************************************************)
EXTENDS Naturals, Sequences

CONSTANTS Size, Chars, LineEnds

VARIABLES ready, edit

\* Whatever earlier input has left.
Init == Len(ready) + Len(edit) <= Size

\* A character is typed; the last of a line, or of the room, commits the line.
Insert == \E c \in Chars : LET line == Append(edit, c) IN
    /\ Len(ready) + Len(edit) < Size
    /\ IF c \in LineEnds \/ Len(ready) + Len(line) = Size
       THEN ready' = ready \o line /\ edit' = <<>>
       ELSE edit' = line /\ UNCHANGED ready

Erase ==
    /\ edit # <<>>
    /\ edit' = SubSeq(edit, 1, Len(edit) - 1)
    /\ UNCHANGED ready

EraseLine == edit' = <<>> /\ UNCHANGED ready

Take ==
    /\ ready # <<>>
    /\ ready' = Tail(ready)
    /\ UNCHANGED edit

Next == Insert \/ Erase \/ EraseLine \/ Take

Spec == Init /\ [][Next]_<<ready, edit>>

=============================================================================
