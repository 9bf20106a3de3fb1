--------------------------------- MODULE Screen -------------------------------
(***************************************************************************)
(* What a screen promises: a text of characters, a cursor, and a picture.  *)
(* As long as it is automatic, the picture shows the text and the cursor   *)
(* after every write, and nothing older; otherwise when it is asked to.    *)
(* How the picture is brought up to date is not said here.                 *)
(***************************************************************************)
CONSTANTS
  Cells,          \* where characters are
  Characters,     \* what is in a cell
  Drawn(_),       \* how a character looks
  Marked(_)       \* how it looks under the cursor

VARIABLES text, cursor, auto, shown

vars == <<text, cursor, auto, shown>>

\* The cursor is in one cell, or in none: hidden, or behind the last column.
Places == {{i} : i \in Cells} \cup {{}}

Picture(t, place) ==
  [i \in Cells |-> IF i \in place THEN Marked(t[i]) ELSE Drawn(t[i])]

Init ==
  /\ text \in [Cells -> Characters] /\ cursor \in Places /\ auto \in BOOLEAN
  /\ shown = Picture(text, cursor)

Write ==
  /\ text' \in [Cells -> Characters] /\ cursor' \in Places /\ auto' \in BOOLEAN
  /\ shown' = IF auto' THEN Picture(text', cursor') ELSE shown

Show == shown' = Picture(text, cursor) /\ UNCHANGED <<text, cursor, auto>>

SetAuto == auto' \in BOOLEAN /\ UNCHANGED <<text, cursor, shown>>

Next == Write \/ Show \/ SetAuto

Spec == Init /\ [][Next]_vars
=============================================================================
