------------------------- MODULE MC_ResourceManager -------------------------
(* Instances of ResourceManager: who is how important, and what clients ask *)
(* for.                                                                    *)
EXTENDS ResourceManager, TLC

CONSTANTS c1, c2, c3

Two == {c1, c2}
Three == {c1, c2, c3}

\* c1 is the most important component of the two, and as important as the third.
Ranked == [c \in Components |-> IF c = c2 THEN 2 ELSE 1]
Distinct == [c \in Components |-> CASE c = c1 -> 1 [] c = c2 -> 2 [] OTHER -> 3]
Equal == [c \in Components |-> 1]

LoadAndPlay == {"Loaded", "Idle", "Executing"}
LoadAndWait == {"Loaded", "Idle", "WaitForResources"}
=============================================================================
