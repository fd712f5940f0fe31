--------------------------- MODULE NarrativeTurns ---------------------------
(***************************************************************************)
(* What the settlement of turns promises, without promises, tables or      *)
(* sessions.  A card's world has one holder at a time.  After a turn was   *)
(* narrated to its end, the bookkeeping passes through its stages in       *)
(* order, none twice, none while the next narration runs.  A turn that     *)
(* ended owes the client one signal; a signal pays everything that is owed *)
(* and is never sent when nothing is.                                      *)
(***************************************************************************)
EXTENDS Naturals

VARIABLES open,    \* a turn is open
          owed,    \* a turn ended and no signal has followed
          stage,   \* 0: no bookkeeping; 1, 2, 3: main.after, tail, tail.after
          holder   \* who writes the world: "none", "main", or a stage

turnVars == <<open, owed, stage, holder>>

Init == open = FALSE /\ owed = FALSE /\ stage = 0 /\ holder = "none"

StageOf == [w \in {"main.after", "tail", "tail.after"} |->
              CASE w = "main.after" -> 1 [] w = "tail" -> 2 [] w = "tail.after" -> 3]

OpenTurn == ~open /\ open' = TRUE /\ UNCHANGED <<owed, stage, holder>>

Narrate == /\ open /\ stage = 0 /\ holder = "none"
           /\ holder' = "main" /\ UNCHANGED <<open, owed, stage>>

Pause == holder = "main" /\ holder' = "none" /\ UNCHANGED <<open, owed, stage>>

\* A turn narrated to its end may start the bookkeeping; any other only closes.
CloseTurn ==
  /\ open /\ open' = FALSE /\ owed' = TRUE
  /\ \/ holder = "main" /\ holder' = "none" /\ stage' \in {0, 1}
     \/ holder # "main" /\ UNCHANGED <<stage, holder>>

Work == /\ holder = "none"
        /\ holder' \in {w \in DOMAIN StageOf : StageOf[w] = stage}
        /\ UNCHANGED <<open, owed, stage>>

Rest == /\ holder \in DOMAIN StageOf
        /\ holder' = "none" /\ UNCHANGED <<open, owed, stage>>

Advance == /\ stage \in {1, 2} /\ holder = "none"
           /\ stage' = stage + 1 /\ UNCHANGED <<open, owed, holder>>

\* The signal also ends the bookkeeping, once nobody holds the world for it.
Sign == /\ owed /\ holder \notin DOMAIN StageOf
        /\ owed' = FALSE /\ stage' = 0 /\ UNCHANGED <<open, holder>>

\* The process dies: what was in flight is gone, a debt stays or is born.
Interrupt == /\ open' = FALSE /\ stage' = 0 /\ holder' = "none"
             /\ owed' \in {owed, owed \/ open}

Next == \/ OpenTurn \/ Narrate \/ Pause \/ CloseTurn \/ Work \/ Rest
        \/ Advance \/ Sign \/ Interrupt

Spec == Init /\ [][Next]_turnVars
=============================================================================
