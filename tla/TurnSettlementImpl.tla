------------------------- MODULE TurnSettlementImpl -------------------------
(* The engine's settlement of turns implements NarrativeTurns, as long as   *)
(* the card's files can be written and nobody rebinds the session.          *)
EXTENDS TurnSettlement

\* The bookkeeping stage that the engine's two program counters stand for.
StageHere ==
  CASE chain = "off" -> 0
    [] chain = "main.after" -> 1
    [] chain = "join" /\ tail \notin {"tail.after", "done"} -> 2
    [] OTHER -> 3

HolderHere == IF Writers = {} THEN "none" ELSE CHOOSE w \in Writers : TRUE

NT == INSTANCE NarrativeTurns
        WITH open <- (main # "idle"), owed <- Owed,
             stage <- StageHere, holder <- HolderHere

\* Every step of the engine is a step of the promised protocol, or none: one
\* writer, stages in order, a signal only when owed, crashes included.
ImplementsNarrativeTurns == NT!Spec
=============================================================================
