------------------------ MODULE TurnSettlementProofs ------------------------
(***************************************************************************)
(* Theorems about TurnSettlement, for every value of its constants.        *)
(***************************************************************************)
EXTENDS TurnSettlementImpl, TLAPS

-----------------------------------------------------------------------------
(* Type correctness. The count of a phase's scripts goes down when a script *)
(* ends, so it stays in range only because a running script is still among  *)
(* those left: the invariant says so.                                       *)

HooksLeft == \A p \in Phases : hookRunning[p] => hooks[p] > 0

TypeInv == TypeOK /\ HooksLeft

LEMMA InitTypeInv == Init => TypeInv
  <1> USE BoundsAssumption DEF Init
  <1>1. Init => ControlTypes
    BY DEF ControlTypes
  <1>2. Init => FlagTypes
    BY DEF FlagTypes
  <1>3. Init => NumberTypes
    BY DEF NumberTypes, NoGate
  <1>4. Init => HookTypes /\ HooksLeft
    BY DEF HookTypes, HooksLeft, Phases, Unread
  <1> QED
    BY <1>1, <1>2, <1>3, <1>4 DEF TypeInv, TypeOK

LEMMA NextTypeInv == TypeInv /\ [Next]_vars => TypeInv'
  <1> SUFFICES ASSUME TypeInv, [Next]_vars PROVE TypeInv'
    OBVIOUS
  <1> USE BoundsAssumption
  <1>1. CASE Submit
    <2>1. ControlTypes'
      BY <1>1 DEF Submit, TypeInv, TypeOK, ControlTypes, kernelVars, tailVars,
                  rebindVars
    <2>2. FlagTypes'
      BY <1>1 DEF Submit, TypeInv, TypeOK, FlagTypes, kernelVars, playerVars,
                  runVars, tailVars
    <2>3. NumberTypes'
      BY <1>1 DEF Submit, TypeInv, TypeOK, NumberTypes, Reasons, NoGate,
                  kernelVars, playerVars, runVars, rebindVars
    <2>4. (HookTypes /\ HooksLeft)'
      BY <1>1 DEF Submit, TypeInv, TypeOK, HookTypes, HooksLeft, Phases,
                  Unread, hookVars
    <2> QED
      BY <2>1, <2>2, <2>3, <2>4 DEF TypeInv, TypeOK
  <1>2. CASE TurnStart
    <2>1. ControlTypes'
      BY <1>2 DEF TurnStart, DropStopMark, TypeInv, TypeOK, ControlTypes, kernelVars,
                  tailVars, rebindVars
    <2>2. FlagTypes'
      BY <1>2 DEF TurnStart, DropStopMark, TypeInv, TypeOK, FlagTypes, kernelVars,
                  playerVars, runVars, tailVars
    <2>3. NumberTypes'
      BY <1>2 DEF TurnStart, DropStopMark, TypeInv, TypeOK, NumberTypes, Reasons, NoGate,
                  kernelVars, playerVars, runVars, rebindVars
    <2>4. (HookTypes /\ HooksLeft)'
      BY <1>2 DEF TurnStart, DropStopMark, TypeInv, TypeOK, HookTypes, HooksLeft, Phases,
                  Unread, hookVars
    <2> QED
      BY <2>1, <2>2, <2>3, <2>4 DEF TypeInv, TypeOK
  <1>3. CASE PreStep
    <2>1. ControlTypes'
      BY <1>3 DEF PreStep, TypeInv, TypeOK, ControlTypes, kernelVars, tailVars,
                  rebindVars
    <2>2. FlagTypes'
      BY <1>3 DEF PreStep, TypeInv, TypeOK, FlagTypes, kernelVars, playerVars,
                  runVars, tailVars
    <2>3. NumberTypes'
      BY <1>3 DEF PreStep, TypeInv, TypeOK, NumberTypes, Reasons, NoGate,
                  kernelVars, playerVars, runVars, rebindVars
    <2>4. (HookTypes /\ HooksLeft)'
      BY <1>3 DEF PreStep, TypeInv, TypeOK, HookTypes, HooksLeft, Phases,
                  Unread, hookVars
    <2> QED
      BY <2>1, <2>2, <2>3, <2>4 DEF TypeInv, TypeOK
  <1>4. CASE EnterStep
    <2>1. ControlTypes'
      BY <1>4 DEF EnterStep, GateSettled, TypeInv, TypeOK, ControlTypes,
                  kernelVars, tailVars, rebindVars
    <2>2. FlagTypes'
      BY <1>4 DEF EnterStep, GateSettled, TypeInv, TypeOK, FlagTypes,
                  kernelVars, playerVars, runVars, tailVars
    <2>3. NumberTypes'
      BY <1>4 DEF EnterStep, GateSettled, TypeInv, TypeOK, NumberTypes,
                  Reasons, NoGate, kernelVars, playerVars, runVars, rebindVars
    <2>4. (HookTypes /\ HooksLeft)'
      BY <1>4 DEF EnterStep, GateSettled, TypeInv, TypeOK, HookTypes,
                  HooksLeft, Phases, Unread, hookVars
    <2> QED
      BY <2>1, <2>2, <2>3, <2>4 DEF TypeInv, TypeOK
  <1>5. CASE NextStep
    <2>1. ControlTypes'
      BY <1>5 DEF NextStep, TypeInv, TypeOK, ControlTypes, kernelVars,
                  tailVars, rebindVars
    <2>2. FlagTypes'
      BY <1>5 DEF NextStep, TypeInv, TypeOK, FlagTypes, kernelVars, playerVars,
                  runVars, tailVars
    <2>3. NumberTypes'
      BY <1>5 DEF NextStep, TypeInv, TypeOK, NumberTypes, Reasons, NoGate,
                  kernelVars, playerVars, runVars, rebindVars
    <2>4. (HookTypes /\ HooksLeft)'
      BY <1>5 DEF NextStep, TypeInv, TypeOK, HookTypes, HooksLeft, Phases,
                  Unread, hookVars
    <2> QED
      BY <2>1, <2>2, <2>3, <2>4 DEF TypeInv, TypeOK
  <1>6. CASE NotifyTailSettled
    <2>1. ControlTypes'
      BY <1>6 DEF NotifyTailSettled, Signed, TypeInv, TypeOK, ControlTypes,
                  kernelVars, tailVars, rebindVars
    <2>2. FlagTypes'
      BY <1>6 DEF NotifyTailSettled, Signed, TypeInv, TypeOK, FlagTypes,
                  kernelVars, playerVars, runVars, tailVars
    <2>3. NumberTypes'
      BY <1>6 DEF NotifyTailSettled, Signed, TypeInv, TypeOK, NumberTypes,
                  Reasons, NoGate, kernelVars, playerVars, runVars, rebindVars
    <2>4. (HookTypes /\ HooksLeft)'
      BY <1>6 DEF NotifyTailSettled, Signed, TypeInv, TypeOK, HookTypes,
                  HooksLeft, Phases, Unread, hookVars
    <2> QED
      BY <2>1, <2>2, <2>3, <2>4 DEF TypeInv, TypeOK
  <1>7. CASE MainAfterDone
    <2>1. ControlTypes'
      BY <1>7 DEF MainAfterDone, SettleChain, Signed, PhaseOver, InPhase,
                  TypeInv, TypeOK, ControlTypes, kernelVars, tailVars,
                  rebindVars
    <2>2. FlagTypes'
      BY <1>7 DEF MainAfterDone, SettleChain, Signed, PhaseOver, InPhase,
                  TypeInv, TypeOK, FlagTypes, kernelVars, playerVars, runVars,
                  tailVars
    <2>3. NumberTypes'
      BY <1>7 DEF MainAfterDone, SettleChain, Signed, PhaseOver, InPhase,
                  TypeInv, TypeOK, NumberTypes, Reasons, NoGate, kernelVars,
                  playerVars, runVars, rebindVars
    <2>4. (HookTypes /\ HooksLeft)'
      BY <1>7 DEF MainAfterDone, SettleChain, Signed, PhaseOver, InPhase,
                  TypeInv, TypeOK, HookTypes, HooksLeft, Phases, Unread,
                  hookVars
    <2> QED
      BY <2>1, <2>2, <2>3, <2>4 DEF TypeInv, TypeOK
  <1>8. CASE TailJoined
    <2>1. ControlTypes'
      BY <1>8 DEF TailJoined, SettleChain, Signed, TypeInv, TypeOK,
                  ControlTypes, kernelVars, tailVars, rebindVars
    <2>2. FlagTypes'
      BY <1>8 DEF TailJoined, SettleChain, Signed, TypeInv, TypeOK, FlagTypes,
                  kernelVars, playerVars, runVars, tailVars
    <2>3. NumberTypes'
      BY <1>8 DEF TailJoined, SettleChain, Signed, TypeInv, TypeOK,
                  NumberTypes, Reasons, NoGate, kernelVars, playerVars,
                  runVars, rebindVars
    <2>4. (HookTypes /\ HooksLeft)'
      BY <1>8 DEF TailJoined, SettleChain, Signed, TypeInv, TypeOK, HookTypes,
                  HooksLeft, Phases, Unread, hookVars
    <2> QED
      BY <2>1, <2>2, <2>3, <2>4 DEF TypeInv, TypeOK
  <1>9. CASE ChildHatches
    <2>1. ControlTypes'
      BY <1>9 DEF ChildHatches, TypeInv, TypeOK, ControlTypes, kernelVars,
                  tailVars, rebindVars
    <2>2. FlagTypes'
      BY <1>9 DEF ChildHatches, TypeInv, TypeOK, FlagTypes, kernelVars,
                  playerVars, runVars, tailVars
    <2>3. NumberTypes'
      BY <1>9 DEF ChildHatches, TypeInv, TypeOK, NumberTypes, Reasons, NoGate,
                  kernelVars, playerVars, runVars, rebindVars
    <2>4. (HookTypes /\ HooksLeft)'
      BY <1>9 DEF ChildHatches, TypeInv, TypeOK, HookTypes, HooksLeft, Phases,
                  Unread, hookVars
    <2> QED
      BY <2>1, <2>2, <2>3, <2>4 DEF TypeInv, TypeOK
  <1>10. CASE StartResolved
    <2>1. ControlTypes'
      BY <1>10 DEF StartResolved, TypeInv, TypeOK, ControlTypes, kernelVars,
                   tailVars, rebindVars
    <2>2. FlagTypes'
      BY <1>10 DEF StartResolved, TypeInv, TypeOK, FlagTypes, kernelVars,
                   playerVars, runVars, tailVars
    <2>3. NumberTypes'
      BY <1>10 DEF StartResolved, TypeInv, TypeOK, NumberTypes, Reasons,
                   NoGate, kernelVars, playerVars, runVars, rebindVars
    <2>4. (HookTypes /\ HooksLeft)'
      BY <1>10 DEF StartResolved, TypeInv, TypeOK, HookTypes, HooksLeft,
                   Phases, Unread, hookVars
    <2> QED
      BY <2>1, <2>2, <2>3, <2>4 DEF TypeInv, TypeOK
  <1>11. CASE StartRejected
    <2>1. ControlTypes'
      BY <1>11 DEF StartRejected, TypeInv, TypeOK, ControlTypes, kernelVars,
                   tailVars, rebindVars
    <2>2. FlagTypes'
      BY <1>11 DEF StartRejected, TypeInv, TypeOK, FlagTypes, kernelVars,
                   playerVars, runVars, tailVars
    <2>3. NumberTypes'
      BY <1>11 DEF StartRejected, TypeInv, TypeOK, NumberTypes, Reasons,
                   NoGate, kernelVars, playerVars, runVars, rebindVars
    <2>4. (HookTypes /\ HooksLeft)'
      BY <1>11 DEF StartRejected, TypeInv, TypeOK, HookTypes, HooksLeft,
                   Phases, Unread, hookVars
    <2> QED
      BY <2>1, <2>2, <2>3, <2>4 DEF TypeInv, TypeOK
  <1>12. CASE ChildPreStep
    <2>1. ControlTypes'
      BY <1>12 DEF ChildPreStep, TypeInv, TypeOK, ControlTypes, kernelVars,
                   tailVars, rebindVars
    <2>2. FlagTypes'
      BY <1>12 DEF ChildPreStep, TypeInv, TypeOK, FlagTypes, kernelVars,
                   playerVars, runVars, tailVars
    <2>3. NumberTypes'
      BY <1>12 DEF ChildPreStep, TypeInv, TypeOK, NumberTypes, Reasons, NoGate,
                   kernelVars, playerVars, runVars, rebindVars
    <2>4. (HookTypes /\ HooksLeft)'
      BY <1>12 DEF ChildPreStep, TypeInv, TypeOK, HookTypes, HooksLeft, Phases,
                   Unread, hookVars
    <2> QED
      BY <2>1, <2>2, <2>3, <2>4 DEF TypeInv, TypeOK
  <1>13. CASE ChildPassesBar
    <2>1. ControlTypes'
      BY <1>13 DEF ChildPassesBar, TypeInv, TypeOK, ControlTypes, kernelVars,
                   tailVars, rebindVars
    <2>2. FlagTypes'
      BY <1>13 DEF ChildPassesBar, TypeInv, TypeOK, FlagTypes, kernelVars,
                   playerVars, runVars, tailVars
    <2>3. NumberTypes'
      BY <1>13 DEF ChildPassesBar, TypeInv, TypeOK, NumberTypes, Reasons,
                   NoGate, kernelVars, playerVars, runVars, rebindVars
    <2>4. (HookTypes /\ HooksLeft)'
      BY <1>13 DEF ChildPassesBar, TypeInv, TypeOK, HookTypes, HooksLeft,
                   Phases, Unread, hookVars
    <2> QED
      BY <2>1, <2>2, <2>3, <2>4 DEF TypeInv, TypeOK
  <1>14. CASE ResultSettled
    <2>1. ControlTypes'
      BY <1>14 DEF ResultSettled, TypeInv, TypeOK, ControlTypes, kernelVars,
                   tailVars, rebindVars
    <2>2. FlagTypes'
      BY <1>14 DEF ResultSettled, TypeInv, TypeOK, FlagTypes, kernelVars,
                   playerVars, runVars, tailVars
    <2>3. NumberTypes'
      BY <1>14 DEF ResultSettled, TypeInv, TypeOK, NumberTypes, Reasons,
                   NoGate, kernelVars, playerVars, runVars, rebindVars
    <2>4. (HookTypes /\ HooksLeft)'
      BY <1>14 DEF ResultSettled, TypeInv, TypeOK, HookTypes, HooksLeft,
                   Phases, Unread, hookVars
    <2> QED
      BY <2>1, <2>2, <2>3, <2>4 DEF TypeInv, TypeOK
  <1>15. CASE WriteTailSnapshot
    <2>1. ControlTypes'
      BY <1>15 DEF WriteTailSnapshot, TypeInv, TypeOK, ControlTypes,
                   kernelVars, tailVars, rebindVars
    <2>2. FlagTypes'
      BY <1>15 DEF WriteTailSnapshot, TypeInv, TypeOK, FlagTypes, kernelVars,
                   playerVars, runVars, tailVars
    <2>3. NumberTypes'
      BY <1>15 DEF WriteTailSnapshot, TypeInv, TypeOK, NumberTypes, Reasons,
                   NoGate, kernelVars, playerVars, runVars, rebindVars
    <2>4. (HookTypes /\ HooksLeft)'
      BY <1>15 DEF WriteTailSnapshot, TypeInv, TypeOK, HookTypes, HooksLeft,
                   Phases, Unread, hookVars
    <2> QED
      BY <2>1, <2>2, <2>3, <2>4 DEF TypeInv, TypeOK
  <1>16. CASE TailAfterDone
    <2>1. ControlTypes'
      BY <1>16 DEF TailAfterDone, PhaseOver, InPhase, TypeInv, TypeOK,
                   ControlTypes, kernelVars, tailVars, rebindVars
    <2>2. FlagTypes'
      BY <1>16 DEF TailAfterDone, PhaseOver, InPhase, TypeInv, TypeOK,
                   FlagTypes, kernelVars, playerVars, runVars, tailVars
    <2>3. NumberTypes'
      BY <1>16 DEF TailAfterDone, PhaseOver, InPhase, TypeInv, TypeOK,
                   NumberTypes, Reasons, NoGate, kernelVars, playerVars,
                   runVars, rebindVars
    <2>4. (HookTypes /\ HooksLeft)'
      BY <1>16 DEF TailAfterDone, PhaseOver, InPhase, TypeInv, TypeOK,
                   HookTypes, HooksLeft, Phases, Unread, hookVars
    <2> QED
      BY <2>1, <2>2, <2>3, <2>4 DEF TypeInv, TypeOK
  <1>17. CASE Cancel
    <2>1. ControlTypes'
      BY <1>17 DEF Cancel, TypeInv, TypeOK, ControlTypes, kernelVars, tailVars,
                   rebindVars
    <2>2. FlagTypes'
      BY <1>17 DEF Cancel, TypeInv, TypeOK, FlagTypes, kernelVars, playerVars,
                   runVars, tailVars
    <2>3. NumberTypes'
      BY <1>17 DEF Cancel, TypeInv, TypeOK, NumberTypes, Reasons, NoGate,
                   kernelVars, playerVars, runVars, rebindVars
    <2>4. (HookTypes /\ HooksLeft)'
      BY <1>17 DEF Cancel, TypeInv, TypeOK, HookTypes, HooksLeft, Phases,
                   Unread, hookVars
    <2> QED
      BY <2>1, <2>2, <2>3, <2>4 DEF TypeInv, TypeOK
  <1>18. CASE Stop
    <2>1. ControlTypes'
      BY <1>18 DEF Stop, AbortRun, Signed, TypeInv, TypeOK, ControlTypes,
                   kernelVars, tailVars, rebindVars
    <2>2. FlagTypes'
      BY <1>18 DEF Stop, AbortRun, Signed, TypeInv, TypeOK, FlagTypes,
                   kernelVars, playerVars, runVars, tailVars
    <2>3. NumberTypes'
      BY <1>18 DEF Stop, AbortRun, Signed, TypeInv, TypeOK, NumberTypes,
                   Reasons, NoGate, kernelVars, playerVars, runVars,
                   rebindVars
    <2>4. (HookTypes /\ HooksLeft)'
      BY <1>18 DEF Stop, AbortRun, Signed, TypeInv, TypeOK, HookTypes,
                   HooksLeft, Phases, Unread, hookVars
    <2> QED
      BY <2>1, <2>2, <2>3, <2>4 DEF TypeInv, TypeOK
  <1>19. CASE LoadFence
    <2>1. ControlTypes'
      BY <1>19 DEF LoadFence, AbortRun, TypeInv, TypeOK, ControlTypes,
                   kernelVars, tailVars, rebindVars
    <2>2. FlagTypes'
      BY <1>19 DEF LoadFence, AbortRun, TypeInv, TypeOK, FlagTypes, kernelVars,
                   playerVars, runVars, tailVars
    <2>3. NumberTypes'
      BY <1>19 DEF LoadFence, AbortRun, TypeInv, TypeOK, NumberTypes, Reasons,
                   NoGate, kernelVars, playerVars, runVars, rebindVars
    <2>4. (HookTypes /\ HooksLeft)'
      BY <1>19 DEF LoadFence, AbortRun, TypeInv, TypeOK, HookTypes, HooksLeft,
                   Phases, Unread, hookVars
    <2> QED
      BY <2>1, <2>2, <2>3, <2>4 DEF TypeInv, TypeOK
  <1>20. CASE LoadCreates
    <2>1. ControlTypes'
      BY <1>20 DEF LoadCreates, TypeInv, TypeOK, ControlTypes, kernelVars,
                   tailVars, rebindVars
    <2>2. FlagTypes'
      BY <1>20 DEF LoadCreates, TypeInv, TypeOK, FlagTypes, kernelVars,
                   playerVars, runVars, tailVars
    <2>3. NumberTypes'
      BY <1>20 DEF LoadCreates, TypeInv, TypeOK, NumberTypes, Reasons, NoGate,
                   kernelVars, playerVars, runVars, rebindVars
    <2>4. (HookTypes /\ HooksLeft)'
      BY <1>20 DEF LoadCreates, TypeInv, TypeOK, HookTypes, HooksLeft, Phases,
                   Unread, hookVars
    <2> QED
      BY <2>1, <2>2, <2>3, <2>4 DEF TypeInv, TypeOK
  <1>21. CASE ResetCreates
    <2>1. ControlTypes'
      BY <1>21 DEF ResetCreates, TypeInv, TypeOK, ControlTypes, kernelVars,
                   tailVars, rebindVars
    <2>2. FlagTypes'
      BY <1>21 DEF ResetCreates, TypeInv, TypeOK, FlagTypes, kernelVars,
                   playerVars, runVars, tailVars
    <2>3. NumberTypes'
      BY <1>21 DEF ResetCreates, TypeInv, TypeOK, NumberTypes, Reasons, NoGate,
                   kernelVars, playerVars, runVars, rebindVars
    <2>4. (HookTypes /\ HooksLeft)'
      BY <1>21 DEF ResetCreates, TypeInv, TypeOK, HookTypes, HooksLeft, Phases,
                   Unread, hookVars
    <2> QED
      BY <2>1, <2>2, <2>3, <2>4 DEF TypeInv, TypeOK
  <1>22. CASE RebindLands
    <2>1. ControlTypes'
      BY <1>22 DEF RebindLands, TypeInv, TypeOK, ControlTypes, kernelVars,
                   tailVars, rebindVars
    <2>2. FlagTypes'
      BY <1>22 DEF RebindLands, TypeInv, TypeOK, FlagTypes, kernelVars,
                   playerVars, runVars, tailVars
    <2>3. NumberTypes'
      BY <1>22 DEF RebindLands, TypeInv, TypeOK, NumberTypes, Reasons, NoGate,
                   kernelVars, playerVars, runVars, rebindVars
    <2>4. (HookTypes /\ HooksLeft)'
      BY <1>22 DEF RebindLands, TypeInv, TypeOK, HookTypes, HooksLeft, Phases,
                   Unread, hookVars
    <2> QED
      BY <2>1, <2>2, <2>3, <2>4 DEF TypeInv, TypeOK
  <1>23. CASE Crash
    <2>1. ControlTypes'
      BY <1>23 DEF Crash, TypeInv, TypeOK, ControlTypes, kernelVars, tailVars,
                   rebindVars
    <2>2. FlagTypes'
      BY <1>23 DEF Crash, TypeInv, TypeOK, FlagTypes, kernelVars, playerVars,
                   runVars, tailVars
    <2>3. NumberTypes'
      BY <1>23 DEF Crash, TypeInv, TypeOK, NumberTypes, Reasons, NoGate,
                   kernelVars, playerVars, runVars, rebindVars
    <2>4. (HookTypes /\ HooksLeft)'
      BY <1>23 DEF Crash, TypeInv, TypeOK, HookTypes, HooksLeft, Phases,
                   Unread, hookVars
    <2> QED
      BY <2>1, <2>2, <2>3, <2>4 DEF TypeInv, TypeOK
  <1>24. CASE \E r \in Reasons : TurnEnd(r)
    <2>1. ControlTypes'
      BY <1>24 DEF TurnEnd, TurnCloses, Macrotask, beginTurnSettlement,
                   FailTurnSettlement, TypeInv, TypeOK, ControlTypes,
                   kernelVars, tailVars, rebindVars
    <2>2. FlagTypes'
      BY <1>24 DEF TurnEnd, TurnCloses, Macrotask, beginTurnSettlement,
                   FailTurnSettlement, TypeInv, TypeOK, FlagTypes, kernelVars,
                   playerVars, runVars, tailVars
    <2>3. NumberTypes'
      BY <1>24 DEF TurnEnd, TurnCloses, Macrotask, beginTurnSettlement,
                   FailTurnSettlement, TypeInv, TypeOK, NumberTypes, Reasons,
                   NoGate, kernelVars, playerVars, runVars, rebindVars
    <2>4. (HookTypes /\ HooksLeft)'
      <3>1. \/ UNCHANGED hookVars
            \/ /\ hooks' = [p \in Phases |-> Unread]
               /\ hookRunning' = [p \in Phases |-> FALSE]
        BY <1>24 DEF TurnEnd, beginTurnSettlement, FailTurnSettlement
      <3>2. CASE UNCHANGED hookVars
        BY <3>2 DEF TypeInv, TypeOK, HookTypes, HooksLeft, hookVars
      <3>3. CASE hooks' = [p \in Phases |-> Unread] /\ hookRunning' = [p \in Phases |-> FALSE]
        BY <3>3 DEF HookTypes, HooksLeft, Phases, Unread
      <3> QED
        BY <3>1, <3>2, <3>3
    <2> QED
      BY <2>1, <2>2, <2>3, <2>4 DEF TypeInv, TypeOK
  <1>25. CASE \E p \in Phases : ReadHooks(p)
    <2>1. ControlTypes'
      BY <1>25 DEF ReadHooks, InPhase, TypeInv, TypeOK, ControlTypes,
                   kernelVars, tailVars, rebindVars
    <2>2. FlagTypes'
      BY <1>25 DEF ReadHooks, InPhase, TypeInv, TypeOK, FlagTypes, kernelVars,
                   playerVars, runVars, tailVars
    <2>3. NumberTypes'
      BY <1>25 DEF ReadHooks, InPhase, TypeInv, TypeOK, NumberTypes, Reasons,
                   NoGate, kernelVars, playerVars, runVars, rebindVars
    <2>4. (HookTypes /\ HooksLeft)'
      BY <1>25 DEF ReadHooks, InPhase, TypeInv, TypeOK, HookTypes, HooksLeft,
                   Phases, Unread, hookVars
    <2> QED
      BY <2>1, <2>2, <2>3, <2>4 DEF TypeInv, TypeOK
  <1>26. CASE \E p \in Phases : StartHook(p)
    <2>1. ControlTypes'
      BY <1>26 DEF StartHook, NextScript, InPhase, TypeInv, TypeOK, ControlTypes,
                   kernelVars, tailVars, rebindVars
    <2>2. FlagTypes'
      BY <1>26 DEF StartHook, NextScript, InPhase, TypeInv, TypeOK, FlagTypes, kernelVars,
                   playerVars, runVars, tailVars
    <2>3. NumberTypes'
      BY <1>26 DEF StartHook, NextScript, InPhase, TypeInv, TypeOK, NumberTypes, Reasons,
                   NoGate, kernelVars, playerVars, runVars, rebindVars
    <2>4. (HookTypes /\ HooksLeft)'
      BY <1>26 DEF StartHook, NextScript, InPhase, TypeInv, TypeOK, HookTypes, HooksLeft,
                   Phases, Unread, hookVars
    <2> QED
      BY <2>1, <2>2, <2>3, <2>4 DEF TypeInv, TypeOK
  <1>27. CASE \E p \in Phases : EndHook(p)
    <2>1. ControlTypes'
      BY <1>27 DEF EndHook, TypeInv, TypeOK, ControlTypes, kernelVars,
                   tailVars, rebindVars
    <2>2. FlagTypes'
      BY <1>27 DEF EndHook, TypeInv, TypeOK, FlagTypes, kernelVars, playerVars,
                   runVars, tailVars
    <2>3. NumberTypes'
      BY <1>27 DEF EndHook, TypeInv, TypeOK, NumberTypes, Reasons, NoGate,
                   kernelVars, playerVars, runVars, rebindVars
    <2>4. (HookTypes /\ HooksLeft)'
      BY <1>27 DEF EndHook, TypeInv, TypeOK, HookTypes, HooksLeft, Phases,
                   Unread, hookVars
    <2> QED
      BY <2>1, <2>2, <2>3, <2>4 DEF TypeInv, TypeOK
  <1>28. CASE \E o \in {"ok", "failed"} : ChildEnds(o)
    <2>1. ControlTypes'
      BY <1>28 DEF ChildEnds, TypeInv, TypeOK, ControlTypes, kernelVars,
                   tailVars, rebindVars
    <2>2. FlagTypes'
      BY <1>28 DEF ChildEnds, TypeInv, TypeOK, FlagTypes, kernelVars,
                   playerVars, runVars, tailVars
    <2>3. NumberTypes'
      BY <1>28 DEF ChildEnds, TypeInv, TypeOK, NumberTypes, Reasons, NoGate,
                   kernelVars, playerVars, runVars, rebindVars
    <2>4. (HookTypes /\ HooksLeft)'
      BY <1>28 DEF ChildEnds, TypeInv, TypeOK, HookTypes, HooksLeft, Phases,
                   Unread, hookVars
    <2> QED
      BY <2>1, <2>2, <2>3, <2>4 DEF TypeInv, TypeOK
  <1>29. CASE UNCHANGED vars
    <2>1. ControlTypes'
      BY <1>29 DEF vars, TypeInv, TypeOK, ControlTypes, kernelVars, tailVars,
                   rebindVars
    <2>2. FlagTypes'
      BY <1>29 DEF vars, TypeInv, TypeOK, FlagTypes, kernelVars, playerVars,
                   runVars, tailVars
    <2>3. NumberTypes'
      BY <1>29 DEF vars, TypeInv, TypeOK, NumberTypes, Reasons, NoGate,
                   kernelVars, playerVars, runVars, rebindVars
    <2>4. (HookTypes /\ HooksLeft)'
      BY <1>29 DEF vars, TypeInv, TypeOK, HookTypes, HooksLeft, Phases, Unread,
                   hookVars
    <2> QED
      BY <2>1, <2>2, <2>3, <2>4 DEF TypeInv, TypeOK
  <1> QED
    BY <1>1, <1>2, <1>3, <1>4, <1>5, <1>6, <1>7, <1>8, <1>9, <1>10, <1>11,
       <1>12, <1>13, <1>14, <1>15, <1>16, <1>17, <1>18, <1>19, <1>20, <1>21,
       <1>22, <1>23, <1>24, <1>25, <1>26, <1>27, <1>28, <1>29
       DEF Next, Kernel, HookPhase, Chain, TailPhase, Player, Rebind

LEMMA TypeInvariant == Spec => []TypeInv
  <1>1. TypeInv /\ [Next]_vars => TypeInv'
    BY NextTypeInv
  <1> QED
    BY InitTypeInv, <1>1, PTL DEF Spec

\* Every variable keeps its type, and a phase never has more scripts left than
\* preset/hooks.json lists for it (runHookPhase).
THEOREM TypeCorrect == Spec => []TypeOK
  <1>1. TypeInv => TypeOK
    BY DEF TypeInv
  <1> QED
    BY TypeInvariant, <1>1, PTL

-----------------------------------------------------------------------------
(* No double signal. A signal is only ever appended to a log that owes one:  *)
(* a running chain and a due microtask each hold such a debt, they never     *)
(* exist at once, and stop's repair looks for one in the log itself.         *)

SignalInv ==
  /\ NoDoubleSignal
  /\ chain # "off" => Owed /\ run # NoGate /\ gate # NoGate
  /\ notifyDue => Owed /\ chain = "off"

\* Appending anything but a signal keeps a debt and doubles nothing.
LEMMA AppendOther ==
  ASSUME TypeOK, NEW x \in {"turn/start"} \cup Reasons, log' = Append(log, x)
  PROVE  (NoDoubleSignal => NoDoubleSignal') /\ (Owed => Owed')
  <1>1. Len(log') = Len(log) + 1 /\ log'[Len(log) + 1] = x /\ Len(log) \in Nat
    BY DEF TypeOK, NumberTypes, Reasons
  <1>2. \A i \in 1..Len(log) : log'[i] = log[i]
    BY DEF TypeOK, NumberTypes, Reasons
  <1>3. x # "command/done"
    BY DEF Reasons
  <1>4. NoDoubleSignal => NoDoubleSignal'
    BY <1>1, <1>2, <1>3 DEF NoDoubleSignal
  <1>5. Owed => Owed'
    BY <1>1, <1>2, <1>3 DEF Owed, TurnEnds
  <1> QED
    BY <1>4, <1>5

\* A turn's end is a debt of its own.
LEMMA TurnEndOwes ==
  ASSUME TypeOK, NEW r \in Reasons, log' = Append(log, r)
  PROVE  Owed' /\ Len(log') # 0
  <1>1. Len(log') = Len(log) + 1 /\ log'[Len(log) + 1] = r /\ Len(log) \in Nat
    BY DEF TypeOK, NumberTypes, Reasons
  <1> QED
    BY <1>1 DEF Owed, TurnEnds

\* A signal that pays a debt doubles no earlier signal.
LEMMA SignOwed ==
  ASSUME TypeOK, NoDoubleSignal, Owed, log' = Append(log, "command/done")
  PROVE  NoDoubleSignal'
  <1>1. Len(log') = Len(log) + 1 /\ Len(log) \in Nat
    BY DEF TypeOK, NumberTypes, Reasons
  <1>2. \A i \in 1..Len(log) : log'[i] = log[i]
    BY DEF TypeOK, NumberTypes, Reasons
  <1>3. PICK e \in 1..Len(log) :
          /\ log[e] \in Reasons
          /\ \A i \in e+1..Len(log) : log[i] # "command/done"
    BY DEF Owed, TurnEnds
  <1>4. SUFFICES ASSUME NEW i \in 1..Len(log'), NEW j \in 1..Len(log'), i < j,
                        log'[i] = "command/done", log'[j] = "command/done"
                 PROVE  \E k \in i+1..j-1 : log'[k] \in Reasons
    BY DEF NoDoubleSignal
  <1>5. CASE j \in 1..Len(log)
    <2>1. PICK k \in i+1..j-1 : log[k] \in Reasons
      BY <1>1, <1>2, <1>4, <1>5 DEF NoDoubleSignal
    <2>2. log'[k] = log[k]
      BY <1>1, <1>2, <1>4, <1>5, <2>1
    <2> QED
      BY <2>1, <2>2
  <1>6. CASE j = Len(log) + 1
    <2>1. log[i] = "command/done" /\ i \in 1..Len(log)
      BY <1>1, <1>2, <1>4, <1>6
    <2>2. i < e
      BY <1>1, <1>3, <2>1 DEF Reasons
    <2>3. e \in i+1..j-1 /\ log'[e] \in Reasons
      BY <1>1, <1>2, <1>3, <1>6, <2>1, <2>2
    <2> QED
      BY <2>3
  <1> QED
    BY <1>1, <1>5, <1>6

\* What stop looks for in the log is a debt.
LEMMA UnsignedOwes == settlementUnsigned => Owed
  BY DEF settlementUnsigned, Owed

LEMMA InitSignalInv == Init => SignalInv
  BY DEF Init, SignalInv, NoDoubleSignal, NoGate

LEMMA NextSignalInv == TypeInv /\ SignalInv /\ [Next]_vars => SignalInv'
  <1> SUFFICES ASSUME TypeInv, SignalInv, [Next]_vars PROVE SignalInv'
    OBVIOUS
  <1>a. TypeOK /\ NoDoubleSignal
    BY DEF TypeInv, SignalInv
  \* The actions that leave the log, the tables and the microtask alone.
  <1>1. CASE UNCHANGED <<log, chain, run, gate, notifyDue>>
    BY <1>1 DEF SignalInv, NoDoubleSignal, Owed, TurnEnds
  <1>2. CASE TurnStart
    <2>1. UNCHANGED <<chain, run, gate, notifyDue>> /\ log' = Append(log, "turn/start")
      BY <1>2 DEF TurnStart, DropStopMark, runVars
    <2> QED
      BY <1>a, <2>1, AppendOther DEF SignalInv
  <1>3. CASE \E r \in Reasons : TurnEnd(r)
    <2>1. PICK r \in Reasons : TurnEnd(r)
      BY <1>3
    <2>2. log' = Append(log, r) /\ ~notifyDue
      BY <2>1 DEF TurnEnd, TurnCloses, Macrotask
    <2>3. NoDoubleSignal' /\ Owed' /\ Len(log') # 0
      BY <1>a, <2>2, AppendOther, TurnEndOwes
    <2>4. chain' # "off" => run' # NoGate /\ gate' # NoGate
      BY <2>1, <2>3 DEF TurnEnd, beginTurnSettlement, FailTurnSettlement, SignalInv, NoGate, runVars
    <2>5. notifyDue' => chain' = "off"
      BY <2>1, <2>2 DEF TurnEnd, SignalInv, NoGate
    <2> QED
      BY <2>3, <2>4, <2>5 DEF SignalInv
  <1>4. CASE NotifyTailSettled
    <2>1. log' = Append(log, "command/done") /\ Owed /\ chain' = "off" /\ ~notifyDue'
      BY <1>4 DEF NotifyTailSettled, Signed, SignalInv
    <2> QED
      BY <1>a, <2>1, SignOwed DEF SignalInv
  <1>5. CASE (MainAfterDone \/ TailJoined) /\ SettleChain
    <2>1. log' = Append(log, "command/done") /\ Owed /\ chain' = "off" /\ ~notifyDue'
      BY <1>5 DEF MainAfterDone, TailJoined, SettleChain, Signed, SignalInv
    <2> QED
      BY <1>a, <2>1, SignOwed DEF SignalInv
  <1>6. CASE MainAfterDone /\ ~SettleChain
    <2>1. UNCHANGED <<log, run, gate, notifyDue>> /\ chain # "off" /\ chain' # "off"
      BY <1>6 DEF MainAfterDone
    <2> QED
      BY <2>1 DEF SignalInv, NoDoubleSignal, Owed, TurnEnds
  <1>7. CASE Stop
    <2>1. UNCHANGED <<chain, run, gate, notifyDue>> /\ ~notifyDue
      BY <1>7 DEF Stop, AbortRun, Macrotask, runVars
    <2>2. CASE log' = log
      BY <2>1, <2>2 DEF SignalInv, NoDoubleSignal, Owed, TurnEnds
    <2>3. CASE log' # log
      <3>1. run = NoGate /\ settlementUnsigned /\ log' = Append(log, "command/done")
        BY <1>7, <2>3 DEF Stop, Signed
      <3>2. chain' = "off"
        BY <2>1, <3>1 DEF SignalInv
      <3> QED
        BY <1>a, <2>1, <3>1, <3>2, UnsignedOwes, SignOwed DEF SignalInv
    <2> QED
      BY <2>2, <2>3
  <1>8. CASE Crash
    <2>1. chain' = "off" /\ ~notifyDue' /\ (log' = log \/ log' = Append(log, "error"))
      BY <1>8 DEF Crash
    <2>2. CASE log' = log
      BY <2>1, <2>2 DEF SignalInv, NoDoubleSignal
    <2>3. CASE log' = Append(log, "error")
      <3>1. "error" \in {"turn/start"} \cup Reasons
        BY DEF Reasons
      <3> QED
        BY <1>a, <2>1, <2>3, <3>1, AppendOther DEF SignalInv
    <2> QED
      BY <2>1, <2>2, <2>3
  <1>9. CASE HookPhase \/ TailPhase
    <2>1. UNCHANGED <<log, chain, run, gate, notifyDue>>
      BY <1>9 DEF HookPhase, ReadHooks, StartHook, NextScript, EndHook, TailPhase, ChildHatches, StartResolved,
                  StartRejected, ChildPreStep, ChildPassesBar, ChildEnds, ResultSettled,
                  WriteTailSnapshot, TailAfterDone, runVars
    <2> QED
      BY <1>1, <2>1
  <1>10. CASE PreStep \/ EnterStep \/ NextStep \/ Submit \/ Cancel \/ Rebind
    <2>1. UNCHANGED <<log, chain, run, gate, notifyDue>>
      BY <1>10 DEF PreStep, EnterStep, NextStep, Submit, Cancel, Rebind, LoadFence, AbortRun,
                   LoadCreates, ResetCreates, RebindLands, runVars
    <2> QED
      BY <1>1, <2>1
  <1>11. CASE UNCHANGED vars
    BY <1>1, <1>11 DEF vars, runVars
  <1> QED
    BY <1>2, <1>3, <1>4, <1>5, <1>6, <1>7, <1>8, <1>9, <1>10, <1>11
    DEF Next, Kernel, Chain, Player, TailJoined

\* No turn boundary is signalled twice: the early return of onSessionEvent
\* under a held gate, the microtask of an unarchived turn and the repair in
\* stop never send a second signal for what was signalled already.
THEOREM SignalOnce == Spec => []NoDoubleSignal
  <1>1. TypeInv /\ SignalInv /\ [Next]_vars => SignalInv'
    BY NextSignalInv
  <1>2. SignalInv => NoDoubleSignal
    BY DEF SignalInv
  <1> QED
    BY TypeInvariant, InitSignalInv, <1>1, <1>2, PTL DEF Spec

-----------------------------------------------------------------------------
(* One writer. Nothing but the tables keeps the main agent, the hook scripts *)
(* and the tail child apart, so the argument relates each program counter to *)
(* the tables and to the bar. It holds for a session nobody rebinds and for  *)
(* a card whose files can be read and written: without the one the bar does  *)
(* not hold an unbound parent's child, without the other a gate may leak.    *)

Undisturbed == ~DiskFaults /\ Rebinds = {}

MainInv ==
  /\ bound /\ rebind = "none" /\ TablesMatchChain
  /\ main = "step" => chain = "off"
  /\ main = "waiting" /\ chain # "off" => awaiting = gate

ScriptInv ==
  /\ hookRunning["main.after"] => chain = "main.after"
  /\ hookRunning["tail.after"] => tail = "tail.after"

TailInv ==
  /\ chain = "main.after" => ~barOpen /\ tail \in {"off", "start", "result", "failed"}
  /\ chain = "main.after" => child \notin {"step", "ok"}
  /\ chain = "off" => tail \in {"off", "done", "failed"}
  /\ tail \notin {"start", "result"} => child \notin {"pre-step", "barred", "step"}

WriterInv == MainInv /\ ScriptInv /\ TailInv

LEMMA InitWriterInv == Init => WriterInv
  BY DEF Init, WriterInv, MainInv, ScriptInv, TailInv, TablesMatchChain, Phases, NoGate

LEMMA NextWriterInv == Undisturbed /\ TypeInv /\ WriterInv /\ [Next]_vars => WriterInv'
  <1> SUFFICES ASSUME Undisturbed, TypeInv, WriterInv, [Next]_vars PROVE WriterInv'
    OBVIOUS
  <1> USE DEF Undisturbed
  <1>1. CASE Submit
    <2>1. MainInv'
      BY <1>1 DEF Submit, WriterInv, MainInv, ScriptInv, TailInv, TablesMatchChain, NoGate,
         kernelVars, runVars, tailVars, hookVars, rebindVars
    <2>2. ScriptInv'
      BY <1>1 DEF Submit, TypeInv, TypeOK, HookTypes, WriterInv, MainInv, ScriptInv,
         TailInv, Phases, kernelVars, runVars, tailVars, hookVars, rebindVars
    <2>3. TailInv'
      BY <1>1 DEF Submit, WriterInv, MainInv, ScriptInv, TailInv, TablesMatchChain,
         kernelVars, runVars, tailVars, hookVars, rebindVars
    <2> QED
      BY <2>1, <2>2, <2>3 DEF WriterInv
  <1>2. CASE TurnStart
    <2>1. MainInv'
      BY <1>2 DEF TurnStart, DropStopMark, WriterInv, MainInv, ScriptInv, TailInv,
         TablesMatchChain, NoGate, kernelVars, runVars, tailVars, hookVars, rebindVars
    <2>2. ScriptInv'
      BY <1>2 DEF TurnStart, DropStopMark, TypeInv, TypeOK, HookTypes, WriterInv, MainInv,
         ScriptInv, TailInv, Phases, kernelVars, runVars, tailVars, hookVars, rebindVars
    <2>3. TailInv'
      BY <1>2 DEF TurnStart, DropStopMark, WriterInv, MainInv, ScriptInv, TailInv,
         TablesMatchChain, kernelVars, runVars, tailVars, hookVars, rebindVars
    <2> QED
      BY <2>1, <2>2, <2>3 DEF WriterInv
  <1>3. CASE PreStep
    <2>1. MainInv'
      BY <1>3 DEF PreStep, WriterInv, MainInv, ScriptInv, TailInv, TablesMatchChain, NoGate,
         kernelVars, runVars, tailVars, hookVars, rebindVars
    <2>2. ScriptInv'
      BY <1>3 DEF PreStep, TypeInv, TypeOK, HookTypes, WriterInv, MainInv, ScriptInv,
         TailInv, Phases, kernelVars, runVars, tailVars, hookVars, rebindVars
    <2>3. TailInv'
      BY <1>3 DEF PreStep, WriterInv, MainInv, ScriptInv, TailInv, TablesMatchChain,
         kernelVars, runVars, tailVars, hookVars, rebindVars
    <2> QED
      BY <2>1, <2>2, <2>3 DEF WriterInv
  <1>4. CASE EnterStep
    <2>1. MainInv'
      BY <1>4 DEF EnterStep, GateSettled, WriterInv, MainInv, ScriptInv, TailInv,
         TablesMatchChain, NoGate, kernelVars, runVars, tailVars, hookVars, rebindVars
    <2>2. ScriptInv'
      BY <1>4 DEF EnterStep, GateSettled, TypeInv, TypeOK, HookTypes, WriterInv, MainInv,
         ScriptInv, TailInv, Phases, kernelVars, runVars, tailVars, hookVars, rebindVars
    <2>3. TailInv'
      BY <1>4 DEF EnterStep, GateSettled, WriterInv, MainInv, ScriptInv, TailInv,
         TablesMatchChain, kernelVars, runVars, tailVars, hookVars, rebindVars
    <2> QED
      BY <2>1, <2>2, <2>3 DEF WriterInv
  <1>5. CASE NextStep
    <2>1. MainInv'
      BY <1>5 DEF NextStep, WriterInv, MainInv, ScriptInv, TailInv, TablesMatchChain,
         NoGate, kernelVars, runVars, tailVars, hookVars, rebindVars
    <2>2. ScriptInv'
      BY <1>5 DEF NextStep, TypeInv, TypeOK, HookTypes, WriterInv, MainInv, ScriptInv,
         TailInv, Phases, kernelVars, runVars, tailVars, hookVars, rebindVars
    <2>3. TailInv'
      BY <1>5 DEF NextStep, WriterInv, MainInv, ScriptInv, TailInv, TablesMatchChain,
         kernelVars, runVars, tailVars, hookVars, rebindVars
    <2> QED
      BY <2>1, <2>2, <2>3 DEF WriterInv
  <1>6. CASE \E r \in Reasons : TurnEnd(r)
    <2>1. PICK r \in Reasons : TurnEnd(r)
      BY <1>6
    <2>2. Len(log') # NoGate
      BY <2>1 DEF TurnEnd, TurnCloses, TypeInv, TypeOK, NumberTypes, NoGate, Reasons
    <2>3. CASE UNCHANGED <<gate, runVars, chain, tailVars, hookVars>>
      BY <2>1, <2>3 DEF TurnEnd, TurnCloses, WriterInv, MainInv, ScriptInv, TailInv,
         TablesMatchChain, rebindVars, runVars, tailVars, hookVars
    <2>4. CASE gate = NoGate /\ beginTurnSettlement
      BY <2>1, <2>2, <2>4 DEF TurnEnd, TurnCloses, beginTurnSettlement, WriterInv, MainInv,
         ScriptInv, TailInv, TablesMatchChain, rebindVars, Phases
    <2> QED
      BY <2>1, <2>3, <2>4 DEF TurnEnd, FailTurnSettlement
  <1>7. CASE NotifyTailSettled
    <2>1. MainInv'
      BY <1>7 DEF NotifyTailSettled, WriterInv, MainInv, ScriptInv, TailInv,
         TablesMatchChain, NoGate, kernelVars, runVars, tailVars, hookVars, rebindVars
    <2>2. ScriptInv'
      BY <1>7 DEF NotifyTailSettled, TypeInv, TypeOK, HookTypes, WriterInv, MainInv,
         ScriptInv, TailInv, Phases, kernelVars, runVars, tailVars, hookVars, rebindVars
    <2>3. TailInv'
      BY <1>7 DEF NotifyTailSettled, WriterInv, MainInv, ScriptInv, TailInv,
         TablesMatchChain, kernelVars, runVars, tailVars, hookVars, rebindVars
    <2> QED
      BY <2>1, <2>2, <2>3 DEF WriterInv
  <1>8. CASE MainAfterDone
    <2>1. MainInv'
      BY <1>8 DEF MainAfterDone, PhaseOver, InPhase, SettleChain, WriterInv, MainInv,
         ScriptInv, TailInv, TablesMatchChain, NoGate, kernelVars, runVars, tailVars,
         hookVars, rebindVars
    <2>2. ScriptInv'
      BY <1>8 DEF MainAfterDone, PhaseOver, InPhase, SettleChain, TypeInv, TypeOK,
         HookTypes, WriterInv, MainInv, ScriptInv, TailInv, Phases, kernelVars, runVars,
         tailVars, hookVars, rebindVars
    <2>3. TailInv'
      BY <1>8 DEF MainAfterDone, PhaseOver, InPhase, SettleChain, WriterInv, MainInv,
         ScriptInv, TailInv, TablesMatchChain, kernelVars, runVars, tailVars, hookVars,
         rebindVars
    <2> QED
      BY <2>1, <2>2, <2>3 DEF WriterInv
  <1>9. CASE TailJoined
    <2>1. MainInv'
      BY <1>9 DEF TailJoined, SettleChain, WriterInv, MainInv, ScriptInv, TailInv,
         TablesMatchChain, NoGate, kernelVars, runVars, tailVars, hookVars, rebindVars
    <2>2. ScriptInv'
      BY <1>9 DEF TailJoined, SettleChain, TypeInv, TypeOK, HookTypes, WriterInv, MainInv,
         ScriptInv, TailInv, Phases, kernelVars, runVars, tailVars, hookVars, rebindVars
    <2>3. TailInv'
      BY <1>9 DEF TailJoined, SettleChain, WriterInv, MainInv, ScriptInv, TailInv,
         TablesMatchChain, kernelVars, runVars, tailVars, hookVars, rebindVars
    <2> QED
      BY <2>1, <2>2, <2>3 DEF WriterInv
  <1>10. CASE ChildHatches
    <2>1. MainInv'
      BY <1>10 DEF ChildHatches, WriterInv, MainInv, ScriptInv, TailInv, TablesMatchChain,
         NoGate, kernelVars, runVars, tailVars, hookVars, rebindVars
    <2>2. ScriptInv'
      BY <1>10 DEF ChildHatches, TypeInv, TypeOK, HookTypes, WriterInv, MainInv, ScriptInv,
         TailInv, Phases, kernelVars, runVars, tailVars, hookVars, rebindVars
    <2>3. TailInv'
      BY <1>10 DEF ChildHatches, WriterInv, MainInv, ScriptInv, TailInv, TablesMatchChain,
         kernelVars, runVars, tailVars, hookVars, rebindVars
    <2> QED
      BY <2>1, <2>2, <2>3 DEF WriterInv
  <1>11. CASE StartResolved
    <2>1. MainInv'
      BY <1>11 DEF StartResolved, WriterInv, MainInv, ScriptInv, TailInv, TablesMatchChain,
         NoGate, kernelVars, runVars, tailVars, hookVars, rebindVars
    <2>2. ScriptInv'
      BY <1>11 DEF StartResolved, TypeInv, TypeOK, HookTypes, WriterInv, MainInv, ScriptInv,
         TailInv, Phases, kernelVars, runVars, tailVars, hookVars, rebindVars
    <2>3. TailInv'
      BY <1>11 DEF StartResolved, WriterInv, MainInv, ScriptInv, TailInv, TablesMatchChain,
         kernelVars, runVars, tailVars, hookVars, rebindVars
    <2> QED
      BY <2>1, <2>2, <2>3 DEF WriterInv
  <1>12. CASE StartRejected
    <2>1. MainInv'
      BY <1>12 DEF StartRejected, WriterInv, MainInv, ScriptInv, TailInv, TablesMatchChain,
         NoGate, kernelVars, runVars, tailVars, hookVars, rebindVars
    <2>2. ScriptInv'
      BY <1>12 DEF StartRejected, TypeInv, TypeOK, HookTypes, WriterInv, MainInv, ScriptInv,
         TailInv, Phases, kernelVars, runVars, tailVars, hookVars, rebindVars
    <2>3. TailInv'
      BY <1>12 DEF StartRejected, WriterInv, MainInv, ScriptInv, TailInv, TablesMatchChain,
         kernelVars, runVars, tailVars, hookVars, rebindVars
    <2> QED
      BY <2>1, <2>2, <2>3 DEF WriterInv
  <1>13. CASE ChildPreStep
    <2>1. MainInv'
      BY <1>13 DEF ChildPreStep, WriterInv, MainInv, ScriptInv, TailInv, TablesMatchChain,
         NoGate, kernelVars, runVars, tailVars, hookVars, rebindVars
    <2>2. ScriptInv'
      BY <1>13 DEF ChildPreStep, TypeInv, TypeOK, HookTypes, WriterInv, MainInv, ScriptInv,
         TailInv, Phases, kernelVars, runVars, tailVars, hookVars, rebindVars
    <2>3. TailInv'
      BY <1>13 DEF ChildPreStep, WriterInv, MainInv, ScriptInv, TailInv, TablesMatchChain,
         kernelVars, runVars, tailVars, hookVars, rebindVars
    <2> QED
      BY <2>1, <2>2, <2>3 DEF WriterInv
  <1>14. CASE ChildPassesBar
    <2>1. MainInv'
      BY <1>14 DEF ChildPassesBar, WriterInv, MainInv, ScriptInv, TailInv, TablesMatchChain,
         NoGate, kernelVars, runVars, tailVars, hookVars, rebindVars
    <2>2. ScriptInv'
      BY <1>14 DEF ChildPassesBar, TypeInv, TypeOK, HookTypes, WriterInv, MainInv,
         ScriptInv, TailInv, Phases, kernelVars, runVars, tailVars, hookVars, rebindVars
    <2>3. TailInv'
      BY <1>14 DEF ChildPassesBar, WriterInv, MainInv, ScriptInv, TailInv, TablesMatchChain,
         kernelVars, runVars, tailVars, hookVars, rebindVars
    <2> QED
      BY <2>1, <2>2, <2>3 DEF WriterInv
  <1>15. CASE \E o \in {"ok", "failed"} : ChildEnds(o)
    <2>1. MainInv'
      BY <1>15 DEF ChildEnds, WriterInv, MainInv, ScriptInv, TailInv, TablesMatchChain,
         NoGate, kernelVars, runVars, tailVars, hookVars, rebindVars
    <2>2. ScriptInv'
      BY <1>15 DEF ChildEnds, TypeInv, TypeOK, HookTypes, WriterInv, MainInv, ScriptInv,
         TailInv, Phases, kernelVars, runVars, tailVars, hookVars, rebindVars
    <2>3. TailInv'
      BY <1>15 DEF ChildEnds, WriterInv, MainInv, ScriptInv, TailInv, TablesMatchChain,
         kernelVars, runVars, tailVars, hookVars, rebindVars
    <2> QED
      BY <2>1, <2>2, <2>3 DEF WriterInv
  <1>16. CASE ResultSettled
    <2>1. MainInv'
      BY <1>16 DEF ResultSettled, WriterInv, MainInv, ScriptInv, TailInv, TablesMatchChain,
         NoGate, kernelVars, runVars, tailVars, hookVars, rebindVars
    <2>2. ScriptInv'
      BY <1>16 DEF ResultSettled, TypeInv, TypeOK, HookTypes, WriterInv, MainInv, ScriptInv,
         TailInv, Phases, kernelVars, runVars, tailVars, hookVars, rebindVars
    <2>3. TailInv'
      BY <1>16 DEF ResultSettled, WriterInv, MainInv, ScriptInv, TailInv, TablesMatchChain,
         kernelVars, runVars, tailVars, hookVars, rebindVars
    <2> QED
      BY <2>1, <2>2, <2>3 DEF WriterInv
  <1>17. CASE WriteTailSnapshot
    <2>1. MainInv'
      BY <1>17 DEF WriteTailSnapshot, WriterInv, MainInv, ScriptInv, TailInv,
         TablesMatchChain, NoGate, kernelVars, runVars, tailVars, hookVars, rebindVars
    <2>2. ScriptInv'
      BY <1>17 DEF WriteTailSnapshot, TypeInv, TypeOK, HookTypes, WriterInv, MainInv,
         ScriptInv, TailInv, Phases, kernelVars, runVars, tailVars, hookVars, rebindVars
    <2>3. TailInv'
      BY <1>17 DEF WriteTailSnapshot, WriterInv, MainInv, ScriptInv, TailInv,
         TablesMatchChain, kernelVars, runVars, tailVars, hookVars, rebindVars
    <2> QED
      BY <2>1, <2>2, <2>3 DEF WriterInv
  <1>18. CASE TailAfterDone
    <2>1. MainInv'
      BY <1>18 DEF TailAfterDone, PhaseOver, InPhase, WriterInv, MainInv, ScriptInv,
         TailInv, TablesMatchChain, NoGate, kernelVars, runVars, tailVars, hookVars,
         rebindVars
    <2>2. ScriptInv'
      BY <1>18 DEF TailAfterDone, PhaseOver, InPhase, TypeInv, TypeOK, HookTypes, WriterInv,
         MainInv, ScriptInv, TailInv, Phases, kernelVars, runVars, tailVars, hookVars,
         rebindVars
    <2>3. TailInv'
      BY <1>18 DEF TailAfterDone, PhaseOver, InPhase, WriterInv, MainInv, ScriptInv,
         TailInv, TablesMatchChain, kernelVars, runVars, tailVars, hookVars, rebindVars
    <2> QED
      BY <2>1, <2>2, <2>3 DEF WriterInv
  <1>19. CASE \E p \in Phases : ReadHooks(p)
    <2>1. MainInv'
      BY <1>19 DEF ReadHooks, WriterInv, MainInv, ScriptInv, TailInv, TablesMatchChain,
         NoGate, kernelVars, runVars, tailVars, hookVars, rebindVars
    <2>2. ScriptInv'
      BY <1>19 DEF ReadHooks, TypeInv, TypeOK, HookTypes, WriterInv, MainInv, ScriptInv,
         TailInv, Phases, kernelVars, runVars, tailVars, hookVars, rebindVars
    <2>3. TailInv'
      BY <1>19 DEF ReadHooks, WriterInv, MainInv, ScriptInv, TailInv, TablesMatchChain,
         kernelVars, runVars, tailVars, hookVars, rebindVars
    <2> QED
      BY <2>1, <2>2, <2>3 DEF WriterInv
  <1>20. CASE \E p \in Phases : StartHook(p)
    <2>1. MainInv'
      BY <1>20 DEF StartHook, NextScript, InPhase, WriterInv, MainInv, ScriptInv, TailInv,
         TablesMatchChain, NoGate, kernelVars, runVars, tailVars, hookVars, rebindVars
    <2>2. ScriptInv'
      BY <1>20 DEF StartHook, NextScript, InPhase, TypeInv, TypeOK, HookTypes, WriterInv,
         MainInv, ScriptInv, TailInv, Phases, kernelVars, runVars, tailVars, hookVars,
         rebindVars
    <2>3. TailInv'
      BY <1>20 DEF StartHook, NextScript, InPhase, WriterInv, MainInv, ScriptInv, TailInv,
         TablesMatchChain, kernelVars, runVars, tailVars, hookVars, rebindVars
    <2> QED
      BY <2>1, <2>2, <2>3 DEF WriterInv
  <1>21. CASE \E p \in Phases : EndHook(p)
    <2>1. MainInv'
      BY <1>21 DEF EndHook, WriterInv, MainInv, ScriptInv, TailInv, TablesMatchChain,
         NoGate, kernelVars, runVars, tailVars, hookVars, rebindVars
    <2>2. ScriptInv'
      BY <1>21 DEF EndHook, TypeInv, TypeOK, HookTypes, WriterInv, MainInv, ScriptInv,
         TailInv, Phases, kernelVars, runVars, tailVars, hookVars, rebindVars
    <2>3. TailInv'
      BY <1>21 DEF EndHook, WriterInv, MainInv, ScriptInv, TailInv, TablesMatchChain,
         kernelVars, runVars, tailVars, hookVars, rebindVars
    <2> QED
      BY <2>1, <2>2, <2>3 DEF WriterInv
  <1>22. CASE Cancel
    <2>1. MainInv'
      BY <1>22 DEF Cancel, WriterInv, MainInv, ScriptInv, TailInv, TablesMatchChain, NoGate,
         kernelVars, runVars, tailVars, hookVars, rebindVars
    <2>2. ScriptInv'
      BY <1>22 DEF Cancel, TypeInv, TypeOK, HookTypes, WriterInv, MainInv, ScriptInv,
         TailInv, Phases, kernelVars, runVars, tailVars, hookVars, rebindVars
    <2>3. TailInv'
      BY <1>22 DEF Cancel, WriterInv, MainInv, ScriptInv, TailInv, TablesMatchChain,
         kernelVars, runVars, tailVars, hookVars, rebindVars
    <2> QED
      BY <2>1, <2>2, <2>3 DEF WriterInv
  <1>23. CASE Stop
    <2>1. MainInv'
      BY <1>23 DEF Stop, AbortRun, WriterInv, MainInv, ScriptInv, TailInv, TablesMatchChain,
         NoGate, kernelVars, runVars, tailVars, hookVars, rebindVars
    <2>2. ScriptInv'
      BY <1>23 DEF Stop, AbortRun, TypeInv, TypeOK, HookTypes, WriterInv, MainInv,
         ScriptInv, TailInv, Phases, kernelVars, runVars, tailVars, hookVars, rebindVars
    <2>3. TailInv'
      BY <1>23 DEF Stop, AbortRun, WriterInv, MainInv, ScriptInv, TailInv, TablesMatchChain,
         kernelVars, runVars, tailVars, hookVars, rebindVars
    <2> QED
      BY <2>1, <2>2, <2>3 DEF WriterInv
  <1>24. CASE Rebind
    <2>1. MainInv'
      BY <1>24 DEF Rebind, LoadFence, LoadCreates, ResetCreates, RebindLands, WriterInv,
         MainInv, ScriptInv, TailInv, TablesMatchChain, NoGate, kernelVars, runVars,
         tailVars, hookVars, rebindVars
    <2>2. ScriptInv'
      BY <1>24 DEF Rebind, LoadFence, LoadCreates, ResetCreates, RebindLands, TypeInv,
         TypeOK, HookTypes, WriterInv, MainInv, ScriptInv, TailInv, Phases, kernelVars,
         runVars, tailVars, hookVars, rebindVars
    <2>3. TailInv'
      BY <1>24 DEF Rebind, LoadFence, LoadCreates, ResetCreates, RebindLands, WriterInv,
         MainInv, ScriptInv, TailInv, TablesMatchChain, kernelVars, runVars, tailVars,
         hookVars, rebindVars
    <2> QED
      BY <2>1, <2>2, <2>3 DEF WriterInv
  <1>25. CASE Crash
    <2>1. MainInv'
      BY <1>25 DEF Crash, WriterInv, MainInv, ScriptInv, TailInv, TablesMatchChain, NoGate,
         kernelVars, runVars, tailVars, hookVars, rebindVars
    <2>2. ScriptInv'
      BY <1>25 DEF Crash, TypeInv, TypeOK, HookTypes, WriterInv, MainInv, ScriptInv,
         TailInv, Phases, kernelVars, runVars, tailVars, hookVars, rebindVars
    <2>3. TailInv'
      BY <1>25 DEF Crash, WriterInv, MainInv, ScriptInv, TailInv, TablesMatchChain,
         kernelVars, runVars, tailVars, hookVars, rebindVars
    <2> QED
      BY <2>1, <2>2, <2>3 DEF WriterInv
  <1>26. CASE UNCHANGED vars
    <2>1. MainInv'
      BY <1>26 DEF vars, WriterInv, MainInv, ScriptInv, TailInv, TablesMatchChain, NoGate,
         kernelVars, runVars, tailVars, hookVars, rebindVars
    <2>2. ScriptInv'
      BY <1>26 DEF vars, TypeInv, TypeOK, HookTypes, WriterInv, MainInv, ScriptInv, TailInv,
         Phases, kernelVars, runVars, tailVars, hookVars, rebindVars
    <2>3. TailInv'
      BY <1>26 DEF vars, WriterInv, MainInv, ScriptInv, TailInv, TablesMatchChain,
         kernelVars, runVars, tailVars, hookVars, rebindVars
    <2> QED
      BY <2>1, <2>2, <2>3 DEF WriterInv
  <1> QED
    BY <1>1, <1>2, <1>3, <1>4, <1>5, <1>6, <1>7, <1>8, <1>9, <1>10, <1>11, <1>12, <1>13, <1>14, <1>15, <1>16, <1>17, <1>18, <1>19, <1>20, <1>21, <1>22, <1>23, <1>24, <1>25, <1>26
    DEF Next, Kernel, Chain, TailPhase, HookPhase, Player

LEMMA WriterInvariant ==
  ASSUME Undisturbed
  PROVE  Spec => []WriterInv
  <1>1. TypeInv /\ WriterInv /\ [Next]_vars => WriterInv'
    BY NextWriterInv
  <1> QED
    BY TypeInvariant, InitWriterInv, <1>1, PTL DEF Spec

\* The main agent's step, a main.after script, the tail child's step and a
\* tail.after script never run together, whatever the player stops or cancels
\* and wherever the process dies.
THEOREM WritersExclude ==
  ASSUME Undisturbed
  PROVE  Spec => []OneWriter
  <1>1. WriterInv => OneWriter
    BY DEF WriterInv, MainInv, ScriptInv, TailInv, OneWriter, Writers, Phases
  <1> QED
    BY WriterInvariant, <1>1, PTL

\* state().tailRunning is true exactly while a chain runs, and stop finds the
\* run of that chain.
THEOREM TablesFollowChain ==
  ASSUME Undisturbed
  PROVE  Spec => []TablesMatchChain
  <1>1. WriterInv => TablesMatchChain
    BY DEF WriterInv, MainInv
  <1> QED
    BY WriterInvariant, <1>1, PTL

-----------------------------------------------------------------------------
(* The tail before its hooks. The stages of the tail phase tell what has     *)
(* happened to the child and to the narration file; this needs neither the   *)
(* tables nor well-behaved files.                                            *)

TailStages ==
  /\ hookRunning["tail.after"] => tail = "tail.after"
  /\ tail \in {"write", "tail.after"} => child = "ok"
  /\ tail = "tail.after" => tailFile = gate

LEMMA InitTailStages == Init => TailStages
  BY DEF Init, TailStages, Phases

LEMMA NextTailStages == TypeInv /\ TailStages /\ [Next]_vars => TailStages'
  <1> SUFFICES ASSUME TypeInv, TailStages, [Next]_vars PROVE TailStages'
    OBVIOUS
  <1>a. hookRunning \in [Phases -> BOOLEAN] /\ Phases = {"main.after", "tail.after"}
    BY DEF TypeInv, TypeOK, HookTypes, Phases
  \* What leaves the tail phase, its hooks, its file and the gate alone.
  <1>1. CASE UNCHANGED <<hookRunning, tail, child, tailFile, gate>>
    BY <1>1 DEF TailStages
  <1>2. CASE NotifyTailSettled \/ Player \/ Rebind \/ UNCHANGED vars
             \/ PreStep \/ EnterStep \/ NextStep \/ TurnStart
             \/ \E p \in Phases : ReadHooks(p)
    <2>1. UNCHANGED <<hookRunning, tail, child, tailFile, gate>>
      BY <1>2 DEF NotifyTailSettled, Player, Submit, Cancel, Stop, AbortRun, Rebind, LoadFence,
                  LoadCreates, ResetCreates, RebindLands, vars, PreStep, EnterStep, NextStep,
                  TurnStart, ReadHooks, tailVars, hookVars
    <2> QED
      BY <1>1, <2>1
  \* A new chain starts with no script and no child.
  <1>3. CASE \E r \in Reasons : TurnEnd(r)
    <2>1. PICK r \in Reasons : TurnEnd(r)
      BY <1>3
    <2>2. CASE beginTurnSettlement \/ FailTurnSettlement
      <3>1. ~hookRunning'["tail.after"] /\ tail' \in {"off", "start"}
        BY <1>a, <2>2 DEF beginTurnSettlement, FailTurnSettlement
      <3> QED
        BY <3>1 DEF TailStages
    <2>3. CASE UNCHANGED <<gate, tailVars, hookVars>>
      BY <1>1, <2>1, <2>3 DEF TurnEnd, TurnCloses, tailVars, hookVars
    <2> QED
      BY <2>1, <2>2, <2>3 DEF TurnEnd
  <1>4. CASE \E p \in Phases : StartHook(p)
    <2>1. UNCHANGED <<tail, child, tailFile, gate>>
      BY <1>4 DEF StartHook, tailVars
    <2>2. hookRunning'["tail.after"] => hookRunning["tail.after"] \/ tail = "tail.after"
      BY <1>a, <1>4 DEF StartHook, NextScript, InPhase
    <2> QED
      BY <2>1, <2>2 DEF TailStages
  <1>5. CASE \E p \in Phases : EndHook(p)
    <2>1. UNCHANGED <<tail, child, tailFile, gate>>
      BY <1>5 DEF EndHook, tailVars
    <2>2. hookRunning'["tail.after"] => hookRunning["tail.after"]
      BY <1>a, <1>5 DEF EndHook
    <2> QED
      BY <2>1, <2>2 DEF TailStages
  \* The gate goes only when the tail phase is over or never was.
  <1>6. CASE MainAfterDone \/ TailJoined
    BY <1>6 DEF MainAfterDone, TailJoined, TailStages, tailVars, hookVars
  <1>7. CASE ChildHatches \/ StartResolved \/ StartRejected \/ ChildPreStep \/ ChildPassesBar
    BY <1>7 DEF ChildHatches, StartResolved, StartRejected, ChildPreStep, ChildPassesBar,
                TailStages, hookVars
  <1>8. CASE \E o \in {"ok", "failed"} : ChildEnds(o)
    BY <1>8 DEF ChildEnds, TailStages, hookVars
  <1>9. CASE ResultSettled \/ WriteTailSnapshot
    BY <1>9 DEF ResultSettled, WriteTailSnapshot, TailStages, hookVars
  <1>10. CASE TailAfterDone
    BY <1>10 DEF TailAfterDone, PhaseOver, TailStages, hookVars
  <1>11. CASE Crash
    <2>1. ~hookRunning'["tail.after"] /\ tail' = "off"
      BY <1>a, <1>11 DEF Crash
    <2> QED
      BY <2>1 DEF TailStages
  <1> QED
    BY <1>2, <1>3, <1>4, <1>5, <1>6, <1>7, <1>8, <1>9, <1>10, <1>11
    DEF Next, Kernel, HookPhase, Chain, TailPhase

\* A tail.after script finds its own turn's narration file and a child that has
\* played to its end, also when files fail, the player rebinds or a gate leaked.
THEOREM HooksFollowTail == Spec => []TailAfterFollowsTail
  <1>1. TypeInv /\ TailStages /\ [Next]_vars => TailStages'
    BY NextTailStages
  <1>2. TailStages => TailAfterFollowsTail
    BY DEF TailStages, TailAfterFollowsTail
  <1> QED
    BY TypeInvariant, InitTailStages, <1>1, <1>2, PTL DEF Spec

-----------------------------------------------------------------------------
(* The abort and the fork. Whoever comes first, the stop or the answer of    *)
(* start(), leaves to the other what it cannot do itself.                    *)

ChildOnRecord ==
  /\ child # "none" /\ tail \notin {"off", "start"} => childKnown
  /\ child # "none" => tail # "off"
  /\ aborted /\ childKnown => childCancelled

LEMMA NextChildOnRecord == TypeInv /\ ChildOnRecord /\ [Next]_vars => ChildOnRecord'
  <1> SUFFICES ASSUME TypeInv, ChildOnRecord, [Next]_vars PROVE ChildOnRecord'
    OBVIOUS
  <1>a. aborted \in BOOLEAN /\ childKnown \in BOOLEAN /\ childCancelled \in BOOLEAN
    BY DEF TypeInv, TypeOK, FlagTypes
  \* What leaves the run's abort signal and the tail phase alone.
  <1>1. CASE UNCHANGED <<aborted, tail, childKnown, child, childCancelled>>
    BY <1>1 DEF ChildOnRecord
  <1>2. CASE NotifyTailSettled \/ HookPhase \/ Submit \/ Cancel \/ UNCHANGED vars
             \/ PreStep \/ EnterStep \/ NextStep \/ TurnStart
             \/ LoadCreates \/ ResetCreates \/ RebindLands \/ Chain
    <2>1. UNCHANGED <<aborted, tail, childKnown, child, childCancelled>>
      BY <1>2 DEF NotifyTailSettled, HookPhase, ReadHooks, StartHook, EndHook, Submit, Cancel,
                  LoadCreates, ResetCreates, RebindLands, vars, PreStep, EnterStep, NextStep,
                  TurnStart, Chain, MainAfterDone, TailJoined, SettleChain, tailVars, runVars
    <2> QED
      BY <1>1, <2>1
  <1>3. CASE \E r \in Reasons : TurnEnd(r)
    <2>1. PICK r \in Reasons : TurnEnd(r)
      BY <1>3
    <2>2. CASE beginTurnSettlement \/ FailTurnSettlement
      BY <2>2 DEF beginTurnSettlement, FailTurnSettlement, ChildOnRecord
    <2>3. CASE UNCHANGED <<runVars, tailVars>>
      BY <1>1, <2>3 DEF tailVars, runVars
    <2> QED
      BY <2>1, <2>2, <2>3 DEF TurnEnd
  <1>4. CASE ChildHatches \/ StartResolved \/ StartRejected
    <2>1. CASE ChildHatches
      BY <2>1 DEF ChildHatches, ChildOnRecord, runVars
    <2>2. CASE StartResolved
      BY <1>a, <2>2 DEF StartResolved, ChildOnRecord, runVars
    <2>3. CASE StartRejected
      BY <2>3 DEF StartRejected, ChildOnRecord, runVars
    <2> QED
      BY <1>4, <2>1, <2>2, <2>3
  <1>5. CASE \/ ChildPreStep \/ ChildPassesBar \/ \E o \in {"ok", "failed"} : ChildEnds(o)
             \/ ResultSettled \/ WriteTailSnapshot \/ TailAfterDone
    <2>1. UNCHANGED <<aborted, childKnown, childCancelled>> /\ (child' # "none" => child # "none")
      BY <1>5 DEF ChildPreStep, ChildPassesBar, ChildEnds, ResultSettled, WriteTailSnapshot,
                  TailAfterDone, runVars
    <2>2. CASE ChildPreStep \/ ChildPassesBar \/ \E o \in {"ok", "failed"} : ChildEnds(o)
      BY <2>1, <2>2 DEF ChildPreStep, ChildPassesBar, ChildEnds, ChildOnRecord
    <2>3. CASE ResultSettled
      BY <2>1, <2>3 DEF ResultSettled, ChildOnRecord
    <2>4. CASE WriteTailSnapshot \/ TailAfterDone
      BY <2>1, <2>4 DEF WriteTailSnapshot, TailAfterDone, ChildOnRecord
    <2> QED
      BY <1>5, <2>2, <2>3, <2>4
  <1>6. CASE Stop \/ LoadFence
    BY <1>a, <1>6 DEF Stop, LoadFence, AbortRun, runVars, tailVars, ChildOnRecord
  <1>7. CASE Crash
    BY <1>7 DEF Crash, ChildOnRecord
  <1> QED
    BY <1>2, <1>3, <1>4, <1>5, <1>6, <1>7 DEF Next, Kernel, Chain, TailPhase, Player, Rebind

\* A stop or a load cancels the tail child although start() has not told its id
\* yet, for all bounds, failing files, leaked gates and rebinds included.
THEOREM AbortCancelsChild == Spec => []AbortReachesChild
  <1>1. Init => ChildOnRecord
    BY DEF Init, ChildOnRecord
  <1>2. ChildOnRecord => AbortReachesChild
    BY DEF ChildOnRecord, AbortReachesChild
  <1> QED
    BY TypeInvariant, <1>1, <1>2, NextChildOnRecord, PTL DEF Spec

-----------------------------------------------------------------------------
(* Two promises about steps: what an abort stops, and which turns are        *)
(* archived.                                                                 *)

\* Once a run is aborted, by stop or by load, no further script of it starts,
\* whatever fails and whoever rebinds.
THEOREM AbortStopsHooks == Spec => NoHookAfterAbort
  <1>1. ASSUME TypeInv, [Next]_vars, aborted, NEW p \in Phases, hookRunning'[p]
        PROVE  hookRunning[p]
    <2>a. hookRunning \in [Phases -> BOOLEAN]
      BY <1>1 DEF TypeInv, TypeOK, HookTypes
    <2>1. CASE UNCHANGED hookRunning
      BY <1>1, <2>1
    <2>2. CASE HookPhase
      BY <1>1, <2>a, <2>2 DEF HookPhase, ReadHooks, StartHook, NextScript, EndHook
    <2>3. CASE \E r \in Reasons : TurnEnd(r)
      BY <1>1, <2>3 DEF TurnEnd, beginTurnSettlement, FailTurnSettlement, hookVars
    <2>4. CASE Crash
      BY <1>1, <2>4 DEF Crash
    <2>5. CASE NotifyTailSettled \/ Chain \/ TailPhase \/ Player \/ Rebind \/ UNCHANGED vars
               \/ PreStep \/ EnterStep \/ NextStep \/ TurnStart
      <3>1. UNCHANGED hookRunning
        BY <2>5 DEF NotifyTailSettled, Chain, MainAfterDone, TailJoined, TailPhase, ChildHatches,
                    StartResolved, StartRejected, ChildPreStep, ChildPassesBar, ChildEnds,
                    ResultSettled, WriteTailSnapshot, TailAfterDone, Player, Submit, Cancel, Stop,
                    Rebind, LoadFence, LoadCreates, ResetCreates, RebindLands, vars, PreStep,
                    EnterStep, NextStep, TurnStart, hookVars
      <3> QED
        BY <2>1, <3>1
    <2> QED
      BY <1>1, <2>2, <2>3, <2>4, <2>5 DEF Next, Kernel
  <1>2. TypeInv /\ [Next]_vars => [aborted => \A p \in Phases : hookRunning'[p] => hookRunning[p]]_vars
    BY <1>1
  <1> QED
    BY TypeInvariant, <1>2, PTL DEF Spec, NoHookAfterAbort

\* While a turn is open, the engine's mark says whether stop was pressed in it.
StopMarked == bound /\ (main # "idle" => stopped = pressed)

LEMMA NextStopMarked ==
  Undisturbed /\ TypeInv /\ WriterInv /\ StopMarked /\ [Next]_vars => StopMarked'
  <1> SUFFICES ASSUME Undisturbed, TypeInv, WriterInv, StopMarked, [Next]_vars PROVE StopMarked'
    OBVIOUS
  <1>1. CASE UNCHANGED <<bound, main, stopped, pressed>>
    BY <1>1 DEF StopMarked
  <1>2. CASE PreStep \/ EnterStep \/ NextStep
    BY <1>2 DEF PreStep, EnterStep, NextStep, StopMarked, playerVars
  <1>3. CASE TurnStart
    BY <1>3 DEF TurnStart, DropStopMark, StopMarked
  <1>4. CASE \E r \in Reasons : TurnEnd(r)
    BY <1>4 DEF TurnEnd, TurnCloses, StopMarked
  <1>5. CASE Stop
    BY <1>5 DEF Stop, StopMarked
  <1>6. CASE Crash
    BY <1>6 DEF Crash, StopMarked, WriterInv, MainInv
  <1>7. CASE Rebind
    BY <1>7 DEF Rebind, LoadFence, LoadCreates, ResetCreates, RebindLands, WriterInv, MainInv,
                Undisturbed
  <1>8. CASE NotifyTailSettled \/ HookPhase \/ Chain \/ TailPhase \/ Submit \/ Cancel \/ UNCHANGED vars
    <2>1. UNCHANGED <<bound, main, stopped, pressed>>
      BY <1>8 DEF NotifyTailSettled, HookPhase, ReadHooks, StartHook, EndHook, Chain, MainAfterDone,
                  TailJoined, TailPhase, ChildHatches, StartResolved, StartRejected, ChildPreStep,
                  ChildPassesBar, ChildEnds, ResultSettled, WriteTailSnapshot, TailAfterDone,
                  Submit, Cancel, vars, kernelVars, playerVars
    <2> QED
      BY <1>1, <2>1
  <1> QED
    BY <1>2, <1>3, <1>4, <1>5, <1>6, <1>7, <1>8 DEF Next, Kernel, Player

\* A completed turn gets its bookkeeping exactly if stop was not pressed in it: a
\* stop at rest, under a gate or in an earlier turn does not count.
THEOREM StoppedAreNotArchived ==
  ASSUME Undisturbed
  PROVE  Spec => ArchivedUnlessStopped
  <1>1. Init => StopMarked
    BY DEF Init, StopMarked
  <1>2. TypeInv /\ WriterInv /\ StopMarked /\ [Next]_vars => StopMarked'
    BY NextStopMarked
  <1>3. ASSUME TypeInv, WriterInv, StopMarked, Next, bound, main # "idle", main' = "idle",
               crashes' = crashes
        PROVE  (chain = "off" /\ chain' # "off") = (log'[Len(log')] = "completed" /\ ~pressed)
    <2>1. PICK r \in Reasons : TurnEnd(r)
      <3>1. ~Crash
        <4>1. crashes \in Nat
          BY <1>3, BoundsAssumption DEF TypeInv, TypeOK, NumberTypes
        <4>2. Crash => crashes' = crashes + 1
          BY DEF Crash
        <4> QED
          BY <1>3, <4>1, <4>2
      <3>2. ~(PreStep \/ EnterStep \/ NextStep \/ TurnStart)
        BY <1>3 DEF PreStep, EnterStep, NextStep, TurnStart
      <3>3. ~(NotifyTailSettled \/ HookPhase \/ Chain \/ TailPhase \/ Player \/ Rebind)
        BY <1>3 DEF NotifyTailSettled, HookPhase, ReadHooks, StartHook, EndHook, Chain, MainAfterDone,
                  TailJoined, TailPhase, ChildHatches, StartResolved, StartRejected, ChildPreStep,
                  ChildPassesBar, ChildEnds, ResultSettled, WriteTailSnapshot, TailAfterDone,
                  Player, Submit, Cancel, Stop, Rebind, LoadFence, LoadCreates, ResetCreates,
                  RebindLands, kernelVars
      <3> QED
        BY <1>3, <3>1, <3>2, <3>3 DEF Next, Kernel
    <2>2. log'[Len(log')] = r
      BY <1>3, <2>1 DEF TurnEnd, TurnCloses, TypeInv, TypeOK, NumberTypes, Reasons
    <2>3. r = "completed" => chain = "off" /\ gate = NoGate
      BY <1>3, <2>1 DEF TurnEnd, TurnCloses, WriterInv, MainInv, TablesMatchChain
    <2>4. stopped = pressed
      BY <1>3 DEF StopMarked
    <2>5. CASE r = "completed" /\ ~stopped
      <3>1. chain' # "off"
        BY <1>3, <2>1, <2>3, <2>5 DEF TurnEnd, beginTurnSettlement, FailTurnSettlement, Undisturbed
      <3> QED
        BY <2>2, <2>3, <2>4, <2>5, <3>1
    <2>6. CASE r # "completed" \/ stopped
      <3>1. chain' = chain
        BY <1>3, <2>1, <2>6 DEF TurnEnd
      <3> QED
        BY <1>3, <2>2, <2>4, <2>6, <3>1 DEF TypeInv, TypeOK, FlagTypes
    <2> QED
      BY <2>5, <2>6
  <1>4. TypeInv /\ WriterInv /\ StopMarked /\ [Next]_vars =>
          [bound /\ main # "idle" /\ main' = "idle" /\ crashes' = crashes
             => (chain = "off" /\ chain' # "off")
                  = (log'[Len(log')] = "completed" /\ ~pressed)]_vars
    BY <1>3
  <1> QED
    BY TypeInvariant, WriterInvariant, <1>1, <1>2, <1>4, PTL DEF Spec, ArchivedUnlessStopped


(***************************************************************************)
(* The settlement of turns implements NarrativeTurns, for every number of  *)
(* turns, stops, crashes and hooks: every step of the engine is a step of  *)
(* the promised protocol or leaves its four variables alone.               *)
(***************************************************************************)
-----------------------------------------------------------------------------
(* The refinement mapping, read off the engine's program counters.          *)

\* Under one writer the abstract holder is whoever is at work.
HolderFacts ==
  /\ HolderHere \in {"none", "main", "main.after", "tail", "tail.after"}
  /\ HolderHere = "main" <=> main = "step"
  /\ HolderHere = "tail" <=> child = "step"
  /\ HolderHere = "main.after" <=> hookRunning["main.after"]
  /\ HolderHere = "tail.after" <=> hookRunning["tail.after"]

LEMMA HolderNow == OneWriter => HolderFacts
  <1> SUFFICES ASSUME OneWriter PROVE HolderFacts
    OBVIOUS
  <1>1. /\ Writers \subseteq {"main", "main.after", "tail", "tail.after"}
        /\ "main" \in Writers <=> main = "step"
        /\ "tail" \in Writers <=> child = "step"
        /\ "main.after" \in Writers <=> hookRunning["main.after"]
        /\ "tail.after" \in Writers <=> hookRunning["tail.after"]
    BY DEF Writers, Phases
  <1>2. CASE Writers = {}
    BY <1>1, <1>2 DEF HolderHere, HolderFacts
  <1>3. CASE Writers # {}
    <2>1. HolderHere \in Writers
      BY <1>3 DEF HolderHere
    <2>2. \A w \in Writers : w = HolderHere
      BY <2>1 DEF OneWriter
    <2> QED
      BY <1>1, <2>1, <2>2 DEF HolderFacts
  <1> QED
    BY <1>2, <1>3

LEMMA HolderNext == OneWriter' => HolderFacts'
  <1> SUFFICES ASSUME OneWriter' PROVE HolderFacts'
    OBVIOUS
  <1>1. /\ Writers' \subseteq {"main", "main.after", "tail", "tail.after"}
        /\ "main" \in Writers' <=> main' = "step"
        /\ "tail" \in Writers' <=> child' = "step"
        /\ "main.after" \in Writers' <=> hookRunning'["main.after"]
        /\ "tail.after" \in Writers' <=> hookRunning'["tail.after"]
    BY DEF Writers, Phases
  <1>2. CASE Writers' = {}
    BY <1>1, <1>2 DEF HolderHere, HolderFacts
  <1>3. CASE Writers' # {}
    <2>1. HolderHere' \in Writers'
      BY <1>3 DEF HolderHere
    <2>2. \A w \in Writers' : w = HolderHere'
      BY <2>1 DEF OneWriter
    <2> QED
      BY <1>1, <2>1, <2>2 DEF HolderFacts
  <1> QED
    BY <1>2, <1>3

\* A new turn leaves the debt as it is, a signal pays it.
LEMMA StartKeepsDebt ==
  ASSUME TypeOK, log' = Append(log, "turn/start")
  PROVE  Owed' = Owed
  <1>1. Len(log') = Len(log) + 1 /\ log'[Len(log) + 1] = "turn/start" /\ Len(log) \in Nat
    BY DEF TypeOK, NumberTypes, Reasons
  <1>2. \A i \in 1..Len(log) : log'[i] = log[i]
    BY DEF TypeOK, NumberTypes, Reasons
  <1>3. TurnEnds' = TurnEnds
    BY <1>1, <1>2 DEF TurnEnds, Reasons
  <1>4. ASSUME NEW e \in TurnEnds
        PROVE  (\A i \in e+1..Len(log') : log'[i] # "command/done")
                 <=> (\A i \in e+1..Len(log) : log[i] # "command/done")
    BY <1>1, <1>2 DEF TurnEnds
  <1> QED
    BY <1>3, <1>4 DEF Owed

LEMMA SignalPaysDebt ==
  ASSUME TypeOK, log' = Append(log, "command/done")
  PROVE  Owed' = FALSE
  <1>1. Len(log') = Len(log) + 1 /\ log'[Len(log) + 1] = "command/done" /\ Len(log) \in Nat
    BY DEF TypeOK, NumberTypes, Reasons
  <1>2. \A e \in TurnEnds' : e \in 1..Len(log)
    BY <1>1 DEF TurnEnds, Reasons
  <1> QED
    BY <1>1, <1>2 DEF Owed

\* While no chain runs, nobody but the main agent writes.
LEMMA NoChainNoWork ==
  ASSUME WriterInv, chain = "off"
  PROVE  child # "step" /\ ~hookRunning["main.after"] /\ ~hookRunning["tail.after"]
  BY DEF WriterInv, ScriptInv, TailInv

-----------------------------------------------------------------------------
(* The simulation, one step per action of the engine.                       *)

ImplInv == TypeInv /\ SignalInv /\ WriterInv /\ OneWriter

LEMMA InitImplements == Init => NT!Init
  <1> SUFFICES ASSUME Init PROVE NT!Init
    OBVIOUS
  <1>1. ~Owed
    BY DEF Init, Owed, TurnEnds
  <1>2. StageHere = 0
    BY DEF Init, StageHere
  <1>3. Writers = {}
    BY DEF Init, Writers, Phases
  <1>4. HolderHere = "none"
    BY <1>3 DEF HolderHere
  <1> QED
    BY <1>1, <1>2, <1>4 DEF Init, NT!Init

LEMMA StepImplements ==
  Undisturbed /\ ImplInv /\ ImplInv' /\ [Next]_vars => [NT!Next]_(NT!turnVars)
  <1> SUFFICES ASSUME Undisturbed, ImplInv, ImplInv', [Next]_vars
               PROVE  NT!Next \/ UNCHANGED NT!turnVars
    OBVIOUS
  <1>a. HolderFacts /\ HolderFacts'
    BY HolderNow, HolderNext DEF ImplInv
  <1>b. TypeOK /\ WriterInv /\ SignalInv /\ MainInv /\ ScriptInv /\ TailInv /\ TablesMatchChain
    BY DEF ImplInv, TypeInv, WriterInv, MainInv
  <1>c. hookRunning \in [Phases -> BOOLEAN] /\ Phases = {"main.after", "tail.after"}
    BY <1>b DEF TypeOK, HookTypes, Phases
  <1>d. /\ chain \in {"off", "main.after", "join"}
        /\ StageHere = 0 <=> chain = "off"
        /\ StageHere = 1 <=> chain = "main.after"
        /\ StageHere = 2 <=> chain = "join" /\ tail \notin {"tail.after", "done"}
        /\ StageHere \in 0..3
    BY <1>b DEF StageHere, TypeOK, ControlTypes
  <1>e. /\ StageHere' = 0 <=> chain' = "off"
        /\ StageHere' = 1 <=> chain' = "main.after"
        /\ StageHere' = 2 <=> chain' = "join" /\ tail' \notin {"tail.after", "done"}
        /\ StageHere' \in 0..3
    BY DEF StageHere, ImplInv, TypeInv, TypeOK, ControlTypes
  <1>f. Owed \in BOOLEAN /\ Owed' \in BOOLEAN /\ (log' = log => Owed' = Owed)
    BY DEF Owed, TurnEnds
  \* Steps that none of the four variables sees.
  <1>1. CASE UNCHANGED <<log, main, chain, tail, child, hookRunning>>
    <2>1. UNCHANGED <<Owed, StageHere>>
      BY <1>1, <1>f DEF StageHere
    <2>2. Writers' = Writers
      BY <1>1 DEF Writers
    <2>3. HolderHere' = HolderHere
      BY <2>2 DEF HolderHere
    <2> QED
      BY <1>1, <2>1, <2>3 DEF NT!turnVars
  <1>2. CASE Submit \/ Cancel \/ UNCHANGED vars \/ \E p \in Phases : ReadHooks(p)
    BY <1>1, <1>2 DEF Submit, Cancel, vars, ReadHooks, kernelVars, tailVars, hookVars
  <1>3. CASE PreStep
    BY <1>a, <1>d, <1>e, <1>f, <1>3 DEF PreStep, HolderFacts, tailVars, hookVars, NT!turnVars
  <1>4. CASE EnterStep
    <2>1. chain = "off"
      BY <1>b, <1>4 DEF EnterStep, GateSettled, MainInv, TablesMatchChain
    <2>2. child # "step" /\ ~hookRunning["main.after"] /\ ~hookRunning["tail.after"]
      BY <1>b, <2>1, NoChainNoWork
    <2>3. HolderHere = "none" /\ HolderHere' = "main" /\ StageHere = 0 /\ StageHere' = 0
      BY <1>a, <1>d, <1>e, <1>4, <2>1, <2>2 DEF EnterStep, HolderFacts
    <2>4. NT!Narrate
      BY <1>f, <1>4, <2>3 DEF EnterStep, NT!Narrate
    <2> QED
      BY <2>4 DEF NT!Next
  <1>5. CASE NextStep
    <2>1. HolderHere = "main" /\ HolderHere' \notin {"main", "main.after", "tail", "tail.after"}
      BY <1>a, <1>b, <1>5, NoChainNoWork DEF NextStep, HolderFacts, MainInv, tailVars, hookVars
    <2>2. HolderHere' = "none" /\ StageHere' = StageHere /\ Owed' = Owed
      BY <1>a, <1>f, <1>5, <2>1 DEF NextStep, HolderFacts, StageHere, tailVars
    <2>3. NT!Pause
      BY <1>5, <2>1, <2>2 DEF NextStep, NT!Pause
    <2> QED
      BY <2>3 DEF NT!Next
  <1>6. CASE TurnStart
    <2>1. Owed' = Owed
      BY <1>b, <1>6, StartKeepsDebt DEF TurnStart
    <2>2. StageHere' = StageHere
      BY <1>6 DEF TurnStart, StageHere, tailVars
    <2>3. Writers' = Writers
      BY <1>6 DEF TurnStart, Writers, tailVars, hookVars
    <2>4. HolderHere' = HolderHere
      BY <2>3 DEF HolderHere
    <2>5. NT!OpenTurn
      BY <1>6, <2>1, <2>2, <2>4 DEF TurnStart, NT!OpenTurn
    <2> QED
      BY <2>5 DEF NT!Next
  <1>7. CASE \E r \in Reasons : TurnEnd(r)
    <2>1. PICK r \in Reasons : TurnEnd(r)
      BY <1>7
    <2>2. Owed' = TRUE /\ main # "idle" /\ main' = "idle"
      BY <1>b, <1>f, <2>1, TurnEndOwes DEF TurnEnd, TurnCloses
    \* A step of the main agent holds the world and there is no chain yet.
    <2>3. CASE main = "step"
      <3>1. HolderHere = "main" /\ chain = "off" /\ gate = NoGate
        BY <1>a, <1>b, <2>3 DEF HolderFacts, MainInv, TablesMatchChain
      <3>2. chain' \in {"off", "main.after"}
        BY <1>b, <2>1, <3>1 DEF TurnEnd, beginTurnSettlement, FailTurnSettlement
      <3>3. child' # "step" /\ ~hookRunning'["main.after"] /\ ~hookRunning'["tail.after"]
        BY <1>b, <2>1, <3>1, NoChainNoWork DEF TurnEnd, beginTurnSettlement, FailTurnSettlement,
           Phases, tailVars, hookVars
      <3>4. HolderHere' = "none" /\ StageHere' \in {0, 1}
        BY <1>a, <1>e, <2>2, <3>2, <3>3 DEF HolderFacts
      <3>5. NT!CloseTurn
        BY <2>2, <3>1, <3>4 DEF NT!CloseTurn
      <3> QED
        BY <3>5 DEF NT!Next
    <2>4. CASE main # "step"
      <3>1. UNCHANGED <<chain, tail, child, hookRunning>> /\ r # "completed"
        BY <2>1, <2>4 DEF TurnEnd, TurnCloses, tailVars, hookVars
      <3>2. StageHere' = StageHere
        BY <3>1 DEF StageHere
      <3>3. Writers' = Writers
        BY <2>2, <2>4, <3>1 DEF Writers
      <3>4. HolderHere' = HolderHere /\ HolderHere # "main"
        BY <1>a, <2>4, <3>3 DEF HolderHere, HolderFacts
      <3>5. NT!CloseTurn
        BY <2>2, <3>2, <3>4 DEF NT!CloseTurn
      <3> QED
        BY <3>5 DEF NT!Next
    <2> QED
      BY <2>3, <2>4
  \* Whoever signs pays a debt, and no bookkeeper holds the world.
  <1>8. ASSUME log' = Append(log, "command/done"), Owed, chain' = "off",
               UNCHANGED <<main, child, hookRunning>>
        PROVE  NT!Next
    <2>1. Owed' = FALSE /\ StageHere' = 0
      BY <1>b, <1>e, <1>8, SignalPaysDebt
    <2>2. child' # "step" /\ ~hookRunning'["main.after"] /\ ~hookRunning'["tail.after"]
      BY <1>8 DEF ImplInv, WriterInv, ScriptInv, TailInv
    <2>3. HolderHere \notin {"main.after", "tail", "tail.after"}
      BY <1>a, <1>8, <2>2 DEF HolderFacts
    <2>4. Writers' = Writers
      BY <1>8 DEF Writers
    <2>5. HolderHere' = HolderHere
      BY <2>4 DEF HolderHere
    <2>6. HolderHere \notin DOMAIN NT!StageOf
      BY <2>3 DEF NT!StageOf
    <2>7. NT!Sign
      BY <1>8, <2>1, <2>5, <2>6 DEF NT!Sign
    <2> QED
      BY <2>7 DEF NT!Next
  <1>9. CASE NotifyTailSettled
    BY <1>b, <1>8, <1>9 DEF NotifyTailSettled, Signed, SignalInv, kernelVars, tailVars, hookVars
  <1>10. CASE (MainAfterDone \/ TailJoined) /\ SettleChain
    <2>1. Owed
      BY <1>b, <1>10 DEF MainAfterDone, TailJoined, SignalInv
    <2> QED
      BY <1>8, <1>10, <2>1 DEF MainAfterDone, TailJoined, SettleChain, Signed, kernelVars, tailVars,
                               hookVars
  <1>11. CASE Stop
    <2>1. CASE log' = log
      BY <1>1, <1>11, <2>1 DEF Stop, AbortRun, hookVars, tailVars
    <2>2. CASE log' # log
      <3>1. log' = Append(log, "command/done") /\ settlementUnsigned /\ run = NoGate
        BY <1>11, <2>2 DEF Stop, Signed
      <3>2. Owed /\ chain' = "off"
        BY <1>b, <1>11, <3>1, UnsignedOwes DEF Stop, SignalInv
      <3> QED
        BY <1>8, <1>11, <3>1, <3>2 DEF Stop, tailVars, hookVars
    <2> QED
      BY <2>1, <2>2
  \* A script starts while its stage lasts and nobody else is at work.
  <1>12. CASE \E p \in Phases : StartHook(p)
    <2>1. PICK p \in Phases : StartHook(p)
      BY <1>12
    <2>2. InPhase(p) /\ hookRunning'[p] /\ ~hookRunning[p] /\ UNCHANGED <<log, main, chain, tail, child>>
      BY <1>c, <2>1 DEF StartHook, NextScript, kernelVars, tailVars
    <2>3. CASE p = "main.after"
      <3>1. chain = "main.after" /\ main # "step" /\ child # "step" /\ ~hookRunning["tail.after"]
        BY <1>b, <2>2, <2>3 DEF InPhase, MainInv, ScriptInv, TailInv
      <3>2. HolderHere = "none" /\ HolderHere' = "main.after" /\ StageHere = 1 /\ StageHere' = 1
        BY <1>a, <1>d, <1>e, <2>2, <2>3, <3>1 DEF HolderFacts
      <3>3. NT!Work
        BY <1>f, <2>2, <3>2 DEF NT!Work, NT!StageOf
      <3> QED
        BY <3>3 DEF NT!Next
    <2>4. CASE p = "tail.after"
      <3>1. tail = "tail.after" /\ child # "step"
        BY <1>b, <2>2, <2>4 DEF InPhase, TailInv
      <3>2. chain = "join" /\ main # "step" /\ ~hookRunning["main.after"]
        BY <1>b, <1>d, <3>1 DEF MainInv, ScriptInv, TailInv
      <3>3. HolderHere = "none" /\ HolderHere' = "tail.after" /\ StageHere = 3 /\ StageHere' = 3
        BY <1>a, <2>2, <2>4, <3>1, <3>2 DEF HolderFacts, StageHere
      <3>4. NT!Work
        BY <1>f, <2>2, <3>3 DEF NT!Work, NT!StageOf
      <3> QED
        BY <3>4 DEF NT!Next
    <2> QED
      BY <1>c, <2>3, <2>4
  \* Whoever leaves the world to nobody rests.
  <1>13. ASSUME HolderHere \in {"main.after", "tail", "tail.after"}, HolderHere' = "none",
                UNCHANGED <<log, main, chain, tail>>
         PROVE  NT!Next
    <2>1. StageHere' = StageHere /\ Owed' = Owed
      BY <1>f, <1>13 DEF StageHere
    <2>2. NT!Rest
      BY <1>13, <2>1 DEF NT!Rest, NT!StageOf
    <2> QED
      BY <2>2 DEF NT!Next
  <1>14. CASE \E p \in Phases : EndHook(p)
    <2>1. PICK p \in Phases : EndHook(p)
      BY <1>14
    <2>2. /\ hookRunning[p] /\ hookRunning' = [hookRunning EXCEPT ![p] = FALSE]
          /\ UNCHANGED <<log, main, chain, tail, child>>
      BY <2>1 DEF EndHook, kernelVars, tailVars
    <2>3. HolderHere = p
      BY <1>a, <1>c, <2>2 DEF HolderFacts
    <2>4. HolderHere' = "none"
      BY <1>a, <1>c, <2>2, <2>3 DEF HolderFacts
    <2> QED
      BY <1>13, <1>c, <2>2, <2>3, <2>4
  <1>15. CASE \E o \in {"ok", "failed"} : ChildEnds(o)
    <2>1. /\ child' \notin {"step"} /\ UNCHANGED <<log, main, chain, tail, hookRunning>>
      BY <1>15 DEF ChildEnds, kernelVars, hookVars
    <2>2. CASE child = "step"
      <3>1. HolderHere = "tail" /\ HolderHere' = "none"
        BY <1>a, <2>1, <2>2 DEF HolderFacts
      <3> QED
        BY <1>13, <2>1, <3>1
    <2>3. CASE child # "step"
      <3>1. Writers' = Writers
        BY <2>1, <2>3 DEF Writers
      <3>2. UNCHANGED <<Owed, StageHere, HolderHere>>
        BY <1>f, <2>1, <3>1 DEF StageHere, HolderHere
      <3> QED
        BY <2>1, <3>2 DEF NT!turnVars
    <2> QED
      BY <2>2, <2>3
  <1>16. CASE ChildPassesBar
    <2>1. chain = "join" /\ tail \in {"start", "result"} /\ main # "step"
      BY <1>b, <1>d, <1>16 DEF ChildPassesBar, MainInv, TailInv
    <2>2. UNCHANGED <<log, main, chain, tail, hookRunning>> /\ child' = "step" /\ child # "step"
      BY <1>16 DEF ChildPassesBar, kernelVars, hookVars
    <2>3. ~hookRunning["main.after"] /\ ~hookRunning["tail.after"]
      BY <1>b, <2>1 DEF ScriptInv
    <2>4. HolderHere = "none" /\ HolderHere' = "tail" /\ StageHere = 2 /\ StageHere' = 2
      BY <1>a, <1>d, <1>e, <2>1, <2>2, <2>3 DEF HolderFacts
    <2>5. NT!Work
      BY <1>f, <2>2, <2>4 DEF NT!Work, NT!StageOf
    <2> QED
      BY <2>5 DEF NT!Next
  \* The bookkeeping moves on while nobody is at work.
  <1>17. ASSUME StageHere \in {1, 2}, StageHere' = StageHere + 1, HolderHere = "none",
                UNCHANGED <<log, main, child, hookRunning>>
         PROVE  NT!Next
    <2>1. Writers' = Writers
      BY <1>17 DEF Writers
    <2>2. HolderHere' = HolderHere /\ Owed' = Owed
      BY <1>f, <1>17, <2>1 DEF HolderHere
    <2>3. NT!Advance
      BY <1>17, <2>2 DEF NT!Advance
    <2> QED
      BY <2>3 DEF NT!Next
  <1>18. CASE MainAfterDone /\ ~SettleChain
    <2>1. chain = "main.after" /\ chain' = "join" /\ tail' = tail /\ ~hookRunning["main.after"]
      BY <1>18 DEF MainAfterDone, PhaseOver, tailVars
    <2>2. tail \notin {"tail.after", "done"} /\ main # "step" /\ child # "step" /\ ~hookRunning["tail.after"]
      BY <1>b, <2>1 DEF MainInv, ScriptInv, TailInv
    <2>3. StageHere = 1 /\ StageHere' = 2 /\ HolderHere = "none"
      BY <1>a, <1>d, <1>e, <2>1, <2>2 DEF HolderFacts
    <2> QED
      BY <1>17, <1>18, <2>3 DEF MainAfterDone, kernelVars, tailVars, hookVars
  <1>19. CASE WriteTailSnapshot
    <2>1. tail = "write" /\ tail' = "tail.after" /\ chain' = chain
      BY <1>19 DEF WriteTailSnapshot, Undisturbed
    <2>2. chain = "join" /\ main # "step" /\ child # "step"
      BY <1>b, <1>d, <2>1 DEF MainInv, TailInv
    <2>3. ~hookRunning["main.after"] /\ ~hookRunning["tail.after"]
      BY <1>b, <2>1, <2>2 DEF ScriptInv
    <2>4. StageHere = 2 /\ StageHere' = 3 /\ HolderHere = "none"
      BY <1>a, <2>1, <2>2, <2>3 DEF HolderFacts, StageHere
    <2> QED
      BY <1>17, <1>19, <2>4 DEF WriteTailSnapshot, kernelVars, hookVars
  \* Moves within a stage: the child's way to its bar, the tail phase's results.
  <1>20. CASE ChildHatches \/ ChildPreStep
    <2>1. child' \in {"pre-step", "barred"} /\ child # "step"
      BY <1>b, <1>20 DEF ChildHatches, ChildPreStep, MainInv, TailInv, TablesMatchChain
    <2>2. UNCHANGED <<log, main, chain, tail, hookRunning>>
      BY <1>20 DEF ChildHatches, ChildPreStep, kernelVars, hookVars
    <2>3. Writers' = Writers
      BY <2>1, <2>2 DEF Writers
    <2>4. UNCHANGED <<Owed, StageHere, HolderHere>>
      BY <1>f, <2>2, <2>3 DEF StageHere, HolderHere
    <2> QED
      BY <2>2, <2>4 DEF NT!turnVars
  <1>21. CASE StartResolved \/ StartRejected \/ ResultSettled \/ TailAfterDone
    <2>1. UNCHANGED <<log, main, chain, child, hookRunning>>
      BY <1>21 DEF StartResolved, StartRejected, ResultSettled, TailAfterDone, kernelVars, hookVars
    <2>2. (tail \in {"tail.after", "done"}) = (tail' \in {"tail.after", "done"})
      BY <1>21 DEF StartResolved, StartRejected, ResultSettled, TailAfterDone
    <2>3. Writers' = Writers
      BY <2>1 DEF Writers
    <2>4. UNCHANGED <<Owed, StageHere, HolderHere>>
      BY <1>f, <2>1, <2>2, <2>3 DEF StageHere, HolderHere
    <2> QED
      BY <2>1, <2>4 DEF NT!turnVars
  <1>22. CASE Rebind
    BY <1>b, <1>22 DEF Rebind, LoadFence, LoadCreates, ResetCreates, RebindLands, MainInv, Undisturbed
  <1>23. CASE Crash
    <2>1. /\ main' = "idle" /\ chain' = "off" /\ child' = "none"
          /\ hookRunning' = [p \in Phases |-> FALSE]
          /\ log' = log \/ (main # "idle" /\ log' = Append(log, "error"))
      BY <1>23 DEF Crash
    <2>2. Writers' = {}
      BY <2>1 DEF Writers, Phases
    <2>3. HolderHere' = "none" /\ StageHere' = 0
      BY <1>e, <2>1, <2>2 DEF HolderHere
    <2>4. Owed' \in {Owed, Owed \/ (main # "idle")}
      <3>1. CASE log' = log
        BY <1>f, <3>1
      <3>2. CASE main # "idle" /\ log' = Append(log, "error")
        <4>1. Owed'
          BY <1>b, <3>2, TurnEndOwes DEF Reasons
        <4> QED
          BY <1>f, <3>2, <4>1
      <3> QED
        BY <2>1, <3>1, <3>2
    <2>5. NT!Interrupt
      BY <2>1, <2>3, <2>4 DEF NT!Interrupt
    <2> QED
      BY <2>5 DEF NT!Next
  <1>24. CASE TailJoined
    BY <1>10, <1>24 DEF TailJoined
  <1> QED
    BY <1>2, <1>3, <1>4, <1>5, <1>6, <1>7, <1>9, <1>10, <1>11, <1>12, <1>14, <1>15, <1>16, <1>18,
       <1>19, <1>20, <1>21, <1>22, <1>23, <1>24
    DEF Next, Kernel, HookPhase, Chain, TailPhase, Player

\* The engine keeps what NarrativeTurns promises: one holder of the world, the
\* stages in order, a signal only for a turn that ended and owes one.
THEOREM SettlementImplements ==
  ASSUME Undisturbed
  PROVE  Spec => ImplementsNarrativeTurns
  <1>1. TypeInv /\ SignalInv /\ [Next]_vars => SignalInv'
    BY NextSignalInv
  <1>2. Spec => []SignalInv
    BY TypeInvariant, InitSignalInv, <1>1, PTL DEF Spec
  <1>3. Spec => []ImplInv
    BY TypeInvariant, WriterInvariant, WritersExclude, <1>2, PTL DEF ImplInv
  <1>4. ImplInv /\ ImplInv' /\ [Next]_vars => [NT!Next]_(NT!turnVars)
    BY StepImplements
  <1> QED
    BY InitImplements, <1>3, <1>4, PTL DEF Spec, ImplementsNarrativeTurns, NT!Spec
=============================================================================
