----------------------------- MODULE SideBySide -----------------------------
(***************************************************************************)
(* The components around the turn that share no state with it or with each *)
(* other, as one specification: a behaviour picks one component and runs   *)
(* it, the others stay where they start.  A component says nothing of the  *)
(* others, so this loses no interleaving any property could see.           *)
(***************************************************************************)
EXTENDS CardDesk, PostRide, SeedRepair, FileEvents, PathChain, WriterTabs, TailFollow

VARIABLE scene  \* the component this behaviour is about

Only(name, action, others) == scene = name /\ action /\ UNCHANGED <<scene, others>>

Init ==
  /\ scene \in {"desk", "ride", "repair", "events", "chain", "writers", "follow"}
  /\ DeskInit /\ RideInit /\ RepairInit /\ EventsInit /\ ChainInit /\ WritersInit
  /\ FollowInit

Next ==
  \/ Only("desk", DeskNext, <<rideVars, repairVars, eventVars, chainVars, writerVars, followVars>>)
  \/ Only("ride", RideNext, <<deskVars, repairVars, eventVars, chainVars, writerVars, followVars>>)
  \/ Only("repair", RepairNext, <<deskVars, rideVars, eventVars, chainVars, writerVars, followVars>>)
  \/ Only("events", EventsNext, <<deskVars, rideVars, repairVars, chainVars, writerVars, followVars>>)
  \/ Only("chain", ChainNext, <<deskVars, rideVars, repairVars, eventVars, writerVars, followVars>>)
  \/ Only("writers", WritersNext, <<deskVars, rideVars, repairVars, eventVars, chainVars, followVars>>)
  \/ Only("follow", FollowNext, <<deskVars, rideVars, repairVars, eventVars, chainVars, writerVars>>)

allVars == <<scene, deskVars, rideVars, repairVars, eventVars, chainVars, writerVars,
             followVars>>

\* A component that is not run is as it starts and has no fair action enabled.
Spec == Init /\ [][Next]_allVars /\ EventsFairness /\ ChainFairness /\ FollowFairness

\* Every variable of every component keeps to its type.
TypeOK ==
  /\ DeskTypeOK /\ RideTypeOK /\ RepairTypeOK /\ EventsTypeOK /\ ChainTypeOK
  /\ WritersTypeOK /\ FollowTypeOK
=============================================================================
