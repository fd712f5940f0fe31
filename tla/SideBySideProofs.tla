-------------------------- MODULE SideBySideProofs --------------------------
(***************************************************************************)
(* The components around the turn, side by side: what is proved of each of *)
(* them alone holds of them all together.                                  *)
(***************************************************************************)
EXTENDS SideBySide, EditingProofs, PostRideProofs, ClientProofs

\* A step is a step of one component and leaves every other as it is.
LEMMA StepOfEach ==
  ASSUME [Next]_allVars
  PROVE  /\ [DeskNext]_deskVars /\ [RideNext]_rideVars /\ [RepairNext]_repairVars
         /\ [EventsNext]_eventVars /\ [ChainNext]_chainVars /\ [WritersNext]_writerVars
         /\ [FollowNext]_followVars
  <1>1. CASE UNCHANGED allVars
    BY <1>1 DEF allVars
  <1>2. CASE Only("desk", DeskNext,
                <<rideVars, repairVars, eventVars, chainVars, writerVars, followVars>>)
    BY <1>2 DEF Only
  <1>3. CASE Only("ride", RideNext,
                <<deskVars, repairVars, eventVars, chainVars, writerVars, followVars>>)
    BY <1>3 DEF Only
  <1>4. CASE Only("repair", RepairNext,
                <<deskVars, rideVars, eventVars, chainVars, writerVars, followVars>>)
    BY <1>4 DEF Only
  <1>5. CASE Only("events", EventsNext,
                <<deskVars, rideVars, repairVars, chainVars, writerVars, followVars>>)
    BY <1>5 DEF Only
  <1>6. CASE Only("chain", ChainNext,
                <<deskVars, rideVars, repairVars, eventVars, writerVars, followVars>>)
    BY <1>6 DEF Only
  <1>7. CASE Only("writers", WritersNext,
                <<deskVars, rideVars, repairVars, eventVars, chainVars, followVars>>)
    BY <1>7 DEF Only
  <1>8. CASE Only("follow", FollowNext,
                <<deskVars, rideVars, repairVars, eventVars, chainVars, writerVars>>)
    BY <1>8 DEF Only
  <1> QED
    BY <1>1, <1>2, <1>3, <1>4, <1>5, <1>6, <1>7, <1>8 DEF Next

\* The composition implements the specification of each component: a behaviour
\* that runs one of them leaves the others at a start from which they may rest.
THEOREM EachOnItsOwn ==
  Spec => /\ DeskSpec /\ RideSpec /\ RepairSpec /\ EventsSpec
          /\ ChainSpec /\ WritersSpec /\ FollowSpec
  <1>1. Init => /\ DeskInit /\ RideInit /\ RepairInit /\ EventsInit
                /\ ChainInit /\ WritersInit /\ FollowInit
    BY DEF Init
  <1>2. [Next]_allVars =>
          /\ [DeskNext]_deskVars /\ [RideNext]_rideVars /\ [RepairNext]_repairVars
          /\ [EventsNext]_eventVars /\ [ChainNext]_chainVars /\ [WritersNext]_writerVars
          /\ [FollowNext]_followVars
    BY StepOfEach
  <1> QED
    BY <1>1, <1>2, PTL
    DEF Spec, DeskSpec, RideSpec, RepairSpec, EventsSpec, ChainSpec, WritersSpec, FollowSpec

\* Every variable of every component keeps to its type, whichever component runs.
THEOREM TypesHoldTogether == Spec => []TypeOK
  <1>1. TypeOK <=> /\ DeskTypeOK /\ RideTypeOK /\ RepairTypeOK /\ EventsTypeOK
                   /\ ChainTypeOK /\ WritersTypeOK /\ FollowTypeOK
    BY DEF TypeOK
  <1> QED
    BY <1>1, EachOnItsOwn, DeskTypesHold, RideTypesHold, RepairTypeCorrect, EventsTypeCorrect,
       ChainTypesHold, WritersTypeCorrect, FollowTypesHold, PTL

\* With no wipe that fails halfway, the safety properties of the components hold
\* together.
THEOREM SafeTogether ==
  ASSUME ~WipeFails
  PROVE  Spec => /\ [](ReloadKeepsPage /\ OwnPostRides /\ OldPostsAreShadowed)
                 /\ [](ForkOwesWhatIsPending /\ OneByOne /\ OnlyMountedFollows)
                 /\ [](ClosedStaysClosed /\ OpenTabsStay)
                 /\ SavesReachTheirCard /\ DraftSurvives
  <1>1. /\ DeskSpec => []ReloadKeepsPage
        /\ DeskSpec => SavesReachTheirCard
        /\ DeskSpec => DraftSurvives
    BY ReloadsKeepThePage, SavesReachTheirCardHolds, DraftsSurvive
  <1>2. WritersSpec => []ClosedStaysClosed
    BY ClosedTabsStayClosed
  <1>3. WritersSpec => []OpenTabsStay
    BY CreatedTabsStay
  <1> QED
    BY <1>1, <1>2, <1>3, EachOnItsOwn, PostsRideOwn, OldPostsStayShadowed, ForkOwesItsMessages,
       EditsAreSerial, OnlyMountedFollowsHolds, PTL
=============================================================================
