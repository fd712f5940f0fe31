-------------------------- MODULE RebindingProofs --------------------------
(***************************************************************************)
(* Theorems about Rebinding, for every number of sessions, turns, crashes  *)
(* and every set of failing operations.                                    *)
(***************************************************************************)
EXTENDS Rebinding, TLAPS

-----------------------------------------------------------------------------
(* Type correctness, for any number of overlapping calls.                   *)

\* A call names sessions that were handed out, and a world a save held.
CallTypes(c) ==
  /\ call[c].old <= Len(tale) /\ call[c].fresh <= Len(tale)
  /\ call[c].pc = "create" => call[c].fresh # NoSession
  /\ call[c].pc = "fork" => call[c].goal \in Worlds

TypeInv ==
  /\ TypeOK
  /\ save.tree \in Worlds \cup {Gone}
  /\ \A c \in Callers : CallTypes(c)

LEMMA Sorts ==
  /\ Worlds \subseteq Trees /\ Seed \in Worlds /\ Gone \in Trees /\ Torn \in Trees
  /\ Gone \notin Worlds /\ Torn \notin Worlds
  /\ Idle \in Calls
  BY RebindAssumption DEF Worlds, Trees, Seed, Gone, Torn, Idle, Calls, Sessions, NoSession

LEMMA InitTypeInv == Init => TypeInv
  BY Sorts, RebindAssumption DEF Init, TypeInv, TypeOK, CallTypes, Idle, NoSession

\* Minting a session keeps the tables well typed.
LEMMA MintTypes ==
  ASSUME TypeInv, NEW w \in Worlds, Len(tale) < MaxSessions, tale' = Append(tale, w)
  PROVE  /\ tale' \in Seq(Worlds) /\ Len(tale') = Len(tale) + 1 /\ Len(tale') <= MaxSessions
         /\ Len(tale) \in Nat /\ Len(tale) + 1 \in Sessions
  BY RebindAssumption DEF TypeInv, TypeOK, Sessions

LEMMA BindFreshTypeInv ==
  ASSUME TypeInv, NEW c \in Callers, NEW s \in Sessions \cup {NoSession}, NEW w \in Worlds,
         NEW op \in {"createSession", "reset", "load"},
         s <= Len(tale), BindFresh(c, op, s, w), runtime' \in Trees,
         UNCHANGED <<known, retired, save, plays, crashes>>
  PROVE  TypeInv'
  <1>1. /\ tale' \in Seq(Worlds) /\ Len(tale') = Len(tale) + 1 /\ Len(tale') <= MaxSessions
        /\ Len(tale) \in Nat /\ Len(tale) + 1 \in Sessions
    BY MintTypes DEF BindFresh
  <1>2. /\ known' \subseteq 1..Len(tale') /\ bound' \subseteq 1..Len(tale')
        /\ marker' \in 0..Len(tale')
    <2>1. 1..Len(tale) \subseteq 1..Len(tale') /\ Len(tale) + 1 \in 1..Len(tale')
      BY <1>1
    <2>2. known \subseteq 1..Len(tale) /\ bound \subseteq 1..Len(tale)
      BY DEF TypeInv, TypeOK
    <2>3. bound' = bound \cup {Len(tale) + 1} /\ marker' = Len(tale) + 1 /\ known' = known
      BY DEF BindFresh
    <2>4. Len(tale) + 1 \in 0..Len(tale')
      BY <1>1
    <2> QED
      BY <2>1, <2>2, <2>3, <2>4
  <1>3. [pc |-> "create", op |-> op, old |-> s, fresh |-> Len(tale) + 1, goal |-> w] \in Calls
    <2>1. w \in Trees
      BY Sorts
    <2> QED
      BY <1>1, <2>1 DEF Calls, Awaits
  <1>4. call' \in [Callers -> Calls]
    BY <1>3 DEF TypeInv, TypeOK, BindFresh
  <1>5. ASSUME NEW d \in Callers PROVE CallTypes(d)'
    <2>1. CASE d = c
      BY <1>1, <2>1 DEF TypeInv, TypeOK, BindFresh, CallTypes, NoSession, Sessions
    <2>2. CASE d # c
      BY <1>1, <2>2 DEF TypeInv, TypeOK, BindFresh, CallTypes, Calls, Sessions, NoSession
    <2> QED
      BY <2>1, <2>2
  <1> QED
    BY <1>1, <1>2, <1>4, <1>5 DEF TypeInv, TypeOK

\* A step of one call that mints nothing.
LEMMA CallStepTypeInv ==
  ASSUME TypeInv, NEW c \in Callers, NEW r \in Calls,
         call' = [call EXCEPT ![c] = r],
         r.old <= Len(tale), r.fresh <= Len(tale),
         r.pc = "create" => r.fresh # NoSession, r.pc = "fork" => r.goal \in Worlds,
         known' \subseteq 1..Len(tale), bound' \subseteq 1..Len(tale), marker' \in 0..Len(tale),
         runtime' \in Trees, retired' \in Trees, save' \in [tree : Worlds \cup {Gone}, boundary : BOOLEAN],
         UNCHANGED <<tale, plays, crashes>>
  PROVE  TypeInv'
  <1>1. TypeOK' /\ (save.tree \in Worlds \cup {Gone})'
    BY Sorts DEF TypeInv, TypeOK
  <1>2. ASSUME NEW d \in Callers PROVE CallTypes(d)'
    BY DEF TypeInv, TypeOK, CallTypes
  <1> QED
    BY <1>1, <1>2 DEF TypeInv

\* The part of a call's record its program counter may change.
LEMMA GoesTypes ==
  ASSUME TypeInv, NEW c \in Callers, NEW pc \in Steps \cup {"backoff"}, Goes(c, pc)
  PROVE  \E r \in Calls : /\ call' = [call EXCEPT ![c] = r]
                          /\ r.old <= Len(tale) /\ r.fresh <= Len(tale)
                          /\ (r.pc = "create" => r.fresh # NoSession)
                          /\ (r.pc = "fork" => r.goal \in Worlds)
  <1> DEFINE r == [call[c] EXCEPT !.pc = pc]
  <1>1. r \in Calls /\ call' = [call EXCEPT ![c] = r]
    BY DEF TypeInv, TypeOK, Goes, Calls, Awaits
  <1>2. r.old <= Len(tale) /\ r.fresh <= Len(tale) /\ r.pc = pc
    BY DEF TypeInv, TypeOK, CallTypes, Calls
  <1>3. pc # "create" /\ pc # "fork"
    BY DEF Steps
  <1> QED
    BY <1>1, <1>2, <1>3

LEMMA ReturnsTypes ==
  ASSUME TypeInv, NEW c \in Callers, Returns(c)
  PROVE  \E r \in Calls : /\ call' = [call EXCEPT ![c] = r]
                          /\ r.old <= Len(tale) /\ r.fresh <= Len(tale)
                          /\ (r.pc = "create" => r.fresh # NoSession)
                          /\ (r.pc = "fork" => r.goal \in Worlds)
  <1>1. Idle \in Calls /\ call' = [call EXCEPT ![c] = Idle]
    BY Sorts DEF Returns
  <1>2. Idle.old <= Len(tale) /\ Idle.fresh <= Len(tale) /\ Idle.pc = "idle"
    BY DEF TypeInv, TypeOK, Idle, NoSession
  <1> QED
    BY <1>1, <1>2

\* A rejected call: what it hands back was handed out before.
LEMMA RollBackTypes ==
  ASSUME TypeInv, NEW c \in Callers, RollBack(c)
  PROVE  bound' \subseteq 1..Len(tale) /\ marker' \in 0..Len(tale) /\ Returns(c)
  <1>1. call[c].old \in 0..Len(tale)
    BY RebindAssumption DEF TypeInv, TypeOK, CallTypes, Calls, Sessions, NoSession
  <1> QED
    BY <1>1 DEF TypeInv, TypeOK, RollBack

\* One step of a call under way.
LEMMA RebindTypeInv ==
  ASSUME TypeInv, NEW c \in Callers, Rebind(c)
  PROVE  TypeInv'
  <1> USE Sorts
  <1>0. /\ save \in [tree : Worlds \cup {Gone}, boundary : BOOLEAN]
        /\ runtime \in Trees /\ retired \in Trees
        /\ known \subseteq 1..Len(tale) /\ bound \subseteq 1..Len(tale) /\ marker \in 0..Len(tale)
    BY DEF TypeInv, TypeOK
  <1>1. CASE CreateResolves(c)
    <2>0. call[c].fresh \in 1..Len(tale)
      BY <1>1, RebindAssumption
         DEF CreateResolves, At, TypeInv, TypeOK, CallTypes, Calls, Sessions, NoSession
    <2>1. known' \subseteq 1..Len(tale)
      BY <1>0, <1>1, <2>0 DEF CreateResolves
    <2>2. CASE Returns(c)
      BY <1>0, <1>1, <2>1, <2>2, ReturnsTypes, CallStepTypeInv DEF CreateResolves
    <2>3. CASE call[c].op # "createSession" /\ Goes(c, AfterCreate(call[c].op))
      <3>1. CASE AfterCreate(call[c].op) \in Steps
        BY <1>0, <1>1, <2>1, <2>3, <3>1, GoesTypes, CallStepTypeInv DEF CreateResolves
      <3>2. CASE AfterCreate(call[c].op) = "idle"
        <4> DEFINE r == [call[c] EXCEPT !.pc = "idle"]
        <4>1. r \in Calls /\ r.pc = "idle" /\ r.old <= Len(tale) /\ r.fresh <= Len(tale)
          BY DEF TypeInv, TypeOK, Calls, CallTypes
        <4>2. call' = [call EXCEPT ![c] = r]
          BY <2>3, <3>2 DEF Goes, TypeInv, TypeOK, Calls
        <4> HIDE DEF r
        <4> QED
          BY <1>0, <1>1, <2>1, <4>1, <4>2, CallStepTypeInv DEF CreateResolves
      <3> QED
        BY <3>1, <3>2 DEF AfterCreate, Steps
    <2> QED
      BY <1>1, <2>2, <2>3 DEF CreateResolves
  <1>2. CASE CreateRejects(c)
    BY <1>0, <1>2, RollBackTypes, ReturnsTypes, CallStepTypeInv DEF CreateRejects
  <1>3. CASE ForkResolves(c)
    <2>1. call[c].goal \in Worlds
      BY <1>3 DEF ForkResolves, At, TypeInv, CallTypes
    <2>2. /\ tale' \in Seq(Worlds) /\ Len(tale') = Len(tale) + 1 /\ Len(tale') <= MaxSessions
          /\ Len(tale) \in Nat /\ Len(tale) + 1 \in Sessions
      BY <1>3, <2>1, MintTypes DEF ForkResolves
    <2>3. /\ 1..Len(tale) \subseteq 1..Len(tale') /\ Len(tale) + 1 \in 1..Len(tale')
          /\ 0..Len(tale) \subseteq 0..Len(tale')
      BY <2>2
    <2>4. known' \subseteq 1..Len(tale') /\ bound' \subseteq 1..Len(tale') /\ marker' \in 0..Len(tale')
      BY <1>0, <1>3, <2>3 DEF ForkResolves
    <2> DEFINE r == [call[c] EXCEPT !.pc = "sweep", !.fresh = Len(tale) + 1]
    <2>5. r \in Calls
      BY <2>2 DEF TypeInv, TypeOK, Calls, Steps
    <2>6. call' = [call EXCEPT ![c] = r]
      BY <1>3 DEF ForkResolves, TypeInv, TypeOK, Calls
    <2>7. call' \in [Callers -> Calls]
      BY <2>5, <2>6 DEF TypeInv, TypeOK
    <2>8. ASSUME NEW d \in Callers PROVE CallTypes(d)'
      BY <2>2, <2>6 DEF TypeInv, TypeOK, CallTypes, Calls, Sessions, NoSession
    <2> QED
      BY <1>0, <1>3, <2>2, <2>4, <2>7, <2>8 DEF ForkResolves, TypeInv, TypeOK
  <1>4. CASE ForkRejects(c)
    BY <1>0, <1>4, ReturnsTypes, CallStepTypeInv DEF ForkRejects
  <1>5. CASE SeedClears(c)
    BY <1>0, <1>5, RollBackTypes, ReturnsTypes, GoesTypes, CallStepTypeInv DEF SeedClears, Steps
  <1>6. CASE SeedCopies(c)
    BY <1>0, <1>6, RollBackTypes, ReturnsTypes, GoesTypes, CallStepTypeInv DEF SeedCopies, Steps
  <1>7. CASE Sweep(c)
    BY <1>0, <1>7, RollBackTypes, ReturnsTypes, GoesTypes, CallStepTypeInv DEF Sweep, Steps
  <1>8. CASE Retire(c)
    BY <1>0, <1>8, RollBackTypes, ReturnsTypes, GoesTypes, CallStepTypeInv DEF Retire, Steps
  <1>9. CASE CopyStarts(c)
    BY <1>0, <1>9, GoesTypes, CallStepTypeInv DEF CopyStarts, Steps
  <1>10. CASE CopyEnds(c)
    BY <1>0, <1>10, GoesTypes, CallStepTypeInv DEF CopyEnds, Steps
  <1>11. CASE Restore(c)
    BY <1>0, <1>11, RollBackTypes, ReturnsTypes, CallStepTypeInv DEF Restore
  <1>12. CASE Drop(c)
    BY <1>0, <1>12, GoesTypes, CallStepTypeInv DEF Drop, Steps
  <1>13. CASE Commit(c)
    <2>1. marker' \in 0..Len(tale)
      BY <1>0, <1>13, RebindAssumption
         DEF Commit, TypeInv, TypeOK, CallTypes, Calls, Sessions, NoSession
    <2> QED
      BY <1>0, <1>13, <2>1, ReturnsTypes, CallStepTypeInv DEF Commit
  <1>14. CASE RemoveTree(c)
    <2>1. save' \in [tree : Worlds \cup {Gone}, boundary : BOOLEAN] /\ marker' \in 0..Len(tale)
      BY <1>0, <1>14 DEF RemoveTree, NoSession, TypeInv, TypeOK
    <2>2. runtime' \in Trees /\ retired' \in Trees /\ bound' \subseteq 1..Len(tale)
      BY <1>0, <1>14 DEF RemoveTree
    <2>3. UNCHANGED <<tale, known, plays, crashes>> /\ (Returns(c) \/ Goes(c, "backoff"))
      BY <1>14 DEF RemoveTree
    <2> QED
      BY <1>0, <2>1, <2>2, <2>3, ReturnsTypes, GoesTypes, CallStepTypeInv
  <1> QED
    BY <1>1, <1>2, <1>3, <1>4, <1>5, <1>6, <1>7, <1>8, <1>9, <1>10, <1>11, <1>12, <1>13, <1>14
       DEF Rebind

LEMMA NextTypeInv == TypeInv /\ [Next]_vars => TypeInv'
  <1> SUFFICES ASSUME TypeInv, [Next]_vars PROVE TypeInv'
    OBVIOUS
  <1> USE Sorts
  <1>0. /\ save \in [tree : Worlds \cup {Gone}, boundary : BOOLEAN]
        /\ runtime \in Trees /\ retired \in Trees
        /\ known \subseteq 1..Len(tale) /\ bound \subseteq 1..Len(tale) /\ marker \in 0..Len(tale)
    BY DEF TypeInv, TypeOK
  <1>1. CASE UNCHANGED vars
    BY <1>1 DEF vars, TypeInv, TypeOK, CallTypes
  <1>2. ASSUME NEW c \in Callers, CreateSession(c) PROVE TypeInv'
    <2>1. NoSession <= Len(tale) /\ runtime' \in Trees
      BY <1>0, <1>2 DEF CreateSession, NoSession
    <2> QED
      BY <1>2, <2>1, BindFreshTypeInv DEF CreateSession
  <1>3. ASSUME NEW c \in Callers, NEW s \in Sessions, Reset(c, s) PROVE TypeInv'
    <2>1. s <= Len(tale) /\ runtime' \in Trees
      BY <1>0, <1>3 DEF Reset, Open, TypeInv, TypeOK
    <2> QED
      BY <1>3, <2>1, BindFreshTypeInv DEF Reset
  <1>4. ASSUME NEW c \in Callers, NEW s \in Sessions, Load(c, s) PROVE TypeInv'
    <2>1. s <= Len(tale) /\ runtime' \in Trees /\ save.tree \in Worlds
      BY <1>0, <1>4 DEF Load, Open, TypeInv, TypeOK
    <2>2. CASE BindFresh(c, "load", s, save.tree)
      BY <1>4, <2>1, <2>2, BindFreshTypeInv DEF Load
    <2>3. CASE UNCHANGED <<tale, bound, marker>>
      <3> DEFINE r == [pc |-> "fork", op |-> "fork", old |-> s, fresh |-> NoSession,
                       goal |-> save.tree]
      <3>1. save.tree \in Trees
        BY <2>1
      <3>2. r \in Calls /\ NoSession <= Len(tale)
        BY <3>1 DEF Calls, Awaits, NoSession, TypeInv, TypeOK
      <3>3. call' = [call EXCEPT ![c] = r]
        BY <1>4, <2>3 DEF Load, BindFresh, TypeInv, TypeOK
      <3> HIDE DEF r
      <3>4. r.old = s /\ r.fresh = NoSession /\ r.pc = "fork" /\ r.goal = save.tree
        BY DEF r
      <3> QED
        BY <1>0, <1>4, <2>1, <2>3, <3>2, <3>3, <3>4, CallStepTypeInv DEF Load
    <2> QED
      BY <1>4, <2>2, <2>3 DEF Load
  <1>5. ASSUME NEW c \in Callers, NEW s \in Sessions, Delete(c, s) PROVE TypeInv'
    <2> DEFINE r == [Idle EXCEPT !.pc = "unlink", !.op = "delete", !.old = s]
    <2>1. r \in Calls /\ r.pc = "unlink" /\ r.old = s /\ r.fresh = NoSession
      BY DEF Calls, Steps, Idle, NoSession
    <2>2. s <= Len(tale) /\ NoSession <= Len(tale)
      BY <1>0, <1>5 DEF Delete, Open, NoSession, TypeInv, TypeOK
    <2>3. call' = [call EXCEPT ![c] = r]
      BY <1>5 DEF Delete
    <2> HIDE DEF r
    <2> QED
      BY <1>0, <1>5, <2>1, <2>2, <2>3, CallStepTypeInv DEF Delete
  <1>6. ASSUME NEW c \in Callers, Rebind(c) PROVE TypeInv'
    BY <1>6, RebindTypeInv
  <1>7. ASSUME NEW s \in Sessions, Play(s) PROVE TypeInv'
    <2>1. plays + 1 \in Worlds /\ plays' \in 0..MaxPlays
      BY <1>7, RebindAssumption DEF Play, Worlds, TypeInv, TypeOK
    <2>2. tale' \in Seq(Worlds) /\ Len(tale') = Len(tale)
      BY <1>0, <1>7, <2>1 DEF Play, Open, TypeInv, TypeOK
    <2> QED
      BY <1>0, <1>7, <2>1, <2>2 DEF Play, TypeInv, TypeOK, CallTypes
  <1>8. ASSUME NEW s \in Sessions, Save(s) PROVE TypeInv'
    BY <1>0, <1>8 DEF Save, TypeInv, TypeOK, CallTypes
  <1>9. CASE Crash
    <2>1. known' \subseteq 1..Len(tale)
      <3>1. ASSUME NEW c \in Callers, At(c, "create") PROVE call[c].fresh \in 1..Len(tale)
        BY <3>1, RebindAssumption DEF At, TypeInv, TypeOK, CallTypes, Calls, Sessions, NoSession
      <3> QED
        BY <1>0, <1>9, <3>1 DEF Crash
    <2>2. bound' \subseteq 1..Len(tale)
      BY <1>0, <1>9 DEF Crash, restoreBindings, NoSession
    <2>3. call' \in [Callers -> Calls] /\ \A c \in Callers : CallTypes(c)'
      BY <1>9 DEF Crash, Idle, CallTypes, NoSession, TypeInv, TypeOK
    <2> QED
      BY <1>0, <1>9, <2>1, <2>2, <2>3, RebindAssumption DEF Crash, TypeInv, TypeOK
  <1> QED
    BY <1>1, <1>2, <1>3, <1>4, <1>5, <1>6, <1>7, <1>8, <1>9 DEF Next

\* Every variable has its type, however many calls overlap and whatever fails.
THEOREM TypeCorrect == Spec => []TypeOK
  <1>1. TypeInv => TypeOK
    BY DEF TypeInv
  <1> QED
    BY <1>1, InitTypeInv, NextTypeInv, PTL DEF Spec

-----------------------------------------------------------------------------
(* One call at a time, and saves only in between: map and marker.           *)

Alone == (\A c, d \in Callers : c = d) /\ ~SaveMeanwhile

LoadSteps == {"sweep", "retire", "copy", "copying", "restore", "drop", "commit"}

\* Where each operation can be.
PcOfOp(c) ==
  /\ call[c].pc = "idle" => call[c] = Idle
  /\ call[c].pc # "idle" =>
       /\ call[c].op = "createSession" => call[c].pc = "create"
       /\ call[c].op = "reset" => call[c].pc \in {"create", "clear", "seed", "commit"}
       /\ call[c].op = "load" => call[c].pc \in {"create"} \cup LoadSteps
       /\ call[c].op = "fork" => call[c].pc \in {"fork"} \cup LoadSteps
       /\ call[c].op = "delete" => call[c].pc \in {"unlink", "backoff"}

\* What the tables hold while a call is under way.
Tables(c) ==
  /\ call[c].op = "createSession" => bound = {call[c].fresh} /\ marker = call[c].fresh
  /\ call[c].op \in {"reset", "load"} =>
       /\ bound = {call[c].old, call[c].fresh} /\ marker = call[c].fresh
       /\ call[c].old # call[c].fresh
  /\ call[c].op = "fork" =>
       /\ marker \in {call[c].old, NoSession}
       /\ call[c].pc = "fork" => bound = {call[c].old}
       /\ call[c].pc # "fork" => bound = {call[c].old, call[c].fresh} /\ call[c].old # call[c].fresh
  /\ call[c].op = "delete" => bound = {call[c].old} /\ marker \in {call[c].old, NoSession}

\* Between two calls at most one session is bound; a half-removed directory may
\* have lost its marker.
TablesAtRest ==
  /\ bound = {} \/ \E s \in Sessions : bound = {s}
  /\ marker # NoSession => bound = {marker}

BindInv ==
  /\ \A c \in Callers : PcOfOp(c) /\ (call[c].pc # "idle" => Tables(c))
  /\ AllIdle => TablesAtRest

LEMMA InitBindInv == Init => BindInv
  BY DEF Init, BindInv, PcOfOp, Idle, TablesAtRest

\* With one caller, its call decides whether all is at rest.
LEMMA RestOfOne ==
  ASSUME Alone, TypeInv, BindInv, NEW c \in Callers
  PROVE  /\ \A d \in Callers : d = c
         /\ AllIdle <=> call[c].pc = "idle"
         /\ call[c].pc = "idle" => TablesAtRest
         /\ call[c].pc # "idle" => Tables(c)
         /\ PcOfOp(c)
  BY DEF Alone, BindInv, AllIdle, PcOfOp, Idle

\* A session open between two calls is the only one bound.
LEMMA OpenIsBound ==
  ASSUME TablesAtRest, NEW s \in Sessions, Open(s)
  PROVE  bound = {s} /\ marker \in {s, NoSession}
  BY DEF TablesAtRest, Open

LEMMA StartBindInv ==
  ASSUME Alone, TypeInv, BindInv, NEW c \in Callers,
         \/ CreateSession(c)
         \/ \E s \in Sessions : Reset(c, s) \/ Load(c, s) \/ Delete(c, s)
  PROVE  BindInv'
  <1>1. (\A d \in Callers : d = c) /\ (call[c].pc = "idle" => TablesAtRest)
    BY RestOfOne
  <1>2. Len(tale) \in Nat /\ bound \subseteq 1..Len(tale)
    BY DEF TypeInv, TypeOK
  <1>3. SUFFICES PcOfOp(c)' /\ (call[c].pc # "idle" => Tables(c))' /\ call'[c].pc # "idle"
    BY <1>1 DEF BindInv, AllIdle, Idle
  <1>4. CASE CreateSession(c)
    <2>1. bound = {}
      BY <1>2, <1>4 DEF CreateSession
    <2> QED
      BY <1>4, <2>1 DEF CreateSession, BindFresh, PcOfOp, Tables, TypeInv, TypeOK
  <1>5. ASSUME NEW s \in Sessions, Reset(c, s) PROVE PcOfOp(c)' /\ Tables(c)' /\ call'[c].pc # "idle"
    <2>1. bound = {s} /\ s # Len(tale) + 1
      BY <1>1, <1>2, <1>5, OpenIsBound DEF Reset, Starts, Idle, Open
    <2> QED
      BY <1>5, <2>1 DEF Reset, BindFresh, PcOfOp, Tables, TypeInv, TypeOK
  <1>6. ASSUME NEW s \in Sessions, Load(c, s) PROVE PcOfOp(c)' /\ Tables(c)' /\ call'[c].pc # "idle"
    <2>1. bound = {s} /\ s # Len(tale) + 1 /\ marker \in {s, NoSession}
      BY <1>1, <1>2, <1>6, OpenIsBound DEF Load, Starts, Idle, Open
    <2> QED
      BY <1>6, <2>1 DEF Load, BindFresh, PcOfOp, Tables, TypeInv, TypeOK, LoadSteps
  <1>7. ASSUME NEW s \in Sessions, Delete(c, s) PROVE PcOfOp(c)' /\ Tables(c)' /\ call'[c].pc # "idle"
    <2>1. bound = {s} /\ marker \in {s, NoSession}
      BY <1>7, OpenIsBound DEF Delete, BindInv
    <2> QED
      BY <1>7, <2>1 DEF Delete, PcOfOp, Tables, Idle, TypeInv, TypeOK
  <1> QED
    BY <1>4, <1>5, <1>6, <1>7

\* A call that returns leaves the tables as they are between calls.
LEMMA ReturnBindInv ==
  ASSUME Alone, NEW c \in Callers, TypeInv, Returns(c), TablesAtRest'
  PROVE  BindInv'
  BY DEF Alone, BindInv, Returns, TypeInv, TypeOK, PcOfOp, Idle

\* A rejected call rolls the tables back to its old session.
LEMMA RollBackBindInv ==
  ASSUME Alone, TypeInv, BindInv, NEW c \in Callers,
         call[c].op \in {"reset", "load", "fork"}, call[c].pc \notin {"idle", "fork"}, RollBack(c)
  PROVE  BindInv'
  <1>1. Tables(c) /\ call[c].old \in Sessions \cup {NoSession}
    BY RestOfOne DEF TypeInv, TypeOK, Calls
  <1>2. call[c].old \in Sessions
    BY <1>1 DEF Tables, TypeInv, TypeOK, NoSession
  <1>3. bound' = {call[c].old} /\ marker' \in {call[c].old, NoSession}
    BY <1>1 DEF Tables, RollBack
  <1>4. TablesAtRest'
    BY <1>2, <1>3 DEF TablesAtRest
  <1> QED
    BY <1>4, ReturnBindInv DEF RollBack

\* A call that goes on leaves the tables alone.
LEMMA GoesBindInv ==
  ASSUME Alone, TypeInv, BindInv, NEW c \in Callers, NEW pc \in Awaits \cup Steps,
         call[c].pc # "idle", call[c].pc # "fork", Goes(c, pc), pc # "fork",
         UNCHANGED <<bound, marker>> \/ (call[c].op = "delete" /\ bound' = bound
                                         /\ marker' \in {marker, NoSession}),
         PcOfOp(c)'
  PROVE  BindInv'
  <1>1. (\A d \in Callers : d = c) /\ Tables(c)
    BY RestOfOne
  <1>2. call'[c] = [call[c] EXCEPT !.pc = pc]
    BY DEF Goes, TypeInv, TypeOK
  <1>3. /\ call'[c].pc = pc /\ call'[c].op = call[c].op
        /\ call'[c].old = call[c].old /\ call'[c].fresh = call[c].fresh
    BY <1>2 DEF TypeInv, TypeOK, Calls
  <1>4. pc # "idle"
    BY DEF Awaits, Steps
  <1>5. Tables(c)'
    BY <1>1, <1>3 DEF Tables
  <1> QED
    BY <1>1, <1>3, <1>4, <1>5 DEF BindInv, AllIdle, Idle

\* The new program counter of a call that goes on.
LEMMA GoesPc ==
  ASSUME TypeInv, NEW c \in Callers, NEW pc, Goes(c, pc)
  PROVE  call'[c].pc = pc /\ call'[c].op = call[c].op
         /\ call'[c].old = call[c].old /\ call'[c].fresh = call[c].fresh
         /\ call'[c].goal = call[c].goal
  BY DEF TypeInv, TypeOK, Goes, Calls

LEMMA RebindBindInv ==
  ASSUME Alone, TypeInv, BindInv, NEW c \in Callers, Rebind(c)
  PROVE  BindInv'
  <1>1. PcOfOp(c) /\ (call[c].pc # "idle" => Tables(c)) /\ \A d \in Callers : d = c
    BY RestOfOne
  <1>2. call[c] \in Calls /\ bound \subseteq Sessions
    BY RebindAssumption DEF TypeInv, TypeOK, Sessions
  <1>3. CASE CreateResolves(c)
    <2>1. CASE call[c].op = "createSession"
      <3>1. TablesAtRest'
        BY <1>1, <1>2, <1>3, <2>1 DEF CreateResolves, At, Tables, TablesAtRest
      <3> QED
        BY <1>3, <2>1, <3>1, ReturnBindInv DEF CreateResolves
    <2>2. CASE call[c].op # "createSession"
      <3>1. call[c].op \in {"reset", "load"} /\ Goes(c, AfterCreate(call[c].op))
        BY <1>1, <1>2, <1>3, <2>2 DEF CreateResolves, At, PcOfOp, LoadSteps, Calls
      <3>2. PcOfOp(c)'
        BY <3>1, GoesPc DEF PcOfOp, AfterCreate, LoadSteps
      <3>3. AfterCreate(call[c].op) \in Steps /\ AfterCreate(call[c].op) # "fork"
        BY <3>1 DEF AfterCreate, Steps
      <3> QED
        BY <1>3, <3>1, <3>2, <3>3, GoesBindInv DEF CreateResolves, At
    <2> QED
      BY <2>1, <2>2
  <1>4. CASE CreateRejects(c)
    <2>1. CASE call[c].op = "createSession"
      <3>1. TablesAtRest' /\ Returns(c)
        BY <1>1, <1>2, <1>4, <2>1 DEF CreateRejects, At, Tables, TablesAtRest
      <3> QED
        BY <3>1, ReturnBindInv
    <2>2. CASE call[c].op # "createSession" /\ RollBack(c)
      <3>1. call[c].op \in {"reset", "load"} /\ call[c].pc = "create"
        BY <1>1, <1>2, <1>4, <2>2 DEF CreateRejects, At, PcOfOp, LoadSteps, Calls
      <3> QED
        BY <2>2, <3>1, RollBackBindInv
    <2> QED
      BY <1>4, <2>1, <2>2 DEF CreateRejects
  <1>5. CASE ForkResolves(c)
    <2>1. call[c].op = "fork" /\ bound = {call[c].old} /\ marker \in {call[c].old, NoSession}
      BY <1>1, <1>2, <1>5 DEF ForkResolves, At, PcOfOp, Tables, LoadSteps, Calls
    <2>2. call[c].old # Len(tale) + 1
      BY <2>1 DEF TypeInv, TypeOK
    <2>3. /\ call'[c].pc = "sweep" /\ call'[c].op = "fork" /\ call'[c].old = call[c].old
          /\ call'[c].fresh = Len(tale) + 1
      BY <1>2, <1>5, <2>1 DEF ForkResolves, TypeInv, TypeOK, Calls
    <2>4. PcOfOp(c)' /\ Tables(c)'
      BY <1>5, <2>1, <2>2, <2>3 DEF ForkResolves, PcOfOp, Tables, LoadSteps
    <2> QED
      BY <1>1, <2>3, <2>4 DEF BindInv, AllIdle, Idle
  <1>6. CASE ForkRejects(c)
    <2>1. TablesAtRest'
      BY <1>1, <1>2, <1>6 DEF ForkRejects, At, PcOfOp, Tables, TablesAtRest, LoadSteps, Calls
    <2> QED
      BY <1>6, <2>1, ReturnBindInv DEF ForkRejects
  <1>7. ASSUME RollBack(c), call[c].pc \in {"clear", "seed"} \cup LoadSteps PROVE BindInv'
    <2>1. call[c].op \in {"reset", "load", "fork"}
      BY <1>1, <1>2, <1>7 DEF PcOfOp, LoadSteps, Calls
    <2> QED
      BY <1>7, <2>1, RollBackBindInv DEF LoadSteps
  <1>8. ASSUME NEW pc, Goes(c, pc), UNCHANGED <<bound, marker>>,
               \/ call[c].pc = "clear" /\ pc = "seed"
               \/ call[c].pc = "seed" /\ pc = "commit"
               \/ call[c].pc \in LoadSteps \ {"commit"} /\ pc \in LoadSteps
        PROVE  BindInv'
    <2>1. PcOfOp(c)'
      BY <1>1, <1>2, <1>8, GoesPc DEF PcOfOp, LoadSteps, Calls
    <2>2. pc \in Steps /\ pc # "fork"
      BY <1>8 DEF LoadSteps, Steps
    <2> QED
      BY <1>8, <2>1, <2>2, GoesBindInv DEF LoadSteps
  <1>9. CASE SeedClears(c) \/ SeedCopies(c)
    BY <1>7, <1>8, <1>9 DEF SeedClears, SeedCopies, At
  <1>10. CASE Sweep(c) \/ Retire(c)
    BY <1>7, <1>8, <1>10 DEF Sweep, Retire, At, LoadSteps
  <1>11. CASE CopyStarts(c) \/ CopyEnds(c) \/ Drop(c)
    BY <1>8, <1>11 DEF CopyStarts, CopyEnds, Drop, At, LoadSteps
  <1>12. CASE Restore(c)
    BY <1>7, <1>12 DEF Restore, At, LoadSteps
  <1>13. CASE Commit(c)
    <2>1. call[c].op \in {"reset", "load", "fork"}
      BY <1>1, <1>2, <1>13 DEF Commit, At, PcOfOp, Calls
    <2>2. bound' = {call[c].fresh} /\ marker' = call[c].fresh
      BY <1>1, <1>13, <2>1 DEF Commit, At, Tables
    <2>3. call[c].fresh \in Sessions
      BY <1>1, <1>2, <1>13, <2>1 DEF Commit, At, Tables
    <2> QED
      BY <1>13, <2>2, <2>3, ReturnBindInv DEF Commit, TablesAtRest
  <1>14. CASE RemoveTree(c)
    <2>1. call[c].op = "delete" /\ bound = {call[c].old} /\ marker \in {call[c].old, NoSession}
      BY <1>1, <1>2, <1>14 DEF RemoveTree, At, PcOfOp, Tables, LoadSteps, Calls
    <2>2. CASE Returns(c)
      <3>1. bound' \in {{}, bound} /\ marker' \in {marker, NoSession} /\ (bound' = {} => marker' = NoSession)
        BY <1>14, <2>1 DEF RemoveTree
      <3>2. TablesAtRest'
        BY <1>2, <2>1, <3>1 DEF TablesAtRest
      <3> QED
        BY <2>2, <3>2, ReturnBindInv
    <2>3. CASE Goes(c, "backoff") /\ bound' = bound /\ marker' \in {marker, NoSession}
      <3>1. PcOfOp(c)'
        BY <2>1, <2>3, GoesPc DEF PcOfOp
      <3> QED
        BY <1>14, <2>1, <2>3, <3>1, GoesBindInv DEF Awaits, RemoveTree, At
    <2> QED
      BY <1>14, <2>2, <2>3 DEF RemoveTree
  <1> QED
    BY <1>3, <1>4, <1>5, <1>6, <1>9, <1>10, <1>11, <1>12, <1>13, <1>14 DEF Rebind

LEMMA NextBindInv == Alone /\ TypeInv /\ BindInv /\ [Next]_vars => BindInv'
  <1> SUFFICES ASSUME Alone, TypeInv, BindInv, [Next]_vars PROVE BindInv'
    OBVIOUS
  <1>1. CASE UNCHANGED <<call, bound, marker>>
    BY <1>1 DEF BindInv, PcOfOp, Tables, TablesAtRest, AllIdle
  <1>2. ASSUME NEW c \in Callers, CreateSession(c) \/ Rebind(c) PROVE BindInv'
    BY <1>2, StartBindInv, RebindBindInv
  <1>3. ASSUME NEW c \in Callers, NEW s \in Sessions, Reset(c, s) \/ Load(c, s) \/ Delete(c, s)
        PROVE  BindInv'
    BY <1>3, StartBindInv
  <1>4. ASSUME NEW s \in Sessions, Play(s) \/ Save(s) PROVE BindInv'
    BY <1>1, <1>4 DEF Play, Save
  <1>5. CASE Crash
    <2>1. TablesAtRest'
      BY <1>5, RebindAssumption
         DEF Crash, restoreBindings, TablesAtRest, NoSession, TypeInv, TypeOK, Sessions
    <2> QED
      BY <1>5, <2>1 DEF Crash, BindInv, PcOfOp, Idle
  <1> QED
    BY <1>1, <1>2, <1>3, <1>4, <1>5 DEF Next, vars

\* With one remote call at a time, map and marker agree whenever none is under
\* way, after every failure, every rollback and every crash.
THEOREM MapAndMarker == ASSUME Alone PROVE Spec => []MapFollowsMarker
  <1>1. TypeInv /\ BindInv => MapFollowsMarker
    BY DEF BindInv, MapFollowsMarker, TablesAtRest
  <1>2. Init => TypeInv /\ BindInv
    BY InitTypeInv, InitBindInv
  <1>3. TypeInv /\ BindInv /\ [Next]_vars => (TypeInv /\ BindInv)'
    BY NextTypeInv, NextBindInv
  <1> QED
    BY <1>1, <1>2, <1>3, PTL DEF Spec

-----------------------------------------------------------------------------
(* The worlds: as long as the process lives, a call knows the sessions and  *)
(* the trees it works on.                                                   *)

\* The conversations a call is about, and what the kernel made of them.
Story(c) ==
  /\ call[c].op = "createSession" => known = {} /\ runtime = Seed /\ tale[call[c].fresh] = Seed
  /\ call[c].op # "createSession" => call[c].old \in known
  /\ call[c].op \in {"reset", "load"} => (call[c].fresh \in known <=> call[c].pc # "create")
  /\ call[c].op = "fork" /\ call[c].pc # "fork" => call[c].fresh \in known
  /\ call[c].op = "reset" => tale[call[c].fresh] = Seed
  /\ call[c].op = "load" \/ (call[c].op = "fork" /\ call[c].pc # "fork")
       => tale[call[c].fresh] = call[c].goal
  /\ call[c].op \in {"load", "fork"} => save.tree = call[c].goal

\* Where the two worlds are on the disk.
OldWorldIn(c, tree) == tree \in Worlds => tree = tale[call[c].old]
TreesOf(c) ==
  /\ call[c].pc \in {"create", "fork", "clear", "sweep", "retire", "unlink", "backoff"}
       /\ call[c].op # "createSession" => OldWorldIn(c, runtime)
  /\ call[c].pc = "seed" => runtime \notin Worlds
  /\ call[c].pc \in {"copy", "copying", "restore"} => runtime \notin Worlds /\ OldWorldIn(c, retired)
  /\ call[c].pc \in {"drop", "commit"} => runtime = tale[call[c].fresh]

WorldsAtRest ==
  /\ known # {} => bound \subseteq known
  /\ \A s \in bound : runtime \in Worlds => runtime = tale[s]

WorldInv ==
  crashes = 0 =>
    /\ \A c \in Callers : call[c].pc # "idle" => Story(c) /\ TreesOf(c)
    /\ AllIdle => WorldsAtRest

RebindInv == TypeInv /\ BindInv /\ WorldInv

LEMMA InitWorldInv == Init => WorldInv
  BY DEF Init, WorldInv, Idle, WorldsAtRest

\* What the one caller may assume before a step of a process that never died.
LEMMA WorldsOfOne ==
  ASSUME Alone, RebindInv, crashes = 0, NEW c \in Callers
  PROVE  /\ \A d \in Callers : d = c
         /\ call[c].pc = "idle" => WorldsAtRest /\ TablesAtRest
         /\ call[c].pc # "idle" => Story(c) /\ TreesOf(c) /\ Tables(c)
         /\ PcOfOp(c) /\ call[c] \in Calls
  BY RestOfOne DEF RebindInv, WorldInv, TypeInv, TypeOK

\* A minted session gets its tale, the others keep theirs.
LEMMA MintTale ==
  ASSUME TypeInv, NEW w \in Worlds, Len(tale) < MaxSessions, tale' = Append(tale, w)
  PROVE  /\ tale'[Len(tale) + 1] = w
         /\ \A s \in 1..Len(tale) : tale'[s] = tale[s]
         /\ Len(tale) + 1 \notin known /\ Len(tale) + 1 \notin bound
         /\ \A s \in 1..Len(tale) : s # Len(tale) + 1
  BY DEF TypeInv, TypeOK

LEMMA StartWorldInv ==
  ASSUME Alone, RebindInv, crashes = 0, NEW c \in Callers,
         \/ CreateSession(c)
         \/ \E s \in Sessions : Reset(c, s) \/ Load(c, s) \/ Delete(c, s)
  PROVE  WorldInv'
  <1>1. (\A d \in Callers : d = c) /\ call[c].pc = "idle" /\ WorldsAtRest /\ TablesAtRest
    <2>1. call[c] = Idle
      BY DEF CreateSession, Reset, Load, Delete, Starts, AllIdle
    <2> QED
      BY <2>1, WorldsOfOne DEF Idle
  <1>2. TypeInv /\ known \subseteq 1..Len(tale) /\ bound \subseteq 1..Len(tale) /\ Len(tale) \in Nat
    BY DEF RebindInv, TypeInv, TypeOK
  <1>3. SUFFICES Story(c)' /\ TreesOf(c)' /\ call'[c].pc # "idle"
    BY <1>1 DEF WorldInv, AllIdle, Idle
  <1>4. ASSUME NEW op \in {"createSession", "reset", "load"}, NEW s \in Sessions \cup {NoSession},
               NEW w \in Worlds, BindFresh(c, op, s, w)
        PROVE  /\ call'[c].pc = "create" /\ call'[c].op = op /\ call'[c].old = s
               /\ call'[c].fresh = Len(tale) + 1 /\ call'[c].goal = w
               /\ tale'[Len(tale) + 1] = w /\ \A i \in 1..Len(tale) : tale'[i] = tale[i]
               /\ Len(tale) + 1 \notin known
    <2>1. call'[c] = [pc |-> "create", op |-> op, old |-> s, fresh |-> Len(tale) + 1, goal |-> w]
      BY <1>2, <1>4 DEF BindFresh, TypeInv, TypeOK
    <2>2. /\ tale'[Len(tale) + 1] = w /\ \A i \in 1..Len(tale) : tale'[i] = tale[i]
          /\ Len(tale) + 1 \notin known
      BY <1>2, <1>4, MintTale DEF BindFresh
    <2> QED
      BY <2>1, <2>2
  <1>5. CASE CreateSession(c)
    <2>1. known = {}
      BY <1>2, <1>5 DEF CreateSession
    <2>2. BindFresh(c, "createSession", NoSession, Seed) /\ runtime' = Seed /\ known' = known
      BY <1>5 DEF CreateSession
    <2>3. /\ call'[c].pc = "create" /\ call'[c].op = "createSession"
          /\ call'[c].fresh = Len(tale) + 1 /\ tale'[Len(tale) + 1] = Seed
      BY <1>4, <2>2, Sorts
    <2> QED
      BY <2>1, <2>2, <2>3 DEF Story, TreesOf
  <1>6. ASSUME NEW s \in Sessions, Open(s)
        PROVE  s \in known /\ s \in 1..Len(tale) /\ (runtime \in Worlds => runtime = tale[s])
    BY <1>1, <1>2, <1>6 DEF Open, WorldsAtRest
  <1>7. ASSUME NEW s \in Sessions, Reset(c, s) PROVE Story(c)' /\ TreesOf(c)' /\ call'[c].pc # "idle"
    <2>1. BindFresh(c, "reset", s, Seed) /\ UNCHANGED <<known, runtime, save>>
      BY <1>7 DEF Reset
    <2>2. s \in known /\ s \in 1..Len(tale) /\ (runtime \in Worlds => runtime = tale[s])
      BY <1>6, <1>7 DEF Reset
    <2>3. /\ call'[c].pc = "create" /\ call'[c].op = "reset" /\ call'[c].old = s
          /\ call'[c].fresh = Len(tale) + 1 /\ Len(tale) + 1 \notin known
          /\ tale'[Len(tale) + 1] = Seed /\ tale'[s] = tale[s]
      BY <1>4, <2>1, <2>2, Sorts
    <2> QED
      BY <2>1, <2>2, <2>3 DEF Story, TreesOf, OldWorldIn
  <1>8. ASSUME NEW s \in Sessions, Load(c, s) PROVE Story(c)' /\ TreesOf(c)' /\ call'[c].pc # "idle"
    <2>1. save.tree \in Worlds
      BY <1>2, <1>8 DEF Load, TypeInv
    <2>2. CASE BindFresh(c, "load", s, save.tree)
      <3>1. UNCHANGED <<known, runtime, save>>
        BY <1>8 DEF Load
      <3>2. s \in known /\ s \in 1..Len(tale) /\ (runtime \in Worlds => runtime = tale[s])
        BY <1>6, <1>8 DEF Load
      <3>3. /\ call'[c].pc = "create" /\ call'[c].op = "load" /\ call'[c].old = s
            /\ call'[c].fresh = Len(tale) + 1 /\ Len(tale) + 1 \notin known
            /\ call'[c].goal = save.tree
            /\ tale'[Len(tale) + 1] = save.tree /\ tale'[s] = tale[s]
        BY <1>4, <2>1, <2>2, <3>2
      <3> QED
        BY <3>1, <3>2, <3>3 DEF Story, TreesOf, OldWorldIn
    <2>3. CASE UNCHANGED <<tale, bound, marker>>
      <3>1. call'[c] = [pc |-> "fork", op |-> "fork", old |-> s, fresh |-> NoSession,
                        goal |-> save.tree]
        BY <1>2, <1>8, <2>3 DEF Load, BindFresh, TypeInv, TypeOK
      <3> QED
        BY <1>6, <1>8, <2>3, <3>1 DEF Load, Story, TreesOf, OldWorldIn
    <2> QED
      BY <1>8, <2>2, <2>3 DEF Load
  <1>9. ASSUME NEW s \in Sessions, Delete(c, s) PROVE Story(c)' /\ TreesOf(c)' /\ call'[c].pc # "idle"
    <2>1. call'[c] = [Idle EXCEPT !.pc = "unlink", !.op = "delete", !.old = s]
      BY <1>2, <1>9 DEF Delete, TypeInv, TypeOK
    <2> QED
      <3>1. call'[c].pc = "unlink" /\ call'[c].op = "delete" /\ call'[c].old = s
        BY <2>1 DEF Idle
      <3>2. UNCHANGED <<tale, known, runtime>>
        BY <1>9 DEF Delete
      <3>3. s \in known /\ (runtime \in Worlds => runtime = tale[s])
        BY <1>6, <1>9 DEF Delete
      <3> QED
        BY <3>1, <3>2, <3>3 DEF Story, TreesOf, OldWorldIn
  <1> QED
    BY <1>5, <1>7, <1>8, <1>9

\* A call that returns leaves one session over its own world, or half a tree.
LEMMA ReturnWorldInv ==
  ASSUME Alone, RebindInv, NEW c \in Callers, Returns(c), WorldsAtRest'
  PROVE  WorldInv'
  BY DEF Alone, RebindInv, WorldInv, Returns, TypeInv, TypeOK, Idle

\* A rejection over the old world, or over half a tree.
LEMMA RollBackWorldInv ==
  ASSUME Alone, RebindInv, crashes = 0, NEW c \in Callers, RollBack(c),
         call[c].op \in {"reset", "load", "fork"}, call[c].pc \notin {"idle", "fork"},
         runtime' \in Worlds => runtime' = tale[call[c].old], UNCHANGED <<tale, known>>
  PROVE  WorldInv'
  <1>1. Story(c) /\ Tables(c)
    BY WorldsOfOne
  <1>2. bound' = {call[c].old}
    BY <1>1 DEF Tables, RollBack
  <1>3. WorldsAtRest'
    BY <1>1, <1>2 DEF WorldsAtRest, Story
  <1> QED
    BY <1>3, ReturnWorldInv DEF RollBack

\* A call that goes on, over the same conversations and saves.
LEMMA GoesWorldInv ==
  ASSUME Alone, RebindInv, crashes = 0, NEW c \in Callers, NEW pc, Goes(c, pc),
         pc \notin {"idle", "create", "fork"}, call[c].pc \notin {"idle", "create", "fork"},
         UNCHANGED <<tale, known>>, UNCHANGED save \/ call[c].op = "delete", TreesOf(c)'
  PROVE  WorldInv'
  <1>1. (\A d \in Callers : d = c) /\ Story(c) /\ PcOfOp(c)
    BY WorldsOfOne
  <1>2. /\ call'[c].pc = pc /\ call'[c].op = call[c].op /\ call'[c].old = call[c].old
        /\ call'[c].fresh = call[c].fresh /\ call'[c].goal = call[c].goal
    BY GoesPc DEF RebindInv
  <1>3. Story(c)'
    BY <1>1, <1>2 DEF Story, PcOfOp
  <1> QED
    BY <1>1, <1>2, <1>3 DEF WorldInv, AllIdle, Idle

LEMMA RebindWorldInv ==
  ASSUME Alone, RebindInv, crashes = 0, NEW c \in Callers, Rebind(c)
  PROVE  WorldInv'
  <1>1. /\ PcOfOp(c) /\ call[c] \in Calls /\ \A d \in Callers : d = c
        /\ (call[c].pc # "idle" => Story(c) /\ TreesOf(c) /\ Tables(c))
    BY WorldsOfOne
  <1>2. TypeInv /\ known \subseteq 1..Len(tale) /\ bound \subseteq 1..Len(tale) /\ Len(tale) \in Nat
    BY DEF RebindInv, TypeInv, TypeOK
  <1>3. CASE CreateResolves(c)
    <2>1. CASE call[c].op = "createSession"
      <3>1. WorldsAtRest'
        BY <1>1, <1>3, <2>1 DEF CreateResolves, At, Tables, Story, WorldsAtRest
      <3> QED
        BY <1>3, <2>1, <3>1, ReturnWorldInv DEF CreateResolves
    <2>2. CASE call[c].op # "createSession"
      <3>1. call[c].op \in {"reset", "load"} /\ Goes(c, AfterCreate(call[c].op))
        BY <1>1, <1>3, <2>2 DEF CreateResolves, At, PcOfOp, LoadSteps, Calls
      <3>2. /\ call'[c].pc = AfterCreate(call[c].op) /\ call'[c].op = call[c].op
            /\ call'[c].old = call[c].old /\ call'[c].fresh = call[c].fresh
            /\ call'[c].goal = call[c].goal
        BY <1>2, <3>1, GoesPc
      <3>3. AfterCreate(call[c].op) \in {"clear", "sweep"}
        BY <3>1 DEF AfterCreate
      <3>4. Story(c)' /\ TreesOf(c)'
        BY <1>1, <1>3, <3>1, <3>2, <3>3 DEF CreateResolves, At, Story, TreesOf, OldWorldIn
      <3> QED
        BY <1>1, <3>2, <3>3, <3>4 DEF WorldInv, AllIdle, Idle
    <2> QED
      BY <2>1, <2>2
  <1>4. CASE CreateRejects(c)
    <2>1. CASE call[c].op = "createSession" /\ Returns(c)
      <3>1. WorldsAtRest'
        BY <1>1, <1>4, <2>1 DEF CreateRejects, At, Tables, Story, WorldsAtRest
      <3> QED
        BY <2>1, <3>1, ReturnWorldInv
    <2>2. CASE call[c].op # "createSession" /\ RollBack(c)
      <3>1. call[c].op \in {"reset", "load"} /\ call[c].pc = "create"
        BY <1>1, <1>4, <2>2 DEF CreateRejects, At, PcOfOp, LoadSteps, Calls
      <3>2. runtime' \in Worlds => runtime' = tale[call[c].old]
        BY <1>1, <1>4, <3>1 DEF CreateRejects, TreesOf, OldWorldIn
      <3> QED
        BY <1>4, <2>2, <3>1, <3>2, RollBackWorldInv DEF CreateRejects
    <2> QED
      BY <1>4, <2>1, <2>2 DEF CreateRejects
  <1>5. CASE ForkResolves(c)
    <2>1. call[c].op = "fork" /\ call[c].goal \in Worlds
      BY <1>1, <1>2, <1>5 DEF ForkResolves, At, PcOfOp, LoadSteps, Calls, TypeInv, CallTypes
    <2>2. /\ call'[c].pc = "sweep" /\ call'[c].op = "fork" /\ call'[c].old = call[c].old
          /\ call'[c].fresh = Len(tale) + 1 /\ call'[c].goal = call[c].goal
      BY <1>1, <1>2, <1>5, <2>1 DEF ForkResolves, TypeInv, TypeOK, Calls
    <2>3. /\ tale'[Len(tale) + 1] = call[c].goal /\ \A s \in 1..Len(tale) : tale'[s] = tale[s]
      BY <1>2, <1>5, <2>1, MintTale DEF ForkResolves
    <2>4. call[c].old \in known /\ call[c].old \in 1..Len(tale)
      BY <1>1, <1>2, <1>5, <2>1 DEF ForkResolves, At, Story
    <2>5. Story(c)' /\ TreesOf(c)'
      BY <1>1, <1>5, <2>1, <2>2, <2>3, <2>4 DEF ForkResolves, At, Story, TreesOf, OldWorldIn
    <2> QED
      BY <1>1, <2>2, <2>5 DEF WorldInv, AllIdle, Idle
  <1>6. CASE ForkRejects(c)
    <2>1. call[c].op = "fork" /\ bound = {call[c].old}
      BY <1>1, <1>6 DEF ForkRejects, At, PcOfOp, Tables, LoadSteps, Calls
    <2>2. WorldsAtRest'
      BY <1>1, <1>6, <2>1 DEF ForkRejects, At, Story, TreesOf, OldWorldIn, WorldsAtRest
    <2> QED
      BY <1>6, <2>2, ReturnWorldInv DEF ForkRejects
  <1>7. ASSUME RollBack(c), call[c].pc \in {"clear", "seed"} \cup LoadSteps,
               runtime' \in Worlds => runtime' = tale[call[c].old], UNCHANGED <<tale, known>>
        PROVE  WorldInv'
    <2>1. call[c].op \in {"reset", "load", "fork"} /\ call[c].pc \notin {"idle", "fork"}
      BY <1>1, <1>7 DEF PcOfOp, LoadSteps, Calls
    <2> QED
      BY <1>7, <2>1, RollBackWorldInv
  <1>8. ASSUME NEW pc \in {"seed"} \cup LoadSteps, Goes(c, pc),
               call[c].pc \in {"clear", "seed"} \cup LoadSteps,
               UNCHANGED <<tale, known, save>>,
               /\ pc \in {"sweep", "retire"} => OldWorldIn(c, runtime')
               /\ pc = "seed" => runtime' \notin Worlds
               /\ pc \in {"copy", "copying", "restore"}
                    => runtime' \notin Worlds /\ OldWorldIn(c, retired')
               /\ pc \in {"drop", "commit"} => runtime' = tale[call[c].fresh]
        PROVE  WorldInv'
    <2>1. /\ call'[c].pc = pc /\ call'[c].op = call[c].op
          /\ call'[c].old = call[c].old /\ call'[c].fresh = call[c].fresh
      BY <1>2, <1>8, GoesPc
    <2>2. TreesOf(c)'
      BY <1>8, <2>1 DEF TreesOf, OldWorldIn, LoadSteps
    <2> QED
      BY <1>8, <2>2, GoesWorldInv DEF LoadSteps
  <1>9. CASE SeedClears(c)
    <2>1. CASE runtime' \in {Gone, Torn} /\ Goes(c, "seed")
      BY <1>8, <1>9, <2>1, Sorts DEF SeedClears, At, LoadSteps
    <2>2. CASE runtime' \in {runtime, Torn} /\ RollBack(c)
      BY <1>1, <1>7, <1>9, <2>2, Sorts DEF SeedClears, At, TreesOf, OldWorldIn, PcOfOp
    <2> QED
      BY <1>9, <2>1, <2>2 DEF SeedClears
  <1>10. CASE SeedCopies(c)
    <2>1. call[c].op = "reset"
      BY <1>1, <1>10 DEF SeedCopies, At, PcOfOp, LoadSteps, Calls
    <2>2. CASE runtime' = Seed /\ Goes(c, "commit")
      BY <1>1, <1>8, <1>10, <2>1, <2>2 DEF SeedCopies, At, LoadSteps, Story
    <2>3. CASE runtime' = Torn /\ RollBack(c)
      BY <1>7, <1>10, <2>3, Sorts DEF SeedCopies, At
    <2> QED
      BY <1>10, <2>2, <2>3 DEF SeedCopies
  <1>11. CASE Sweep(c)
    <2>1. OldWorldIn(c, runtime) /\ call[c].op # "createSession"
      BY <1>1, <1>11 DEF Sweep, At, TreesOf, PcOfOp
    <2>2. CASE Goes(c, "retire")
      BY <1>8, <1>11, <2>1, <2>2 DEF Sweep, At, LoadSteps
    <2>3. CASE RollBack(c)
      BY <1>7, <1>11, <2>1, <2>3 DEF Sweep, At, LoadSteps, OldWorldIn
    <2> QED
      BY <1>11, <2>2, <2>3 DEF Sweep
  <1>12. CASE Retire(c)
    <2>1. OldWorldIn(c, runtime) /\ call[c].op # "createSession"
      BY <1>1, <1>12 DEF Retire, At, TreesOf, PcOfOp
    <2>2. CASE retired' = runtime /\ runtime' = Gone /\ Goes(c, "copy")
      BY <1>8, <1>12, <2>1, <2>2, Sorts DEF Retire, At, LoadSteps
    <2>3. CASE RollBack(c) /\ UNCHANGED <<runtime, retired>>
      BY <1>7, <1>12, <2>1, <2>3 DEF Retire, At, LoadSteps, OldWorldIn
    <2> QED
      BY <1>12, <2>2, <2>3 DEF Retire
  <1>13. CASE CopyStarts(c)
    BY <1>1, <1>8, <1>13, Sorts DEF CopyStarts, At, LoadSteps, TreesOf
  <1>14. CASE CopyEnds(c)
    <2>1. call[c].op \in {"load", "fork"}
      BY <1>1, <1>14 DEF CopyEnds, At, PcOfOp, LoadSteps, Calls
    <2>2. CASE runtime' = save.tree /\ Goes(c, "drop")
      BY <1>1, <1>8, <1>14, <2>1, <2>2 DEF CopyEnds, At, LoadSteps, Story
    <2>3. CASE Goes(c, "restore") /\ UNCHANGED runtime
      BY <1>1, <1>8, <1>14, <2>3 DEF CopyEnds, At, LoadSteps, TreesOf
    <2> QED
      BY <1>14, <2>2, <2>3 DEF CopyEnds
  <1>15. CASE Restore(c)
    BY <1>1, <1>7, <1>15, Sorts DEF Restore, At, LoadSteps, TreesOf, OldWorldIn
  <1>16. CASE Drop(c)
    BY <1>1, <1>8, <1>16 DEF Drop, At, LoadSteps, TreesOf
  <1>17. CASE Commit(c)
    <2>1. call[c].op \in {"reset", "load", "fork"}
      BY <1>1, <1>17 DEF Commit, At, PcOfOp, Calls
    <2>2. bound' = {call[c].fresh} /\ call[c].fresh \in known
      BY <1>1, <1>17, <2>1 DEF Commit, At, Tables, Story
    <2>3. WorldsAtRest'
      BY <1>1, <1>17, <2>2 DEF Commit, At, TreesOf, WorldsAtRest
    <2> QED
      BY <1>17, <2>3, ReturnWorldInv DEF Commit
  <1>18. CASE RemoveTree(c)
    <2>1. call[c].op = "delete" /\ call[c].pc \in {"unlink", "backoff"}
      BY <1>1, <1>18 DEF RemoveTree, At, PcOfOp, LoadSteps, Calls
    <2>2. /\ bound = {call[c].old} /\ call[c].old \in known /\ UNCHANGED <<tale, known>>
          /\ OldWorldIn(c, runtime) /\ runtime' \in {runtime, Torn, Gone}
      BY <1>1, <1>18, <2>1 DEF RemoveTree, Tables, Story, TreesOf
    <2>3. CASE Returns(c)
      <3>1. bound' \subseteq {call[c].old}
        BY <1>18, <2>2 DEF RemoveTree
      <3>2. WorldsAtRest'
        BY <2>2, <3>1, Sorts DEF WorldsAtRest, OldWorldIn
      <3> QED
        BY <2>3, <3>2, ReturnWorldInv
    <2>4. CASE Goes(c, "backoff")
      <3>1. /\ call'[c].pc = "backoff" /\ call'[c].op = "delete"
            /\ call'[c].old = call[c].old
        BY <1>2, <2>1, <2>4, GoesPc
      <3>2. TreesOf(c)'
        BY <2>2, <3>1, Sorts DEF TreesOf, OldWorldIn
      <3> QED
        BY <2>1, <2>2, <2>4, <3>2, GoesWorldInv
    <2> QED
      BY <1>18, <2>3, <2>4 DEF RemoveTree
  <1> QED
    BY <1>3, <1>4, <1>5, <1>6, <1>9, <1>10, <1>11, <1>12, <1>13, <1>14, <1>15, <1>16, <1>17, <1>18
       DEF Rebind

\* A turn moves a conversation and its world on together, at rest or while a
\* call waits for the kernel.
LEMMA PlayWorldInv ==
  ASSUME Alone, RebindInv, crashes = 0, NEW s \in Sessions, Play(s)
  PROVE  WorldInv'
  <1>1. /\ runtime' = tale'[s] /\ \A t \in 1..Len(tale) : t # s => tale'[t] = tale[t]
        /\ s \in 1..Len(tale)
    BY DEF Play, Open, RebindInv, TypeInv, TypeOK
  <1>2. bound \subseteq 1..Len(tale)
    BY DEF RebindInv, TypeInv, TypeOK
  <1>3. ASSUME AllIdle PROVE WorldsAtRest'
    <2>1. bound = {s} /\ (known # {} => bound \subseteq known)
      BY <1>3, OpenIsBound DEF Play, RebindInv, BindInv, WorldInv, WorldsAtRest
    <2> QED
      BY <1>1, <2>1 DEF Play, WorldsAtRest
  <1>4. ASSUME NEW c \in Callers, call[c].pc # "idle" PROVE Story(c)' /\ TreesOf(c)'
    <2>1. Story(c) /\ TreesOf(c) /\ Tables(c) /\ PcOfOp(c) /\ call[c] \in Calls
      BY <1>4, WorldsOfOne
    <2>2. call[c].pc \in {"create", "fork", "backoff"}
      BY <1>4, <2>1 DEF Play, EventLoop, Calls, Awaits
    <2>3. call[c].op # "createSession" /\ s = call[c].old
      BY <2>1, <2>2 DEF Play, Open, Story, Tables, PcOfOp, LoadSteps, Calls
    <2>4. call[c].op \in {"reset", "load"} => tale'[call[c].fresh] = tale[call[c].fresh]
      BY <1>1, <1>2, <2>1, <2>3 DEF Tables
    <2>5. call[c].op = "fork" => call[c].pc = "fork"
      BY <2>1, <2>2 DEF PcOfOp, LoadSteps
    <2>6. UNCHANGED <<known, call, save>>
      BY DEF Play
    <2>7. Story(c)'
      BY <2>1, <2>3, <2>4, <2>5, <2>6 DEF Story
    <2>8. TreesOf(c)'
      BY <1>1, <2>2, <2>3, <2>6 DEF TreesOf, OldWorldIn
    <2> QED
      BY <2>7, <2>8
  <1> QED
    BY <1>3, <1>4 DEF WorldInv, Play, AllIdle

LEMMA NextWorldInv == Alone /\ RebindInv /\ [Next]_vars => WorldInv'
  <1> SUFFICES ASSUME Alone, RebindInv, [Next]_vars, crashes' = 0 PROVE WorldInv'
    BY DEF WorldInv
  <1>1. crashes = 0 \/ Crash
    BY DEF Next, vars, CreateSession, BindFresh, Rebind, Reset, Load, Delete, Play, Save,
           CreateResolves, CreateRejects, ForkResolves, ForkRejects, SeedClears, SeedCopies, Sweep,
           Retire, CopyStarts, CopyEnds, Restore, Drop, Commit, RemoveTree
  <1>2. ~Crash
    BY DEF Crash, RebindInv, TypeInv, TypeOK
  <1>3. CASE UNCHANGED vars
    BY <1>3 DEF vars, RebindInv, WorldInv, Story, TreesOf, OldWorldIn, WorldsAtRest, AllIdle
  <1>4. ASSUME NEW c \in Callers, CreateSession(c) \/ Rebind(c) PROVE WorldInv'
    BY <1>1, <1>2, <1>4, StartWorldInv, RebindWorldInv
  <1>5. ASSUME NEW c \in Callers, NEW s \in Sessions, Reset(c, s) \/ Load(c, s) \/ Delete(c, s)
        PROVE  WorldInv'
    BY <1>1, <1>2, <1>5, StartWorldInv
  <1>6. ASSUME NEW s \in Sessions, Play(s) PROVE WorldInv'
    BY <1>1, <1>2, <1>6, PlayWorldInv
  <1>7. ASSUME NEW s \in Sessions, Save(s) PROVE WorldInv'
    <2>1. AllIdle
      BY <1>7 DEF Save, Alone
    <2> QED
      BY <1>7, <2>1 DEF Save, RebindInv, WorldInv, WorldsAtRest, AllIdle, Idle
  <1> QED
    BY <1>2, <1>3, <1>4, <1>5, <1>6, <1>7 DEF Next

LEMMA RebindInvHolds == ASSUME Alone PROVE Spec => []RebindInv
  <1>1. Init => RebindInv
    BY InitTypeInv, InitBindInv, InitWorldInv DEF RebindInv
  <1>2. RebindInv /\ [Next]_vars => RebindInv'
    BY NextTypeInv, NextBindInv, NextWorldInv DEF RebindInv
  <1> QED
    BY <1>1, <1>2, PTL DEF Spec

\* Whatever the kernel or the disk refuses, no conversation is left over the
\* whole world of another one.
THEOREM OwnWorldOrNone == ASSUME Alone PROVE Spec => []NoForeignWorld
  <1>1. RebindInv => NoForeignWorld
    BY DEF RebindInv, BindInv, WorldInv, NoForeignWorld, TablesAtRest, WorldsAtRest
  <1> QED
    BY <1>1, RebindInvHolds, PTL

\* A rejected rebind leaves the player in a session that exists.
THEOREM BoundIsKnown == ASSUME Alone PROVE Spec => []BoundSessionExists
  <1>1. RebindInv => BoundSessionExists
    BY DEF RebindInv, WorldInv, BoundSessionExists, WorldsAtRest
  <1> QED
    BY <1>1, RebindInvHolds, PTL

-----------------------------------------------------------------------------
(* The swap of a load: where a whole tree is, step by step, crashes or not. *)

SwapInv ==
  \A c \in Callers :
    /\ call[c].pc = "retire" => retired = Gone
    /\ call[c].pc \in {"copy", "copying", "restore"} => runtime \notin Worlds
    /\ call[c].pc \in {"drop", "commit"} /\ call[c].op \in {"load", "fork"} => runtime \in Worlds

LEMMA NextSwapInv == Alone /\ TypeInv /\ BindInv /\ SwapInv /\ [Next]_vars => SwapInv'
  <1> SUFFICES ASSUME Alone, TypeInv, BindInv, SwapInv, [Next]_vars PROVE SwapInv'
    OBVIOUS
  <1> USE Sorts
  <1>1. CASE UNCHANGED vars
    BY <1>1 DEF vars, SwapInv
  <1>2. ASSUME NEW c \in Callers, Returns(c) PROVE SwapInv'
    BY <1>2 DEF Alone, Returns, SwapInv, Idle, TypeInv, TypeOK
  <1>3. ASSUME NEW c \in Callers, NEW pc, Goes(c, pc),
               pc = "retire" => retired' = Gone,
               pc \in {"copy", "copying", "restore"} => runtime' \notin Worlds,
               pc \in {"drop", "commit"} /\ call[c].op \in {"load", "fork"} => runtime' \in Worlds
        PROVE  SwapInv'
    BY <1>3, GoesPc DEF Alone, SwapInv
  <1>4. ASSUME NEW c \in Callers, CreateSession(c) PROVE SwapInv'
    BY <1>4 DEF CreateSession, BindFresh, Alone, SwapInv, TypeInv, TypeOK
  <1>5. ASSUME NEW c \in Callers, NEW s \in Sessions, Reset(c, s) \/ Load(c, s) \/ Delete(c, s)
        PROVE  SwapInv'
    <2> call \in [Callers -> Calls] /\ \A d \in Callers : d = c
      BY DEF Alone, TypeInv, TypeOK
    <2>1. ASSUME call'[c].pc \in {"create", "fork", "unlink"} PROVE SwapInv'
      BY <2>1 DEF SwapInv
    <2>2. ASSUME NEW op, NEW goal, BindFresh(c, op, s, goal) PROVE call'[c].pc = "create"
      BY <2>2 DEF BindFresh
    <2>3. CASE Reset(c, s)
      BY <2>1, <2>2, <2>3 DEF Reset
    <2>4. CASE Load(c, s)
      <3>1. CASE BindFresh(c, "load", s, save.tree)
        BY <2>1, <2>2, <3>1
      <3>2. CASE call' = [call EXCEPT ![c] = [pc |-> "fork", op |-> "fork", old |-> s,
                                              fresh |-> NoSession, goal |-> save.tree]]
        <4>1. call'[c].pc = "fork"
          BY <3>2
        <4> QED
          BY <2>1, <4>1
      <3> QED
        BY <2>4, <3>1, <3>2 DEF Load
    <2>5. CASE Delete(c, s)
      <3>1. call'[c] = [Idle EXCEPT !.pc = "unlink", !.op = "delete", !.old = s]
        BY <2>5 DEF Delete
      <3>2. call'[c].pc = "unlink"
        BY <3>1 DEF Idle
      <3> QED
        BY <2>1, <3>2
    <2> QED
      BY <1>5, <2>3, <2>4, <2>5
  <1>6. ASSUME NEW c \in Callers, Rebind(c) PROVE SwapInv'
    <2>1. PcOfOp(c) /\ call[c] \in Calls
      BY RestOfOne DEF TypeInv, TypeOK
    <2>2. ASSUME RollBack(c) PROVE SwapInv'
      BY <1>2, <2>2 DEF RollBack
    <2>3. CASE CreateResolves(c)
      <3>1. CASE Returns(c)
        BY <1>2, <3>1
      <3>2. CASE Goes(c, AfterCreate(call[c].op))
        BY <1>3, <3>2 DEF AfterCreate
      <3> QED
        BY <2>3, <3>1, <3>2 DEF CreateResolves
    <2>4. CASE ForkResolves(c)
      BY <2>4 DEF ForkResolves, Alone, SwapInv, TypeInv, TypeOK, Calls
    <2>5. CASE CreateRejects(c) \/ ForkRejects(c) \/ Restore(c) \/ Commit(c)
      BY <1>2, <2>2, <2>5 DEF CreateRejects, ForkRejects, Restore, Commit
    <2>6. CASE SeedClears(c) \/ Sweep(c)
      BY <1>3, <2>2, <2>6 DEF SeedClears, Sweep
    <2>7. CASE SeedCopies(c)
      BY <1>3, <2>2, <2>7 DEF SeedCopies
    <2>8. CASE Retire(c) \/ CopyStarts(c)
      BY <1>3, <2>2, <2>8 DEF Retire, CopyStarts
    <2>9. CASE CopyEnds(c)
      <3>1. CASE save.tree # Gone /\ runtime' = save.tree /\ Goes(c, "drop")
        BY <1>3, <3>1 DEF TypeInv
      <3>2. CASE Goes(c, "restore") /\ UNCHANGED runtime
        BY <1>3, <2>9, <3>2 DEF CopyEnds, At, SwapInv
      <3> QED
        BY <2>9, <3>1, <3>2 DEF CopyEnds
    <2>10. CASE Drop(c)
      BY <1>3, <2>10 DEF Drop, At, SwapInv
    <2>11. CASE RemoveTree(c)
      <3>1. CASE Returns(c)
        BY <1>2, <3>1
      <3>2. CASE Goes(c, "backoff")
        BY <1>3, <3>2
      <3> QED
        BY <2>11, <3>1, <3>2 DEF RemoveTree
    <2> QED
      BY <1>6, <2>3, <2>4, <2>5, <2>6, <2>7, <2>8, <2>9, <2>10, <2>11 DEF Rebind
  <1>7. ASSUME NEW s \in Sessions, Play(s) \/ Save(s) PROVE SwapInv'
    BY <1>7 DEF Play, Save, EventLoop, Steps, SwapInv
  <1>8. CASE Crash
    BY <1>8 DEF Crash, SwapInv, Idle
  <1> QED
    BY <1>1, <1>4, <1>5, <1>6, <1>7, <1>8 DEF Next

\* From its sweep on a load keeps a whole tree on the disk in every state in
\* which the process may die, also when an earlier death left half a tree.
THEOREM WholeWorldKept == ASSUME Alone PROVE Spec => LoadKeepsWholeWorld
  <1> DEFINE P == \A c \in Callers :
        call[c].op \in {"load", "fork"} /\ call[c].pc \in Swapping /\ WholeTree => WholeTree'
  <1>1. TypeInv /\ BindInv /\ SwapInv /\ [Next]_vars => [P]_vars
    <2> SUFFICES ASSUME TypeInv, BindInv, SwapInv, Next, NEW c \in Callers,
                        call[c].op \in {"load", "fork"}, call[c].pc \in Swapping, WholeTree
                 PROVE  WholeTree'
      BY DEF P
    <2>1. call[c].pc \in Steps /\ call[c] # Idle /\ call[c].pc \notin Awaits
      BY DEF Swapping, Steps, Awaits, Idle
    <2>2. CASE UNCHANGED <<runtime, retired>>
      BY <2>2 DEF WholeTree
    <2>3. ASSUME NEW d \in Callers, Rebind(d) PROVE WholeTree'
      <3>1. c = d
        BY DEF Alone
      <3>2. CASE Retire(c)
        BY <3>2, Sorts DEF Retire, At, SwapInv, WholeTree
      <3>3. CASE CopyStarts(c) \/ CopyEnds(c)
        <4>1. retired \in Worlds /\ retired' = retired
          BY <3>3 DEF CopyStarts, CopyEnds, At, SwapInv, WholeTree
        <4> QED
          BY <4>1 DEF WholeTree
      <3>4. CASE Restore(c)
        BY <3>4 DEF Restore, At, SwapInv, WholeTree
      <3>5. CASE Drop(c)
        BY <3>5 DEF Drop, At, SwapInv, WholeTree
      <3>6. CASE Commit(c)
        BY <2>2, <3>6 DEF Commit
      <3> QED
        BY <2>1, <2>3, <3>1, <3>2, <3>3, <3>4, <3>5, <3>6
           DEF Rebind, CreateResolves, CreateRejects, ForkResolves, ForkRejects, SeedClears,
               SeedCopies, Sweep, RemoveTree, EventLoop, At, Swapping
    <2>4. CASE Crash
      BY <2>2, <2>4 DEF Crash
    <2> QED
      BY <2>1, <2>3, <2>4 DEF Next, CreateSession, Reset, Load, Delete, Play, Save, Starts, EventLoop,
                              AllIdle
  <1>2. Init => TypeInv /\ BindInv /\ SwapInv
    BY InitTypeInv, InitBindInv DEF Init, SwapInv, Idle
  <1>3. TypeInv /\ BindInv /\ SwapInv /\ [Next]_vars => (TypeInv /\ BindInv /\ SwapInv)'
    BY NextTypeInv, NextBindInv, NextSwapInv
  <1> QED
    BY <1>1, <1>2, <1>3, PTL DEF Spec, LoadKeepsWholeWorld
=============================================================================
