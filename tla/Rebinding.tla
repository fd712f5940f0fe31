----------------------------- MODULE Rebinding -----------------------------
(***************************************************************************)
(* The binding of one workspace directory to its session: createSession,   *)
(* reset, load and deleteSession of packages/engine/src/index.ts, with the *)
(* file steps of seedRuntime and loadSave (workspace.ts).  The engine's    *)
(* `workspaces` map and the marker file .tavern-session are changed around *)
(* two asynchronous calls of the kernel (create, fork: external), and the  *)
(* runtime/ tree is replaced in synchronous steps, each of which may throw *)
(* and between any two of which the process may die.  A world is a number: *)
(* 0 for the card's seed, and a new one for what every turn made of it.    *)
(* The fence in front of a load is the subject of TurnSettlement.          *)
(***************************************************************************)
EXTENDS Integers, Sequences, FiniteSets

CONSTANTS Callers,        (* remote calls that may be under way together       *)
          Faults,         (* calls of the kernel and the disk that may fail    *)
          SaveMeanwhile,  (* may the player save while a rebind is under way?  *)
          MaxSessions,    (* bound: session ids handed out                     *)
          MaxPlays,       (* bound: turns that change the world                *)
          MaxCrashes      (* bound: deaths of the engine's process             *)

Operations == {"create", "fork", "clear", "seed", "sweep", "rename", "copy", "restore",
               "drop", "unlink"}

ASSUME RebindAssumption ==
  /\ Faults \subseteq Operations /\ SaveMeanwhile \in BOOLEAN
  /\ MaxSessions \in Nat /\ MaxPlays \in Nat /\ MaxCrashes \in Nat

Seed == 0
Worlds == 0..MaxPlays
Torn == -1      \* a tree that was half removed or half copied
Gone == -2      \* no tree
Trees == Gone..MaxPlays
NoSession == 0

VARIABLES
  tale,     \* per session: the world its conversation tells of
  known,    \* sessions the kernel created
  bound,    \* the keys of `workspaces` that name this directory
  marker,   \* the session id in .tavern-session, NoSession without the file
  runtime,  \* the tree runtime/
  retired,  \* the tree .tavern-runtime-retired
  save,     \* the one save of this model: its tree, and its stamp has a boundary
  call,     \* per caller: where its remote call is
  plays,    \* turns played, a counter for the bound
  crashes   \* deaths, a counter for the bound

vars == <<tale, known, bound, marker, runtime, retired, save, call, plays, crashes>>

Sessions == 1..MaxSessions

\* Where a call gives the event loop away, and where it holds it.
Awaits == {"create", "fork", "backoff"}
Steps  == {"clear", "seed", "sweep", "retire", "copy", "copying", "restore", "drop", "commit",
           "unlink"}

\* "load" opens an empty session over the save, "fork" the stamped history.
Calls == [pc : {"idle"} \cup Awaits \cup Steps, op : {"createSession", "reset", "load", "fork", "delete"},
          old : Sessions \cup {NoSession}, fresh : Sessions \cup {NoSession}, goal : Trees]
Idle == [pc |-> "idle", op |-> "createSession", old |-> NoSession, fresh |-> NoSession, goal |-> Gone]

TypeOK ==
  /\ tale \in Seq(Worlds) /\ Len(tale) <= MaxSessions
  /\ known \subseteq 1..Len(tale) /\ bound \subseteq 1..Len(tale)
  /\ marker \in 0..Len(tale)
  /\ runtime \in Trees /\ retired \in Trees
  /\ save \in [tree : Trees, boundary : BOOLEAN]
  /\ call \in [Callers -> Calls]
  /\ plays \in 0..MaxPlays /\ crashes \in 0..MaxCrashes

Init ==
  /\ tale = <<>> /\ known = {} /\ bound = {} /\ marker = NoSession
  /\ runtime = Gone /\ retired = Gone /\ save = [tree |-> Gone, boundary |-> FALSE]
  /\ call = [c \in Callers |-> Idle] /\ plays = 0 /\ crashes = 0

AllIdle == \A c \in Callers : call[c] = Idle

\* JavaScript runs a synchronous section to its end.
EventLoop == \A c \in Callers : call[c].pc \notin Steps

\* Bound: a deletion overlaps no other call.
Starts(c) == EventLoop /\ call[c] = Idle /\ \A d \in Callers : call[d].op # "delete"
At(c, pc) == call[c].pc = pc
Goes(c, pc) == call' = [call EXCEPT ![c].pc = pc]
Returns(c) == call' = [call EXCEPT ![c] = Idle]

-----------------------------------------------------------------------------
(* The kernel's part of a rebind.                                           *)

\* Mutant: a session is bound under an id nobody handed out.
BindUnminted(c, op, s, goal) ==
  /\ Len(tale) < MaxSessions
  /\ bound' = bound \cup {Len(tale) + 1} /\ marker' = Len(tale) + 1
  /\ call' = [call EXCEPT ![c] = [pc |-> "create", op |-> op, old |-> s, fresh |-> Len(tale) + 1,
                                  goal |-> goal]]
  /\ UNCHANGED tale

\* A session id is minted, bound and written to the marker, before it exists.
BindFresh(c, op, s, goal) ==
  /\ Len(tale) < MaxSessions
  /\ tale' = Append(tale, goal)
  /\ bound' = bound \cup {Len(tale) + 1} /\ marker' = Len(tale) + 1
  /\ call' = [call EXCEPT ![c] = [pc |-> "create", op |-> op, old |-> s, fresh |-> Len(tale) + 1,
                                  goal |-> goal]]

\* The directories are made first; the tree is empty until a card is imported.
CreateSession(c) ==
  /\ Starts(c) /\ tale = <<>>
  /\ BindFresh(c, "createSession", NoSession, Seed) /\ runtime' = Seed
  /\ UNCHANGED <<known, retired, save, plays, crashes>>

\* The session a client can name: bound (root() throws otherwise) and open.
Open(s) == s \in bound /\ s \in known

Reset(c, s) ==
  /\ Starts(c) /\ Open(s)
  /\ BindFresh(c, "reset", s, Seed)
  /\ UNCHANGED <<known, runtime, retired, save, plays, crashes>>

\* load() reads the stamp now and the save's tree after the kernel has answered.
Load(c, s) ==
  /\ Starts(c) /\ Open(s) /\ save.tree # Gone
  /\ \/ ~save.boundary /\ BindFresh(c, "load", s, save.tree)
     \/ /\ save.boundary
        /\ call' = [call EXCEPT ![c] = [pc |-> "fork", op |-> "fork", old |-> s, fresh |-> NoSession,
                                        goal |-> save.tree]]
        /\ UNCHANGED <<tale, bound, marker>>
  /\ UNCHANGED <<known, runtime, retired, save, plays, crashes>>

\* Where create() continues.
AfterCreate(op) == CASE op = "reset" -> "clear" [] op = "load" -> "sweep" [] OTHER -> "idle"

CreateResolves(c) ==
  /\ EventLoop /\ At(c, "create")
  /\ known' = known \cup {call[c].fresh}
  /\ IF call[c].op = "createSession" THEN Returns(c) ELSE Goes(c, AfterCreate(call[c].op))
  /\ UNCHANGED <<tale, bound, marker, runtime, retired, save, plays, crashes>>

\* Mutants: the rollback forgets the marker; it forgets the binding.
KeepFreshMarker(c) ==
  /\ bound' = bound \ {call[c].fresh} /\ UNCHANGED marker
  /\ Returns(c)
KeepFreshBinding(c) ==
  /\ marker' = IF call[c].op = "fork" THEN marker ELSE call[c].old
  /\ UNCHANGED bound
  /\ Returns(c)

\* The call rejects: the fresh binding goes; a fork has not touched the marker.
RollBack(c) ==
  /\ bound' = bound \ {call[c].fresh}
  /\ marker' = IF call[c].op = "fork" THEN marker ELSE call[c].old
  /\ Returns(c)

\* createSession has no rollback.
CreateRejects(c) ==
  /\ "create" \in Faults /\ EventLoop /\ At(c, "create")
  /\ \/ call[c].op = "createSession" /\ Returns(c) /\ UNCHANGED <<bound, marker>>
     \/ call[c].op # "createSession" /\ RollBack(c)
  /\ UNCHANGED <<tale, known, runtime, retired, save, plays, crashes>>

\* The fork exists and is bound; its marker waits for the runtime swap.
ForkResolves(c) ==
  /\ EventLoop /\ At(c, "fork") /\ Len(tale) < MaxSessions
  /\ tale' = Append(tale, call[c].goal)
  /\ known' = known \cup {Len(tale) + 1} /\ bound' = bound \cup {Len(tale) + 1}
  /\ call' = [call EXCEPT ![c].pc = "sweep", ![c].fresh = Len(tale) + 1]
  /\ UNCHANGED <<marker, runtime, retired, save, plays, crashes>>

ForkRejects(c) ==
  /\ "fork" \in Faults /\ EventLoop /\ At(c, "fork")
  /\ Returns(c)
  /\ UNCHANGED <<tale, known, bound, marker, runtime, retired, save, plays, crashes>>

-----------------------------------------------------------------------------
(* seedRuntime: remove the tree, make it again, copy preset/setup into it.  *)

SeedClears(c) ==
  /\ At(c, "clear")
  /\ \/ runtime' \in {Gone, Torn} /\ Goes(c, "seed") /\ UNCHANGED <<bound, marker>>
     \/ "clear" \in Faults /\ runtime' \in {runtime, Torn} /\ RollBack(c)
  /\ UNCHANGED <<tale, known, retired, save, plays, crashes>>

SeedCopies(c) ==
  /\ At(c, "seed")
  /\ \/ runtime' = Seed /\ Goes(c, "commit") /\ UNCHANGED <<bound, marker>>
     \/ "seed" \in Faults /\ runtime' = Torn /\ RollBack(c)
  /\ UNCHANGED <<tale, known, retired, save, plays, crashes>>

-----------------------------------------------------------------------------
(* loadSave: rename runtime/ away, copy the save, drop the retired tree.    *)

\* What an earlier load left behind; removing nothing cannot fail.
Sweep(c) ==
  /\ At(c, "sweep")
  /\ \/ retired' = Gone /\ Goes(c, "retire") /\ UNCHANGED <<bound, marker>>
     \/ "sweep" \in Faults /\ retired # Gone /\ retired' \in {retired, Torn} /\ RollBack(c)
  /\ UNCHANGED <<tale, known, runtime, save, plays, crashes>>

\* Mutant: the tree is deleted in place, as it was before the rename.
DeleteInPlace(c) ==
  /\ At(c, "retire")
  /\ runtime' = Gone /\ Goes(c, "copy") /\ UNCHANGED <<bound, marker, retired>>
  /\ UNCHANGED <<tale, known, save, plays, crashes>>

\* A missing runtime/ cannot be renamed.
Retire(c) ==
  /\ At(c, "retire")
  /\ \/ /\ runtime # Gone
        /\ retired' = runtime /\ runtime' = Gone /\ Goes(c, "copy") /\ UNCHANGED <<bound, marker>>
     \/ /\ runtime = Gone \/ "rename" \in Faults
        /\ RollBack(c) /\ UNCHANGED <<runtime, retired>>
  /\ UNCHANGED <<tale, known, save, plays, crashes>>

CopyStarts(c) ==
  /\ At(c, "copy")
  /\ runtime' = Torn /\ Goes(c, "copying")
  /\ UNCHANGED <<tale, known, bound, marker, retired, save, plays, crashes>>

CopyEnds(c) ==
  /\ At(c, "copying")
  /\ \/ save.tree # Gone /\ runtime' = save.tree /\ Goes(c, "drop")
     \/ (save.tree = Gone \/ "copy" \in Faults) /\ Goes(c, "restore") /\ UNCHANGED runtime
  /\ UNCHANGED <<tale, known, bound, marker, retired, save, plays, crashes>>

\* The copy failed: the half copy goes and the retired tree comes back.
Restore(c) ==
  /\ At(c, "restore")
  /\ \/ runtime' = retired /\ retired' = Gone
     \/ "restore" \in Faults /\ runtime' \in {Torn, Gone} /\ UNCHANGED retired
  /\ RollBack(c)
  /\ UNCHANGED <<tale, known, save, plays, crashes>>

\* A retired tree that cannot be removed is left to the next load.
Drop(c) ==
  /\ At(c, "drop")
  /\ \/ retired' = Gone
     \/ "drop" \in Faults /\ retired' \in {retired, Torn}
  /\ Goes(c, "commit")
  /\ UNCHANGED <<tale, known, bound, marker, runtime, save, plays, crashes>>

\* Mutant: a fork never gets its marker.
CommitWithoutMarker(c) ==
  /\ At(c, "commit")
  /\ bound' = bound \ {call[c].old} /\ UNCHANGED marker /\ Returns(c)
  /\ UNCHANGED <<tale, known, runtime, retired, save, plays, crashes>>

\* The swap is done: a fork's marker is written, the old session is unbound.
Commit(c) ==
  /\ At(c, "commit")
  /\ marker' = IF call[c].op = "fork" THEN call[c].fresh ELSE marker
  /\ bound' = bound \ {call[c].old} /\ Returns(c)
  /\ UNCHANGED <<tale, known, runtime, retired, save, plays, crashes>>

-----------------------------------------------------------------------------
(* deleteSession: remove the directory, with retries, then unbind.          *)

Delete(c, s) ==
  /\ AllIdle /\ Open(s)
  /\ call' = [call EXCEPT ![c] = [Idle EXCEPT !.pc = "unlink", !.op = "delete", !.old = s]]
  /\ UNCHANGED <<tale, known, bound, marker, runtime, retired, save, plays, crashes>>

\* One attempt. A locked file leaves what was not yet removed; the last
\* attempt rejects and the binding stays.
RemoveTree(c) ==
  /\ At(c, "unlink") \/ (At(c, "backoff") /\ EventLoop)
  /\ \/ /\ runtime' = Gone /\ retired' = Gone /\ save' = [save EXCEPT !.tree = Gone]
        /\ marker' = NoSession /\ bound' = bound \ {call[c].old} /\ Returns(c)
     \/ /\ "unlink" \in Faults
        /\ runtime' \in {runtime, Torn, Gone} /\ retired' \in {retired, Torn, Gone}
        /\ save' \in {save, [save EXCEPT !.tree = Gone]} /\ marker' \in {marker, NoSession}
        /\ Goes(c, "backoff") \/ Returns(c)
        /\ UNCHANGED bound
  /\ UNCHANGED <<tale, known, plays, crashes>>

-----------------------------------------------------------------------------
(* What else happens to the workspace.                                      *)

\* A turn of a bound session: conversation and world move on together.
Play(s) ==
  /\ EventLoop /\ Open(s) /\ runtime \in Worlds /\ plays < MaxPlays
  /\ plays' = plays + 1 /\ runtime' = plays + 1 /\ tale' = [tale EXCEPT ![s] = plays + 1]
  /\ UNCHANGED <<known, bound, marker, retired, save, call, crashes>>

\* save(); a conversation without a turn stamps no boundary.
Save(s) ==
  /\ EventLoop /\ (AllIdle \/ SaveMeanwhile)
  /\ Open(s) /\ runtime \in Worlds
  /\ save' = [tree |-> runtime, boundary |-> tale[s] # Seed]
  /\ UNCHANGED <<tale, known, bound, marker, runtime, retired, call, plays, crashes>>

\* restoreBindings: the map is rebuilt from the marker.
restoreBindings == bound' = {marker} \ {NoSession}

\* The process dies anywhere. A session being created may have become durable.
Crash ==
  /\ crashes < MaxCrashes /\ crashes' = crashes + 1
  /\ call' = [c \in Callers |-> Idle]
  /\ restoreBindings
  /\ \/ known' = known
     \/ \E c \in Callers : At(c, "create") /\ known' = known \cup {call[c].fresh}
  /\ UNCHANGED <<tale, marker, runtime, retired, save, plays>>

-----------------------------------------------------------------------------
Rebind(c) == \/ CreateResolves(c) \/ CreateRejects(c) \/ ForkResolves(c) \/ ForkRejects(c)
             \/ SeedClears(c) \/ SeedCopies(c)
             \/ Sweep(c) \/ Retire(c) \/ CopyStarts(c) \/ CopyEnds(c) \/ Restore(c) \/ Drop(c)
             \/ Commit(c) \/ RemoveTree(c)

Next ==
  \/ \E c \in Callers : CreateSession(c) \/ Rebind(c)
  \/ \E c \in Callers, s \in Sessions : Reset(c, s) \/ Load(c, s) \/ Delete(c, s)
  \/ \E s \in Sessions : Play(s) \/ Save(s)
  \/ Crash

Spec == Init /\ [][Next]_vars

-----------------------------------------------------------------------------
(* Properties.                                                              *)

\* When no call is under way, the workspace has one session, and it is the one
\* a restart will find: whatever step failed and wherever the process died, map
\* and marker agree (the binding before create, its rollbacks, the late marker
\* of a fork).
MapFollowsMarker == AllIdle /\ marker # NoSession => bound = {marker}

\* A rebind that was rejected does not leave the player with a session that was
\* never created.
BoundSessionExists == AllIdle /\ crashes = 0 /\ known # {} => bound \subseteq known

\* Whatever failed on the way, a conversation never stands over the whole world
\* of another one: a half-made tree is the worst a failing disk can do.
NoForeignWorld ==
  AllIdle /\ crashes = 0 /\ marker # NoSession /\ runtime \in Worlds => runtime = tale[marker]

\* Past its sweep a load leaves, at each point where the process may die, the
\* replaced world or the loaded one whole on the disk.
Swapping == {"retire", "copy", "copying", "restore", "drop", "commit"}
WholeTree == runtime \in Worlds \/ retired \in Worlds
LoadKeepsWholeWorld ==
  [][\A c \in Callers :
       call[c].op \in {"load", "fork"} /\ call[c].pc \in Swapping /\ WholeTree => WholeTree']_vars

\* All or nothing: after a call the bound conversation stands over its own
\* world, the old one if the call was rejected.
RebindAllOrNothing ==
  AllIdle /\ crashes = 0 /\ marker # NoSession => runtime = tale[marker]
=============================================================================
