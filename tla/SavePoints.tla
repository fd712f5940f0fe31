----------------------------- MODULE SavePoints -----------------------------
(***************************************************************************)
(* Saves, retry and draft restore of one workspace (packages/engine/src:   *)
(* workspace.ts, and prompt, save, load, retryPoint, reset, removeSave of  *)
(* index.ts).  A save is a directory under savings/ with a copy of         *)
(* runtime/, and a stamp in the hidden boundary ledger.  The engine writes *)
(* the two one after the other, prunes the autosave ring by write time,    *)
(* and rebinds the workspace to a fork of the stamped session when a save  *)
(* is loaded.  A runtime/ is modelled by the writes it holds: the texts    *)
(* whose turn changed it, and 0 for what the card's page, the editor or    *)
(* a refused message wrote outside any turn.  The engine refuses none of   *)
(* these calls because a turn is running: a card's page may submit in the  *)
(* middle of one, and the turn of a session that was unbound goes on       *)
(* writing.  prompt, rebind and save are one step each here: their         *)
(* failures and the steps they are made of are not this module's subject.  *)
(***************************************************************************)
EXTENDS Integers, Sequences, FiniteSets

CONSTANTS Keep,          (* autosaveKeep: length of the autosave ring         *)
          HandNames,     (* manual saves are named 1..HandNames; none of them *)
                         (* starts with the prefix "autosave-"                *)
          PageSubmits,   (* does the card's page submit texts by itself?      *)
          MaxTexts,      (* bound: different texts typed or submitted         *)
          MaxWrites,     (* bound: writes to runtime/ outside of turns        *)
          MaxSaves,      (* bound: saves ever written                         *)
          MaxSessions,   (* bound: sessions ever bound to the workspace       *)
          MaxCrashes     (* bound: deaths between a save and its stamp        *)

ASSUME SaveAssumption ==
  /\ Keep \in Nat \ {0} /\ HandNames \in Nat /\ PageSubmits \in BOOLEAN
  /\ MaxTexts \in Nat /\ MaxWrites \in Nat /\ MaxSaves \in Nat
  /\ MaxSessions \in Nat \ {0} /\ MaxCrashes \in Nat

VARIABLES
  logs,      \* per session: the texts of its closed turns
  bound,     \* the session bound to the workspace
  world,     \* what runtime/ holds
  dirs,      \* savings/: [name, at, world], at orders the write times
  ledger,    \* the boundary ledger: [name, at, sid, seq, draft]
  clock,     \* the write time of the newest save
  phase,     \* "rest", "resend", "turn" or "tail"
  text,      \* the text being sent, 0 at rest
  queue,     \* texts the kernel admitted behind the running turn
  ghosts,    \* texts whose turn runs on in a session that is no longer bound
  composer,  \* the text in the input box, 0 if empty
  mixed,     \* history: the world holds what the bound conversation does not explain
  torn,      \* history: write times of the saves made of a world ahead of its boundary
  typed,     \* texts typed, a counter for the bound
  writes,    \* writes outside of turns, a counter for the bound
  crashes    \* deaths, a counter for the bound

turnVars == <<phase, text, queue>>
saveVars == <<dirs, ledger, clock, torn>>
boxVars == <<composer, typed>>

vars == <<logs, bound, world, saveVars, turnVars, ghosts, boxVars, mixed, writes, crashes>>

Texts == 1..MaxTexts
Names == 1..(HandNames + MaxSaves)
Elems(s) == {s[i] : i \in 1..Len(s)}

HistoryTypes ==
  /\ logs \in Seq(Seq(Texts)) /\ Len(logs) <= MaxSessions
  /\ bound \in 1..Len(logs) /\ world \in Seq(0..MaxTexts)

SaveTypes ==
  /\ dirs \subseteq [name : Names, at : 1..MaxSaves, world : Seq(0..MaxTexts)]
  /\ ledger \subseteq [name : Names, at : 1..MaxSaves, sid : 1..MaxSessions,
                       seq : Nat, draft : 0..MaxTexts]
  /\ clock \in 0..MaxSaves /\ torn \subseteq 1..MaxSaves

PlayerTypes ==
  /\ phase \in {"rest", "resend", "turn", "tail"}
  /\ queue \in Seq(Texts) /\ ghosts \subseteq Texts /\ mixed \in BOOLEAN
  /\ text \in 0..MaxTexts /\ composer \in 0..MaxTexts
  /\ typed \in 0..MaxTexts /\ writes \in 0..MaxWrites /\ crashes \in 0..MaxCrashes

TypeOK == HistoryTypes /\ SaveTypes /\ PlayerTypes

Init ==
  /\ logs = <<<<>>>> /\ bound = 1 /\ world = <<>> /\ dirs = {} /\ ledger = {} /\ clock = 0
  /\ phase = "rest" /\ text = 0 /\ composer = 0 /\ typed = 0 /\ writes = 0 /\ crashes = 0
  /\ queue = <<>> /\ ghosts = {} /\ mixed = FALSE /\ torn = {}

-----------------------------------------------------------------------------
(* Directories and stamps.                                                  *)

\* listSaves tells an autosave by the prefix of its name.
IsAuto(name) == name > HandNames

\* Mutant: what the name held before stays.
WithoutNone(set, name) == set

Without(set, name) == {x \in set : x.name # name}

\* writeSave replaces the directory, whatever it held.
WriteSave(name) ==
  Without(dirs, name) \cup {[name |-> name, at |-> clock + 1, world |-> world]}

\* Mutant: the stamp of a name that has one already is kept.
KeepFirstStamp(name, draft) ==
  IF \E s \in ledger : s.name = name THEN ledger
  ELSE ledger \cup {[name |-> name, at |-> clock + 1, sid |-> bound,
                     seq |-> Len(logs[bound]), draft |-> draft]}

\* writeSaveStamp; seq is the last turn/end, 0 for null.
WriteSaveStamp(name, draft) ==
  Without(ledger, name) \cup {[name |-> name, at |-> clock + 1, sid |-> bound,
                               seq |-> Len(logs[bound]), draft |-> draft]}

\* Mutants: the ring drops its newest rows; it counts manual saves too.
DropNewest(ds) ==
  {d \in ds : IsAuto(d.name) => Cardinality({e \in ds : IsAuto(e.name) /\ e.at < d.at}) < Keep}
CountAll(ds) == {d \in ds : Cardinality({e \in ds : e.at > d.at}) < Keep}

\* autosaveStamped keeps the newest rows of the ring and every manual save.
Pruned(ds) ==
  {d \in ds : IsAuto(d.name) => Cardinality({e \in ds : IsAuto(e.name) /\ e.at > d.at}) < Keep}

Named(set, ds) == {x \in set : \E d \in ds : d.name = x.name}

\* A stamp in the ledger outlives a directory only by the editor's delete.
PrunedLedger(stamps, all) == stamps \ Named(stamps, all \ Pruned(all))

\* retryStamp: the autosaves that carry a draft ...
Qualifying == {d \in dirs : IsAuto(d.name) /\ \E s \in ledger : s.name = d.name /\ s.draft # 0}

\* ... of which the newest is the retry point.
RetryPoint == {d \in Qualifying : \A e \in Qualifying : d.at >= e.at}

StampOf(name) == CHOOSE s \in ledger : s.name = name
Stamped(name) == \E s \in ledger : s.name = name

-----------------------------------------------------------------------------
(* Sending.                                                                 *)

\* The box takes text at any time; the client sends a retried text at once.
Type ==
  /\ phase # "resend" /\ composer = 0 /\ typed < MaxTexts
  /\ typed' = typed + 1 /\ composer' = typed + 1
  /\ UNCHANGED <<logs, bound, world, saveVars, turnVars, ghosts, mixed, writes, crashes>>

\* The running turn, which is not closed yet, has changed the world.
Ahead == phase = "turn" /\ text \in Elems(world)

\* The history of saves made of such a world, or of one loaded from them.
RecordTear == torn' = IF mixed \/ Ahead THEN torn \cup {clock + 1} ELSE torn

\* autosaveStamped under a fresh name.
Autosave(t) ==
  LET name == HandNames + clock + 1
      all  == WriteSave(name) IN
  /\ clock < MaxSaves /\ clock' = clock + 1
  /\ dirs' = Pruned(all)
  /\ ledger' = PrunedLedger(WriteSaveStamp(name, t), all)
  /\ RecordTear

\* A write that belongs to no turn of the conversation.
StrayWrite == writes < MaxWrites /\ writes' = writes + 1 /\ world' = Append(world, 0)

\* The kernel admits the text: it is the next turn, or waits behind the running one.
Admit(t) ==
  IF phase = "turn" THEN queue' = Append(queue, t) /\ UNCHANGED <<phase, text>>
                    ELSE phase' = "turn" /\ text' = t /\ UNCHANGED queue

\* The render, the abort signal or the kernel refuses it: the scripts of its
\* render may have run.
Refuse ==
  /\ IF phase = "resend" THEN phase' = "rest" /\ text' = 0 ELSE UNCHANGED <<phase, text>>
  /\ (StrayWrite \/ UNCHANGED <<world, writes>>)
  /\ UNCHANGED queue

\* prompt(): once no tail runs, autosave, then the text is admitted or refused.
Prompt(t) ==
  /\ phase # "tail" /\ Autosave(t)
  /\ (Admit(t) /\ UNCHANGED <<world, writes>>) \/ Refuse
  /\ UNCHANGED <<logs, bound, ghosts, mixed, crashes>>

\* The client sends at rest only, and empties the box first.
Send ==
  /\ phase = "rest" /\ composer # 0 /\ Prompt(composer)
  /\ composer' = 0 /\ UNCHANGED typed

\* The submit a card's page is given asks nobody.
CardSubmit ==
  /\ PageSubmits /\ phase \in {"rest", "turn"} /\ typed < MaxTexts /\ typed' = typed + 1
  /\ Prompt(typed + 1) /\ UNCHANGED composer

\* The process dies after the directory and before the stamp, and takes with it
\* what ran; a death in a turn is the kernel's recovery.
DieUnstamped(name) ==
  /\ phase = "rest" /\ crashes < MaxCrashes /\ clock < MaxSaves
  /\ crashes' = crashes + 1 /\ clock' = clock + 1 /\ RecordTear
  /\ IF IsAuto(name) THEN name = HandNames + clock + 1 /\ composer # 0 ELSE TRUE
  /\ dirs' = WriteSave(name) /\ composer' = 0 /\ ghosts' = {}
  /\ UNCHANGED <<logs, bound, world, ledger, turnVars, typed, mixed, writes>>

\* The turn's tools and hooks, or its tail, change the world.
TurnWrites ==
  /\ phase \in {"turn", "tail"} /\ text \notin Elems(world)
  /\ world' = Append(world, text)
  /\ UNCHANGED <<logs, bound, saveVars, turnVars, ghosts, boxVars, mixed, writes, crashes>>

\* The next turn is the text that waits longest.
GoesOn ==
  IF queue = <<>> THEN phase' = "rest" /\ text' = 0 /\ UNCHANGED queue
                  ELSE phase' = "turn" /\ text' = Head(queue) /\ queue' = Tail(queue)

\* A closed turn is followed by its bookkeeping, or by none.
TurnCloses ==
  /\ phase = "turn"
  /\ logs' = [logs EXCEPT ![bound] = Append(@, text)]
  /\ (phase' = "tail" /\ UNCHANGED <<text, queue>>) \/ GoesOn
  /\ UNCHANGED <<bound, world, saveVars, ghosts, boxVars, mixed, writes, crashes>>

TailCloses ==
  /\ phase = "tail" /\ GoesOn
  /\ UNCHANGED <<logs, bound, world, saveVars, ghosts, boxVars, mixed, writes, crashes>>

\* A turn of an unbound session changes the world of another one, or does no more of
\* it: its own log, which grows behind every boundary, and its end concern nobody.
GhostWrites(t) ==
  /\ t \in ghosts /\ t \notin Elems(world)
  /\ world' = Append(world, t) /\ mixed' = (mixed \/ t \notin Elems(logs[bound]))
  /\ UNCHANGED <<logs, bound, saveVars, turnVars, ghosts, boxVars, writes, crashes>>

\* runScript for the card's page, or the editor's writeText in runtime/.
CardWrites ==
  /\ StrayWrite
  /\ UNCHANGED <<logs, bound, saveVars, turnVars, ghosts, boxVars, mixed, crashes>>

-----------------------------------------------------------------------------
(* The player's saves.                                                      *)

\* save(): neither the engine nor the client waits for the turn.
Save(name) ==
  /\ clock < MaxSaves /\ clock' = clock + 1 /\ RecordTear
  /\ dirs' = WriteSave(name) /\ ledger' = WriteSaveStamp(name, composer)
  /\ UNCHANGED <<logs, bound, world, turnVars, ghosts, boxVars, mixed, writes, crashes>>

RemoveSave(name) ==
  /\ \E d \in dirs : d.name = name
  /\ dirs' = Without(dirs, name) /\ ledger' = Without(ledger, name)
  /\ UNCHANGED <<logs, bound, world, clock, torn, turnVars, ghosts, boxVars, mixed, writes, crashes>>

\* fileOp delete reaches savings/ and knows nothing of the ledger.
DeleteByEditor(name) ==
  /\ \E d \in dirs : d.name = name
  /\ dirs' = Without(dirs, name)
  /\ UNCHANGED <<logs, bound, world, ledger, clock, torn, turnVars, ghosts, boxVars, mixed, writes,
                 crashes>>

-----------------------------------------------------------------------------
(* Rebinding.                                                               *)

\* Mutant: the marker names a session that was never created.
BindUncreated(log) ==
  /\ Len(logs) < MaxSessions
  /\ UNCHANGED logs /\ bound' = Len(logs) + 1

BindFresh(log) ==
  /\ Len(logs) < MaxSessions
  /\ logs' = Append(logs, log) /\ bound' = Len(logs) + 1

\* Mutants: the fork is cut at the end of the bound session's log; it is cut
\* one turn before the boundary.
ForkWhole(s) == logs[bound]
ForkShort(s) == SubSeq(logs[s.sid], 1, s.seq - 1)

\* The kernel's fork copies the stamped session up to the boundary.
ForkAt(s) == SubSeq(logs[s.sid], 1, s.seq)

\* load(): a save without a stamp, or with none of its turns, opens an empty session.
Restore(d) ==
  /\ world' = d.world /\ mixed' = (d.at \in torn)
  /\ IF Stamped(d.name) /\ StampOf(d.name).seq > 0
     THEN BindFresh(ForkAt(StampOf(d.name))) ELSE BindFresh(<<>>)

\* The seed of a fresh session.
Reseed == BindFresh(<<>>) /\ world' = <<>> /\ mixed' = FALSE

\* What still runs and waits in the session that is left runs on there.
Abandons ==
  /\ ghosts' = ghosts \cup ({text} \ {0}) \cup Elems(queue)
  /\ phase' = "rest" /\ text' = 0 /\ queue' = <<>>

\* load waits for the tail and for nothing else.
Load(name) ==
  /\ phase \in {"rest", "turn"} /\ Abandons
  /\ \E d \in dirs : d.name = name /\ Restore(d)
  /\ composer' = IF Stamped(name) THEN StampOf(name).draft ELSE 0
  /\ UNCHANGED <<saveVars, typed, writes, crashes>>

\* reset(): a fresh session over a world seeded anew; it waits for nothing.
Reset ==
  /\ phase # "resend" /\ Abandons
  /\ Reseed /\ composer' = 0
  /\ UNCHANGED <<saveVars, typed, writes, crashes>>

\* retryPoint, offered under the last reply while nothing runs: a point without a
\* boundary is entered through reset. The client re-sends the draft at once.
Retry ==
  /\ phase = "rest" /\ logs[bound] # <<>>
  /\ \E d \in RetryPoint :
       LET s == StampOf(d.name) IN
       /\ IF s.seq = 0 THEN Reseed ELSE Restore(d)
       /\ text' = s.draft
  /\ phase' = "resend" /\ composer' = 0
  /\ UNCHANGED <<saveVars, queue, ghosts, typed, writes, crashes>>

Resend == phase = "resend" /\ Prompt(text) /\ UNCHANGED boxVars

-----------------------------------------------------------------------------
Next ==
  \/ Type \/ Send \/ CardSubmit \/ TurnWrites \/ TurnCloses \/ TailCloses \/ CardWrites
  \/ Reset \/ Retry \/ Resend
  \/ \E t \in Texts : GhostWrites(t)
  \/ \E n \in 1..HandNames : Save(n)
  \/ \E n \in Names : DieUnstamped(n) \/ RemoveSave(n) \/ DeleteByEditor(n) \/ Load(n)

Spec == Init /\ [][Next]_vars

-----------------------------------------------------------------------------
(* Properties.                                                              *)

\* At rest runtime/ holds no effect of a turn the bound conversation does not
\* contain: copy, fork boundary, prune and rebind always move together, also for
\* what a card's page submits, and the player saves or loads, in the middle of a
\* turn, before it has written anything.  Excused, each where it happens: a save
\* made of a world the running turn is ahead in, until another is loaded; a turn
\* that runs on after its session was unbound; a death between a save and its
\* stamp.
WorldKnownToHistory ==
  phase = "rest" /\ crashes = 0 /\ ~mixed => Elems(world) \ {0} \subseteq Elems(logs[bound])

\* A directory and its stamp were written by the same save, so that load never
\* pairs one save's world with another save's history. A death in between
\* leaves an autosave without a stamp, never with another save's.
StampsPaired ==
  \A d \in dirs :
    /\ crashes = 0 => Stamped(d.name)
    /\ \A s \in ledger : s.name = d.name /\ (IsAuto(d.name) \/ crashes = 0) => s.at = d.at

\* A name has one directory and one stamp.
OneRowPerName ==
  /\ \A d, e \in dirs : d.name = e.name => d = e
  /\ \A s, r \in ledger : s.name = r.name => s = r

\* The texts to be sent next.
Waiting == ({composer} \cup Elems(queue) \cup {t \in {text} : phase = "resend"}) \ {0}

\* What waits to be sent, typed, restored with a save, queued behind a turn or about
\* to be sent again by a retry, has left no trace in the conversation it will be sent
\* into, nor in its world: the fork is cut in front of the message. Excused as above.
NothingSentTwice ==
  crashes = 0 /\ ~mixed => \A t \in Waiting : t \notin Elems(logs[bound]) \cup Elems(world)

\* Sending removes no manual save and no autosave newer than one it keeps, and
\* leaves the ring within its length.
SendPrunesOldest ==
  [][clock' # clock /\ crashes' = crashes =>
       /\ \A d \in dirs : d \notin dirs' =>
            \/ \E e \in dirs' : e.name = d.name
            \/ IsAuto(d.name) /\ \A e \in dirs' : IsAuto(e.name) => e.at > d.at
       /\ (\E d \in dirs' : d.at = clock' /\ IsAuto(d.name))
            => Cardinality({d \in dirs' : IsAuto(d.name)}) <= Keep]_vars

\* What was sent last can be retried: its autosave is the retry point the
\* moment the text leaves the input box or the card's page.
Admitted(t) ==
  \/ phase \in {"rest", "resend"} /\ phase' = "turn" /\ text' = t
  \/ queue' = Append(queue, t)

SendSetsRetryPoint ==
  [][\A t \in Texts : Admitted(t) =>
       \E d \in RetryPoint', s \in ledger' :
         /\ d.at = clock' /\ d.world = world
         /\ s.name = d.name /\ s.draft = t /\ s.sid = bound' /\ s.seq = Len(logs[bound])]_vars

\* The promise behind retryPoint: the world a text is sent into again is the
\* world it was sent into, also where no turn had been closed before it.
RetryRestoresWorld ==
  [][phase' = "resend" /\ phase # "resend"
       => \A d \in RetryPoint : world' = d.world]_vars

\* The button under the last reply redoes that reply: what is sent again is
\* the last text of the conversation.
RetryRedoesLastReply ==
  [][phase' = "resend" /\ phase # "resend"
       => text' = logs[bound][Len(logs[bound])]]_vars
=============================================================================
